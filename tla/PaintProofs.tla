---------------------------- MODULE PaintProofs ----------------------------
(***************************************************************************)
(* Proofs about Paint.                                                     *)
(***************************************************************************)
EXTENDS Paint, TLAPS, WellFoundedInduction, FiniteSetTheorems

-----------------------------------------------------------------------------
(* Loops.  Induction is over a set of natural numbers, the least element of   *)
(* what is not in it would be a contradiction.                               *)

LEMMA NatSets ==
  ASSUME NEW S \in SUBSET Nat, 0 \in S, \A n \in S : n + 1 \in S
  PROVE S = Nat
  <1>1. SUFFICES ASSUME S # Nat PROVE FALSE
        OBVIOUS
  <1>2. Nat \ S \subseteq Nat /\ Nat \ S # {}
        BY <1>1
  <1>3. IsWellFoundedOn(OpToRel(<, Nat), Nat)
        BY NatLessThanWellFounded, Zenon
  <1>4. PICK x \in Nat \ S : \A y \in Nat \ S : ~(<<y, x>> \in OpToRel(<, Nat))
        BY <1>2, <1>3, WFMin, Zenon
  <1>5. \A y \in Nat \ S : ~(y < x)
        BY ONLY <1>4, Zenon DEF OpToRel
  <1>6. x # 0
        OBVIOUS
  <1>7. x - 1 \in S
    <2>1. x - 1 \in Nat
          BY <1>6
    <2> QED BY <1>5, <2>1
  <1>8. x \in S
        BY <1>7
  <1> QED BY <1>8

\* The rounds of a loop stay within V.
Closed(F, V) == \A n \in Nat : \A v \in V : F[<<n, v>>] \in V

\* A loop has come to what its rounds say, round by round.
LEMMA RoundsAre ==
  ASSUME NEW V, NEW F, Closed(F, V), NEW a \in V
  PROVE  /\ Rounds(F, a)[0] = a
         /\ \A n \in Nat : /\ Rounds(F, a)[n] \in V
                           /\ Rounds(F, a)[n + 1] = F[<<n + 1, Rounds(F, a)[n]>>]
  <1> DEFINE Good(g, n) == g[0] = a /\ \A i \in 1..n : g[i] = F[<<i, g[i - 1]>>]
             Some == {n \in Nat : \E g \in [0..n -> V] : Good(g, n)}
             Same == {i \in Nat : \A n, m \in Nat : \A g \in [0..n -> V], h \in [0..m -> V] :
                        Good(g, n) /\ Good(h, m) /\ i <= n /\ i <= m => g[i] = h[i]}
             Chosen(n) == CHOOSE g \in [0..n -> V] : Good(g, n)
             whole == [n \in Nat |-> Chosen(n)[n]]
  <1>1. Some = Nat
    <2>1. 0 \in Some
      <3>1. [i \in 0..0 |-> a] \in [0..0 -> V] /\ Good([i \in 0..0 |-> a], 0)
            OBVIOUS
      <3> QED BY <3>1, Zenon
    <2>2. ASSUME NEW n \in Some PROVE n + 1 \in Some
      <3>1. PICK g \in [0..n -> V] : Good(g, n)
            OBVIOUS
      <3> DEFINE h == [i \in 0..(n + 1) |-> IF i <= n THEN g[i] ELSE F[<<n + 1, g[n]>>]]
      <3>2. h \in [0..(n + 1) -> V]
        <4>1. g[n] \in V /\ n + 1 \in Nat
              OBVIOUS
        <4>2. F[<<n + 1, g[n]>>] \in V
              BY <4>1 DEF Closed
        <4> QED BY <4>2
      <3>3. h[0] = a
            BY <3>1
      <3>4. ASSUME NEW i \in 1..(n + 1) PROVE h[i] = F[<<i, h[i - 1]>>]
        <4>1. CASE i <= n
              BY <4>1, <3>1
        <4>2. CASE i = n + 1
          <5>1. h[i] = F[<<n + 1, g[n]>>] /\ h[i - 1] = g[n]
                BY <4>2
          <5> QED BY <4>2, <5>1
        <4> QED BY <4>1, <4>2
      <3> HIDE DEF h
      <3> QED BY <3>2, <3>3, <3>4
    <2> HIDE DEF Some
    <2>3. Some \in SUBSET Nat
          BY DEF Some
    <2> QED BY <2>1, <2>2, <2>3, NatSets
  <1>2. \A n \in Nat : Chosen(n) \in [0..n -> V] /\ Good(Chosen(n), n)
    <2> TAKE n \in Nat
    <2>1. \E g \in [0..n -> V] : Good(g, n)
          BY <1>1
    <2> HIDE DEF Good
    <2> QED BY <2>1
  <1>3. Same = Nat
    <2>1. 0 \in Same
          OBVIOUS
    <2>2. ASSUME NEW i \in Same PROVE i + 1 \in Same
      <3>1. ASSUME NEW n \in Nat, NEW m \in Nat, NEW g \in [0..n -> V], NEW h \in [0..m -> V],
                   Good(g, n), Good(h, m), i + 1 <= n, i + 1 <= m
            PROVE  g[i + 1] = h[i + 1]
        <4>1. i <= n /\ i <= m
              BY <3>1
        <4>2. g[i] = h[i]
          <5> HIDE DEF Good
          <5> QED BY <3>1, <4>1
        <4>3. (i + 1) - 1 = i /\ i + 1 \in 1..n /\ i + 1 \in 1..m
              BY <3>1
        <4>4. g[i + 1] = F[<<i + 1, g[i]>>] /\ h[i + 1] = F[<<i + 1, h[i]>>]
              BY <3>1, <4>3
        <4> QED BY <4>2, <4>4
      <3> HIDE DEF Good
      <3>2. i + 1 \in Nat
            OBVIOUS
      <3> QED BY <3>1, <3>2
    <2> HIDE DEF Same
    <2>3. Same \in SUBSET Nat
          BY DEF Same
    <2> QED BY <2>1, <2>2, <2>3, NatSets
  <1>4. whole[0] = a
        BY <1>2
  <1>5. ASSUME NEW n \in Nat PROVE whole[n + 1] = F[<<n + 1, whole[n]>>]
    <2> DEFINE g == Chosen(n + 1)
               h == Chosen(n)
    <2>1. /\ g \in [0..(n + 1) -> V] /\ Good(g, n + 1)
          /\ h \in [0..n -> V] /\ Good(h, n)
      <3> HIDE DEF Good, Chosen
      <3> QED BY <1>2
    <2>2. whole[n + 1] = g[n + 1] /\ whole[n] = h[n]
      <3> HIDE DEF Good, Chosen
      <3> QED OBVIOUS
    <2> HIDE DEF g, h, whole, Chosen
    <2>3. n \in Same
          BY <1>3
    <2>4. g[n] = h[n]
      <3> HIDE DEF Good
      <3> QED BY <2>1, <2>3
    <2>5. g[n + 1] = F[<<n + 1, g[n]>>]
      <3>1. (n + 1) - 1 = n /\ n + 1 \in 1..(n + 1)
            OBVIOUS
      <3> QED BY <2>1, <3>1
    <2> QED BY <2>2, <2>4, <2>5
  <1> DEFINE Def(f) == [n \in Nat |-> IF n = 0 THEN a ELSE F[<<n, f[n - 1]>>]]
             r == Rounds(F, a)
  <1>6. whole = Def(whole)
    <2> HIDE DEF Chosen
    <2>1. whole = [n \in Nat |-> whole[n]]
          OBVIOUS
    <2> HIDE DEF whole
    <2>2. \A n \in Nat : whole[n] = IF n = 0 THEN a ELSE F[<<n, whole[n - 1]>>]
      <3> TAKE n \in Nat
      <3>1. CASE n = 0
            BY <3>1, <1>4
      <3>2. CASE n # 0
        <4>1. n - 1 \in Nat /\ (n - 1) + 1 = n
              BY <3>2
        <4> QED BY <3>2, <4>1, <1>5
      <3> QED BY <3>1, <3>2
    <2> QED BY <2>1, <2>2
  <1>7. r = Def(r)
    <2> HIDE DEF whole
    <2> QED BY <1>6, Zenon DEF Rounds
  <1> HIDE DEF r, whole, Good, Some, Same, Chosen
  <1>8. r[0] = a /\ \A n \in Nat : r[n + 1] = F[<<n + 1, r[n]>>]
        BY <1>7
  <1>9. \A n \in Nat : r[n] \in V
    <2> DEFINE S == {n \in Nat : r[n] \in V}
    <2>1. 0 \in S
          BY <1>8
    <2>3. ASSUME NEW n \in S PROVE n + 1 \in S
      <3>1. n + 1 \in Nat /\ r[n] \in V
            OBVIOUS
      <3>2. F[<<n + 1, r[n]>>] \in V
            BY <3>1 DEF Closed
      <3> QED BY <3>1, <3>2, <1>8
    <2>2. S = Nat
          BY <2>1, <2>3, NatSets
    <2> QED BY <2>2
  <1> QED BY <1>8, <1>9 DEF r

\* What holds before a loop and is kept by each of its rounds; J[n] is what holds after n.
LEMMA RoundsKeep ==
  ASSUME NEW V, NEW F, Closed(F, V), NEW J, \A n \in Nat : J[n] \subseteq V,
         NEW a \in J[0], \A n \in Nat : \A s \in J[n] : F[<<n + 1, s>>] \in J[n + 1]
  PROVE  \A n \in Nat : Rounds(F, a)[n] \in J[n]
  <1> DEFINE S == {n \in Nat : Rounds(F, a)[n] \in J[n]}
  <1>1. a \in V
        OBVIOUS
  <1>2. Rounds(F, a)[0] = a /\ \A n \in Nat : Rounds(F, a)[n + 1] = F[<<n + 1, Rounds(F, a)[n]>>]
        BY <1>1, RoundsAre
  <1>3. 0 \in S
        BY <1>2
  <1>4. ASSUME NEW n \in S PROVE n + 1 \in S
    <2>1. n \in Nat /\ n + 1 \in Nat /\ Rounds(F, a)[n] \in J[n]
          OBVIOUS
    <2>2. F[<<n + 1, Rounds(F, a)[n]>>] \in J[n + 1]
          BY <2>1
    <2>3. Rounds(F, a)[n + 1] \in J[n + 1]
          BY <2>1, <2>2, <1>2
    <2> QED BY <2>1, <2>3
  <1>5. S = Nat
        BY <1>3, <1>4, NatSets
  <1> QED BY <1>5

LEMMA MinIs ==
  ASSUME NEW S \in SUBSET Nat, NEW x \in S
  PROVE  Min(S) \in S /\ \A y \in S : Min(S) <= y
  <1>1. \E m \in S : \A y \in S : m <= y
    <2> DEFINE T == {n \in Nat : \A y \in S : n <= y}
    <2> SUFFICES ASSUME \A m \in S : \E y \in S : ~(m <= y) PROVE FALSE
        OBVIOUS
    <2>1. 0 \in T
          OBVIOUS
    <2>2. ASSUME NEW n \in T PROVE n + 1 \in T
      <3>1. n \notin S
            OBVIOUS
      <3>2. \A y \in S : n <= y /\ n # y
            BY <3>1
      <3> QED BY <3>2
    <2>3. T = Nat
          BY <2>1, <2>2, NatSets
    <2>4. x + 1 \in T
          BY <2>3
    <2> QED BY <2>4
  <1> QED BY <1>1 DEF Min

LEMMA MaxIs ==
  ASSUME NEW S \in SUBSET Nat, NEW x \in S, NEW b \in Nat, \A y \in S : y <= b
  PROVE  Max(S) \in S /\ \A y \in S : Max(S) >= y
  <1> DEFINE T == {b - y : y \in S}
  <1>1. T \in SUBSET Nat /\ b - x \in T
        OBVIOUS
  <1>2. Min(T) \in T /\ \A z \in T : Min(T) <= z
    <2> HIDE DEF T
    <2> QED BY <1>1, MinIs
  <1> HIDE DEF Min
  <1>3. PICK m \in S : Min(T) = b - m
        BY <1>2
  <1>4. \A y \in S : b - m <= b - y
        BY <1>2, <1>3
  <1>5. \A y \in S : m >= y
        BY <1>4
  <1> QED BY <1>5 DEF Max

-----------------------------------------------------------------------------
(* Pixels: bit x + Width * y stands for the pixel in column x of row y.       *)

LEMMA Sizes ==
  /\ Width \in Nat \ {0} /\ Height \in Nat \ {0} /\ LineHeight \in Nat \ {0}
  /\ WidthInBytes \in Nat \ {0} /\ Width = 8 * WidthInBytes
  BY DisplayAssumption DEF WidthInBytes

LEMMA BitIs ==
  ASSUME NEW x \in Int, NEW y \in Int
  PROVE  Bit(x, y) = x + Width * y
  <1>1. x = 8 * (x \div 8) + (x % 8)
        OBVIOUS
  <1>2. x \div 8 \in Int /\ x % 8 \in Int
        OBVIOUS
  <1> DEFINE W == WidthInBytes
  <1>3. W \in Nat /\ Width = 8 * W
        BY Sizes
  <1> HIDE DEF W
  <1>4. 8 * (y * W) = (8 * W) * y
        BY <1>3
  <1>5. y * W \in Int
        BY <1>3
  <1>6. 8 * (x \div 8 + y * W) + (x % 8) = x + Width * y
        BY <1>1, <1>2, <1>3, <1>4, <1>5
  <1> QED BY <1>6 DEF Bit, W

LEMMA FramebufferIs == Framebuffer = 0..(Width * Height - 1)
  <1>1. (8 * WidthInBytes) * Height = Width * Height
        BY Sizes
  <1> QED BY <1>1 DEF Framebuffer

LEMMA Rows ==
  ASSUME NEW m \in Nat, NEW n \in Nat
  PROVE  /\ Width * m \in Nat
         /\ m < n => Width * m + Width <= Width * n
         /\ m <= n => Width * m <= Width * n
  <1>1. Width * m \in Nat /\ Width * n \in Nat
        BY Sizes
  <1>2. ASSUME m < n PROVE Width * m + Width <= Width * n
    <2>1. n - m - 1 \in Nat
          BY <1>2
    <2>2. Width * (n - m - 1) >= 0
          BY <2>1, Sizes
    <2>3. Width * (n - m - 1) = Width * n - Width * m - Width
          BY Sizes
    <2> QED BY <1>1, <2>2, <2>3, Sizes
  <1>3. ASSUME m <= n PROVE Width * m <= Width * n
        BY <1>2, <1>3, <1>1, Sizes
  <1> QED BY <1>1, <1>2, <1>3

LEMMA BitsDiffer ==
  ASSUME NEW x \in 0..(Width - 1), NEW y \in Nat, NEW u \in 0..(Width - 1), NEW v \in Nat,
         Bit(x, y) = Bit(u, v)
  PROVE  x = u /\ y = v
  <1>1. x + Width * y = u + Width * v
    <2>1. x \in Int /\ y \in Int /\ u \in Int /\ v \in Int
          BY Sizes
    <2> QED BY <2>1, BitIs
  <1>2. Width * y \in Nat /\ Width * v \in Nat
        BY Rows
  <1>3. y = v
    <2>1. ASSUME y < v PROVE FALSE
          BY <2>1, <1>1, <1>2, Rows, Sizes
    <2>2. ASSUME v < y PROVE FALSE
          BY <2>2, <1>1, <1>2, Rows, Sizes
    <2> QED BY <2>1, <2>2
  <1> QED BY <1>1, <1>2, <1>3, Sizes

LEMMA PaintedIs ==
  ASSUME NEW x \in Nat, NEW y \in Nat
  PROVE  Painted(x, y) <=> x <= Width /\ (y < Height \/ (y = Height /\ x < 8))
  <1> DEFINE W == WidthInBytes
  <1>1. W \in Nat \ {0} /\ Width = 8 * W /\ Height \in Nat
        BY Sizes
  <1>2. x \div 8 \in Nat /\ (x <= Width => x \div 8 <= W) /\ (x < 8 <=> x \div 8 = 0)
        BY <1>1
  <1> HIDE DEF W
  <1>3. y * W \in Nat /\ W * Height \in Nat
        BY <1>1
  <1>4. CASE y < Height
    <2>1. Height - y - 1 \in Nat
          BY <1>4, <1>1
    <2>2. W * (Height - y - 1) >= 0
          BY <2>1, <1>1
    <2>3. W * (Height - y - 1) = W * Height - y * W - W
          BY <1>1
    <2>4. x <= Width => x \div 8 + y * W <= W * Height
          BY <1>1, <1>2, <1>3, <2>2, <2>3
    <2> QED BY <1>4, <2>4, <1>1 DEF Painted, W
  <1>5. CASE y = Height
    <2>1. y * W = W * Height
          BY <1>5, <1>1
    <2>2. x \div 8 + y * W <= W * Height <=> x \div 8 <= 0
          BY <2>1, <1>2, <1>3
    <2> QED BY <1>5, <2>2, <1>2, <1>1 DEF Painted, W
  <1>6. CASE y > Height
        BY <1>6, <1>1 DEF Painted
  <1> QED BY <1>4, <1>5, <1>6, <1>1

LEMMA BitInside ==
  ASSUME NEW x \in Nat, NEW y \in Nat, y < Height, x < Width \/ (x = Width /\ y < Height - 1)
  PROVE  Painted(x, y) /\ Bit(x, y) \in Framebuffer
  <1>1. Bit(x, y) = x + Width * y /\ Width * y \in Nat /\ Width * Height \in Nat
        BY BitIs, Rows, Sizes
  <1>2. CASE x < Width
    <2>1. Width * y + Width <= Width * Height
          BY Rows, Sizes
    <2> QED BY <1>1, <1>2, <2>1, PaintedIs, FramebufferIs, Sizes
  <1>3. CASE x = Width /\ y < Height - 1
    <2>1. y + 1 \in Nat /\ y + 1 < Height
          BY <1>3, Sizes
    <2>2. Width * (y + 1) + Width <= Width * Height
          BY <2>1, Rows, Sizes
    <2>3. Width * (y + 1) = Width * y + Width
          BY Sizes
    <2> QED BY <1>1, <1>3, <2>2, <2>3, PaintedIs, FramebufferIs, Sizes
  <1> QED BY <1>2, <1>3

\* Bits and points go together.
LEMMA BitsOf ==
  ASSUME NEW P, NEW b
  PROVE  b \in Bits(P) <=> \E p \in P : Painted(p[1], p[2]) /\ b = Bit(p[1], p[2])
  BY DEF Bits

LEMMA BitsOfUnion ==
  ASSUME NEW P, NEW Q
  PROVE  /\ Bits(P \cup Q) = Bits(P) \cup Bits(Q)
         /\ P \subseteq Q => Bits(P) \subseteq Bits(Q)
  BY Zenon DEF Bits

LEMMA BitsAreInt ==
  ASSUME NEW P \in SUBSET (Int \X Int)
  PROVE  Bits(P) \subseteq Int
  <1> SUFFICES ASSUME NEW b \in Bits(P) PROVE b \in Int
      OBVIOUS
  <1>1. PICK p \in P : b = Bit(p[1], p[2])
        BY DEF Bits
  <1>2. p[1] \in Int /\ p[2] \in Int
        OBVIOUS
  <1>3. Bit(p[1], p[2]) = p[1] + Width * p[2]
        BY <1>2, BitIs
  <1>4. Width * p[2] \in Int
        BY <1>2, Sizes
  <1> QED BY <1>1, <1>2, <1>3, <1>4

LEMMA BitsInside ==
  ASSUME NEW P, \A p \in P : /\ p[1] \in Nat /\ p[2] \in Nat /\ p[2] < Height
                             /\ p[1] < Width \/ (p[1] = Width /\ p[2] < Height - 1)
  PROVE  Bits(P) \subseteq Framebuffer
  <1> SUFFICES ASSUME NEW b \in Bits(P) PROVE b \in Framebuffer
      OBVIOUS
  <1>1. PICK p \in P : b = Bit(p[1], p[2])
        BY DEF Bits
  <1> QED BY <1>1, BitInside

\* A point of the display has a bit of its own.
LEMMA BitsApart ==
  ASSUME NEW x \in 0..(Width - 1), NEW y \in 0..(Height - 1), NEW P \in SUBSET ((0..(Width - 1)) \X Nat)
  PROVE  Bit(x, y) \in Bits(P) <=> <<x, y>> \in P
  <1>1. ASSUME <<x, y>> \in P PROVE Bit(x, y) \in Bits(P)
    <2>1. Painted(x, y)
          BY BitInside, Sizes
    <2> DEFINE p == <<x, y>>
    <2>2. p \in P /\ p[1] = x /\ p[2] = y
          BY <1>1
    <2> HIDE DEF p
    <2> QED BY <2>1, <2>2, BitsOf
  <1>2. ASSUME Bit(x, y) \in Bits(P) PROVE <<x, y>> \in P
    <2>1. PICK p \in P : Bit(x, y) = Bit(p[1], p[2])
          BY <1>2, BitsOf
    <2>2. p[1] \in 0..(Width - 1) /\ p[2] \in Nat /\ p = <<p[1], p[2]>>
          OBVIOUS
    <2>3. y \in Nat
          BY Sizes
    <2>4. x = p[1] /\ y = p[2]
          BY <2>1, <2>2, <2>3, BitsDiffer
    <2> QED BY <2>2, <2>4
  <1> QED BY <1>1, <1>2

LEMMA SetPixelsIs ==
  ASSUME NEW img, NEW P, NEW c, NEW b
  PROVE  b \in SetPixels(img, P, c) <=> IF b \in Bits(P) THEN c # 0 ELSE b \in img
  BY DEF SetPixels

LEMMA SetTwice ==
  ASSUME NEW img, NEW P, NEW Q, NEW c
  PROVE  SetPixels(SetPixels(img, P, c), Q, c) = SetPixels(img, P \cup Q, c)
  <1>1. Bits(P \cup Q) = Bits(P) \cup Bits(Q)
        BY BitsOfUnion
  <1> QED BY <1>1 DEF SetPixels

-----------------------------------------------------------------------------
(* Lines: the shapes only have horizontal and vertical ones.                 *)

LEMMA PenMoves ==
  ASSUME NEW p \in Pen, NEW x1 \in Int, NEW y1 \in Int, NEW x2 \in Int, NEW y2 \in Int
  PROVE  MovePen(p, x1, y1, x2, y2) \in Pen
  <1> DEFINE dx == Distance(x1, x2)
             dy == -Distance(y1, y2)
  <1>1. dx \in Int /\ dy \in Int /\ Direction(x1, x2) \in Int /\ Direction(y1, y2) \in Int
        BY DEF Distance, Direction
  <1>2. p.x \in Int /\ p.y \in Int /\ p.e \in Int
        BY DEF Pen
  <1> HIDE DEF dx, dy
  <1>3. MovePen(p, x1, y1, x2, y2) =
          LET goX == 2 * p.e >= dy
              eX == IF goX THEN p.e + dy ELSE p.e
              goY == 2 * eX <= dx
          IN  IF (goX /\ p.x = x2) \/ (goY /\ p.y = y2) THEN p
              ELSE [x |-> IF goX THEN p.x + Direction(x1, x2) ELSE p.x,
                    y |-> IF goY THEN p.y + Direction(y1, y2) ELSE p.y,
                    e |-> IF goY THEN eX + dx ELSE eX]
        BY DEF MovePen, dx, dy
  <1> QED BY <1>1, <1>2, <1>3 DEF Pen

\* Where the pen is after n rounds.
LEMMA PensAre ==
  ASSUME NEW x1 \in Int, NEW y1 \in Int, NEW x2 \in Int, NEW y2 \in Int, NEW at \in [Nat -> Pen],
         at[0] = [x |-> x1, y |-> y1, e |-> Distance(x1, x2) - Distance(y1, y2)],
         \A n \in Nat : MovePen(at[n], x1, y1, x2, y2) = at[n + 1]
  PROVE  \A n \in Nat : Pens(x1, y1, x2, y2)[n] = at[n]
  <1> DEFINE F == [r \in Nat \X Pen |-> MovePen(r[2], x1, y1, x2, y2)]
             J == [n \in Nat |-> {at[n]}]
             a == [x |-> x1, y |-> y1, e |-> Distance(x1, x2) - Distance(y1, y2)]
  <1>1. Closed(F, Pen)
        BY PenMoves DEF Closed
  <1>2. \A n \in Nat : J[n] \subseteq Pen
        OBVIOUS
  <1>3. a \in J[0]
        OBVIOUS
  <1>4. \A n \in Nat : \A s \in J[n] : F[<<n + 1, s>>] \in J[n + 1]
        OBVIOUS
  <1>5. Pens(x1, y1, x2, y2) = Rounds(F, a)
        BY DEF Pens
  <1> HIDE DEF F, a
  <1>6. \A n \in Nat : Rounds(F, a)[n] \in J[n]
    <2> HIDE DEF J
    <2> QED BY <1>1, <1>2, <1>3, <1>4, RoundsKeep
  <1> QED BY <1>5, <1>6

LEMMA HorizontalLine ==
  ASSUME NEW a \in Nat, NEW b \in Nat, NEW y \in Nat
  PROVE  LinePoints(a, y, b, y) = (IF a <= b THEN a..b ELSE b..a) \X {y}
  <1> DEFINE d == Distance(a, b)
             at == [n \in Nat |->
                      [x |-> IF n >= d THEN b ELSE IF a <= b THEN a + n ELSE a - n, y |-> y, e |-> d]]
  <1>1. d \in Nat /\ d = (IF a <= b THEN b - a ELSE a - b) /\ Distance(y, y) = 0
        BY DEF Distance
  <1>2. Direction(a, b) = IF a < b THEN 1 ELSE -1
        BY DEF Direction
  <1> HIDE DEF d
  <1>3. at \in [Nat -> Pen]
        BY <1>1 DEF Pen
  <1>4. at[0] = [x |-> a, y |-> y, e |-> Distance(a, b) - Distance(y, y)]
        BY <1>1 DEF d
  <1>5. \A n \in Nat : MovePen(at[n], a, y, b, y) = at[n + 1]
    <2> TAKE n \in Nat
    <2>1. CASE n >= d
      <3>1. at[n] = [x |-> b, y |-> y, e |-> d] /\ at[n + 1] = [x |-> b, y |-> y, e |-> d]
            BY <2>1, <1>1
      <3> QED BY <3>1, <1>1 DEF MovePen
    <2>2. CASE n < d
      <3>1. at[n] = [x |-> IF a <= b THEN a + n ELSE a - n, y |-> y, e |-> d]
            BY <2>2, <1>1
      <3>2. MovePen(at[n], a, y, b, y) = [x |-> (IF a <= b THEN a + n ELSE a - n) + Direction(a, b), y |-> y, e |-> d]
            BY <3>1, <2>2, <1>1 DEF MovePen, d
      <3>3. at[n + 1].x = (IF a <= b THEN a + n ELSE a - n) + Direction(a, b)
        <4>1. at[n + 1] = [x |-> IF n + 1 >= d THEN b ELSE IF a <= b THEN a + (n + 1) ELSE a - (n + 1), y |-> y, e |-> d]
              OBVIOUS
        <4> HIDE DEF at
        <4>2. at[n + 1].x = IF n + 1 >= d THEN b ELSE IF a <= b THEN a + (n + 1) ELSE a - (n + 1)
              BY <4>1
        <4>3. CASE a <= b
              BY <4>2, <4>3, <2>2, <1>1, <1>2
        <4>4. CASE ~(a <= b)
              BY <4>2, <4>4, <2>2, <1>1, <1>2
        <4> QED BY <4>3, <4>4
      <3> QED BY <3>2, <3>3
    <2> QED BY <2>1, <2>2, <1>1
  <1> DEFINE pens == Pens(a, y, b, y)
  <1>6. \A n \in Nat : pens[n] = at[n]
    <2> HIDE DEF at, d
    <2> QED BY <1>3, <1>4, <1>5, PensAre DEF d
  <1>7. LinePoints(a, y, b, y) = {<<at[n].x, at[n].y>> : n \in 0..d}
    <2>1. d + Distance(y, y) = d
          BY <1>1
    <2> HIDE DEF at, pens
    <2> QED BY <1>6, <2>1, <1>1 DEF LinePoints, d, pens
  <1>8. \A n \in 0..d : at[n].x \in (IF a <= b THEN a..b ELSE b..a) /\ at[n].y = y
        BY <1>1
  <1>9. ASSUME NEW u \in (IF a <= b THEN a..b ELSE b..a) PROVE \E n \in 0..d : at[n].x = u /\ at[n].y = y
    <2> DEFINE m == IF a <= b THEN u - a ELSE a - u
    <2>1. m \in 0..d /\ at[m].x = u /\ at[m].y = y
          BY <1>1
    <2> QED BY <2>1
  <1> HIDE DEF at
  <1> DEFINE S == IF a <= b THEN a..b ELSE b..a
             L == LinePoints(a, y, b, y)
  <1>10. ASSUME NEW p \in L PROVE p \in S \X {y}
         BY <1>7, <1>8
  <1>11. ASSUME NEW p \in S \X {y} PROVE p \in L
    <2>1. p = <<p[1], p[2]>> /\ p[1] \in S /\ p[2] = y
          OBVIOUS
    <2>2. PICK n \in 0..d : at[n].x = p[1] /\ at[n].y = y
          BY <1>9, <2>1
    <2> QED BY <1>7, <2>1, <2>2
  <1> HIDE DEF L, S
  <1>12. L = S \X {y}
         BY <1>10, <1>11
  <1> QED BY <1>12 DEF L, S

LEMMA VerticalLine ==
  ASSUME NEW x \in Nat, NEW a \in Nat, NEW b \in Nat
  PROVE  LinePoints(x, a, x, b) = {x} \X (IF a <= b THEN a..b ELSE b..a)
  <1> DEFINE d == Distance(a, b)
             at == [n \in Nat |->
                      [x |-> x, y |-> IF n >= d THEN b ELSE IF a <= b THEN a + n ELSE a - n, e |-> -d]]
  <1>1. d \in Nat /\ d = (IF a <= b THEN b - a ELSE a - b) /\ Distance(x, x) = 0
        BY DEF Distance
  <1>2. Direction(a, b) = IF a < b THEN 1 ELSE -1
        BY DEF Direction
  <1> HIDE DEF d
  <1>3. at \in [Nat -> Pen]
        BY <1>1 DEF Pen
  <1>4. at[0] = [x |-> x, y |-> a, e |-> Distance(x, x) - Distance(a, b)]
        BY <1>1 DEF d
  <1>5. \A n \in Nat : MovePen(at[n], x, a, x, b) = at[n + 1]
    <2> TAKE n \in Nat
    <2>1. CASE n >= d
      <3>1. at[n] = [x |-> x, y |-> b, e |-> -d] /\ at[n + 1] = [x |-> x, y |-> b, e |-> -d]
            BY <2>1, <1>1
      <3> QED BY <3>1, <1>1 DEF MovePen, d
    <2>2. CASE n < d
      <3>1. at[n] = [x |-> x, y |-> IF a <= b THEN a + n ELSE a - n, e |-> -d]
            BY <2>2, <1>1
      <3>2. MovePen(at[n], x, a, x, b) = [x |-> x, y |-> (IF a <= b THEN a + n ELSE a - n) + Direction(a, b), e |-> -d]
            BY <3>1, <2>2, <1>1 DEF MovePen, d
      <3>3. at[n + 1].y = (IF a <= b THEN a + n ELSE a - n) + Direction(a, b)
        <4>1. at[n + 1] = [x |-> x, y |-> IF n + 1 >= d THEN b ELSE IF a <= b THEN a + (n + 1) ELSE a - (n + 1), e |-> -d]
              OBVIOUS
        <4> HIDE DEF at
        <4>2. at[n + 1].y = IF n + 1 >= d THEN b ELSE IF a <= b THEN a + (n + 1) ELSE a - (n + 1)
              BY <4>1
        <4>3. CASE a <= b
              BY <4>2, <4>3, <2>2, <1>1, <1>2
        <4>4. CASE ~(a <= b)
              BY <4>2, <4>4, <2>2, <1>1, <1>2
        <4> QED BY <4>3, <4>4
      <3> QED BY <3>2, <3>3
    <2> QED BY <2>1, <2>2, <1>1
  <1> DEFINE pens == Pens(x, a, x, b)
  <1>6. \A n \in Nat : pens[n] = at[n]
    <2> HIDE DEF at, pens
    <2>1. x \in Int /\ a \in Int /\ b \in Int
          OBVIOUS
    <2>2. \A n \in Nat : Pens(x, a, x, b)[n] = at[n]
          BY ONLY <1>3, <1>4, <1>5, <2>1, PensAre
    <2> QED BY <2>2 DEF pens
  <1>7. LinePoints(x, a, x, b) = {<<at[n].x, at[n].y>> : n \in 0..d}
    <2>1. Distance(x, x) + d = d
          BY <1>1
    <2> HIDE DEF at, pens
    <2> QED BY <1>6, <2>1, <1>1 DEF LinePoints, d, pens
  <1>8. \A n \in 0..d : at[n].y \in (IF a <= b THEN a..b ELSE b..a) /\ at[n].x = x
        BY <1>1
  <1>9. ASSUME NEW u \in (IF a <= b THEN a..b ELSE b..a) PROVE \E n \in 0..d : at[n].y = u /\ at[n].x = x
    <2> DEFINE m == IF a <= b THEN u - a ELSE a - u
    <2>1. m \in 0..d /\ at[m].y = u /\ at[m].x = x
          BY <1>1
    <2> QED BY <2>1
  <1> HIDE DEF at
  <1> DEFINE S == IF a <= b THEN a..b ELSE b..a
             L == LinePoints(x, a, x, b)
  <1>10. ASSUME NEW p \in L PROVE p \in {x} \X S
         BY <1>7, <1>8
  <1>11. ASSUME NEW p \in {x} \X S PROVE p \in L
    <2>1. p = <<p[1], p[2]>> /\ p[2] \in S /\ p[1] = x
          OBVIOUS
    <2>2. PICK n \in 0..d : at[n].y = p[2] /\ at[n].x = x
          BY <1>9, <2>1
    <2> QED BY <1>7, <2>1, <2>2
  <1> HIDE DEF L, S
  <1>12. L = {x} \X S
         BY <1>10, <1>11
  <1> QED BY <1>12 DEF L, S

-----------------------------------------------------------------------------
(* Shapes: which points they set.                                            *)

Changed(a, b) == (a \ b) \cup (b \ a)

LEMMA SetChanges ==
  ASSUME NEW img, NEW P, NEW c
  PROVE  /\ Changed(SetPixels(img, P, c), img) \subseteq Bits(P)
         /\ Changed(InvertPixels(img, P), img) \subseteq Bits(P)
  BY DEF Changed, SetPixels, InvertPixels

LEMMA ChangesAdd ==
  ASSUME NEW a, NEW b, NEW c, NEW B, Changed(a, b) \subseteq B, Changed(b, c) \subseteq B
  PROVE  Changed(a, c) \subseteq B
  BY DEF Changed

Border(x1, y1, x2, y2) ==
  {p \in Box(x1, y1, x2, y2) : p[1] \in {x1, x2} \/ p[2] \in {y1, y2}}

LEMMA RectangleIs ==
  ASSUME NEW img, NEW c, NEW x1 \in Nat, NEW x2 \in Nat, NEW y1 \in Nat, NEW y2 \in Nat,
         x1 <= x2, y1 <= y2, x2 <= Width, y2 <= Height
  PROVE  Rectangle(img, x1, y1, x2, y2, c) = SetPixels(img, Border(x1, y1, x2, y2), c)
  <1>1. /\ Fits(x1, y1, x2, y2) /\ Fits(x1, y1, x2, y1) /\ Fits(x1, y1, x1, y2)
        /\ Fits(x2, y2, x2, y1) /\ Fits(x2, y2, x1, y2)
        BY Sizes DEF Fits
  <1> DEFINE T == LinePoints(x1, y1, x2, y1)
             L == LinePoints(x1, y1, x1, y2)
             R == LinePoints(x2, y2, x2, y1)
             D == LinePoints(x2, y2, x1, y2)
  <1>2. Rectangle(img, x1, y1, x2, y2, c)
          = SetPixels(SetPixels(SetPixels(SetPixels(img, T, c), L, c), R, c), D, c)
        BY <1>1 DEF Rectangle, Line
  <1>3. /\ T = (x1..x2) \X {y1} /\ L = {x1} \X (y1..y2)
        /\ R = {x2} \X (y1..y2) /\ D = (x1..x2) \X {y2}
    <2>1. T = (x1..x2) \X {y1} /\ L = {x1} \X (y1..y2)
          BY HorizontalLine, VerticalLine
    <2>2. R = {x2} \X (IF y2 <= y1 THEN y2..y1 ELSE y1..y2)
          BY VerticalLine
    <2>3. D = (IF x2 <= x1 THEN x2..x1 ELSE x1..x2) \X {y2}
          BY HorizontalLine
    <2>4. (IF y2 <= y1 THEN y2..y1 ELSE y1..y2) = y1..y2
          OBVIOUS
    <2>5. (IF x2 <= x1 THEN x2..x1 ELSE x1..x2) = x1..x2
          OBVIOUS
    <2> HIDE DEF T, L, R, D
    <2> QED BY <2>1, <2>2, <2>3, <2>4, <2>5
  <1> HIDE DEF T, L, R, D
  <1>4. Rectangle(img, x1, y1, x2, y2, c) = SetPixels(img, ((T \cup L) \cup R) \cup D, c)
    <2>1. SetPixels(SetPixels(img, T, c), L, c) = SetPixels(img, T \cup L, c)
          BY SetTwice
    <2>2. SetPixels(SetPixels(img, T \cup L, c), R, c) = SetPixels(img, (T \cup L) \cup R, c)
          BY SetTwice
    <2>3. SetPixels(SetPixels(img, (T \cup L) \cup R, c), D, c)
            = SetPixels(img, ((T \cup L) \cup R) \cup D, c)
          BY SetTwice
    <2> QED BY <1>2, <2>1, <2>2, <2>3
  <1>5. ((T \cup L) \cup R) \cup D = Border(x1, y1, x2, y2)
        BY <1>3 DEF Border, Box
  <1> QED BY <1>4, <1>5

LEMMA ColumnsAre ==
  ASSUME NEW img, NEW c, NEW x \in Nat, NEW last \in Nat, NEW y1 \in Nat, NEW y2 \in Nat, y1 <= y2
  PROVE  Columns(img, x, last, y1, y2, c) = SetPixels(img, Box(x, y1, last, y2), c)
  <1>1. \A i \in x..last : LinePoints(i, y1, i, y2) = {i} \X (y1..y2)
        BY VerticalLine
  <1>2. UNION {LinePoints(i, y1, i, y2) : i \in x..last} = UNION {{i} \X (y1..y2) : i \in x..last}
        BY <1>1
  <1>3. UNION {{i} \X (y1..y2) : i \in x..last} = Box(x, y1, last, y2)
        BY DEF Box
  <1> QED BY <1>2, <1>3 DEF Columns

\* The inside of a bar and its last filled column.
InsideOffset(w, h) == IF w > 4 /\ h > 4 THEN 2 ELSE 0
BarEnd(x, w, h, p) ==
  ((w - 2 * InsideOffset(w, h)) * Percent(p)) \div 100 + x + InsideOffset(w, h)
BarFilled(x, y, w, h, p) ==
  LET o == InsideOffset(w, h) IN Box(x + o, y + o, BarEnd(x, w, h, p), y + h - o)
BarRest(x, y, w, h, p) ==
  LET o == InsideOffset(w, h) IN Box(BarEnd(x, w, h, p) + 1, y + o, x + w - o, y + h - o)
BarInside(x, y, w, h) ==
  LET o == InsideOffset(w, h) IN Box(x + o, y + o, x + w - o, y + h - o)

LEMMA PercentIs ==
  ASSUME NEW p \in Int
  PROVE  Percent(p) \in 0..100 /\ (Percent(p) = 100 <=> p >= 100)
  BY DEF Percent

LEMMA BarEndIs ==
  ASSUME NEW x \in Nat, NEW w \in Nat, NEW h \in Nat, NEW p \in Int
  PROVE  /\ InsideOffset(w, h) \in Nat /\ w - 2 * InsideOffset(w, h) \in Nat
         /\ BarEnd(x, w, h, p) \in (x + InsideOffset(w, h))..(x + w - InsideOffset(w, h))
  <1> DEFINE o == InsideOffset(w, h)
             n == w - 2 * o
             c == Percent(p)
  <1>1. o \in Nat /\ n \in Nat
        BY DEF InsideOffset
  <1>2. c \in 0..100
        BY PercentIs
  <1> HIDE DEF o, c
  <1>3. n * c \in Nat /\ n * c <= n * 100
    <2>1. n * (100 - c) >= 0 /\ n * c \in Nat
          BY <1>1, <1>2
    <2>2. n * (100 - c) = n * 100 - n * c
          BY <1>1, <1>2
    <2> QED BY <2>1, <2>2, <1>1
  <1>4. BarEnd(x, w, h, p) = (n * c) \div 100 + x + o
        BY DEF BarEnd, o, c
  <1> DEFINE m == n * c
  <1> HIDE DEF n, m
  <1>5. m \in Nat /\ m <= n * 100
        BY <1>3 DEF m
  <1>6. m \div 100 \in 0..n
        BY <1>1, <1>5
  <1>7. BarEnd(x, w, h, p) \in (x + o)..(x + o + n)
        BY <1>4, <1>6, <1>1 DEF m
  <1>8. x + o + n = x + w - o
        BY <1>1 DEF n
  <1> QED BY <1>1, <1>7, <1>8 DEF o, n

LEMMA BarIs ==
  ASSUME NEW img, NEW x \in Nat, NEW y \in Nat, NEW w \in Nat, NEW h \in Nat, NEW p \in Int,
         x + w <= Width, y + h <= Height
  PROVE  ProgressBar(img, x, y, w, h, p)
           = SetPixels(SetPixels(img, Border(x, y, x + w, y + h) \cup BarFilled(x, y, w, h, p), color),
                       BarRest(x, y, w, h, p), 1 - color)
  <1> DEFINE o == InsideOffset(w, h)
             end == BarEnd(x, w, h, p)
             B == Border(x, y, x + w, y + h)
  <1>1. o \in Nat /\ w - 2 * o \in Nat /\ h - 2 * o \in Nat /\ end \in (x + o)..(x + w - o)
    <2>1. h - 2 * o \in Nat
          BY DEF InsideOffset
    <2> QED BY <2>1, BarEndIs
  <1>2. Fits(x, y, x + w, y + h)
        BY Sizes DEF Fits
  <1>3. ProgressBar(img, x, y, w, h, p)
          = Columns(Columns(Rectangle(img, x, y, x + w, y + h, color),
                            x + o, end, y + o, y + h - o, color),
                    end + 1, x + w - o, y + o, y + h - o, 1 - color)
    <2>1. ((x + w - o) - (x + o)) = w - 2 * o
          BY <1>1
    <2>2. ((w - 2 * o) * Percent(p)) \div 100 + (x + o) = end
      <3>1. ((w - 2 * o) * Percent(p)) \div 100 \in Int
        <4>1. Percent(p) \in Int
              BY PercentIs
        <4>2. (w - 2 * o) * Percent(p) \in Int
              BY <4>1, <1>1
        <4> HIDE DEF o
        <4> QED BY <4>2
      <3> DEFINE q == ((w - 2 * o) * Percent(p)) \div 100
      <3>2. end = q + x + o
            BY DEF BarEnd
      <3> HIDE DEF q, o
      <3> QED BY <3>1, <3>2, <1>1 DEF q
    <2>3. (((x + w - o) - (x + o)) * Percent(p)) \div 100 + (x + o) = end
          BY <2>1, <2>2
    <2> HIDE DEF end
    <2> QED BY <1>2, <2>3 DEF ProgressBar, InsideOffset
  <1>4. Rectangle(img, x, y, x + w, y + h, color) = SetPixels(img, B, color)
        BY RectangleIs
  <1> DEFINE F == Box(x + o, y + o, end, y + h - o)
             R == Box(end + 1, y + o, x + w - o, y + h - o)
  <1> HIDE DEF o, end, B
  <1>5. x + o \in Nat /\ end \in Nat /\ y + o \in Nat /\ y + h - o \in Nat /\ y + o <= y + h - o
        /\ end + 1 \in Nat /\ x + w - o \in Nat
        BY <1>1
  <1>6. \A im : Columns(im, x + o, end, y + o, y + h - o, color) = SetPixels(im, F, color)
        BY <1>5, ColumnsAre
  <1>7. \A im : Columns(im, end + 1, x + w - o, y + o, y + h - o, 1 - color) = SetPixels(im, R, 1 - color)
        BY <1>5, ColumnsAre
  <1> HIDE DEF F, R
  <1>8. ProgressBar(img, x, y, w, h, p)
          = SetPixels(SetPixels(SetPixels(img, B, color), F, color), R, 1 - color)
        BY <1>3, <1>4, <1>6, <1>7
  <1>9. F = BarFilled(x, y, w, h, p) /\ R = BarRest(x, y, w, h, p)
        BY DEF F, R, BarFilled, BarRest, o, end
  <1> QED BY <1>8, <1>9, SetTwice DEF B

\* Whatever the value, the same points are painted over.
LEMMA BarCovers ==
  ASSUME NEW x \in Nat, NEW y \in Nat, NEW w \in Nat, NEW h \in Nat, NEW p \in Int
  PROVE  BarFilled(x, y, w, h, p) \cup BarRest(x, y, w, h, p) = BarInside(x, y, w, h)
  <1> DEFINE o == InsideOffset(w, h)
             end == BarEnd(x, w, h, p)
  <1>1. o \in Nat /\ end \in (x + o)..(x + w - o) /\ x + w - o \in Int
    <2>1. o \in Nat /\ w - 2 * o \in Nat /\ end \in (x + o)..(x + w - o)
          BY BarEndIs
    <2> HIDE DEF o, end
    <2> QED BY <2>1
  <1> HIDE DEF o, end
  <1>2. ((x + o)..end) \cup ((end + 1)..(x + w - o)) = (x + o)..(x + w - o)
        BY <1>1
  <1> DEFINE A == (x + o)..end
             C == (end + 1)..(x + w - o)
             D == (x + o)..(x + w - o)
             E == (y + o)..(y + h - o)
  <1>3. BarFilled(x, y, w, h, p) = A \X E /\ BarRest(x, y, w, h, p) = C \X E /\ BarInside(x, y, w, h) = D \X E
        BY DEF BarFilled, BarRest, BarInside, Box, o, end
  <1>4. A \cup C = D
        BY <1>2
  <1> HIDE DEF A, C, D, E
  <1> QED BY <1>3, <1>4

LEMMA BarTwice ==
  ASSUME NEW img, NEW x \in Nat, NEW y \in Nat, NEW w \in Nat, NEW h \in Nat, NEW p \in Int,
         NEW q \in Int, x + w <= Width, y + h <= Height
  PROVE  ProgressBar(ProgressBar(img, x, y, w, h, q), x, y, w, h, p) = ProgressBar(img, x, y, w, h, p)
  <1> DEFINE B == Border(x, y, x + w, y + h)
             F(r) == BarFilled(x, y, w, h, r)
             R(r) == BarRest(x, y, w, h, r)
             Bar(im, r) == ProgressBar(im, x, y, w, h, r)
  <1>1. \A im : \A r \in Int : Bar(im, r) = SetPixels(SetPixels(im, B \cup F(r), color), R(r), 1 - color)
        BY BarIs, SMTT(30)
  <1>2. F(p) \cup R(p) = F(q) \cup R(q)
        BY BarCovers
  <1> HIDE DEF B, F, R, Bar
  <1>3. \A r \in Int : Bits(B \cup F(r)) \cup Bits(R(r)) = Bits(B) \cup Bits(F(r) \cup R(r))
        BY BitsOfUnion, SMTT(30)
  <1>4. Bits(B \cup F(p)) \cup Bits(R(p)) = Bits(B \cup F(q)) \cup Bits(R(q))
        BY <1>2, <1>3
  <1> DEFINE A1 == B \cup F(p)
             A2 == R(p)
             C1 == B \cup F(q)
             C2 == R(q)
  <1>5. Bar(Bar(img, q), p)
          = SetPixels(SetPixels(SetPixels(SetPixels(img, C1, color), C2, 1 - color), A1, color), A2, 1 - color)
        BY <1>1
  <1>6. Bar(img, p) = SetPixels(SetPixels(img, A1, color), A2, 1 - color)
        BY <1>1
  <1>7. Bits(A1) \cup Bits(A2) = Bits(C1) \cup Bits(C2)
        BY <1>4
  <1> HIDE DEF A1, A2, C1, C2
  <1>8. \A b : b \in SetPixels(SetPixels(SetPixels(SetPixels(img, C1, color), C2, 1 - color), A1, color), A2, 1 - color)
                <=> b \in SetPixels(SetPixels(img, A1, color), A2, 1 - color)
    <2> TAKE b
    <2>1. CASE b \in Bits(A2)
          BY <2>1, SetPixelsIs
    <2>2. CASE b \notin Bits(A2) /\ b \in Bits(A1)
          BY <2>2, SetPixelsIs
    <2>3. CASE b \notin Bits(A2) /\ b \notin Bits(A1)
      <3>1. b \notin Bits(C1) /\ b \notin Bits(C2)
            BY <2>3, <1>7
      <3> QED BY <2>3, <3>1, SetPixelsIs
    <2> QED BY <2>1, <2>2, <2>3
  <1>9. Bar(Bar(img, q), p) = Bar(img, p)
    <2> DEFINE S1 == Bar(Bar(img, q), p)
               S2 == Bar(img, p)
    <2>1. \A b : b \in S1 <=> b \in S2
          BY <1>5, <1>6, <1>8
    <2> HIDE DEF S1, S2
    <2>2. S1 \subseteq S2 /\ S2 \subseteq S1
          BY <2>1
    <2>3. S1 = S2
          BY <2>2
    <2> QED BY <2>3 DEF S1, S2
  <1> QED BY <1>9 DEF Bar


-----------------------------------------------------------------------------
(* What lies in a box, the battery.                                          *)

\* The bits of a box, and of the column behind the display if it reaches that.
Inside(b) ==
  Bits(Box(b[1], b[2], IF b[3] < Width THEN b[3] ELSE Width - 1, b[4]))
    \cup (IF b[3] < Width THEN {} ELSE Bits({Width} \X (b[2]..b[4])))

LEMMA InsideBox ==
  ASSUME NEW x1 \in Nat, NEW y1 \in Nat, NEW x2 \in Int, NEW y2 \in Int,
         y2 < Height, x2 < Width \/ y2 < Height - 1, NEW P, P \subseteq Box(x1, y1, x2, y2)
  PROVE  Bits(P) \subseteq Inside(<<x1, y1, x2, y2>>) /\ Bits(P) \subseteq Framebuffer
  <1> DEFINE last == IF x2 < Width THEN x2 ELSE Width - 1
             B == Box(x1, y1, last, y2)
             C == {Width} \X (y1..y2)
  <1>0. Width \in Nat /\ Height \in Nat
        BY Sizes
  <1>1. ASSUME NEW b \in Bits(P)
        PROVE  b \in Framebuffer /\ (b \in Bits(B) \/ (~(x2 < Width) /\ b \in Bits(C)))
    <2>1. PICK p \in P : Painted(p[1], p[2]) /\ b = Bit(p[1], p[2])
          BY BitsOf
    <2>2. /\ p[1] \in x1..x2 /\ p[2] \in y1..y2 /\ p = <<p[1], p[2]>>
          BY DEF Box
    <2>3. p[1] \in Nat /\ p[2] \in Nat /\ p[2] < Height
          BY <2>2, <1>0
    <2>4. p[1] <= Width
          BY <2>1, <2>3, PaintedIs
    <2>5. b \in Framebuffer
      <3>1. p[1] < Width \/ (p[1] = Width /\ p[2] < Height - 1)
            BY <2>2, <2>3, <2>4, <1>0
      <3> QED BY <3>1, <2>1, <2>3, BitInside
    <2>6. CASE p[1] < Width
      <3>1. p[1] \in x1..last
            BY <2>2, <2>6, <1>0
      <3>2. p \in B
            BY <2>2, <3>1 DEF Box
      <3> QED BY <2>1, <2>5, <3>2, BitsOf
    <2>7. CASE p[1] = Width
      <3>1. ~(x2 < Width) /\ p \in C
            BY <2>2, <2>7, <1>0
      <3>2. b \in Bits(C)
        <4> HIDE DEF C
        <4> QED BY <2>1, <3>1, BitsOf
      <3> QED BY <2>5, <3>1, <3>2
    <2> QED BY <2>3, <2>4, <2>6, <2>7, <1>0
  <1>2. Inside(<<x1, y1, x2, y2>>) = Bits(B) \cup (IF x2 < Width THEN {} ELSE Bits(C))
        BY DEF Inside
  <1> HIDE DEF B, C
  <1> QED BY <1>1, <1>2

\* What a request that sets or inverts points of its box does to the framebuffer.
LEMMA InTheBox ==
  ASSUME NEW img, img \subseteq Framebuffer, NEW x1 \in Nat, NEW y1 \in Nat, NEW x2 \in Int, NEW y2 \in Int,
         y2 < Height, x2 < Width \/ y2 < Height - 1, NEW P, P \subseteq Box(x1, y1, x2, y2), NEW c
  PROVE  /\ SetPixels(img, P, c) \subseteq Framebuffer /\ InvertPixels(img, P) \subseteq Framebuffer
         /\ Changed(SetPixels(img, P, c), img) \subseteq Inside(<<x1, y1, x2, y2>>)
         /\ Changed(InvertPixels(img, P), img) \subseteq Inside(<<x1, y1, x2, y2>>)
  <1>1. Bits(P) \subseteq Inside(<<x1, y1, x2, y2>>) /\ Bits(P) \subseteq Framebuffer
        BY InsideBox
  <1>2. SetPixels(img, P, c) \subseteq Framebuffer /\ InvertPixels(img, P) \subseteq Framebuffer
        BY <1>1 DEF SetPixels, InvertPixels
  <1> QED BY <1>1, <1>2, SetChanges

LEMMA ClearIs == \A c : Clear(c) \subseteq Framebuffer
  BY DEF Clear

LEMMA BarInTheBox ==
  ASSUME NEW img, img \subseteq Framebuffer, NEW x \in Nat, NEW y \in Nat, NEW w \in Nat, NEW h \in Nat,
         NEW p \in Int, x + w < Width, y + h < Height
  PROVE  /\ ProgressBar(img, x, y, w, h, p) \subseteq Framebuffer
         /\ Changed(ProgressBar(img, x, y, w, h, p), img) \subseteq Inside(<<x, y, x + w, y + h>>)
  <1> DEFINE b == <<x, y, x + w, y + h>>
             P == Border(x, y, x + w, y + h) \cup BarFilled(x, y, w, h, p)
             Q == BarRest(x, y, w, h, p)
             one == SetPixels(img, P, color)
             two == SetPixels(one, Q, 1 - color)
             o == InsideOffset(w, h)
             end == BarEnd(x, w, h, p)
  <1>0. Width \in Nat /\ Height \in Nat
        BY Sizes
  <1>1. o \in Nat /\ end \in (x + o)..(x + w - o)
        BY BarEndIs
  <1>2. P \subseteq Box(x, y, x + w, y + h) /\ Q \subseteq Box(x, y, x + w, y + h)
    <2>1. Border(x, y, x + w, y + h) \subseteq Box(x, y, x + w, y + h)
          BY DEF Border
    <2>2. BarFilled(x, y, w, h, p) = Box(x + o, y + o, end, y + h - o)
          BY DEF BarFilled
    <2>3. BarRest(x, y, w, h, p) = Box(end + 1, y + o, x + w - o, y + h - o)
          BY DEF BarRest
    <2> HIDE DEF o, end
    <2>4. (x + o)..end \subseteq x..(x + w) /\ (end + 1)..(x + w - o) \subseteq x..(x + w)
          /\ (y + o)..(y + h - o) \subseteq y..(y + h)
          BY <1>1
    <2> QED BY <2>1, <2>2, <2>3, <2>4 DEF Box
  <1>3. ProgressBar(img, x, y, w, h, p) = two
        BY <1>0, BarIs
  <1> HIDE DEF P, Q, one, two
  <1>4. one \subseteq Framebuffer /\ Changed(one, img) \subseteq Inside(b)
    <2>1. x + w \in Int /\ y + h \in Int /\ x + w < Width /\ y + h < Height
          OBVIOUS
    <2> HIDE DEF b
    <2> QED BY ONLY x \in Nat, y \in Nat, img \subseteq Framebuffer, <2>1, <1>2, InTheBox DEF one, b
  <1>5. two \subseteq Framebuffer /\ Changed(two, one) \subseteq Inside(b)
    <2>1. x + w \in Int /\ y + h \in Int /\ x + w < Width /\ y + h < Height
          OBVIOUS
    <2> QED BY ONLY x \in Nat, y \in Nat, <2>1, <1>2, <1>4, InTheBox DEF two
  <1>6. Changed(two, img) \subseteq Inside(b)
        BY <1>4, <1>5, ChangesAdd
  <1> QED BY <1>3, <1>5, <1>6

\* The battery is a bar and its tip.
Tip(x, y) == {x + 13} \X ((y + 2)..(y + 5))

LEMMA BatteryIs ==
  ASSUME NEW img, NEW x \in Nat, NEW y \in Nat, NEW p \in Int, x + 13 < Width, y + 7 < Height
  PROVE  Battery(img, x, y, p) = SetPixels(ProgressBar(img, x, y, 12, 7, p), Tip(x, y), color)
  <1>1. Width \in Nat /\ Height \in Nat
        BY Sizes
  <1>2. Fits(x + 13, y + 2, x + 13, y + 5)
        BY <1>1 DEF Fits
  <1>3. LinePoints(x + 13, y + 2, x + 13, y + 5) = Tip(x, y)
    <2>1. x + 13 \in Nat /\ y + 2 \in Nat /\ y + 5 \in Nat /\ y + 2 <= y + 5
          OBVIOUS
    <2> QED BY <2>1, VerticalLine DEF Tip
  <1> QED BY <1>2, <1>3 DEF Battery, Line

LEMMA BatteryInTheBox ==
  ASSUME NEW img, img \subseteq Framebuffer, NEW x \in Nat, NEW y \in Nat, NEW p \in Int,
         x + 13 < Width, y + 7 < Height
  PROVE  /\ Battery(img, x, y, p) \subseteq Framebuffer
         /\ Changed(Battery(img, x, y, p), img) \subseteq Inside(<<x, y, x + 13, y + 7>>)
  <1> DEFINE one == ProgressBar(img, x, y, 12, 7, p)
             two == SetPixels(one, Tip(x, y), color)
             b == <<x, y, x + 13, y + 7>>
  <1>0. Width \in Nat /\ Height \in Nat
        BY Sizes
  <1>1. one \subseteq Framebuffer /\ Changed(one, img) \subseteq Inside(<<x, y, x + 12, y + 7>>)
    <2>1. 12 \in Nat /\ 7 \in Nat /\ x + 12 < Width /\ y + 7 < Height
          BY <1>0
    <2> QED BY ONLY x \in Nat, y \in Nat, p \in Int, img \subseteq Framebuffer, <2>1, BarInTheBox DEF one
  <1>2. Inside(<<x, y, x + 12, y + 7>>) \subseteq Inside(b)
    <2>1. Box(x, y, x + 12, y + 7) \subseteq Box(x, y, x + 13, y + 7)
          BY DEF Box
    <2>2. Bits(Box(x, y, x + 12, y + 7)) \subseteq Bits(Box(x, y, x + 13, y + 7))
          BY <2>1, BitsOfUnion
    <2> QED BY <2>2, <1>0 DEF Inside
  <1>3. Tip(x, y) \subseteq Box(x, y, x + 13, y + 7)
        BY DEF Tip, Box
  <1>4. Battery(img, x, y, p) = two
        BY BatteryIs
  <1> HIDE DEF one, two
  <1>5. two \subseteq Framebuffer /\ Changed(two, one) \subseteq Inside(b)
    <2>1. x + 13 \in Int /\ y + 7 \in Int /\ x + 13 < Width /\ y + 7 < Height
          OBVIOUS
    <2> QED BY ONLY x \in Nat, y \in Nat, <2>1, <1>1, <1>3, InTheBox DEF two
  <1>6. Changed(two, img) \subseteq Inside(b)
        BY <1>1, <1>2, <1>5, ChangesAdd
  <1> QED BY <1>4, <1>5, <1>6

LEMMA BatteryTwice ==
  ASSUME NEW img, NEW x \in Nat, NEW y \in Nat, NEW p \in Int, NEW q \in Int,
         x + 13 < Width, y + 7 < Height
  PROVE  Battery(Battery(img, x, y, q), x, y, p) = Battery(img, x, y, p)
  <1> DEFINE Bar(im, r) == ProgressBar(im, x, y, 12, 7, r)
             T == Tip(x, y)
             A(r) == Border(x, y, x + 12, y + 7) \cup BarFilled(x, y, 12, 7, r)
             R(r) == BarRest(x, y, 12, 7, r)
  <1>0. Width \in Nat /\ Height \in Nat
        BY Sizes
  <1>1. \A im : \A r \in Int : Battery(im, x, y, r) = SetPixels(Bar(im, r), T, color)
        BY BatteryIs
  <1>2. \A im : \A r \in Int : Bar(im, r) = SetPixels(SetPixels(im, A(r), color), R(r), 1 - color)
        BY <1>0, BarIs
  <1>3. \A im : Bar(Bar(im, q), p) = Bar(im, p)
        BY <1>0, BarTwice
  <1> DEFINE one == Bar(img, q)
             S1 == Battery(Battery(img, x, y, q), x, y, p)
             S2 == Battery(img, x, y, p)
  <1> HIDE DEF Bar, T, A, R
  <1>4. S1 = SetPixels(Bar(SetPixels(one, T, color), p), T, color) /\ S2 = SetPixels(Bar(one, p), T, color)
        BY <1>1, <1>3
  <1>5. \A im, b : b \in Bar(im, p) <=> IF b \in Bits(R(p)) THEN 1 - color # 0
                                        ELSE IF b \in Bits(A(p)) THEN color # 0 ELSE b \in im
        BY <1>2, SetPixelsIs
  <1> HIDE DEF S1, S2, one
  <1>6. \A b : b \in S1 <=> b \in S2
    <2> TAKE b
    <2>1. CASE b \in Bits(T)
          BY <1>4, <2>1, SetPixelsIs
    <2>2. CASE b \notin Bits(T)
      <3>1. b \in S1 <=> b \in Bar(SetPixels(one, T, color), p)
            BY <1>4, <2>2, SetPixelsIs
      <3>2. b \in S2 <=> b \in Bar(one, p)
            BY <1>4, <2>2, SetPixelsIs
      <3>3. b \in SetPixels(one, T, color) <=> b \in one
            BY <2>2, SetPixelsIs
      <3> QED BY <3>1, <3>2, <3>3, <1>5
    <2> QED BY <2>1, <2>2
  <1>7. S1 \subseteq S2 /\ S2 \subseteq S1
        BY <1>6
  <1>8. S1 = S2
        BY <1>7
  <1> QED BY <1>8 DEF S1, S2

\* The last column of the inside of a battery is filled at 100 percent and not below.
LEMMA BatteryFull ==
  ASSUME NEW img, NEW x \in Nat, NEW y \in Nat, NEW p \in Int, x + 13 < Width, y + 7 < Height,
         color \in {0, 1}
  PROVE  Battery(img, x, y, p) = Battery(img, x, y, 100) <=> p >= 100
  <1>0. Width \in Nat /\ Height \in Nat
        BY Sizes
  <1> DEFINE b == Bit(x + 10, y + 2)
             A(r) == Border(x, y, x + 12, y + 7) \cup BarFilled(x, y, 12, 7, r)
             R(r) == BarRest(x, y, 12, 7, r)
             T == Tip(x, y)
  <1>1. ASSUME NEW r \in Int
        PROVE  Battery(img, x, y, r)
                 = SetPixels(SetPixels(SetPixels(img, A(r), color), R(r), 1 - color), T, color)
    <2>1. Battery(img, x, y, r) = SetPixels(ProgressBar(img, x, y, 12, 7, r), T, color)
          BY BatteryIs
    <2>2. ProgressBar(img, x, y, 12, 7, r) = SetPixels(SetPixels(img, A(r), color), R(r), 1 - color)
          BY <1>0, BarIs
    <2> QED BY <2>1, <2>2
  <1>2. ASSUME p >= 100 PROVE Battery(img, x, y, p) = Battery(img, x, y, 100)
    <2>1. Percent(p) = 100 /\ Percent(100) = 100
          BY <1>2 DEF Percent
    <2>2. BarEnd(x, 12, 7, p) = BarEnd(x, 12, 7, 100)
          BY <2>1 DEF BarEnd
    <2>3. A(p) = A(100) /\ R(p) = R(100)
          BY <2>2 DEF BarFilled, BarRest
    <2> HIDE DEF A, R, T
    <2> QED BY <1>1, <2>3
  <1>3. ASSUME p < 100 PROVE Battery(img, x, y, p) # Battery(img, x, y, 100)
    <2>1. Percent(p) \in 0..99 /\ Percent(100) = 100
          BY <1>3 DEF Percent
    <2>2. BarEnd(x, 12, 7, p) \in Int /\ BarEnd(x, 12, 7, p) < x + 10 /\ BarEnd(x, 12, 7, 100) = x + 10
      <3>1. BarEnd(x, 12, 7, p) = (8 * Percent(p)) \div 100 + x + 2 /\ BarEnd(x, 12, 7, 100) = (8 * 100) \div 100 + x + 2
            BY <2>1 DEF BarEnd, InsideOffset
      <3>2. (8 * Percent(p)) \div 100 \in 0..7 /\ (8 * 100) \div 100 = 8
            BY <2>1
      <3> QED BY <3>1, <3>2
    <2>3. <<x + 10, y + 2>> \in R(p)
      <3>1. InsideOffset(12, 7) = 2
            BY DEF InsideOffset
      <3> QED BY <2>2, <3>1 DEF BarRest, Box
    <2>4. <<x + 10, y + 2>> \in A(100) /\ <<x + 10, y + 2>> \notin R(100)
      <3>1. InsideOffset(12, 7) = 2
            BY DEF InsideOffset
      <3> QED BY <2>2, <3>1 DEF BarFilled, BarRest, Box
    <2>5. <<x + 10, y + 2>> \notin T
          BY DEF Tip
    <2>6. x + 10 \in 0..(Width - 1) /\ y + 2 \in 0..(Height - 1)
          BY <1>0
    <2> DEFINE Points == (0..(Width - 1)) \X Nat
    <2>7. A(100) \subseteq Points /\ R(100) \subseteq Points /\ R(p) \subseteq Points /\ T \subseteq Points
      <3>1. InsideOffset(12, 7) = 2
            BY DEF InsideOffset
      <3>5. ASSUME NEW r \in Int
            PROVE  BarRest(x, y, 12, 7, r) \subseteq Points /\ BarFilled(x, y, 12, 7, r) \subseteq Points
        <4>1. BarEnd(x, 12, 7, r) \in (x + 2)..(x + 10)
          <5>1. BarEnd(x, 12, 7, r) \in (x + InsideOffset(12, 7))..(x + 12 - InsideOffset(12, 7))
                BY BarEndIs
          <5> QED BY <5>1, <3>1
        <4>2. /\ BarRest(x, y, 12, 7, r) = ((BarEnd(x, 12, 7, r) + 1)..(x + 12 - 2)) \X ((y + 2)..(y + 7 - 2))
              /\ BarFilled(x, y, 12, 7, r) = ((x + 2)..BarEnd(x, 12, 7, r)) \X ((y + 2)..(y + 7 - 2))
              BY <3>1 DEF BarRest, BarFilled, Box
        <4> QED BY <4>1, <4>2, <1>0
      <3>2. R(100) \subseteq Points /\ R(p) \subseteq Points /\ T \subseteq Points
        <4>1. T \subseteq Points
              BY <1>0 DEF Tip
        <4> HIDE DEF T, Points
        <4> QED BY <3>5, <4>1
      <3>3. BarFilled(x, y, 12, 7, 100) \subseteq Points
        <4> HIDE DEF Points
        <4> QED BY <3>5
      <3>4. Border(x, y, x + 12, y + 7) \subseteq Points
            BY <1>0 DEF Border, Box
      <3> QED BY <3>2, <3>3, <3>4
    <2> HIDE DEF A, R, T
    <2>8. b \notin Bits(T) /\ b \in Bits(R(p)) /\ b \in Bits(A(100)) /\ b \notin Bits(R(100))
      <3> HIDE DEF b
      <3>1. \A P \in SUBSET Points : b \in Bits(P) <=> <<x + 10, y + 2>> \in P
            BY <2>6, BitsApart DEF b
      <3> QED BY <2>3, <2>4, <2>5, <2>7, <3>1
    <2> HIDE DEF b
    <2>9. b \in Battery(img, x, y, p) <=> 1 - color # 0
          BY <1>1, <2>8, SetPixelsIs
    <2>10. b \in Battery(img, x, y, 100) <=> color # 0
          BY <1>1, <2>8, SetPixelsIs
    <2>11. (1 - color # 0) # (color # 0)
          OBVIOUS
    <2> QED BY <2>9, <2>10, <2>11
  <1> QED BY <1>2, <1>3

-----------------------------------------------------------------------------
(* Bitmaps and symbols.                                                      *)

\* What is changed in the points of a box lies in it.
LEMMA WithinTheBox ==
  ASSUME NEW img, img \subseteq Framebuffer, NEW new, NEW P, Changed(new, img) \subseteq Bits(P),
         NEW x1 \in Nat, NEW y1 \in Nat, NEW x2 \in Int, NEW y2 \in Int,
         y2 < Height, x2 < Width \/ y2 < Height - 1, P \subseteq Box(x1, y1, x2, y2)
  PROVE  new \subseteq Framebuffer /\ Changed(new, img) \subseteq Inside(<<x1, y1, x2, y2>>)
  <1>1. Bits(P) \subseteq Inside(<<x1, y1, x2, y2>>) /\ Bits(P) \subseteq Framebuffer
        BY InsideBox
  <1> QED BY <1>1 DEF Changed

LEMMA BitMapChanges ==
  ASSUME NEW img, NEW x \in Nat, NEW y \in Nat, NEW dsc, dsc.width \in Nat \ {0},
         dsc.height \in Nat \ {0}, NEW style
  PROVE  Changed(BitMap(img, x, y, dsc, style), img)
           \subseteq Bits(Box(x, y, x + dsc.width - 1, y + dsc.height - 1))
  <1> DEFINE B == Box(x, y, x + dsc.width - 1, y + dsc.height - 1)
             pixels == (0..(dsc.height - 1)) \X (0..(dsc.width - 1))
             inked == {<<x + p[2], y + p[1]>> : p \in {q \in pixels : Ink(dsc, q[1], q[2])}}
             empty == {<<x + p[2], y + p[1]>> : p \in {q \in pixels : ~Ink(dsc, q[1], q[2])}}
             under == IF style = "background" THEN SetPixels(img, empty, 1 - color) ELSE img
  <1>1. \A p \in pixels : <<x + p[2], y + p[1]>> \in B
    <2> DEFINE w == dsc.width
               h == dsc.height
    <2>1. w \in Nat /\ h \in Nat
          OBVIOUS
    <2>2. B = (x..(x + w - 1)) \X (y..(y + h - 1)) /\ pixels = (0..(h - 1)) \X (0..(w - 1))
          BY DEF Box
    <2> HIDE DEF w, h, B, pixels
    <2> QED BY <2>1, <2>2
  <1>2. inked \subseteq B /\ empty \subseteq B
    <2> HIDE DEF pixels, B
    <2> QED BY <1>1
  <1>3. BitMap(img, x, y, dsc, style) = IF x >= Width \/ y >= Height THEN img
                                        ELSE IF style = "invert" THEN InvertPixels(under, inked)
                                        ELSE SetPixels(under, inked, color)
        BY DEF BitMap
  <1> HIDE DEF B, pixels, inked, empty
  <1>4. Bits(inked) \subseteq Bits(B) /\ Bits(empty) \subseteq Bits(B)
        BY <1>2, BitsOfUnion
  <1>5. Changed(under, img) \subseteq Bits(B)
    <2>1. Changed(SetPixels(img, empty, 1 - color), img) \subseteq Bits(empty)
          BY SetChanges
    <2>2. Changed(img, img) = {}
          BY DEF Changed
    <2> QED BY <1>4, <2>1, <2>2
  <1> HIDE DEF under
  <1>6. /\ Changed(InvertPixels(under, inked), under) \subseteq Bits(B)
        /\ Changed(SetPixels(under, inked, color), under) \subseteq Bits(B)
        BY <1>4, SetChanges
  <1>7. /\ Changed(InvertPixels(under, inked), img) \subseteq Bits(B)
        /\ Changed(SetPixels(under, inked, color), img) \subseteq Bits(B)
        /\ Changed(img, img) \subseteq Bits(B)
    <2>1. Changed(img, img) = {}
          BY DEF Changed
    <2> QED BY <1>5, <1>6, <2>1, ChangesAdd
  <1>8. Changed(BitMap(img, x, y, dsc, style), img) \subseteq Bits(B)
        BY <1>3, <1>7
  <1> QED BY <1>8 DEF B

LEMMA GlyphIs ==
  ASSUME NEW s \in Symbols
  PROVE  /\ Font[s].width \in Nat \ {0} /\ Font[s].height \in Nat \ {0}
         /\ Font[s].sym_offset \in Nat \ {0} /\ Font[s].ofs_x \in Nat /\ Font[s].ofs_y \in Int
         /\ Font[s].ofs_x <= Font[s].sym_offset
         /\ Font[s].ofs_y + BaseLine >= 0 /\ Font[s].height + Font[s].ofs_y + BaseLine <= LineHeight
         /\ BaseLine \in Nat
         /\ Advance(s) = Font[s].width + Font[s].sym_offset
  BY FontAssumption, DisplayAssumption DEF Advance, CharWidth, SymOffset

LEMMA AdvanceIs == \A s : Advance(s) \in Nat /\ (s \notin Symbols => Advance(s) = 0)
  <1> TAKE s
  <1>1. CASE s \in Symbols
        BY <1>1, GlyphIs
  <1>2. CASE s \notin Symbols
        BY <1>2 DEF Advance, CharWidth, SymOffset
  <1> QED BY <1>1, <1>2

\* The place of a symbol that is painted from (x, y) on.
Cell(x, y, s) == Box(x, y, x + Advance(s) - 1, y + LineHeight - 1)

LEMMA DrawCharChanges ==
  ASSUME NEW img, NEW x \in Nat, NEW y \in Nat, NEW s, NEW style
  PROVE  Changed(DrawChar(img, x, y, s, style), img) \subseteq Bits(Cell(x, y, s))
  <1> DEFINE dsc == Font[s]
             w == dsc.width
             h == dsc.height
             o == dsc.sym_offset
             u == dsc.ofs_x
             v == dsc.ofs_y
             top == y + LineHeight - BaseLine - h - v
             symbol == BitMap(img, x + u, top, dsc, style)
             rest == Box(x + w, y, x + w + o - 1, y + LineHeight - 1)
             corner == Box(x, y, x + u - 1, y + v - 1)
             C == Cell(x, y, s)
  <1>0. Changed(img, img) = {}
        BY DEF Changed
  <1>1. CASE s \notin Symbols
    <2>1. DrawChar(img, x, y, s, style) = img
          BY <1>1 DEF DrawChar
    <2> QED BY <1>0, <2>1
  <1>2. CASE s \in Symbols
    <2>1. /\ w \in Nat \ {0} /\ h \in Nat \ {0} /\ o \in Nat \ {0} /\ u \in Nat /\ v \in Int /\ u <= o
          /\ v + BaseLine >= 0 /\ h + v + BaseLine <= LineHeight /\ BaseLine \in Nat /\ LineHeight \in Nat
          /\ Advance(s) = w + o
          BY <1>2, GlyphIs, Sizes
    <2>2. C = (x..(x + (w + o) - 1)) \X (y..(y + LineHeight - 1))
          BY <2>1 DEF Cell, Box
    <2>3. DrawChar(img, x, y, s, style)
            = IF x > Width \/ y > Height THEN img
              ELSE IF style = "background" THEN SetPixels(symbol, rest \cup corner, 1 - color) ELSE symbol
          BY <1>2 DEF DrawChar
    <2> DEFINE P == Box(x + u, top, x + u + w - 1, top + h - 1)
    <2>4. top \in Nat /\ x + u \in Nat
      <3> HIDE DEF w, h, o, u, v
      <3> QED BY <2>1
    <2>5. Changed(symbol, img) \subseteq Bits(P)
      <3> HIDE DEF top, u
      <3> QED BY <2>1, <2>4, BitMapChanges
    <2>6. P \subseteq C /\ (rest \cup corner) \subseteq C
      <3> HIDE DEF w, h, o, u, v, C
      <3>1. P = ((x + u)..(x + u + w - 1)) \X (top..(top + h - 1))
            BY DEF Box
      <3>2. rest = ((x + w)..(x + w + o - 1)) \X (y..(y + LineHeight - 1))
            BY DEF Box
      <3>3. corner = (x..(x + u - 1)) \X (y..(y + v - 1))
            BY DEF Box
      <3>4. (x + u)..(x + u + w - 1) \subseteq x..(x + (w + o) - 1) /\ top..(top + h - 1) \subseteq y..(y + LineHeight - 1)
            BY <2>1
      <3>5. (x + w)..(x + w + o - 1) \subseteq x..(x + (w + o) - 1)
            BY <2>1
      <3>6. x..(x + u - 1) \subseteq x..(x + (w + o) - 1) /\ y..(y + v - 1) \subseteq y..(y + LineHeight - 1)
            BY <2>1
      <3> HIDE DEF P, rest, corner, top
      <3>7. P \subseteq C
            BY <2>2, <3>1, <3>4
      <3>8. rest \subseteq C
            BY <2>2, <3>2, <3>5
      <3>9. corner \subseteq C
            BY <2>2, <3>3, <3>6
      <3> QED BY <3>7, <3>8, <3>9
    <2> DEFINE Q == rest \cup corner
    <2> HIDE DEF P, C, symbol, Q
    <2>7. Bits(P) \subseteq Bits(C) /\ Bits(Q) \subseteq Bits(C)
          BY <2>6, BitsOfUnion DEF Q
    <2>8. Changed(symbol, img) \subseteq Bits(C)
          BY <2>5, <2>7
    <2>9. Changed(SetPixels(symbol, Q, 1 - color), symbol) \subseteq Bits(C)
          BY <2>7, SetChanges
    <2>10. Changed(SetPixels(symbol, Q, 1 - color), img) \subseteq Bits(C)
          BY <2>8, <2>9, ChangesAdd
    <2>11. Changed(DrawChar(img, x, y, s, style), img) \subseteq Bits(C)
          BY <2>3, <2>8, <2>10, <1>0 DEF Q
    <2> QED BY <2>11 DEF C
  <1> QED BY <1>1, <1>2

\* A row and a column are told by their number if the rows do not overlap.
LEMMA RowAndColumn ==
  ASSUME NEW S \in Nat, NEW a \in Nat, NEW b \in Nat, NEW i \in 0..(S - 1), NEW j \in 0..(S - 1),
         a * S + i = b * S + j
  PROVE  a = b /\ i = j
  <1>1. ASSUME NEW m \in Nat, NEW n \in Nat, m < n PROVE m * S + S <= n * S
    <2>1. n - m - 1 \in Nat
          BY <1>1
    <2>2. (n - m - 1) * S >= 0
          BY <2>1
    <2>3. (n - m - 1) * S = n * S - m * S - S
          OBVIOUS
    <2> QED BY <2>2, <2>3
  <1>2. a * S \in Nat /\ b * S \in Nat
        OBVIOUS
  <1>3. ~(a < b)
        BY <1>1, <1>2
  <1>4. ~(b < a)
        BY <1>1, <1>2
  <1>5. a = b
        BY <1>3, <1>4
  <1> QED BY <1>2, <1>5

LEMMA SourceBitsDiffer ==
  ASSUME NEW d \in Bitmaps, NEW r \in Nat, NEW c \in 0..(d.width - 1), NEW t \in Nat,
         NEW e \in 0..(d.width - 1), SourceBit(d, r, c) = SourceBit(d, t, e)
  PROVE  r = t /\ c = e
  <1> DEFINE w == d.width
             B == (w + 7) \div 8
  <1>1. w \in Nat \ {0} /\ B \in Nat /\ w <= 8 * B /\ c \in 0..(w - 1) /\ e \in 0..(w - 1)
        BY DEF Bitmaps
  <1>2. CASE d.sym_offset # 0
    <2>1. r * w + c = t * w + e
          BY <1>2 DEF SourceBit
    <2> HIDE DEF w
    <2> QED BY <1>1, <2>1, RowAndColumn
  <1>3. CASE d.sym_offset = 0
    <2>1. 8 * (r * B) + c = 8 * (t * B) + e
          BY <1>3 DEF SourceBit
    <2> DEFINE S == 8 * B
    <2> HIDE DEF w, B
    <2>2. 8 * (r * B) = r * S /\ 8 * (t * B) = t * S
          BY <1>1
    <2>3. S \in Nat /\ c \in 0..(S - 1) /\ e \in 0..(S - 1)
          BY <1>1
    <2>4. r * S + c = t * S + e
          BY <2>1, <2>2
    <2> HIDE DEF S
    <2> QED BY <2>3, <2>4, RowAndColumn
  <1> QED BY <1>2, <1>3

LEMMA BitmapIsRead ==
  ASSUME NEW d \in Bitmaps
  PROVE  LET pixels == (0..(d.height - 1)) \X (0..(d.width - 1))
             used == {SourceBit(d, p[1], p[2]) : p \in pixels}
             size == IF d.sym_offset # 0 THEN (d.width * d.height + 7) \div 8
                     ELSE ((d.width + 7) \div 8) * d.height
         IN  Cardinality(used) = d.width * d.height /\ {b \div 8 : b \in used} = 0..(size - 1)
  <1> DEFINE w == d.width
             h == d.height
             pixels == (0..(h - 1)) \X (0..(w - 1))
             used == {SourceBit(d, p[1], p[2]) : p \in pixels}
             B == (w + 7) \div 8
             size == IF d.sym_offset # 0 THEN (w * h + 7) \div 8 ELSE B * h
  <1>1. w \in Nat \ {0} /\ h \in Nat \ {0}
        BY DEF Bitmaps
  <1>2. Cardinality(used) = w * h
    <2>1. /\ IsFiniteSet(0..(h - 1)) /\ Cardinality(0..(h - 1)) = h
          /\ IsFiniteSet(0..(w - 1)) /\ Cardinality(0..(w - 1)) = w
      <3> HIDE DEF w, h
      <3>1. h - 1 \in Int /\ w - 1 \in Int /\ 0 \in Int /\ ~(0 > h - 1) /\ ~(0 > w - 1)
            BY <1>1
      <3>2. IsFiniteSet(0..(h - 1)) /\ Cardinality(0..(h - 1)) = (h - 1) - 0 + 1
            BY <3>1, FS_Interval
      <3>3. IsFiniteSet(0..(w - 1)) /\ Cardinality(0..(w - 1)) = (w - 1) - 0 + 1
            BY <3>1, FS_Interval
      <3> QED BY <3>2, <3>3, <1>1
    <2>2. IsFiniteSet(pixels) /\ Cardinality(pixels) = h * w
      <3> DEFINE S == 0..(h - 1)
                 T == 0..(w - 1)
      <3>1. IsFiniteSet(S) /\ IsFiniteSet(T) /\ Cardinality(S) = h /\ Cardinality(T) = w
            BY <2>1
      <3>2. pixels = S \X T
            OBVIOUS
      <3> HIDE DEF S, T, pixels
      <3>3. IsFiniteSet(S \X T) /\ Cardinality(S \X T) = Cardinality(S) * Cardinality(T)
            BY ONLY <3>1, FS_Product
      <3> QED BY <3>1, <3>2, <3>3
    <2> DEFINE f == [p \in pixels |-> SourceBit(d, p[1], p[2])]
    <2>3. f \in [pixels -> used] /\ \A b \in used : \E p \in pixels : f[p] = b
      <3> HIDE DEF pixels
      <3> QED OBVIOUS
    <2>4. ASSUME NEW p \in pixels, NEW q \in pixels, f[p] = f[q] PROVE p = q
      <3>1. /\ p[1] \in Nat /\ p[2] \in 0..(d.width - 1) /\ p = <<p[1], p[2]>>
            /\ q[1] \in Nat /\ q[2] \in 0..(d.width - 1) /\ q = <<q[1], q[2]>>
        <4>1. p[1] \in 0..(h - 1) /\ q[1] \in 0..(h - 1)
              OBVIOUS
        <4>2. 0..(h - 1) \subseteq Nat
              BY <1>1
        <4> QED BY <4>1, <4>2
      <3>2. SourceBit(d, p[1], p[2]) = SourceBit(d, q[1], q[2])
        <4> HIDE DEF pixels
        <4> QED BY <2>4
      <3>3. p[1] = q[1] /\ p[2] = q[2]
        <4> HIDE DEF pixels, f
        <4> QED BY <3>1, <3>2, SourceBitsDiffer
      <3> QED BY <3>1, <3>3
    <2> HIDE DEF f, used, pixels
    <2>5. f \in Bijection(pixels, used)
      <3>1. \A p, q \in pixels : f[p] = f[q] => p = q
            BY <2>4
      <3>2. DOMAIN f = pixels
            BY <2>3
      <3> QED BY <2>3, <3>1, <3>2 DEF Bijection, Injection, Surjection, IsInjective
    <2>6. Cardinality(used) = Cardinality(pixels)
          BY <2>2, <2>5, FS_Bijection DEF ExistsBijection
    <2>7. h * w = w * h
          BY <1>1
    <2> QED BY <2>2, <2>6, <2>7
  <1>3. \A p \in pixels : p[1] \in 0..(h - 1) /\ p[2] \in 0..(w - 1)
        OBVIOUS
  <1>4. \A r \in 0..(h - 1), c \in 0..(w - 1) : SourceBit(d, r, c) \in used
    <2> TAKE r \in 0..(h - 1), c \in 0..(w - 1)
    <2>1. <<r, c>> \in pixels
          OBVIOUS
    <2> DEFINE p == <<r, c>>
    <2>2. p \in pixels /\ p[1] = r /\ p[2] = c
          BY <2>1
    <2> HIDE DEF p, pixels
    <2> QED BY <2>2
  <1>5. {b \div 8 : b \in used} = 0..(size - 1)
    <2>1. ASSUME d.sym_offset # 0, NEW k \in 0..(size - 1) PROVE \E b \in used : b \div 8 = k
      <3> DEFINE b == 8 * k
                 r == b \div w
                 c == b % w
      <3>1. w * h \in Nat /\ b \in 0..(w * h - 1) /\ b \div 8 = k
        <4>1. w * h \in Nat
              BY <1>1
        <4> DEFINE n == w * h
        <4>2. k \in 0..((n + 7) \div 8 - 1)
              BY <2>1
        <4> HIDE DEF n
        <4> QED BY <4>1, <4>2 DEF n
      <3> HIDE DEF b
      <3>2. b = r * w + c /\ c \in 0..(w - 1) /\ r \in Nat
        <4> HIDE DEF w
        <4> QED BY <1>1, <3>1
      <3> HIDE DEF r, c
      <3>3. r \in 0..(h - 1)
        <4>1. ASSUME r >= h PROVE FALSE
          <5> HIDE DEF w, h
          <5>1. r - h \in Nat
                BY <4>1, <3>2, <1>1
          <5>2. (r - h) * w >= 0
                BY <5>1, <1>1
          <5>3. (r - h) * w = r * w - w * h
                BY <3>2, <1>1
          <5>4. r * w \in Nat
                BY <3>2, <1>1
          <5> QED BY <5>2, <5>3, <5>4, <3>1, <3>2
        <4> QED BY <4>1, <3>2, <1>1
      <3>4. SourceBit(d, r, c) = b
            BY <2>1, <3>2 DEF SourceBit
      <3> HIDE DEF used, w, h
      <3> QED BY <3>1, <3>2, <3>3, <3>4, <1>4
    <2>2. ASSUME d.sym_offset # 0, NEW r \in 0..(h - 1), NEW c \in 0..(w - 1)
          PROVE SourceBit(d, r, c) \div 8 \in 0..(size - 1)
      <3>1. SourceBit(d, r, c) = r * w + c
            BY <2>2 DEF SourceBit
      <3>2. r * w + c \in Nat /\ r * w + c <= w * h - 1 /\ w * h \in Nat
        <4> HIDE DEF w, h
        <4>1. h - 1 - r \in Nat
              BY <1>1
        <4>2. (h - 1 - r) * w >= 0
              BY <4>1, <1>1
        <4>3. (h - 1 - r) * w = w * h - w - r * w
              BY <1>1
        <4>4. r * w \in Nat /\ w * h \in Nat
              BY <1>1
        <4> QED BY <4>2, <4>3, <4>4, <1>1
      <3> DEFINE n == w * h
                 b == r * w + c
      <3>3. b \in Nat /\ n \in Nat /\ b <= n - 1
            BY <3>2
      <3>4. size = (n + 7) \div 8
            BY <2>2
      <3> HIDE DEF n, b, size
      <3> QED BY <3>1, <3>3, <3>4 DEF b
    <2>3. ASSUME d.sym_offset = 0, NEW k \in 0..(size - 1) PROVE \E b \in used : b \div 8 = k
      <3> DEFINE r == k \div B
                 c == 8 * (k % B)
      <3>1. B \in Nat \ {0} /\ 8 * (B - 1) <= w - 1
            BY <1>1
      <3>2. size = B * h
            BY <2>3
      <3>3. B * h \in Nat
        <4> HIDE DEF B, h
        <4> QED BY <3>1, <1>1
      <3>4. k \in Nat /\ k <= B * h - 1
        <4> HIDE DEF size, B, h
        <4> QED BY <3>2, <3>3
      <3> HIDE DEF B, size
      <3>5. k = r * B + (k % B) /\ k % B \in 0..(B - 1) /\ r \in Nat
            BY <3>1, <3>4
      <3>6. c \in 0..(w - 1)
        <4> HIDE DEF w
        <4> QED BY <3>1, <3>5, <1>1
      <3> HIDE DEF r
      <3>7. r \in 0..(h - 1)
        <4>1. ASSUME r >= h PROVE FALSE
          <5> HIDE DEF w, h
          <5>1. r - h \in Nat
                BY <4>1, <3>5, <1>1
          <5>2. (r - h) * B >= 0
                BY <5>1, <3>1
          <5>3. (r - h) * B = r * B - B * h
                BY <3>5, <1>1, <3>1
          <5>4. r * B \in Nat
                BY <3>5, <3>1
          <5> QED BY <5>2, <5>3, <5>4, <3>4, <3>5, <3>3
        <4> QED BY <4>1, <3>5, <1>1
      <3>8. SourceBit(d, r, c) = 8 * (r * B) + c
            BY <2>3 DEF SourceBit, B
      <3>9. 8 * (r * B) + c = 8 * k
        <4>1. r * B \in Nat
              BY <3>5, <3>1
        <4> QED BY <3>5, <4>1
      <3>10. (8 * k) \div 8 = k
             BY <3>4
      <3> HIDE DEF c, w, h, used
      <3> QED BY <3>6, <3>7, <3>8, <3>9, <3>10, <1>4
    <2>4. ASSUME d.sym_offset = 0, NEW r \in 0..(h - 1), NEW c \in 0..(w - 1)
          PROVE SourceBit(d, r, c) \div 8 \in 0..(size - 1)
      <3>1. B \in Nat \ {0} /\ w <= 8 * B
            BY <1>1
      <3>2. SourceBit(d, r, c) = 8 * (r * B) + c /\ size = B * h
            BY <2>4 DEF SourceBit
      <3> HIDE DEF B, size
      <3> DEFINE m == r * B
      <3>3. m \in Nat /\ m + B <= B * h /\ B * h \in Nat
        <4> HIDE DEF w, h
        <4>1. h - 1 - r \in Nat
              BY <1>1
        <4>2. (h - 1 - r) * B >= 0
              BY <4>1, <3>1
        <4>3. (h - 1 - r) * B = B * h - B - r * B
              BY <1>1, <3>1
        <4>4. r * B \in Nat /\ B * h \in Nat
              BY <1>1, <3>1
        <4> QED BY <4>2, <4>3, <4>4, <3>1
      <3>4. c \in Nat /\ c < 8 * B
        <4> HIDE DEF w
        <4> QED BY <3>1, <1>1
      <3> HIDE DEF m
      <3>5. (8 * m + c) \div 8 = m + c \div 8
            BY <3>3, <3>4
      <3>6. c \div 8 \in 0..(B - 1)
            BY <3>4, <3>1
      <3>7. m + c \div 8 \in 0..(B * h - 1)
        <4> DEFINE n == B * h
                   e == c \div 8
        <4>1. n \in Nat /\ m + B <= n /\ e \in 0..(B - 1)
              BY <3>3, <3>6
        <4> HIDE DEF n, e
        <4>2. m + e \in 0..(n - 1)
              BY <4>1, <3>3, <3>1
        <4> QED BY <4>2 DEF n, e
      <3> QED BY <3>2, <3>5, <3>7 DEF m
    <2> HIDE DEF w, h, size, pixels
    <2>5. ASSUME NEW k \in 0..(size - 1) PROVE \E b \in used : b \div 8 = k
      <3> HIDE DEF used
      <3> QED BY <2>1, <2>3
    <2>6. ASSUME NEW b \in used PROVE b \div 8 \in 0..(size - 1)
      <3>1. PICK p \in pixels : b = SourceBit(d, p[1], p[2])
            OBVIOUS
      <3>2. p[1] \in 0..(h - 1) /\ p[2] \in 0..(w - 1)
            BY <1>3
      <3> HIDE DEF used
      <3> QED BY <3>1, <3>2, <2>2, <2>4
    <2> HIDE DEF used
    <2> QED BY <2>5, <2>6
  <1> QED BY <1>2, <1>5

-----------------------------------------------------------------------------
(* Texts: how far symbols reach, where a line ends and begins.                *)

LEMMA ReachIs ==
  ASSUME NEW text
  PROVE  /\ Reach(text)[0] = 0
         /\ \A n \in Nat : /\ Reach(text)[n] \in Nat
                           /\ Reach(text)[n + 1] = Reach(text)[n] + Advance(At(text, n + 1))
  <1> DEFINE F == [r \in Nat \X Nat |-> r[2] + Advance(At(text, r[1]))]
  <1>1. \A n \in Nat : \A v \in Nat : F[<<n, v>>] = v + Advance(At(text, n))
        OBVIOUS
  <1>2. Reach(text) = Rounds(F, 0)
        BY DEF Reach
  <1> HIDE DEF F
  <1>3. Closed(F, Nat)
    <2>1. ASSUME NEW n \in Nat, NEW v \in Nat PROVE F[<<n, v>>] \in Nat
      <3>1. Advance(At(text, n)) \in Nat
            BY AdvanceIs
      <3> QED BY <3>1, <1>1
    <2> QED BY <2>1 DEF Closed
  <1>4. /\ Rounds(F, 0)[0] = 0
        /\ \A n \in Nat : Rounds(F, 0)[n] \in Nat /\ Rounds(F, 0)[n + 1] = F[<<n + 1, Rounds(F, 0)[n]>>]
        BY <1>3, RoundsAre
  <1>5. \A n \in Nat : F[<<n + 1, Rounds(F, 0)[n]>>] = Rounds(F, 0)[n] + Advance(At(text, n + 1))
        BY <1>1, <1>4
  <1> QED BY <1>2, <1>4, <1>5

LEMMA ReachGrows ==
  ASSUME NEW text, NEW m \in Nat, NEW n \in Nat, m <= n
  PROVE  Reach(text)[m] <= Reach(text)[n]
  <1> DEFINE S == {k \in Nat : Reach(text)[m] <= Reach(text)[m + k]}
  <1>1. 0 \in S
        BY ReachIs
  <1>2. ASSUME NEW k \in S PROVE k + 1 \in S
    <2>1. /\ m + k \in Nat /\ m + (k + 1) = (m + k) + 1
          /\ Reach(text)[m] <= Reach(text)[m + k]
          OBVIOUS
    <2>2. /\ Reach(text)[m] \in Nat /\ Reach(text)[m + k] \in Nat
          /\ Reach(text)[(m + k) + 1] = Reach(text)[m + k] + Advance(At(text, (m + k) + 1))
          BY <2>1, ReachIs
    <2>3. Advance(At(text, (m + k) + 1)) \in Nat
          BY AdvanceIs
    <2> QED BY <2>1, <2>2, <2>3
  <1>3. S = Nat
        BY <1>1, <1>2, NatSets
  <1>4. \A k \in Nat : Reach(text)[m] <= Reach(text)[m + k]
        BY <1>3
  <1>5. n - m \in Nat /\ m + (n - m) = n
        OBVIOUS
  <1> QED BY <1>4, <1>5

LEMMA ExtentIs ==
  ASSUME NEW text, NEW i \in Nat \ {0}, NEW n \in Nat \ {0}
  PROVE  /\ Extent(text, i, n) \in Int /\ Extent(text, i, i) = 0
         /\ Extent(text, i, n + 1) = Extent(text, i, n) + Advance(At(text, n))
         /\ i <= n => Extent(text, i, n) >= 0
         /\ \A m \in Nat \ {0} : m <= n => Extent(text, i, m) <= Extent(text, i, n)
  <1>1. i - 1 \in Nat /\ n - 1 \in Nat /\ (n - 1) + 1 = n /\ (n + 1) - 1 = n
        OBVIOUS
  <1>2. /\ Reach(text)[i - 1] \in Nat /\ Reach(text)[n - 1] \in Nat
        /\ Reach(text)[n] = Reach(text)[n - 1] + Advance(At(text, n))
        BY <1>1, ReachIs
  <1>3. Advance(At(text, n)) \in Nat
        BY AdvanceIs
  <1>4. Extent(text, i, n) = Reach(text)[n - 1] - Reach(text)[i - 1] /\ Extent(text, i, i) = 0
        /\ Extent(text, i, n + 1) = Reach(text)[n] - Reach(text)[i - 1]
        BY <1>1, <1>2 DEF Extent
  <1>5. ASSUME i <= n PROVE Reach(text)[i - 1] <= Reach(text)[n - 1]
        BY <1>1, <1>5, ReachGrows
  <1>6. ASSUME NEW m \in Nat \ {0}, m <= n PROVE Extent(text, i, m) <= Extent(text, i, n)
    <2>1. m - 1 \in Nat /\ m - 1 <= n - 1
          BY <1>6
    <2>2. Reach(text)[m - 1] <= Reach(text)[n - 1] /\ Reach(text)[m - 1] \in Nat
          BY <1>1, <2>1, ReachGrows, ReachIs
    <2>3. Extent(text, i, m) = Reach(text)[m - 1] - Reach(text)[i - 1]
          BY DEF Extent
    <2> QED BY <1>2, <1>4, <2>2, <2>3
  <1> QED BY <1>2, <1>3, <1>4, <1>5, <1>6

LEMMA AtIs ==
  ASSUME NEW text \in Texts
  PROVE  /\ Len(text) \in Nat /\ DOMAIN text = 1..Len(text)
         /\ \A i \in 1..Len(text) : At(text, i) = text[i] /\ text[i] \in Symbols \cup {"newline"}
                                    /\ text[i] # "end"
         /\ \A i : i \notin 1..Len(text) => At(text, i) = "end"
         /\ Advance("newline") = 0 /\ Advance("end") = 0
         /\ SymOffset("newline") = 0 /\ SymOffset("end") = 0
  <1>1. text \in Seq(Symbols \cup {"newline"}) /\ "newline" \notin Symbols /\ "end" \notin Symbols
        BY FontAssumption
  <1>2. Advance("newline") = 0 /\ Advance("end") = 0
        BY <1>1, AdvanceIs
  <1>3. SymOffset("newline") = 0 /\ SymOffset("end") = 0
        BY <1>1 DEF SymOffset
  <1>4. \A i \in 1..Len(text) : text[i] \in Symbols \cup {"newline"}
        BY <1>1
  <1>5. \A i \in 1..Len(text) : text[i] # "end"
        BY <1>4, <1>1
  <1> QED BY <1>1, <1>2, <1>3, <1>4, <1>5 DEF At

\* The left margin and the width of a line.
Margin(x1, align) ==
  x1 \in Nat /\ x1 < Width /\ align \in {"left", "center"} /\ (align = "center" => 2 * x1 <= Width)

LEMMA MarginIs ==
  ASSUME NEW x1, NEW align, Margin(x1, align)
  PROVE  /\ PixPerLine(x1, align) \in Nat
         /\ PixPerLine(x1, align) = IF align = "center" THEN Width - 2 * x1 ELSE Width - x1
  BY Sizes DEF Margin, PixPerLine

LEMMA LineStopIs ==
  ASSUME NEW text \in Texts, NEW x1, NEW align, Margin(x1, align), NEW from \in 1..(Len(text) + 1)
  PROVE  LET stop == LineStop(text, from, x1, align)
         IN  /\ stop \in from..(Len(text) + 1)
             /\ \/ At(text, stop) \in {"newline", "end"}
                \/ Extent(text, from, stop + 1) > PixPerLine(x1, align)
             /\ \A n \in from..(stop - 1) : /\ At(text, n) \notin {"newline", "end"}
                                            /\ Extent(text, from, n + 1) <= PixPerLine(x1, align)
             /\ Extent(text, from, stop) <= PixPerLine(x1, align)
  <1> DEFINE stop == LineStop(text, from, x1, align)
             N == Len(text) + 1
             Ends(n) == \/ At(text, n) \in {"newline", "end"}
                        \/ Extent(text, from, n + 1) > PixPerLine(x1, align)
             S == {n \in from..N : Ends(n)}
  <1>1. N \in Nat \ {0} /\ from \in Nat \ {0} /\ N \in from..N /\ At(text, N) = "end"
        BY AtIs
  <1> HIDE DEF N
  <1>2. N \in S /\ S \in SUBSET Nat
        BY <1>1
  <1>3. stop = Min(S)
        BY DEF LineStop, N
  <1> HIDE DEF stop, Ends
  <1>4. stop \in S /\ \A n \in S : stop <= n
    <2> HIDE DEF S
    <2> QED BY <1>2, <1>3, MinIs
  <1>5. stop \in from..N /\ Ends(stop)
        BY <1>4
  <1>6. \A n \in from..(stop - 1) : ~Ends(n)
        BY <1>4, <1>1
  <1>7. PixPerLine(x1, align) \in Nat
        BY MarginIs
  <1>8. \A n \in from..(stop - 1) : /\ At(text, n) \notin {"newline", "end"}
                                    /\ Extent(text, from, n + 1) <= PixPerLine(x1, align)
    <2> TAKE n \in from..(stop - 1)
    <2>1. n + 1 \in Nat \ {0}
          BY <1>1, <1>5
    <2>2. Extent(text, from, n + 1) \in Int
          BY <1>1, <2>1, ExtentIs
    <2> QED BY <1>6, <1>7, <2>2 DEF Ends
  <1>9. Extent(text, from, stop) <= PixPerLine(x1, align)
    <2>1. CASE stop = from
          BY <2>1, <1>1, <1>7, ExtentIs
    <2>2. CASE stop # from
      <3>1. stop - 1 \in from..(stop - 1) /\ (stop - 1) + 1 = stop
            BY <2>2, <1>1, <1>5
      <3> QED BY <3>1, <1>8
    <2> QED BY <2>1, <2>2
  <1> QED BY <1>5, <1>8, <1>9 DEF stop, N, Ends

LEMMA LastSpaceIs ==
  ASSUME NEW text, NEW from \in Nat \ {0}, NEW stop \in Nat
  PROVE  LET last == LastSpace(text, from, stop)
         IN  \/ last = 0 /\ \A i \in from..(stop - 1) : i > 1 => At(text, i) # "space"
             \/ last \in from..(stop - 1) /\ At(text, last) = "space"
  <1> DEFINE S == {i \in from..(stop - 1) : i > 1 /\ At(text, i) = "space"}
  <1>1. LastSpace(text, from, stop) = IF S = {} THEN 0 ELSE Max(S)
        BY DEF LastSpace
  <1>2. CASE S = {}
        BY <1>1, <1>2
  <1>3. CASE S # {}
    <2>1. PICK i \in S : TRUE
          BY <1>3
    <2>2. S \in SUBSET Nat /\ \A y \in S : y <= stop
          OBVIOUS
    <2>3. Max(S) \in S
      <3> HIDE DEF S
      <3> QED BY <2>1, <2>2, MaxIs
    <2> QED BY <1>1, <1>3, <2>3
  <1> QED BY <1>2, <1>3

\* What is true of every line of a text.
LineGood(text, x1, y1, align, l) ==
  /\ l \in TextLine /\ l.first >= 1 /\ l.last \in l.first..(Len(text) + 1)
  /\ l.x >= 0 /\ l.y >= y1
  /\ Extent(text, l.first, l.last) \in Int /\ l.x + Extent(text, l.first, l.last) <= Width
  /\ Ordinary(text, x1, align) =>
       /\ At(text, l.last) \in {"space", "newline", "end"}
       /\ l.x >= x1 /\ l.x + Extent(text, l.first, l.last) <= x1 + PixPerLine(x1, align)

LEMMA WordsAre ==
  ASSUME NEW text \in Texts, NEW x1, NEW align, Ordinary(text, x1, align),
         NEW i \in 1..Len(text), NEW n \in i..Len(text),
         \A k \in i..n : k > 1 => At(text, k) \notin {"space", "newline"},
         At(text, i) # "newline"
  PROVE  Extent(text, i, n + 1) <= PixPerLine(x1, align)
  <1>1. text # <<>> /\ text[1] # "space"
    <2>1. Len(text) \in Nat /\ Len(text) # 0 /\ text \in Seq(Symbols \cup {"newline"})
          BY AtIs, FontAssumption
    <2>2. text # <<>>
          BY <2>1
    <2> QED BY <2>2 DEF Ordinary
  <1>2. \A k \in i..n : text[k] \notin {"space", "newline"}
    <2> TAKE k \in i..n
    <2>1. k \in 1..Len(text)
          BY AtIs
    <2>2. At(text, k) = text[k]
          BY <2>1, AtIs
    <2>3. CASE k > 1
          BY <2>2, <2>3
    <2>4. CASE ~(k > 1)
      <3>1. k = 1 /\ i = 1
            BY <2>1, <2>4
      <3> QED BY <1>1, <2>2, <3>1
    <2> QED BY <2>3, <2>4
  <1> DEFINE w == <<i, n>>
  <1>3. w[1] = i /\ w[2] = n /\ w \in (DOMAIN text) \X (DOMAIN text) /\ w[1] <= w[2]
    <2>1. Len(text) \in Nat /\ DOMAIN text = 1..Len(text)
          BY AtIs
    <2> QED BY <2>1
  <1> HIDE DEF w
  <1>4. w \in Words(text)
        BY <1>2, <1>3 DEF Words
  <1> QED BY <1>3, <1>4 DEF Ordinary

LEMMA LineIs ==
  ASSUME NEW text \in Texts, NEW x1, NEW align, Margin(x1, align), NEW from \in 1..(Len(text) + 1),
         NEW y1 \in Nat, NEW y \in Int, y >= y1
  PROVE  LET l == LineAt(text, from, y, x1, align)
         IN  LineGood(text, x1, y1, align, l) /\ l.first = from /\ l.y = y
  <1> DEFINE stop == LineStop(text, from, x1, align)
             space == LastSpace(text, from, stop)
             last == BreakAt(text, stop, space)
             ppl == PixPerLine(x1, align)
             width == Extent(text, from, IF At(text, last) = "space" THEN last ELSE last + 1)
             e == Extent(text, from, last)
             x == IF align = "center" THEN CenteredX(width, x1) ELSE x1
             l == LineAt(text, from, y, x1, align)
  <1>1. from \in Nat \ {0} /\ Len(text) \in Nat /\ Width \in Nat /\ x1 \in Nat /\ x1 < Width
        BY AtIs, Sizes DEF Margin
  <1>2. l = [first |-> from, last |-> last, y |-> y, x |-> x]
        BY DEF LineAt
  <1>3. /\ stop \in from..(Len(text) + 1)
        /\ \/ At(text, stop) \in {"newline", "end"}
           \/ Extent(text, from, stop + 1) > ppl
        /\ \A n \in from..(stop - 1) : At(text, n) \notin {"newline", "end"}
        /\ Extent(text, from, stop) <= ppl
        BY LineStopIs
  <1>4. \/ space = 0 /\ \A i \in from..(stop - 1) : i > 1 => At(text, i) # "space"
        \/ space \in from..(stop - 1) /\ At(text, space) = "space"
    <2>1. stop \in Nat
          BY <1>1, <1>3
    <2> HIDE DEF stop
    <2> QED BY <1>1, <2>1, LastSpaceIs
  <1>5. last = IF At(text, stop) \notin {"space", "newline", "end"} /\ space # 0 THEN space ELSE stop
        BY DEF BreakAt
  <1>6. ppl \in Nat /\ ppl = IF align = "center" THEN Width - 2 * x1 ELSE Width - x1
        BY MarginIs
  <1> HIDE DEF stop, space, last, ppl, l
  <1>7. last \in from..stop
        BY <1>1, <1>3, <1>4, <1>5
  <1>8. /\ e \in Int /\ e >= 0 /\ e <= ppl
        /\ Extent(text, from, last + 1) = e + Advance(At(text, last))
        /\ Advance(At(text, last)) \in Nat
    <2>1. last \in Nat \ {0} /\ stop \in Nat \ {0} /\ from <= last /\ last <= stop
          BY <1>1, <1>3, <1>7
    <2>2. e \in Int /\ e >= 0 /\ Extent(text, from, last + 1) = e + Advance(At(text, last))
          BY <1>1, <2>1, ExtentIs
    <2>3. Extent(text, from, last) <= Extent(text, from, stop) /\ Extent(text, from, stop) \in Int
          BY <1>1, <2>1, ExtentIs
    <2> QED BY <1>3, <1>6, <2>2, <2>3, AdvanceIs
  <1>9. ASSUME Ordinary(text, x1, align) PROVE At(text, last) \in {"space", "newline", "end"}
    <2> SUFFICES ASSUME At(text, last) \notin {"space", "newline", "end"} PROVE FALSE
        OBVIOUS
    <2>1. last = stop /\ space = 0
          BY <1>4, <1>5
    <2>2. stop \in 1..Len(text)
      <3>1. stop # Len(text) + 1
            BY <2>1, AtIs
      <3> QED BY <3>1, <1>1, <1>3
    <2>3. from \in 1..Len(text) /\ stop \in from..Len(text)
          BY <1>1, <1>3, <2>2
    <2>4. \A k \in from..stop : (k > 1 => At(text, k) \notin {"space", "newline"}) /\ At(text, k) # "newline"
      <3> TAKE k \in from..stop
      <3>1. CASE k = stop
            BY <3>1, <2>1
      <3>2. CASE k # stop
        <4>1. k \in from..(stop - 1)
              BY <3>2, <1>1, <1>3
        <4>2. At(text, k) \notin {"newline", "end"}
              BY <4>1, <1>3
        <4>3. k > 1 => At(text, k) # "space"
              BY <4>1, <1>4, <2>1, <1>1
        <4> QED BY <4>2, <4>3
      <3> QED BY <3>1, <3>2
    <2>5. At(text, from) # "newline"
          BY <2>3, <2>4, <1>1
    <2>6. Extent(text, from, stop + 1) <= ppl
          BY <1>9, <2>3, <2>4, <2>5, WordsAre DEF ppl
    <2>7. Extent(text, from, stop + 1) \in Int
          BY <2>1, <1>8
    <2> QED BY <1>3, <1>6, <2>1, <2>6, <2>7
  <1>10. /\ width \in Int /\ width >= e
         /\ Ordinary(text, x1, align) => width = e
    <2>1. width = IF At(text, last) = "space" THEN e ELSE e + Advance(At(text, last))
          BY <1>8
    <2>2. At(text, last) \in {"newline", "end"} => Advance(At(text, last)) = 0
          BY AtIs
    <2> HIDE DEF e, width
    <2> QED BY <1>8, <1>9, <2>1, <2>2
  <1> HIDE DEF e, width
  <1>11. /\ x \in Nat /\ x + e <= Width
         /\ Ordinary(text, x1, align) => x >= x1 /\ x + e <= x1 + ppl
    <2>1. CASE align = "center"
      <3> DEFINE c == (Width - width) \div 2
      <3>1. x = IF width <= Width /\ c # 0 THEN c ELSE x1
            BY <2>1 DEF CenteredX
      <3>2. width <= Width => c \in Nat /\ 2 * c <= Width - width /\ 2 * c >= Width - width - 1
            BY <1>1, <1>10
      <3>3. ppl = Width - 2 * x1
            BY <1>6, <2>1
      <3> HIDE DEF c, x
      <3>4. CASE width <= Width /\ c # 0
        <4>1. x = c /\ c \in Nat /\ 2 * c <= Width - width /\ 2 * c >= Width - width - 1
              BY <3>1, <3>2, <3>4
        <4>2. x \in Nat /\ x + e <= Width
              BY <4>1, <1>1, <1>8, <1>10
        <4>3. ASSUME width = e PROVE x >= x1 /\ x + e <= x1 + ppl
              BY <4>1, <4>3, <3>3, <1>1, <1>6, <1>8, <1>10
        <4> QED BY <4>2, <4>3, <1>10
      <3>5. CASE ~(width <= Width /\ c # 0)
        <4>1. x = x1
              BY <3>1, <3>5
        <4> QED BY <4>1, <3>3, <1>1, <1>6, <1>8
      <3> QED BY <3>4, <3>5
    <2>2. CASE align # "center"
      <3>1. x = x1 /\ ppl = Width - x1
            BY <2>2, <1>6
      <3> HIDE DEF x
      <3> QED BY <3>1, <1>1, <1>8
    <2> QED BY <2>1, <2>2
  <1> HIDE DEF x
  <1>12. l \in TextLine
    <2>1. last \in Nat /\ x \in Int
          BY <1>1, <1>3, <1>7, <1>11
    <2> QED BY <1>1, <1>2, <2>1 DEF TextLine
  <1>13. l.first = from /\ l.last = last /\ l.y = y /\ l.x = x
         BY <1>2
  <1>14. l.first >= 1 /\ l.last \in l.first..(Len(text) + 1) /\ l.x >= 0 /\ l.y >= y1
         BY <1>1, <1>3, <1>7, <1>11, <1>13
  <1>15. Extent(text, l.first, l.last) = e
         BY <1>13 DEF e
  <1>16. LineGood(text, x1, y1, align, l)
         BY <1>8, <1>9, <1>11, <1>12, <1>13, <1>14, <1>15 DEF LineGood, ppl
  <1> QED BY <1>13, <1>16 DEF l

\* What is true of the lines so far.
LayoutGood(text, x1, y1, align, s) ==
  /\ s \in Layout /\ s.next >= 1 /\ (~s.done => s.next <= Len(text) + 1) /\ s.y >= y1
  /\ \A k \in DOMAIN s.lines : /\ LineGood(text, x1, y1, align, s.lines[k])
                               /\ s.lines[k].y + LineHeight <= s.y
  /\ \A k, m \in DOMAIN s.lines : k < m => s.lines[k].y + LineHeight <= s.lines[m].y
  /\ IF s.lines = <<>> THEN s.next = 1 /\ ~s.done ELSE s.lines[Len(s.lines)].last = s.next - 1
  /\ \A i \in 1..(s.next - 1) : \E k \in DOMAIN s.lines : i \in s.lines[k].first..s.lines[k].last
  /\ s.done => \/ At(text, s.next - 1) = "end"
               \/ s.lines[Len(s.lines)].y + LineHeight > Height

NewlinesBefore(text, n) == {i \in DOMAIN text : text[i] = "newline" /\ i < n}

\* Of a text that is only broken at its newlines, every line is a line height below the one
\* before it, and there is a newline for each of them but the last.
RowsGood(text, y1, s) ==
  (\A k \in DOMAIN s.lines : At(text, s.lines[k].last) \in {"newline", "end"}) =>
    /\ s.y = y1 + LineHeight * Len(s.lines)
    /\ \A k \in DOMAIN s.lines : s.lines[k].y = y1 + LineHeight * (k - 1) /\ k <= LinesOf(text)
    /\ ~s.done => Len(s.lines) <= Cardinality(NewlinesBefore(text, s.next))

LEMMA AppendIs ==
  ASSUME NEW S, NEW q \in Seq(S), NEW e \in S
  PROVE  /\ Append(q, e) \in Seq(S) /\ Append(q, e) # <<>>
         /\ Len(q) \in Nat /\ DOMAIN q = 1..Len(q) /\ Len(Append(q, e)) = Len(q) + 1
         /\ DOMAIN Append(q, e) = 1..(Len(q) + 1)
         /\ Append(q, e)[Len(q) + 1] = e
         /\ \A k \in 1..Len(q) : Append(q, e)[k] = q[k]
  OBVIOUS

LEMMA NextLineIs ==
  ASSUME NEW text \in Texts, NEW x1, NEW align, Margin(x1, align), NEW y1 \in Nat,
         NEW s, LayoutGood(text, x1, y1, align, s), ~s.done
  PROVE  LET line == LineAt(text, s.next, s.y, x1, align)
             new == NextLine(s, text, x1, align)
             sym == At(text, line.last)
         IN  /\ LineGood(text, x1, y1, align, line) /\ line.first = s.next /\ line.y = s.y
             /\ new.lines = Append(s.lines, line) /\ new.next = line.last + 1
             /\ new.y = s.y + LineHeight + SymOffset(sym) /\ SymOffset(sym) \in Nat
             /\ new.done = (s.y + LineHeight > Height \/ sym = "end")
             /\ new \in Layout
             /\ line \in TextLine /\ s.lines \in Seq(TextLine) /\ s.next \in 1..(Len(text) + 1)
             /\ s.y \in Int /\ line.last \in s.next..(Len(text) + 1)
  <1> DEFINE line == LineAt(text, s.next, s.y, x1, align)
             new == NextLine(s, text, x1, align)
             sym == At(text, line.last)
  <1>1. /\ s.next \in 1..(Len(text) + 1) /\ s.y \in Int /\ s.y >= y1 /\ s.lines \in Seq(TextLine)
    <2>1. Len(text) \in Nat
          BY AtIs
    <2> QED BY <2>1 DEF LayoutGood, Layout
  <1>2. LineGood(text, x1, y1, align, line) /\ line.first = s.next /\ line.y = s.y
        BY <1>1, LineIs
  <1>3. line \in TextLine /\ line.last \in s.next..(Len(text) + 1)
        BY <1>2 DEF LineGood
  <1>4. new = [lines |-> Append(s.lines, line), next |-> line.last + 1,
               y |-> s.y + LineHeight + SymOffset(sym),
               done |-> s.y + LineHeight > Height \/ sym = "end"]
        BY DEF NextLine
  <1> HIDE DEF line, new
  <1>5. SymOffset(sym) \in Nat
    <2>1. CASE sym \in Symbols
          BY <2>1, GlyphIs DEF SymOffset
    <2>2. CASE sym \notin Symbols
          BY <2>2 DEF SymOffset
    <2> QED BY <2>1, <2>2
  <1> HIDE DEF sym
  <1>6. Append(s.lines, line) \in Seq(TextLine)
        BY <1>1, <1>3, AppendIs
  <1>7. new \in Layout
    <2>1. line.last + 1 \in Nat
      <3>1. Len(text) \in Nat
            BY AtIs
      <3> QED BY <3>1, <1>1, <1>3
    <2>2. s.y + LineHeight + SymOffset(sym) \in Int
          BY <1>1, <1>5, Sizes
    <2>3. (s.y + LineHeight > Height \/ sym = "end") \in BOOLEAN
          OBVIOUS
    <2> QED BY <1>4, <1>6, <2>1, <2>2, <2>3 DEF Layout
  <1>8. /\ new.lines = Append(s.lines, line) /\ new.next = line.last + 1
        /\ new.y = s.y + LineHeight + SymOffset(sym)
        /\ new.done = (s.y + LineHeight > Height \/ sym = "end")
        BY <1>4
  <1> QED BY <1>1, <1>2, <1>3, <1>5, <1>7, <1>8 DEF line, new, sym

LEMMA NextLineGood ==
  ASSUME NEW text \in Texts, NEW x1, NEW align, Margin(x1, align), NEW y1 \in Nat,
         NEW s, LayoutGood(text, x1, y1, align, s)
  PROVE  LET new == NextLine(s, text, x1, align)
         IN  LayoutGood(text, x1, y1, align, new) /\ (s.done \/ new.next > s.next)
  <1> DEFINE line == LineAt(text, s.next, s.y, x1, align)
             new == NextLine(s, text, x1, align)
             sym == At(text, line.last)
             n == Len(s.lines)
  <1>1. CASE s.done
    <2>1. new = s
          BY <1>1 DEF NextLine
    <2> QED BY <1>1, <2>1
  <1>2. CASE ~s.done
    <2>1. /\ LineGood(text, x1, y1, align, line) /\ line.first = s.next /\ line.y = s.y
          /\ new.lines = Append(s.lines, line) /\ new.next = line.last + 1
          /\ new.y = s.y + LineHeight + SymOffset(sym) /\ SymOffset(sym) \in Nat
          /\ new.done = (s.y + LineHeight > Height \/ sym = "end")
          /\ new \in Layout
          /\ line \in TextLine /\ s.lines \in Seq(TextLine) /\ s.next \in 1..(Len(text) + 1)
          /\ s.y \in Int /\ line.last \in s.next..(Len(text) + 1)
          BY <1>2, NextLineIs
    <2> HIDE DEF line, new, sym
    <2>2. /\ n \in Nat /\ DOMAIN s.lines = 1..n /\ DOMAIN new.lines = 1..(n + 1)
          /\ new.lines[n + 1] = line /\ \A k \in 1..n : new.lines[k] = s.lines[k]
          /\ new.lines # <<>> /\ Len(new.lines) = n + 1
          BY <2>1, AppendIs
    <2> HIDE DEF n
    <2>3. Len(text) \in Nat /\ LineHeight \in Nat \ {0}
          BY AtIs, Sizes
    <2>4. \A k \in 1..n : LineGood(text, x1, y1, align, s.lines[k]) /\ s.lines[k].y + LineHeight <= s.y
          BY <2>2 DEF LayoutGood
    <2>5. \A k \in 1..n : s.lines[k].y \in Int
          BY <2>4 DEF LineGood, TextLine
    <2>6. new.y >= s.y + LineHeight /\ new.y \in Int /\ new.y >= y1
      <3>1. s.y >= y1
            BY DEF LayoutGood
      <3> QED BY <2>1, <2>3, <3>1, SMTT(30)
    <2>7. \A k \in DOMAIN new.lines : /\ LineGood(text, x1, y1, align, new.lines[k])
                                      /\ new.lines[k].y + LineHeight <= new.y
      <3> TAKE k \in DOMAIN new.lines
      <3>1. CASE k = n + 1
        <4>1. new.lines[k] = line
              BY <3>1, <2>2
        <4>2. line.y + LineHeight <= new.y
              BY <2>1, <2>6
        <4> QED BY <4>1, <4>2, <2>1
      <3>2. CASE k # n + 1
        <4>1. k \in 1..n
              BY <3>2, <2>2
        <4>2. /\ new.lines[k] = s.lines[k] /\ s.lines[k].y \in Int
              /\ LineGood(text, x1, y1, align, s.lines[k]) /\ s.lines[k].y + LineHeight <= s.y
              BY <4>1, <2>2, <2>4, <2>5
        <4>3. s.y <= new.y /\ s.y \in Int
              BY <2>1, <2>3, <2>6
        <4> QED BY <4>2, <4>3, <2>3, <2>6
      <3> QED BY <3>1, <3>2
    <2>8. \A k, m \in DOMAIN new.lines : k < m => new.lines[k].y + LineHeight <= new.lines[m].y
      <3> TAKE k, m \in DOMAIN new.lines
      <3> SUFFICES ASSUME k < m PROVE new.lines[k].y + LineHeight <= new.lines[m].y
          OBVIOUS
      <3>1. k \in 1..n
            BY <2>2
      <3>2. CASE m = n + 1
            BY <3>1, <3>2, <2>1, <2>2, <2>4
      <3>3. CASE m # n + 1
        <4>1. m \in 1..n
              BY <3>3, <2>2
        <4> QED BY <3>1, <4>1, <2>2 DEF LayoutGood
      <3> QED BY <3>2, <3>3
    <2>9. \A i \in 1..(new.next - 1) : \E k \in DOMAIN new.lines : i \in new.lines[k].first..new.lines[k].last
      <3> TAKE i \in 1..(new.next - 1)
      <3>1. CASE i < s.next
        <4>1. i \in 1..(s.next - 1)
              BY <3>1, <2>1, <2>3, SMTT(30)
        <4>2. PICK k \in 1..n : i \in s.lines[k].first..s.lines[k].last
              BY <4>1, <2>2 DEF LayoutGood
        <4>3. k \in 1..(n + 1)
              BY <2>2
        <4> QED BY <4>2, <4>3, <2>2
      <3>2. CASE ~(i < s.next)
        <4>1. n + 1 \in 1..(n + 1)
              BY <2>2
        <4>2. s.next \in Int /\ line.last \in Int
              BY <2>1, <2>3, SMTT(30)
        <4>3. i \in Int /\ i <= line.last /\ s.next <= i
              BY <3>2, <4>2, <2>1
        <4>4. i \in line.first..line.last
              BY <4>2, <4>3, <2>1
        <4> QED BY <4>1, <4>4, <2>2
      <3> QED BY <3>1, <3>2
    <2>10. new.next \in Nat /\ new.next >= 1 /\ new.next > s.next /\ new.next - 1 = line.last
           BY <2>1, <2>3, SMTT(30)
    <2>11. ~new.done => new.next <= Len(text) + 1
      <3> SUFFICES ASSUME ~new.done PROVE new.next <= Len(text) + 1
          OBVIOUS
      <3>1. sym # "end"
            BY <2>1
      <3>2. line.last # Len(text) + 1
            BY <3>1, AtIs DEF sym
      <3> QED BY <3>2, <2>1, <2>3
    <2>12. new.lines[Len(new.lines)].last = new.next - 1
           BY <2>2, <2>10
    <2>13. new.done => \/ At(text, new.next - 1) = "end"
                       \/ new.lines[Len(new.lines)].y + LineHeight > Height
           BY <2>1, <2>2, <2>10 DEF sym
    <2>14. LayoutGood(text, x1, y1, align, new)
           BY <2>1, <2>2, <2>6, <2>7, <2>8, <2>9, <2>10, <2>11, <2>12, <2>13 DEF LayoutGood
    <2> QED BY <2>10, <2>14 DEF new
  <1> QED BY <1>1, <1>2

LEMMA NewlinesAre ==
  ASSUME NEW text \in Texts
  PROVE  /\ \A n : /\ IsFiniteSet(NewlinesBefore(text, n))
                   /\ Cardinality(NewlinesBefore(text, n)) \in Nat
                   /\ LinesOf(text) \in Nat
                   /\ 1 + Cardinality(NewlinesBefore(text, n)) <= LinesOf(text)
         /\ \A n, m \in Nat : n <= m /\ At(text, m) = "newline" =>
              Cardinality(NewlinesBefore(text, m + 1)) >= Cardinality(NewlinesBefore(text, n)) + 1
  <1> DEFINE All == {i \in DOMAIN text : text[i] = "newline"}
             B(n) == NewlinesBefore(text, n)
  <1>1. Len(text) \in Nat /\ DOMAIN text = 1..Len(text)
        BY AtIs
  <1>2. IsFiniteSet(DOMAIN text)
        BY <1>1, FS_Interval
  <1>3. IsFiniteSet(All) /\ All \in SUBSET DOMAIN text
        BY <1>2, FS_Subset
  <1>4. LinesOf(text) = 1 + Cardinality(All)
        BY DEF LinesOf
  <1>5. Cardinality(All) \in Nat
        BY <1>3, FS_CardinalityType
  <1>6. ASSUME NEW n
        PROVE  IsFiniteSet(B(n)) /\ Cardinality(B(n)) \in Nat /\ Cardinality(B(n)) <= Cardinality(All)
    <2>1. B(n) \in SUBSET All
          BY DEF NewlinesBefore
    <2> HIDE DEF All, B
    <2>2. IsFiniteSet(B(n)) /\ Cardinality(B(n)) <= Cardinality(All)
          BY <2>1, <1>3, FS_Subset
    <2> QED BY <2>2, FS_CardinalityType
  <1>7. ASSUME NEW n \in Nat, NEW m \in Nat, n <= m, At(text, m) = "newline"
        PROVE  Cardinality(B(m + 1)) >= Cardinality(B(n)) + 1
    <2>1. m \in 1..Len(text)
          BY <1>7, AtIs
    <2>2. text[m] = "newline"
          BY <2>1, <1>7, AtIs
    <2>3. m \notin B(n) /\ B(n) \cup {m} \in SUBSET B(m + 1)
          BY <1>1, <1>7, <2>1, <2>2 DEF NewlinesBefore
    <2> HIDE DEF B
    <2>4. IsFiniteSet(B(n) \cup {m}) /\ Cardinality(B(n) \cup {m}) = Cardinality(B(n)) + 1
          BY <1>6, <2>3, FS_AddElement
    <2>5. Cardinality(B(n) \cup {m}) <= Cardinality(B(m + 1))
          BY <1>6, <2>3, FS_Subset
    <2> QED BY <2>4, <2>5, <1>6
  <1> HIDE DEF All
  <1> QED BY <1>4, <1>5, <1>6, <1>7

LEMMA NextLineRows ==
  ASSUME NEW text \in Texts, NEW x1, NEW align, Margin(x1, align), NEW y1 \in Nat,
         NEW s, LayoutGood(text, x1, y1, align, s), RowsGood(text, y1, s)
  PROVE  RowsGood(text, y1, NextLine(s, text, x1, align))
  <1> DEFINE line == LineAt(text, s.next, s.y, x1, align)
             new == NextLine(s, text, x1, align)
             sym == At(text, line.last)
             n == Len(s.lines)
  <1>1. CASE s.done
    <2>1. new = s
          BY <1>1 DEF NextLine
    <2> QED BY <1>1, <2>1
  <1>2. CASE ~s.done
    <2>1. /\ line.y = s.y
          /\ new.lines = Append(s.lines, line) /\ new.next = line.last + 1
          /\ new.y = s.y + LineHeight + SymOffset(sym)
          /\ new.done = (s.y + LineHeight > Height \/ sym = "end")
          /\ line \in TextLine /\ s.lines \in Seq(TextLine) /\ s.next \in 1..(Len(text) + 1)
          /\ s.y \in Int /\ line.last \in s.next..(Len(text) + 1)
          BY <1>2, NextLineIs
    <2> HIDE DEF line, new
    <2>2. /\ n \in Nat /\ DOMAIN s.lines = 1..n /\ DOMAIN new.lines = 1..(n + 1)
          /\ new.lines[n + 1] = line /\ \A k \in 1..n : new.lines[k] = s.lines[k]
          /\ Len(new.lines) = n + 1
          BY <2>1, AppendIs
    <2> HIDE DEF n
    <2> SUFFICES ASSUME \A k \in DOMAIN new.lines : At(text, new.lines[k].last) \in {"newline", "end"}
                 PROVE  /\ new.y = y1 + LineHeight * (n + 1)
                        /\ \A k \in 1..(n + 1) : new.lines[k].y = y1 + LineHeight * (k - 1)
                                                 /\ k <= LinesOf(text)
                        /\ ~new.done => n + 1 <= Cardinality(NewlinesBefore(text, new.next))
      <3> HIDE DEF sym
      <3> QED BY <2>2 DEF RowsGood, new
    <2>3. \A k \in 1..n : At(text, s.lines[k].last) \in {"newline", "end"}
      <3> TAKE k \in 1..n
      <3>1. k \in 1..(n + 1) /\ new.lines[k] = s.lines[k]
            BY <2>2
      <3> QED BY <3>1, <2>2
    <2>4. /\ s.y = y1 + LineHeight * n
          /\ \A k \in 1..n : s.lines[k].y = y1 + LineHeight * (k - 1) /\ k <= LinesOf(text)
          /\ n <= Cardinality(NewlinesBefore(text, s.next))
          BY <1>2, <2>2, <2>3 DEF RowsGood, n
    <2>5. sym \in {"newline", "end"} /\ SymOffset(sym) = 0
      <3>1. n + 1 \in 1..(n + 1)
            BY <2>2
      <3>2. sym \in {"newline", "end"}
            BY <3>1, <2>2 DEF sym
      <3> QED BY <3>2, AtIs
    <2>6. LineHeight * (n + 1) = LineHeight * n + LineHeight /\ LineHeight * n \in Int /\ LineHeight \in Int
          BY <2>2, Sizes
    <2>7. new.y = y1 + LineHeight * (n + 1)
          BY <2>1, <2>4, <2>5, <2>6
    <2>8. n + 1 <= LinesOf(text)
      <3>1. 1 + Cardinality(NewlinesBefore(text, s.next)) <= LinesOf(text) /\ LinesOf(text) \in Nat
            /\ Cardinality(NewlinesBefore(text, s.next)) \in Nat
            BY NewlinesAre
      <3> QED BY <3>1, <2>2, <2>4
    <2>9. \A k \in 1..(n + 1) : new.lines[k].y = y1 + LineHeight * (k - 1) /\ k <= LinesOf(text)
      <3> TAKE k \in 1..(n + 1)
      <3>1. CASE k = n + 1
        <4>1. k - 1 = n
              BY <3>1, <2>2
        <4> QED BY <3>1, <4>1, <2>1, <2>2, <2>4, <2>8
      <3>2. CASE k # n + 1
        <4>1. k \in 1..n
              BY <3>2, <2>2
        <4> QED BY <4>1, <2>2, <2>4
      <3> QED BY <3>1, <3>2
    <2>10. ASSUME ~new.done PROVE n + 1 <= Cardinality(NewlinesBefore(text, new.next))
      <3>1. sym = "newline"
            BY <2>1, <2>5, <2>10
      <3>2. s.next \in Nat /\ line.last \in Nat /\ s.next <= line.last
        <4>1. Len(text) \in Nat
              BY AtIs
        <4> QED BY <4>1, <2>1
      <3>3. Cardinality(NewlinesBefore(text, line.last + 1)) >= Cardinality(NewlinesBefore(text, s.next)) + 1
            BY <3>1, <3>2, NewlinesAre DEF sym
      <3>4. /\ Cardinality(NewlinesBefore(text, s.next)) \in Nat
            /\ Cardinality(NewlinesBefore(text, line.last + 1)) \in Nat
            BY NewlinesAre
      <3> QED BY <3>3, <3>4, <2>1, <2>2, <2>4
    <2> QED BY <2>7, <2>9, <2>10
  <1> QED BY <1>1, <1>2

LEMMA LayoutsAre ==
  ASSUME NEW text \in Texts, NEW x1, NEW align, Margin(x1, align), NEW y1 \in Nat
  PROVE  \A n \in Nat : LET s == Layouts(text, x1, y1, align)[n]
                        IN  /\ LayoutGood(text, x1, y1, align, s) /\ RowsGood(text, y1, s)
                            /\ s.done \/ s.next >= n + 1
  <1> DEFINE F == [r \in Nat \X Layout |-> NextLine(r[2], text, x1, align)]
             a == [lines |-> <<>>, next |-> 1, y |-> y1, done |-> FALSE]
             V == {s \in Layout : LayoutGood(text, x1, y1, align, s) /\ RowsGood(text, y1, s)}
             J == [n \in Nat |-> {s \in V : s.done \/ s.next >= n + 1}]
  <1>1. \A n \in Nat : \A v \in Layout : F[<<n, v>>] = NextLine(v, text, x1, align)
        OBVIOUS
  <1>2. Layouts(text, x1, y1, align) = Rounds(F, a)
        BY DEF Layouts
  <1>3. /\ a \in Layout /\ a.lines = <<>> /\ a.next = 1 /\ a.y = y1 /\ a.done = FALSE
        /\ DOMAIN a.lines = {} /\ Len(a.lines) = 0
        BY DEF Layout
  <1> HIDE DEF F, a
  <1>4. a \in V
    <2>1. LayoutGood(text, x1, y1, align, a)
      <3>1. Len(text) \in Nat
            BY AtIs
      <3> QED BY <1>3, <3>1 DEF LayoutGood
    <2>2. RowsGood(text, y1, a)
      <3>1. LineHeight * 0 = 0
            BY Sizes
      <3>2. 0 <= Cardinality(NewlinesBefore(text, 1))
            BY NewlinesAre
      <3> QED BY <1>3, <3>1, <3>2 DEF RowsGood
    <2> QED BY <1>3, <2>1, <2>2
  <1>5. ASSUME NEW n \in Nat, NEW v \in V
        PROVE  F[<<n, v>>] \in V /\ (v.done => F[<<n, v>>] = v)
               /\ (v.done \/ F[<<n, v>>].next > v.next) /\ F[<<n, v>>].next \in Nat /\ v.next \in Nat
    <2>1. F[<<n, v>>] = NextLine(v, text, x1, align)
          BY <1>1
    <2> DEFINE new == NextLine(v, text, x1, align)
    <2>2. LayoutGood(text, x1, y1, align, new) /\ (v.done \/ new.next > v.next)
          BY NextLineGood
    <2>3. RowsGood(text, y1, new)
          BY NextLineRows
    <2>4. v.done => new = v
          BY DEF NextLine
    <2> HIDE DEF new
    <2>5. new \in Layout /\ new.next \in Nat /\ v.next \in Nat
          BY <2>2 DEF LayoutGood, Layout
    <2> QED BY <2>1, <2>2, <2>3, <2>4, <2>5 DEF new
  <1> HIDE DEF V
  <1>6. Closed(F, V)
        BY <1>5 DEF Closed
  <1>7. \A n \in Nat : J[n] \subseteq V
        OBVIOUS
  <1>8. a \in J[0]
        BY <1>3, <1>4
  <1>9. ASSUME NEW n \in Nat, NEW s \in J[n] PROVE F[<<n + 1, s>>] \in J[n + 1]
    <2>1. s \in V /\ n + 1 \in Nat /\ (s.done \/ s.next >= n + 1)
          OBVIOUS
    <2> DEFINE t == F[<<n + 1, s>>]
    <2>2. t \in V /\ (s.done => t = s) /\ (s.done \/ t.next > s.next) /\ t.next \in Nat /\ s.next \in Nat
          BY <2>1, <1>5
    <2> HIDE DEF t
    <2>3. t.done \/ t.next >= (n + 1) + 1
          BY <2>1, <2>2
    <2>4. t \in J[n + 1]
          BY <2>1, <2>2, <2>3
    <2> QED BY <2>4 DEF t
  <1>10. \A n \in Nat : Rounds(F, a)[n] \in J[n]
    <2> HIDE DEF J
    <2> QED BY <1>6, <1>7, <1>8, <1>9, RoundsKeep
  <1> QED BY <1>2, <1>10 DEF V

LEMMA LinesAre ==
  ASSUME NEW text \in Texts, NEW x1, NEW align, Margin(x1, align), NEW y1 \in Nat
  PROVE  LET lines == Lines(text, x1, y1, align)
         IN  /\ Len(lines) \in Nat \ {0} /\ DOMAIN lines = 1..Len(lines)
             /\ \A k \in DOMAIN lines : LineGood(text, x1, y1, align, lines[k])
             /\ \A k, m \in DOMAIN lines : k < m => lines[k].y + LineHeight <= lines[m].y
             /\ \A i \in 1..(lines[Len(lines)].last) :
                  \E k \in DOMAIN lines : i \in lines[k].first..lines[k].last
             /\ lines[Len(lines)].last = Len(text) + 1 \/ lines[Len(lines)].y + LineHeight > Height
             /\ (\A k \in DOMAIN lines : At(text, lines[k].last) \in {"newline", "end"}) =>
                  \A k \in DOMAIN lines : lines[k].y = y1 + LineHeight * (k - 1) /\ k <= LinesOf(text)
  <1> DEFINE n == Len(text) + 1
             s == Layouts(text, x1, y1, align)[n]
             lines == s.lines
  <1>1. n \in Nat /\ Len(text) \in Nat
        BY AtIs
  <1>2. LayoutGood(text, x1, y1, align, s) /\ RowsGood(text, y1, s) /\ (s.done \/ s.next >= n + 1)
    <2> HIDE DEF n
    <2> QED BY <1>1, LayoutsAre
  <1>3. Lines(text, x1, y1, align) = lines
        BY DEF Lines
  <1> HIDE DEF s
  <1>4. s.next \in Nat /\ s.done \in BOOLEAN /\ lines \in Seq(TextLine)
        BY <1>2 DEF LayoutGood, Layout
  <1>5. s.done
    <2> SUFFICES ASSUME ~s.done PROVE FALSE
        OBVIOUS
    <2>1. s.next <= Len(text) + 1
          BY <1>2 DEF LayoutGood
    <2> QED BY <2>1, <1>1, <1>2, <1>4
  <1>6. lines # <<>>
        BY <1>2, <1>5 DEF LayoutGood
  <1>7. Len(lines) \in Nat \ {0} /\ DOMAIN lines = 1..Len(lines)
        BY <1>4, <1>6
  <1>8. lines[Len(lines)].last = s.next - 1
        BY <1>2, <1>6 DEF LayoutGood
  <1>9. LineGood(text, x1, y1, align, lines[Len(lines)])
        BY <1>2, <1>7 DEF LayoutGood
  <1>10. lines[Len(lines)].last = Len(text) + 1 \/ lines[Len(lines)].y + LineHeight > Height
    <2>1. CASE At(text, s.next - 1) = "end"
      <3>1. s.next - 1 \notin 1..Len(text)
            BY <2>1, AtIs
      <3>2. s.next - 1 \in Nat /\ s.next - 1 >= 1 /\ s.next - 1 <= Len(text) + 1
            BY <1>1, <1>8, <1>9, SMTT(30) DEF LineGood, TextLine
      <3> QED BY <1>1, <1>8, <3>1, <3>2
    <2>2. CASE lines[Len(lines)].y + LineHeight > Height
          BY <2>2
    <2> QED BY <2>1, <2>2, <1>2, <1>5 DEF LayoutGood
  <1>11. \A i \in 1..(lines[Len(lines)].last) : \E k \in DOMAIN lines : i \in lines[k].first..lines[k].last
         BY <1>2, <1>8 DEF LayoutGood
  <1>12. /\ \A k \in DOMAIN lines : LineGood(text, x1, y1, align, lines[k])
         /\ \A k, m \in DOMAIN lines : k < m => lines[k].y + LineHeight <= lines[m].y
         BY <1>2 DEF LayoutGood
  <1>13. (\A k \in DOMAIN lines : At(text, lines[k].last) \in {"newline", "end"}) =>
           \A k \in DOMAIN lines : lines[k].y = y1 + LineHeight * (k - 1) /\ k <= LinesOf(text)
         BY <1>2 DEF RowsGood
  <1> QED BY <1>3, <1>7, <1>10, <1>11, <1>12, <1>13

LinesGood(text, x1, y1, align, lines) ==
  \A k \in DOMAIN lines : LineGood(text, x1, y1, align, lines[k])

\* The line of symbol i, and where it is painted.
On(lines, i) == {k \in DOMAIN lines : i \in lines[k].first..(lines[k].last - 1)}
LineOf(lines, i) == CHOOSE k \in On(lines, i) : TRUE
SymbolX(text, lines, i) ==
  LET l == lines[LineOf(lines, i)] IN l.x + Extent(text, l.first, i)
SymbolY(lines, i) == lines[LineOf(lines, i)].y
SymbolCell(text, lines, i) == Cell(SymbolX(text, lines, i), SymbolY(lines, i), At(text, i))

LEMMA SymbolIs ==
  ASSUME NEW text \in Texts, NEW x1, NEW align, NEW y1 \in Nat, NEW lines, LinesGood(text, x1, y1, align, lines),
         NEW i \in Nat, On(lines, i) # {}
  PROVE  LET k == LineOf(lines, i)
             l == lines[k]
             x == SymbolX(text, lines, i)
         IN  /\ k \in DOMAIN lines /\ i \in l.first..(l.last - 1) /\ i \in 1..Len(text)
             /\ l.first \in Nat \ {0} /\ l.last \in Nat
             /\ x \in Nat /\ x >= l.x /\ l.x \in Nat /\ x = l.x + Extent(text, l.first, i)
             /\ Advance(At(text, i)) \in Nat
             /\ x + Advance(At(text, i)) <= l.x + Extent(text, l.first, l.last)
             /\ x + Advance(At(text, i)) <= Width
             /\ l.y \in Nat /\ l.y >= y1 /\ SymbolY(lines, i) = l.y
             /\ Extent(text, l.first, l.last) \in Int
  <1> DEFINE k == LineOf(lines, i)
             l == lines[k]
             x == SymbolX(text, lines, i)
  <1>1. k \in On(lines, i)
        BY DEF LineOf
  <1>2. k \in DOMAIN lines /\ i \in l.first..(l.last - 1)
        BY <1>1 DEF On
  <1> HIDE DEF k
  <1>3. LineGood(text, x1, y1, align, l)
        BY <1>2 DEF LinesGood
  <1>4. x = l.x + Extent(text, l.first, i) /\ SymbolY(lines, i) = l.y
        BY DEF SymbolX, SymbolY, k
  <1> HIDE DEF l, x
  <1>5. /\ l.first \in Nat \ {0} /\ l.last \in l.first..(Len(text) + 1) /\ l.x \in Nat /\ l.y \in Nat
        /\ l.y >= y1 /\ Len(text) \in Nat
        /\ Extent(text, l.first, l.last) \in Int /\ l.x + Extent(text, l.first, l.last) <= Width
    <2>1. l \in TextLine
          BY <1>3 DEF LineGood
    <2>2. l.first \in Nat /\ l.x \in Int /\ l.y \in Int
          BY <2>1 DEF TextLine
    <2> QED BY <1>3, <2>2, AtIs DEF LineGood
  <1>6. i \in Nat \ {0} /\ l.last \in Nat \ {0} /\ i + 1 \in Nat \ {0} /\ i + 1 <= l.last /\ l.first <= i
        /\ i \in 1..Len(text)
        BY <1>2, <1>5
  <1>7. /\ Extent(text, l.first, i) \in Int /\ Extent(text, l.first, i) >= 0
        /\ Extent(text, l.first, i + 1) = Extent(text, l.first, i) + Advance(At(text, i))
        BY <1>5, <1>6, ExtentIs
  <1>8. Extent(text, l.first, i + 1) <= Extent(text, l.first, l.last)
        BY <1>5, <1>6, ExtentIs
  <1>9. Advance(At(text, i)) \in Nat
        BY AdvanceIs
  <1>10. /\ x \in Nat /\ x >= l.x
         /\ x + Advance(At(text, i)) <= l.x + Extent(text, l.first, l.last)
         /\ x + Advance(At(text, i)) <= Width
     <2> DEFINE a == Advance(At(text, i))
               ei == Extent(text, l.first, i)
               en == Extent(text, l.first, i + 1)
               el == Extent(text, l.first, l.last)
    <2>1. /\ x = l.x + ei /\ l.x \in Nat /\ ei \in Int /\ ei >= 0 /\ en = ei + a /\ en <= el
          /\ a \in Nat /\ el \in Int /\ l.x + el <= Width /\ Width \in Int
          BY <1>4, <1>5, <1>7, <1>8, <1>9, Sizes
    <2> HIDE DEF a, ei, en, el
    <2>2. x \in Nat /\ x >= l.x /\ x + a <= l.x + el /\ x + a <= Width
          BY <2>1
    <2> QED BY <2>2 DEF a, el
  <1> QED BY <1>2, <1>4, <1>5, <1>6, <1>9, <1>10 DEF k, l, x

LEMMA DrawSymbolIs ==
  ASSUME NEW text, NEW lines, NEW img, NEW i, NEW style
  PROVE  DrawSymbol(img, text, i, lines, style)
           = IF On(lines, i) = {} THEN img
             ELSE DrawChar(img, SymbolX(text, lines, i), SymbolY(lines, i), At(text, i), style)
  BY DEF DrawSymbol, On, LineOf, SymbolX, SymbolY

LEMMA DrawSymbolChanges ==
  ASSUME NEW text \in Texts, NEW x1, NEW align, NEW y1 \in Nat, NEW lines, LinesGood(text, x1, y1, align, lines),
         NEW i \in Nat, NEW img, NEW style
  PROVE  /\ On(lines, i) = {} => DrawSymbol(img, text, i, lines, style) = img
         /\ On(lines, i) # {} =>
              Changed(DrawSymbol(img, text, i, lines, style), img) \subseteq Bits(SymbolCell(text, lines, i))
         /\ img \subseteq Int => DrawSymbol(img, text, i, lines, style) \subseteq Int
  <1> DEFINE new == DrawSymbol(img, text, i, lines, style)
             cell == SymbolCell(text, lines, i)
  <1>1. CASE On(lines, i) = {}
        BY <1>1, DrawSymbolIs
  <1>2. CASE On(lines, i) # {}
    <2>1. SymbolX(text, lines, i) \in Nat /\ SymbolY(lines, i) \in Nat /\ Advance(At(text, i)) \in Nat
          BY <1>2, SymbolIs
    <2>2. new = DrawChar(img, SymbolX(text, lines, i), SymbolY(lines, i), At(text, i), style)
          BY <1>2, DrawSymbolIs
    <2> HIDE DEF new
    <2>3. Changed(new, img) \subseteq Bits(cell)
          BY <2>1, <2>2, DrawCharChanges DEF SymbolCell
    <2>4. cell \subseteq Int \X Int
      <3>1. LineHeight \in Nat
            BY Sizes
      <3> QED BY <2>1, <3>1 DEF SymbolCell, Cell, Box
    <2> HIDE DEF cell
    <2>5. Bits(cell) \subseteq Int
          BY <2>4, BitsAreInt
    <2>6. img \subseteq Int => new \subseteq Int
          BY <2>3, <2>5 DEF Changed
    <2> QED BY <1>2, <2>3, <2>6 DEF new, cell
  <1> QED BY <1>1, <1>2

\* What a text changes is where its symbols are.
LEMMA DrawStringChanges ==
  ASSUME NEW text \in Texts, NEW x1, NEW align, Margin(x1, align), NEW y1 \in Nat, NEW style,
         NEW img, img \subseteq Int, NEW B,
         \A i \in 1..Len(text) : On(Lines(text, x1, y1, align), i) # {} =>
           Bits(SymbolCell(text, Lines(text, x1, y1, align), i)) \subseteq B
  PROVE  Changed(DrawString(img, text, x1, y1, align, style), img) \subseteq B
  <1> DEFINE lines == Lines(text, x1, y1, align)
             F == [r \in Nat \X SUBSET Int |-> DrawSymbol(r[2], text, r[1], lines, style)]
             V == SUBSET Int
             J == [n \in Nat |-> {im \in V : Changed(im, img) \subseteq B}]
  <1>1. \A n \in Nat : \A im \in V : F[<<n, im>>] = DrawSymbol(im, text, n, lines, style)
        OBVIOUS
  <1>2. DrawString(img, text, x1, y1, align, style)
          = IF x1 > Width \/ y1 > Height THEN img ELSE Rounds(F, img)[Len(text)]
        BY DEF DrawString
  <1>3. LinesGood(text, x1, y1, align, lines)
        BY LinesAre DEF LinesGood
  <1>4. Changed(img, img) = {}
        BY DEF Changed
  <1>5. \A i \in 1..Len(text) : On(lines, i) # {} => Bits(SymbolCell(text, lines, i)) \subseteq B
        OBVIOUS
  <1> HIDE DEF F, lines
  <1>6. ASSUME NEW n \in Nat, NEW im \in V
        PROVE  F[<<n, im>>] \in V /\ (Changed(im, img) \subseteq B => Changed(F[<<n, im>>], img) \subseteq B)
    <2> DEFINE new == DrawSymbol(im, text, n, lines, style)
    <2>1. F[<<n, im>>] = new
          BY <1>1
    <2>2. new \subseteq Int
          BY <1>3, DrawSymbolChanges
    <2>3. Changed(im, img) \subseteq B => Changed(new, img) \subseteq B
      <3>1. CASE On(lines, n) = {}
        <4>1. new = im
              BY <1>3, <3>1, DrawSymbolChanges
        <4> QED BY <4>1
      <3>2. CASE On(lines, n) # {}
        <4>1. Changed(new, im) \subseteq Bits(SymbolCell(text, lines, n))
              BY <1>3, <3>2, DrawSymbolChanges
        <4>2. n \in 1..Len(text)
              BY <1>3, <3>2, SymbolIs
        <4>3. Changed(new, im) \subseteq B
              BY <4>1, <4>2, <3>2, <1>5
        <4> HIDE DEF new
        <4> QED BY <4>3, ChangesAdd
      <3> QED BY <3>1, <3>2
    <2> HIDE DEF new
    <2> QED BY <2>1, <2>2, <2>3
  <1>7. Closed(F, V)
        BY <1>6 DEF Closed
  <1>8. \A n \in Nat : J[n] \subseteq V
        OBVIOUS
  <1>9. img \in J[0]
        BY <1>4
  <1>10. \A n \in Nat : \A s \in J[n] : F[<<n + 1, s>>] \in J[n + 1]
    <2> TAKE n \in Nat
    <2> TAKE s \in J[n]
    <2>1. n + 1 \in Nat /\ s \in V /\ Changed(s, img) \subseteq B
          OBVIOUS
    <2>2. F[<<n + 1, s>>] \in V /\ Changed(F[<<n + 1, s>>], img) \subseteq B
          BY <2>1, <1>6
    <2> QED BY <2>1, <2>2
  <1>11. \A n \in Nat : Rounds(F, img)[n] \in J[n]
    <2> HIDE DEF J, V
    <2> QED BY <1>7, <1>8, <1>9, <1>10, RoundsKeep
  <1>12. Len(text) \in Nat
         BY AtIs
  <1>13. Changed(Rounds(F, img)[Len(text)], img) \subseteq B
         BY <1>11, <1>12
  <1> QED BY <1>2, <1>4, <1>13

\* A text that fits, or that ends above the bottom of the display, is within it.
LEMMA TextInTheDisplay ==
  ASSUME NEW text \in Texts, NEW x1 \in TextXs, NEW align, Margin(x1, align), NEW y1 \in TextYs, NEW style,
         NEW img, img \subseteq Framebuffer,
         LET lines == Lines(text, x1, y1, align)
         IN  \/ x1 >= 8 /\ Ordinary(text, x1, align)
             \/ \A k \in DOMAIN lines : lines[k].y + LineHeight <= Height
  PROVE  LET new == DrawString(img, text, x1, y1, align, style)
         IN  /\ new \subseteq Framebuffer
             /\ Changed(new, img) \subseteq Inside(<<0, y1, Width - 1, Height - 1>>)
  <1> DEFINE lines == Lines(text, x1, y1, align)
             P == Box(0, y1, Width - 1, Height - 1)
             new == DrawString(img, text, x1, y1, align, style)
  <1>1. x1 \in Nat /\ y1 \in Nat /\ y1 < Height /\ Width \in Nat \ {0} /\ Height \in Nat \ {0}
        /\ LineHeight \in Nat \ {0}
        BY DisplayAssumption
  <1>2. LinesGood(text, x1, y1, align, lines)
        BY <1>1, LinesAre DEF LinesGood
  <1>7. \/ x1 >= 8 /\ Ordinary(text, x1, align)
        \/ \A k \in DOMAIN lines : lines[k].y + LineHeight <= Height
        OBVIOUS
  <1> HIDE DEF lines
  <1>3. ASSUME NEW i \in 1..Len(text), On(lines, i) # {}
        PROVE  Bits(SymbolCell(text, lines, i)) \subseteq Bits(P)
    <2> SUFFICES ASSUME NEW b \in Bits(SymbolCell(text, lines, i)) PROVE b \in Bits(P)
        OBVIOUS
    <2> DEFINE k == LineOf(lines, i)
               l == lines[k]
               x == SymbolX(text, lines, i)
               a == Advance(At(text, i))
    <2>1. /\ k \in DOMAIN lines /\ x \in Nat /\ x >= l.x /\ l.x \in Nat /\ a \in Nat /\ x + a <= Width
          /\ l.y \in Nat /\ l.y >= y1 /\ SymbolY(lines, i) = l.y
      <3>1. i \in Nat
            OBVIOUS
      <3> QED BY <1>1, <1>2, <1>3, <3>1, SymbolIs
    <2>2. SymbolCell(text, lines, i) = (x..(x + a - 1)) \X (l.y..(l.y + LineHeight - 1))
          BY <2>1 DEF SymbolCell, Cell, Box
    <2>3. PICK p \in SymbolCell(text, lines, i) : Painted(p[1], p[2]) /\ b = Bit(p[1], p[2])
          BY BitsOf
    <2> HIDE DEF k, x, a
    <2>4. p = <<p[1], p[2]>> /\ p[1] \in x..(x + a - 1) /\ p[2] \in l.y..(l.y + LineHeight - 1)
          BY <2>2
    <2> HIDE DEF l
    <2>5. p[1] \in Nat /\ p[2] \in Nat /\ p[1] < Width /\ p[2] >= y1 /\ p[1] >= l.x
      <3> DEFINE q1 == p[1]
                 q2 == p[2]
                 lx == l.x
                 ly == l.y
      <3>1. /\ q1 \in x..(x + a - 1) /\ q2 \in ly..(ly + LineHeight - 1) /\ x \in Nat /\ x >= lx
            /\ lx \in Nat /\ a \in Nat /\ x + a <= Width /\ ly \in Nat /\ ly >= y1
            /\ y1 \in Nat /\ LineHeight \in Nat /\ Width \in Nat
            BY <1>1, <2>1, <2>4
      <3> HIDE DEF q1, q2, lx, ly
      <3>2. q1 \in Nat /\ q2 \in Nat /\ q1 < Width /\ q2 >= y1 /\ q1 >= lx
            BY ONLY <3>1
      <3> QED BY <3>2 DEF q1, q2, lx
    <2>6. p[2] < Height
      <3>1. CASE x1 >= 8 /\ Ordinary(text, x1, align)
        <4>1. l.x >= x1
              BY <1>2, <2>1, <3>1 DEF LinesGood, LineGood, l
        <4>2. ~(p[1] < 8)
              BY <3>1, <4>1, <1>1, <2>1, <2>5
        <4> DEFINE q1 == p[1]
                   q2 == p[2]
        <4>3. q1 \in Nat /\ q2 \in Nat /\ Painted(q1, q2) /\ ~(q1 < 8)
              BY <2>3, <2>5, <4>2
        <4> HIDE DEF q1, q2
        <4>4. q2 < Height
              BY <4>3, PaintedIs
        <4> QED BY <4>4 DEF q2
      <3>2. CASE \A j \in DOMAIN lines : lines[j].y + LineHeight <= Height
        <4>1. l.y + LineHeight <= Height
              BY <2>1, <3>2 DEF l
        <4> DEFINE q2 == p[2]
                   ly == l.y
        <4>2. q2 \in ly..(ly + LineHeight - 1) /\ ly \in Nat /\ ly + LineHeight <= Height
              BY <4>1, <2>1, <2>4
        <4> HIDE DEF q2, ly
        <4>3. q2 < Height
              BY <4>2, <1>1
        <4> QED BY <4>3 DEF q2
      <3> QED BY <3>1, <3>2, <1>7
    <2>7. p \in P
          BY <1>1, <2>4, <2>5, <2>6 DEF Box
    <2> HIDE DEF P
    <2> QED BY <2>3, <2>7, BitsOf
  <1>4. img \subseteq Int
    <2>1. Width * Height \in Int
          BY <1>1
    <2> QED BY <2>1, FramebufferIs
  <1> HIDE DEF P, new
  <1>5. Changed(new, img) \subseteq Bits(P)
    <2>1. y1 \in Nat
          BY <1>1
    <2>2. \A i \in 1..Len(text) : On(lines, i) # {} => Bits(SymbolCell(text, lines, i)) \subseteq Bits(P)
          BY <1>3
    <2> QED BY <2>1, <2>2, <1>4, DrawStringChanges DEF new, lines
  <1>6. 0 \in Nat /\ y1 \in Nat /\ Width - 1 \in Int /\ Height - 1 \in Int /\ Height - 1 < Height /\ Width - 1 < Width
        /\ P \subseteq Box(0, y1, Width - 1, Height - 1)
        BY <1>1 DEF P
  <1> QED BY ONLY <1>5, <1>6, img \subseteq Framebuffer, WithinTheBox DEF new

-----------------------------------------------------------------------------
(* What the texts and the buttons show.                                      *)

LEMMA TextIsComplete ==
  ASSUME NEW text \in Texts, NEW x1, NEW align, Margin(x1, align), NEW y1 \in Nat,
         Ordinary(text, x1, align)
  PROVE  LET lines == Lines(text, x1, y1, align)
             painted == UNION {lines[i].first..(lines[i].last - 1) : i \in DOMAIN lines}
         IN  lines[Len(lines)].last > Len(text)
               => \A i \in DOMAIN text \ painted : text[i] \in {"space", "newline"}
  <1> DEFINE lines == Lines(text, x1, y1, align)
             painted == UNION {lines[i].first..(lines[i].last - 1) : i \in DOMAIN lines}
             n == Len(lines)
  <1>1. /\ n \in DOMAIN lines
        /\ LinesGood(text, x1, y1, align, lines)
        /\ \A i \in 1..(lines[n].last) : \E k \in DOMAIN lines : i \in lines[k].first..lines[k].last
        BY LinesAre DEF LinesGood
  <1>2. Len(text) \in Nat /\ DOMAIN text = 1..Len(text)
        BY AtIs
  <1> HIDE DEF lines, n
  <1>3. ASSUME lines[n].last > Len(text), NEW i \in DOMAIN text, i \notin painted
        PROVE  text[i] \in {"space", "newline"}
    <2>1. lines[n].last \in Int
          BY <1>1 DEF LinesGood, LineGood, TextLine
    <2>2. i \in 1..(lines[n].last)
          BY <2>1, <1>2, <1>3
    <2>3. PICK k \in DOMAIN lines : i \in lines[k].first..lines[k].last
          BY <1>1, <2>2
    <2>4. LineGood(text, x1, y1, align, lines[k])
          BY <1>1 DEF LinesGood
    <2>5. lines[k].first \in Int /\ lines[k].last \in Int
          BY <2>4 DEF LineGood, TextLine
    <2>6. i \notin lines[k].first..(lines[k].last - 1)
          BY <1>3
    <2>7. i = lines[k].last
          BY <2>3, <2>5, <2>6
    <2>8. At(text, i) \in {"space", "newline", "end"}
          BY <2>4, <2>7 DEF LineGood
    <2>9. At(text, i) = text[i] /\ text[i] # "end"
          BY <1>2, AtIs
    <2> QED BY <2>8, <2>9
  <1> HIDE DEF painted
  <1>4. lines[n].last > Len(text) => \A i \in DOMAIN text \ painted : text[i] \in {"space", "newline"}
        BY <1>3
  <1> QED BY <1>4 DEF lines, painted, n

LEMMA LinesAreFit ==
  ASSUME NEW text \in Texts, NEW x1, NEW align, Margin(x1, align), NEW y1 \in Nat,
         Ordinary(text, x1, align)
  PROVE  LET lines == Lines(text, x1, y1, align)
         IN  \A i \in DOMAIN lines :
               LET l == lines[i] IN
               /\ l.x >= x1
               /\ l.x + Extent(text, l.first, l.last) <= x1 + PixPerLine(x1, align)
               /\ i > 1 => l.y >= lines[i - 1].y + LineHeight
  <1> DEFINE lines == Lines(text, x1, y1, align)
  <1>1. /\ LinesGood(text, x1, y1, align, lines)
        /\ DOMAIN lines = 1..Len(lines) /\ Len(lines) \in Nat
        /\ \A k, m \in DOMAIN lines : k < m => lines[k].y + LineHeight <= lines[m].y
        BY LinesAre DEF LinesGood
  <1> HIDE DEF lines
  <1>2. ASSUME NEW i \in DOMAIN lines
        PROVE  /\ lines[i].x >= x1
               /\ lines[i].x + Extent(text, lines[i].first, lines[i].last) <= x1 + PixPerLine(x1, align)
               /\ i > 1 => lines[i].y >= lines[i - 1].y + LineHeight
    <2>1. LineGood(text, x1, y1, align, lines[i])
          BY <1>1 DEF LinesGood
    <2>2. ASSUME i > 1 PROVE lines[i].y >= lines[i - 1].y + LineHeight
      <3>1. i - 1 \in DOMAIN lines /\ i - 1 < i
            BY <1>1, <2>2
      <3>2. lines[i - 1].y + LineHeight <= lines[i].y
            BY <1>1, <3>1
      <3>3. lines[i].y \in Int /\ lines[i - 1].y \in Int /\ LineHeight \in Int
            BY <1>1, <3>1, Sizes DEF LinesGood, LineGood, TextLine
      <3> DEFINE a == lines[i].y
                 b == lines[i - 1].y
      <3> HIDE DEF a, b
      <3>4. a >= b + LineHeight
            BY <3>2, <3>3 DEF a, b
      <3> QED BY <3>4 DEF a, b
    <2> QED BY <2>1, <2>2 DEF LineGood
  <1> QED BY <1>2 DEF lines

\* The cells of two symbols of a text have no point in common.
LEMMA CellsApart ==
  ASSUME NEW text \in Texts, NEW x1, NEW align, Margin(x1, align), NEW y1 \in Nat, NEW lines,
         LinesGood(text, x1, y1, align, lines), DOMAIN lines \subseteq Nat,
         \A k, m \in DOMAIN lines : k < m => lines[k].y + LineHeight <= lines[m].y,
         NEW i \in Nat, NEW j \in Nat, i # j, On(lines, i) # {}, On(lines, j) # {},
         NEW p \in SymbolCell(text, lines, i)
  PROVE  p \notin SymbolCell(text, lines, j)
  <1> DEFINE X(a) == SymbolX(text, lines, a)
             Y(a) == SymbolY(lines, a)
             A(a) == Advance(At(text, a))
             K(a) == LineOf(lines, a)
  <1>1. ASSUME NEW a \in Nat, On(lines, a) # {}
        PROVE  /\ K(a) \in DOMAIN lines /\ lines[K(a)].y = Y(a) /\ Y(a) \in Nat /\ X(a) \in Nat /\ A(a) \in Nat
               /\ lines[K(a)].first \in Nat \ {0} /\ a \in Nat \ {0} /\ lines[K(a)].x \in Nat
               /\ X(a) = lines[K(a)].x + Extent(text, lines[K(a)].first, a)
               /\ SymbolCell(text, lines, a) = (X(a)..(X(a) + A(a) - 1)) \X (Y(a)..(Y(a) + LineHeight - 1))
    <2>1. SymbolCell(text, lines, a) = (X(a)..(X(a) + A(a) - 1)) \X (Y(a)..(Y(a) + LineHeight - 1))
          BY DEF SymbolCell, Cell, Box
    <2>2. /\ a \in 1..Len(text) /\ LineOf(lines, a) \in DOMAIN lines
          /\ lines[LineOf(lines, a)].first \in Nat \ {0} /\ lines[LineOf(lines, a)].x \in Nat
          /\ SymbolX(text, lines, a) \in Nat /\ Advance(At(text, a)) \in Nat
          /\ SymbolX(text, lines, a) = lines[LineOf(lines, a)].x + Extent(text, lines[LineOf(lines, a)].first, a)
          /\ SymbolY(lines, a) = lines[LineOf(lines, a)].y /\ lines[LineOf(lines, a)].y \in Nat
      <3>1. text \in Texts /\ y1 \in Nat /\ LinesGood(text, x1, y1, align, lines) /\ a \in Nat
            OBVIOUS
      <3> QED BY ONLY <1>1, <3>1, SymbolIs
    <2>3. a \in Nat \ {0}
          BY <2>2
    <2> QED BY <2>1, <2>2, <2>3
  <1>2. LineHeight \in Nat
        BY Sizes
  <1> HIDE DEF X, Y, A, K
  <1>3. ASSUME NEW a \in Nat, NEW b \in Nat, On(lines, a) # {}, On(lines, b) # {}, a < b, K(a) = K(b)
        PROVE  X(a) + A(a) <= X(b)
    <2> DEFINE first == lines[K(a)].first
               ea == Extent(text, first, a)
               en == Extent(text, first, a + 1)
               eb == Extent(text, first, b)
    <2>1. first \in Nat \ {0} /\ a \in Nat \ {0} /\ b \in Nat \ {0} /\ a + 1 \in Nat \ {0} /\ a + 1 <= b
          BY <1>1, <1>3
    <2> HIDE DEF first
    <2>2. ea \in Int /\ en = ea + A(a) /\ eb \in Int /\ en <= eb
          BY <2>1, ExtentIs DEF A
    <2>3. X(a) = lines[K(a)].x + ea /\ X(b) = lines[K(a)].x + eb /\ lines[K(a)].x \in Nat /\ A(a) \in Nat
          BY <1>1, <1>3 DEF first
    <2> HIDE DEF ea, en, eb
    <2> QED BY <2>2, <2>3
  <1>4. ASSUME NEW a \in Nat, NEW b \in Nat, On(lines, a) # {}, On(lines, b) # {}, K(a) < K(b)
        PROVE  Y(a) + LineHeight <= Y(b)
        BY <1>1, <1>4
  <1>5. K(i) \in Nat /\ K(j) \in Nat
        BY <1>1
  <1>6. /\ p = <<p[1], p[2]>> /\ p[1] \in X(i)..(X(i) + A(i) - 1) /\ p[2] \in Y(i)..(Y(i) + LineHeight - 1)
        BY <1>1
  <1> SUFFICES ASSUME p \in SymbolCell(text, lines, j) PROVE FALSE
      OBVIOUS
  <1>7. p[1] \in X(j)..(X(j) + A(j) - 1) /\ p[2] \in Y(j)..(Y(j) + LineHeight - 1)
        BY <1>1
  <1> DEFINE u == p[1]
             v == p[2]
  <1>8. /\ X(i) \in Nat /\ X(j) \in Nat /\ Y(i) \in Nat /\ Y(j) \in Nat /\ A(i) \in Nat /\ A(j) \in Nat
        /\ u \in X(i)..(X(i) + A(i) - 1) /\ v \in Y(i)..(Y(i) + LineHeight - 1)
        /\ u \in X(j)..(X(j) + A(j) - 1) /\ v \in Y(j)..(Y(j) + LineHeight - 1)
        BY <1>1, <1>6, <1>7
  <1> HIDE DEF u, v
  <1>9. CASE K(i) = K(j) /\ i < j
    <2>1. X(i) + A(i) <= X(j)
          BY <1>3, <1>9
    <2> QED BY <2>1, <1>8
  <1>10. CASE K(i) = K(j) /\ j < i
    <2>1. X(j) + A(j) <= X(i)
          BY <1>3, <1>10
    <2> QED BY <2>1, <1>8
  <1>11. CASE K(i) < K(j)
    <2>1. Y(i) + LineHeight <= Y(j)
          BY <1>4, <1>11
    <2> QED BY <2>1, <1>2, <1>8
  <1>12. CASE K(j) < K(i)
    <2>1. Y(j) + LineHeight <= Y(i)
          BY <1>4, <1>12
    <2> QED BY <2>1, <1>2, <1>8
  <1> QED BY <1>5, <1>9, <1>10, <1>11, <1>12

\* A pixel that has ink is inverted.
InkX(x, s, col) == x + Font[s].ofs_x + col
InkY(y, s, row) == y + LineHeight - BaseLine - Font[s].height - Font[s].ofs_y + row

LEMMA InkInCell ==
  ASSUME NEW x \in Nat, NEW y \in Nat, NEW s \in Symbols,
         NEW row \in 0..(Font[s].height - 1), NEW col \in 0..(Font[s].width - 1)
  PROVE  /\ InkX(x, s, col) \in (x + Font[s].ofs_x)..(x + Advance(s) - 1)
         /\ InkY(y, s, row) \in (y + LineHeight - BaseLine - Font[s].height - Font[s].ofs_y)..(y + LineHeight - 1)
         /\ y + LineHeight - BaseLine - Font[s].height - Font[s].ofs_y \in Nat
         /\ y + LineHeight - BaseLine - Font[s].height - Font[s].ofs_y >= y
         /\ <<InkX(x, s, col), InkY(y, s, row)>> \in Cell(x, y, s)
  <1> DEFINE w == Font[s].width
             h == Font[s].height
             o == Font[s].sym_offset
             u == Font[s].ofs_x
             v == Font[s].ofs_y
             top == y + LineHeight - BaseLine - h - v
             X == InkX(x, s, col)
             Y == InkY(y, s, row)
  <1>1. /\ w \in Nat \ {0} /\ h \in Nat \ {0} /\ o \in Nat \ {0} /\ u \in Nat /\ v \in Int /\ u <= o
        /\ v + BaseLine >= 0 /\ h + v + BaseLine <= LineHeight /\ BaseLine \in Nat /\ LineHeight \in Nat
        /\ Advance(s) = w + o /\ row \in 0..(h - 1) /\ col \in 0..(w - 1)
        BY GlyphIs, Sizes
  <1>2. X = x + u + col /\ Y = top + row
        BY DEF InkX, InkY
  <1> HIDE DEF w, h, o, u, v, X, Y
  <1>3. /\ X \in (x + u)..(x + (w + o) - 1) /\ Y \in top..(y + LineHeight - 1)
        /\ top \in Nat /\ top >= y
        BY <1>1, <1>2
  <1> HIDE DEF top
  <1>4. X \in x..(x + Advance(s) - 1) /\ Y \in y..(y + LineHeight - 1)
        BY <1>1, <1>3
  <1>5. <<X, Y>> \in Cell(x, y, s)
        BY <1>4 DEF Cell, Box
  <1> QED BY <1>1, <1>3, <1>5 DEF X, Y, u, v, h, top

LEMMA DrawCharInverts ==
  ASSUME NEW img, NEW x \in Nat, NEW y \in Nat, NEW s \in Symbols,
         NEW row \in 0..(Font[s].height - 1), NEW col \in 0..(Font[s].width - 1), Ink(Font[s], row, col),
         InkX(x, s, col) < Width, InkY(y, s, row) < Height
  PROVE  LET b == Bit(InkX(x, s, col), InkY(y, s, row))
         IN  b \in DrawChar(img, x, y, s, "invert") <=> b \notin img
  <1> DEFINE dsc == Font[s]
             top == y + LineHeight - BaseLine - dsc.height - dsc.ofs_y
             left == x + dsc.ofs_x
             X == InkX(x, s, col)
             Y == InkY(y, s, row)
             b == Bit(X, Y)
             pixels == (0..(dsc.height - 1)) \X (0..(dsc.width - 1))
             inked == {<<left + p[2], top + p[1]>> : p \in {q \in pixels : Ink(dsc, q[1], q[2])}}
  <1>1. /\ X \in left..(x + Advance(s) - 1) /\ Y \in top..(y + LineHeight - 1)
        /\ top \in Nat /\ top >= y /\ left \in Nat /\ left >= x /\ X < Width /\ Y < Height
    <2>1. dsc.ofs_x \in Nat
          BY GlyphIs
    <2>2. left \in Nat /\ left >= x
      <3> DEFINE u == dsc.ofs_x
      <3> HIDE DEF u
      <3> QED BY <2>1 DEF u
    <2>3. X \in left..(x + Advance(s) - 1) /\ Y \in top..(y + LineHeight - 1) /\ top \in Nat /\ top >= y
          BY InkInCell
    <2> QED BY <2>2, <2>3
  <1>2. X = left + col /\ Y = top + row
        BY DEF InkX, InkY
  <1> HIDE DEF top, left, X, Y
  <1>3. ~(x > Width) /\ ~(y > Height) /\ ~(left >= Width) /\ ~(top >= Height)
        /\ X \in Nat /\ Y \in Nat
    <2>1. Width \in Nat /\ Height \in Nat /\ LineHeight \in Nat /\ Advance(s) \in Nat
          BY Sizes, AdvanceIs
    <2> QED BY <1>1, <2>1
  <1>4. BitMap(img, left, top, dsc, "invert") = InvertPixels(img, inked)
        BY <1>3 DEF BitMap
  <1>5. DrawChar(img, x, y, s, "invert") = InvertPixels(img, inked)
        BY <1>3, <1>4 DEF DrawChar, left, top
  <1>6. <<X, Y>> \in inked
    <2> DEFINE p == <<row, col>>
    <2>1. p \in pixels /\ p[1] = row /\ p[2] = col /\ Ink(dsc, p[1], p[2])
          OBVIOUS
    <2> HIDE DEF p, pixels
    <2> QED BY <2>1, <1>2
  <1> HIDE DEF inked
  <1>7. b \in Bits(inked)
    <2>1. Painted(X, Y)
          BY <1>1, <1>3, BitInside
    <2> DEFINE q == <<X, Y>>
    <2>2. q \in inked /\ q[1] = X /\ q[2] = Y
          BY <1>6
    <2> HIDE DEF q
    <2> QED BY <2>1, <2>2, BitsOf
  <1> HIDE DEF b
  <1>8. b \in InvertPixels(img, inked) <=> b \notin img
        BY <1>7 DEF InvertPixels
  <1> QED BY <1>5, <1>8 DEF b, X, Y

\* The text of a button is within it from top on.
LEMMA ButtonTop ==
  ASSUME NEW text \in Texts, NEW y1 \in Ys, NEW y2 \in Ys, LineHeight * LinesOf(text) <= (y2 - y1) + 1
  PROVE  /\ TextTop(y1, y2 - y1, text) \in Nat /\ TextTop(y1, y2 - y1, text) >= y1
         /\ TextTop(y1, y2 - y1, text) + LineHeight * LinesOf(text) <= y2 + 1
         /\ LinesOf(text) \in Nat /\ LineHeight * LinesOf(text) \in Nat /\ y1 \in Nat /\ y2 \in Nat /\ y2 < Height
  <1> DEFINE m == LineHeight * LinesOf(text)
             free == (y2 - y1) - m
  <1>1. y1 \in Nat /\ y2 \in Nat /\ y2 < Height
        BY DisplayAssumption
  <1>2. LinesOf(text) \in Nat /\ m \in Nat
        BY NewlinesAre, Sizes
  <1>3. TextTop(y1, y2 - y1, text) = IF free > 0 THEN y1 + free \div 2 ELSE y1
        BY DEF TextTop
  <1>4. m <= (y2 - y1) + 1
        OBVIOUS
  <1> HIDE DEF m
  <1>5. free \in Int /\ (free > 0 => free \div 2 \in Nat /\ 2 * (free \div 2) <= free)
        BY <1>1, <1>2
  <1> DEFINE half == free \div 2
  <1> HIDE DEF half
  <1>6. free > 0 => half \in Nat /\ 2 * half <= free
        BY <1>5 DEF half
  <1>7. TextTop(y1, y2 - y1, text) = IF free > 0 THEN y1 + half ELSE y1
        BY <1>3 DEF half
  <1> QED BY <1>1, <1>2, <1>4, <1>5, <1>6, <1>7 DEF m

LEMMA ButtonIs ==
  ASSUME NEW text \in Texts, NEW x \in TextXs, NEW y1 \in Ys, NEW y2 \in Ys, NEW base, NEW pressed,
         NEW img, img \subseteq Framebuffer, x >= 8, Width - 2 * x > 0,
         LineHeight * LinesOf(text) <= (y2 - y1) + 1, Ordinary(text, x, "center"),
         LET lines == Lines(text, x, TextTop(y1, y2 - y1, text), "center")
         IN  \A k \in DOMAIN lines : At(text, lines[k].last) \in {"newline", "end"}
  PROVE  LET w == Width - 2 * x
             new == Button(img, x, y1, w, y2 - y1, text, base, pressed)
             box == Box(x, y1, x + w, y2)
             plain == SetPixels(img, box, ButtonFill(base, pressed))
         IN  /\ new \subseteq Framebuffer /\ Changed(new, img) \subseteq Inside(<<x, y1, x + w, y2>>)
             /\ Changed(new, plain) \subseteq Bits(box)
             /\ (\E i \in DOMAIN text : text[i] \notin {"space", "newline"} /\ Visible(text[i]))
                  => new # plain
  <1> DEFINE w == Width - 2 * x
             h == y2 - y1
             new == Button(img, x, y1, w, h, text, base, pressed)
             box == Box(x, y1, x + w, y2)
             fill == ButtonFill(base, pressed)
             plain == SetPixels(img, box, fill)
             top == TextTop(y1, h, text)
             lines == Lines(text, x, top, "center")
  <1>1. /\ x \in Nat /\ x >= 8 /\ x < Width /\ Width \in Nat \ {0} /\ Height \in Nat \ {0}
        /\ LineHeight \in Nat \ {0}
        BY DisplayAssumption
  <1>2. /\ top \in Nat /\ top >= y1 /\ top + LineHeight * LinesOf(text) <= y2 + 1 /\ LinesOf(text) \in Nat
        /\ LineHeight * LinesOf(text) \in Nat /\ y1 \in Nat /\ y2 \in Nat /\ y2 < Height
        BY ButtonTop
  <1>3. Margin(x, "center") /\ PixPerLine(x, "center") = w /\ w \in Nat /\ x + w < Width /\ x + w \in Nat
    <2>1. 2 * x <= Width
          BY <1>1
    <2> QED BY <1>1, <2>1 DEF Margin, PixPerLine
  <1>4. /\ LinesGood(text, x, top, "center", lines)
        /\ Len(lines) \in Nat \ {0} /\ DOMAIN lines = 1..Len(lines)
        /\ \A k, m \in DOMAIN lines : k < m => lines[k].y + LineHeight <= lines[m].y
        /\ \A i \in 1..(lines[Len(lines)].last) :
             \E k \in DOMAIN lines : i \in lines[k].first..lines[k].last
        /\ lines[Len(lines)].last = Len(text) + 1 \/ lines[Len(lines)].y + LineHeight > Height
        /\ \A k \in DOMAIN lines : At(text, lines[k].last) \in {"newline", "end"}
        /\ \A k \in DOMAIN lines : lines[k].y = top + LineHeight * (k - 1) /\ k <= LinesOf(text)
    <2>1. \A k \in DOMAIN lines : At(text, lines[k].last) \in {"newline", "end"}
          OBVIOUS
    <2>2. top \in Nat /\ Margin(x, "center")
          BY <1>2, <1>3
    <2> HIDE DEF top
    <2> QED BY <2>1, <2>2, LinesAre DEF LinesGood
  <1>5. new = DrawString(plain, text, x, top, "center", "invert")
    <2>1. y1 + (y2 - y1) = y2
          BY <1>2
    <2>2. Fits(x, y1, x + w, y2)
          BY <1>1, <1>2, <1>3 DEF Fits
    <2> QED BY <2>1, <2>2 DEF Button, FilledRectangle
  <1> HIDE DEF top, lines, w, new, fill
  <1>6. \A k \in DOMAIN lines : lines[k].y \in Nat /\ lines[k].y >= y1 /\ lines[k].y + LineHeight <= y2 + 1
    <2> TAKE k \in DOMAIN lines
    <2>1. k \in Nat /\ k >= 1 /\ k <= LinesOf(text) /\ lines[k].y = top + LineHeight * (k - 1)
          BY <1>4
    <2>2. LineHeight * (k - 1) \in Nat
          BY <2>1, <1>1
    <2>3. LineHeight * (k - 1) + LineHeight <= LineHeight * LinesOf(text)
      <3>1. LinesOf(text) - k \in Nat
            BY <2>1, <1>2
      <3>2. LineHeight * (LinesOf(text) - k) >= 0
            BY <3>1, <1>1
      <3>3. LineHeight * (LinesOf(text) - k) = LineHeight * LinesOf(text) - LineHeight * (k - 1) - LineHeight
            BY <2>1, <1>1, <1>2
      <3> QED BY <3>2, <3>3, <2>2, <1>1, <1>2
    <2> QED BY <2>1, <2>2, <2>3, <1>1, <1>2
  <1>7. ASSUME NEW i \in 1..Len(text), On(lines, i) # {} PROVE SymbolCell(text, lines, i) \subseteq box
    <2> DEFINE k == LineOf(lines, i)
               l == lines[k]
               u == SymbolX(text, lines, i)
               a == Advance(At(text, i))
               e == Extent(text, l.first, l.last)
    <2>1. /\ k \in DOMAIN lines /\ u \in Nat /\ u >= l.x /\ l.x \in Nat /\ a \in Nat
          /\ u + a <= l.x + e /\ SymbolY(lines, i) = l.y /\ e \in Int
      <3>1. i \in Nat /\ top \in Nat /\ LinesGood(text, x, top, "center", lines) /\ On(lines, i) # {}
            BY <1>2, <1>4, <1>7
      <3> QED BY ONLY text \in Texts, <3>1, SymbolIs
    <2>2. SymbolCell(text, lines, i) = (u..(u + a - 1)) \X (l.y..(l.y + LineHeight - 1))
          BY <2>1 DEF SymbolCell, Cell, Box
    <2>3. l.x >= x /\ l.x + e <= x + w
      <3>1. LineGood(text, x, top, "center", l)
            BY <1>4, <2>1 DEF LinesGood
      <3> QED BY <3>1, <1>3 DEF LineGood
    <2>4. l.y \in Nat /\ l.y >= y1 /\ l.y + LineHeight <= y2 + 1
          BY <1>6, <2>1
    <2> HIDE DEF u, a, e, k
    <2>5. u..(u + a - 1) \subseteq x..(x + w)
      <3> DEFINE lx == l.x
      <3>1. lx \in Nat /\ u >= lx /\ u + a <= lx + e /\ lx >= x /\ lx + e <= x + w
            BY <2>1, <2>3
      <3> HIDE DEF lx
      <3> QED BY <3>1, <2>1, <1>1, <1>3, SMTT(30)
    <2>6. l.y..(l.y + LineHeight - 1) \subseteq y1..y2
      <3> DEFINE ly == l.y
      <3>1. ly \in Nat /\ ly >= y1 /\ ly + LineHeight <= y2 + 1
            BY <2>4
      <3> HIDE DEF ly
      <3>2. ly..(ly + LineHeight - 1) \subseteq y1..y2
            BY <3>1, <1>1, <1>2
      <3> QED BY <3>2 DEF ly
    <2> HIDE DEF l
    <2> QED BY <2>2, <2>5, <2>6 DEF Box
  <1>8. img \subseteq Int /\ plain \subseteq Framebuffer /\ plain \subseteq Int
        /\ Changed(plain, img) \subseteq Bits(box)
    <2>1. Width * Height \in Int
          BY <1>1
    <2>2. Framebuffer \subseteq Int
          BY <2>1, FramebufferIs
    <2>3. Bits(box) \subseteq Framebuffer
      <3>1. x + w \in Int /\ y2 \in Int /\ x + w < Width
            BY <1>2, <1>3
      <3> QED BY <3>1, <1>1, <1>2, InsideBox
    <2> HIDE DEF box
    <2>4. plain \subseteq Framebuffer
          BY <2>3 DEF SetPixels
    <2>5. Changed(plain, img) \subseteq Bits(box)
          BY SetChanges
    <2> HIDE DEF plain
    <2> QED BY <2>2, <2>4, <2>5
  <1> HIDE DEF plain
  <1>9. Changed(new, plain) \subseteq Bits(box)
    <2>1. ASSUME NEW i \in 1..Len(text), On(lines, i) # {}
          PROVE  Bits(SymbolCell(text, lines, i)) \subseteq Bits(box)
      <3>1. SymbolCell(text, lines, i) \subseteq box
            BY <1>7, <2>1
      <3> QED BY <3>1, BitsOfUnion
    <2> HIDE DEF box
    <2> QED BY <2>1, <1>2, <1>3, <1>5, <1>8, DrawStringChanges DEF lines
  <1>10. new \subseteq Framebuffer /\ Changed(new, img) \subseteq Inside(<<x, y1, x + w, y2>>)
    <2>1. Changed(new, img) \subseteq Bits(box)
          BY <1>8, <1>9, ChangesAdd
    <2>2. x \in Nat /\ y1 \in Nat /\ x + w \in Int /\ y2 \in Int /\ y2 < Height /\ x + w < Width
          /\ box \subseteq Box(x, y1, x + w, y2)
          BY <1>1, <1>2, <1>3
    <2> HIDE DEF box
    <2> QED BY ONLY <2>1, <2>2, img \subseteq Framebuffer, WithinTheBox
  <1>11. ASSUME NEW i \in DOMAIN text, text[i] \notin {"space", "newline"}, Visible(text[i])
         PROVE  new # plain
    <2> DEFINE s == text[i]
    <2>1. i \in 1..Len(text) /\ Len(text) \in Nat /\ s \in Symbols /\ At(text, i) = s /\ s \notin {"newline", "end"}
          BY <1>11, AtIs
    <2>2. On(lines, i) # {}
      <3>1. lines[Len(lines)].last = Len(text) + 1
        <4> DEFINE n == Len(lines)
        <4>1. n \in DOMAIN lines
              BY <1>4
        <4> HIDE DEF n
        <4>2. lines[n].y \in Nat /\ lines[n].y + LineHeight <= y2 + 1
              BY <4>1, <1>6
        <4> DEFINE yn == lines[n].y
        <4> HIDE DEF yn
        <4>3. ~(yn + LineHeight > Height)
              BY <4>2, <1>1, <1>2 DEF yn
        <4> QED BY <4>3, <1>4 DEF yn, n
      <3>2. i \in 1..(lines[Len(lines)].last)
            BY <2>1, <3>1
      <3>3. PICK k \in DOMAIN lines : i \in lines[k].first..lines[k].last
            BY <3>2, <1>4
      <3>4. i # lines[k].last
            BY <2>1, <1>4
      <3>5. lines[k].first \in Int /\ lines[k].last \in Int
            BY <1>4 DEF LinesGood, LineGood, TextLine
      <3>6. i \in lines[k].first..(lines[k].last - 1)
            BY <3>3, <3>4, <3>5
      <3> QED BY <3>6 DEF On
    <2>3. PICK row \in 0..(Font[s].height - 1), col \in 0..(Font[s].width - 1) : Ink(Font[s], row, col)
          BY <1>11 DEF Visible
    <2> DEFINE u == SymbolX(text, lines, i)
               v == SymbolY(lines, i)
               X == InkX(u, s, col)
               Y == InkY(v, s, row)
               b == Bit(X, Y)
    <2>4. u \in Nat /\ v \in Nat
      <3>1. i \in Nat /\ top \in Nat /\ LinesGood(text, x, top, "center", lines)
            BY <1>2, <1>4, <2>1
      <3>2. /\ SymbolX(text, lines, i) \in Nat /\ SymbolY(lines, i) = lines[LineOf(lines, i)].y
            /\ lines[LineOf(lines, i)].y \in Nat
            BY ONLY text \in Texts, <2>2, <3>1, SymbolIs
      <3> QED BY <3>2
    <2>5. <<X, Y>> \in SymbolCell(text, lines, i)
      <3> HIDE DEF u, v
      <3>1. <<X, Y>> \in Cell(u, v, s)
        <4> HIDE DEF s
        <4> QED BY <2>1, <2>3, <2>4, InkInCell
      <3> QED BY <3>1, <2>1 DEF SymbolCell, u, v
    <2>6. <<X, Y>> \in box
          BY <1>7, <2>1, <2>2, <2>5
    <2>7. X \in 0..(Width - 1) /\ Y \in 0..(Height - 1)
      <3> HIDE DEF X, Y
      <3>1. X \in x..(x + w) /\ Y \in y1..y2
            BY <2>6 DEF Box
      <3> QED BY <3>1, <1>1, <1>2, <1>3
    <2>8. \A im : b \in DrawSymbol(im, text, i, lines, "invert") <=> b \notin im
      <3> TAKE im
      <3>1. DrawSymbol(im, text, i, lines, "invert") = DrawChar(im, u, v, s, "invert")
            BY <2>1, <2>2, DrawSymbolIs
      <3>2. InkX(u, s, col) < Width /\ InkY(v, s, row) < Height
        <4> HIDE DEF u, v, s
        <4>1. X < Width /\ Y < Height
          <5> HIDE DEF X, Y
          <5> QED BY <2>7, <1>1
        <4> QED BY <4>1
      <3> HIDE DEF u, v, s
      <3>3. b \in DrawChar(im, u, v, s, "invert") <=> b \notin im
            BY <2>1, <2>3, <2>4, <3>2, DrawCharInverts
      <3> QED BY <3>1, <3>3
    <2> HIDE DEF X, Y
    <2>9. ASSUME NEW j \in Nat, j # i, On(lines, j) # {} PROVE b \notin Bits(SymbolCell(text, lines, j))
      <3>1. DOMAIN lines \subseteq Nat
            BY <1>4
      <3>2. <<X, Y>> \notin SymbolCell(text, lines, j)
        <4>1. i \in Nat
              BY <2>1
        <4> QED BY <2>2, <2>5, <2>9, <3>1, <4>1, <1>2, <1>3, <1>4, CellsApart
      <3>3. SymbolCell(text, lines, j) \in SUBSET ((0..(Width - 1)) \X Nat)
        <4>1. j \in 1..Len(text)
              BY <2>9, <1>2, <1>4, SymbolIs
        <4>2. SymbolCell(text, lines, j) \subseteq box
              BY <4>1, <2>9, <1>7
        <4>3. box \subseteq (0..(Width - 1)) \X Nat
              BY <1>1, <1>2, <1>3 DEF Box
        <4> HIDE DEF box
        <4> QED BY <4>2, <4>3
      <3> QED BY <2>7, <3>2, <3>3, BitsApart
    <2> DEFINE V == SUBSET Int
               F == [r \in Nat \X V |-> DrawSymbol(r[2], text, r[1], lines, "invert")]
               J == [n \in Nat |-> {im \in V : IF n < i THEN b \in im <=> b \in plain
                                               ELSE b \in im <=> b \notin plain}]
    <2>10. \A n \in Nat : \A im \in V : F[<<n, im>>] = DrawSymbol(im, text, n, lines, "invert")
           OBVIOUS
    <2>11. new = Rounds(F, plain)[Len(text)]
      <3>1. ~(x > Width) /\ ~(top > Height)
            BY <1>1, <1>2
      <3> QED BY <3>1, <1>5 DEF DrawString, lines
    <2> HIDE DEF F, b
    <2>12. ASSUME NEW n \in Nat, NEW im \in V
           PROVE  /\ F[<<n, im>>] \in V
                  /\ b \in F[<<n, im>>] <=> IF n = i THEN b \notin im ELSE b \in im
      <3> DEFINE next == DrawSymbol(im, text, n, lines, "invert")
      <3>1. F[<<n, im>>] = next
            BY <2>10
      <3>2. next \subseteq Int
            BY <1>2, <1>4, DrawSymbolChanges
      <3>3. CASE n = i
        <4>1. b \in next <=> b \notin im
              BY <2>8, <3>3
        <4> HIDE DEF next
        <4> QED BY <3>1, <3>2, <3>3, <4>1
      <3>4. CASE n # i
        <4>1. b \in next <=> b \in im
          <5>1. CASE On(lines, n) = {}
            <6>1. next = im
                  BY <1>2, <1>4, <5>1, DrawSymbolChanges
            <6> QED BY <6>1
          <5>2. CASE On(lines, n) # {}
            <6>1. Changed(next, im) \subseteq Bits(SymbolCell(text, lines, n))
                  BY <1>2, <1>4, <5>2, DrawSymbolChanges
            <6>2. b \notin Changed(next, im)
                  BY <6>1, <5>2, <3>4, <2>9
            <6> HIDE DEF next
            <6> QED BY <6>2 DEF Changed
          <5> QED BY <5>1, <5>2
        <4> HIDE DEF next
        <4> QED BY <3>1, <3>2, <3>4, <4>1
      <3> QED BY <3>3, <3>4
    <2>13. Closed(F, V)
           BY <2>12 DEF Closed
    <2>14. \A n \in Nat : J[n] \subseteq V
           OBVIOUS
    <2>15. plain \in J[0]
      <3>1. 0 < i
            BY <2>1
      <3> QED BY <3>1, <1>8
    <2>16. ASSUME NEW n \in Nat, NEW im \in J[n] PROVE F[<<n + 1, im>>] \in J[n + 1]
      <3>1. n + 1 \in Nat /\ im \in V /\ IF n < i THEN b \in im <=> b \in plain ELSE b \in im <=> b \notin plain
            OBVIOUS
      <3> DEFINE next == F[<<n + 1, im>>]
      <3>2. next \in V /\ (b \in next <=> IF n + 1 = i THEN b \notin im ELSE b \in im)
            BY <3>1, <2>12
      <3> HIDE DEF next
      <3>3. i \in Nat
            BY <2>1
      <3>4. IF n + 1 < i THEN b \in next <=> b \in plain ELSE b \in next <=> b \notin plain
        <4>1. CASE n + 1 < i
          <5>1. n < i /\ n + 1 # i
                BY <4>1, <3>3
          <5> QED BY <4>1, <5>1, <3>1, <3>2
        <4>2. CASE n + 1 = i
          <5>1. n < i /\ ~(n + 1 < i)
                BY <4>2, <3>3
          <5> QED BY <4>2, <5>1, <3>1, <3>2
        <4>3. CASE n + 1 > i
          <5>1. ~(n < i) /\ n + 1 # i /\ ~(n + 1 < i)
                BY <4>3, <3>3
          <5> QED BY <5>1, <3>1, <3>2
        <4> QED BY <3>3, <4>1, <4>2, <4>3
      <3>5. next \in J[n + 1]
            BY <3>1, <3>2, <3>4
      <3> QED BY <3>5 DEF next
    <2>17. \A n \in Nat : Rounds(F, plain)[n] \in J[n]
      <3> HIDE DEF J, V
      <3> QED BY <2>13, <2>14, <2>15, <2>16, RoundsKeep
    <2>18. b \in new <=> b \notin plain
      <3>1. Len(text) \in Nat /\ ~(Len(text) < i)
            BY <2>1
      <3>2. Rounds(F, plain)[Len(text)] \in J[Len(text)]
            BY <3>1, <2>17
      <3> QED BY <3>1, <3>2, <2>11
    <2> QED BY <2>18
  <1>12. (\E i \in DOMAIN text : text[i] \notin {"space", "newline"} /\ Visible(text[i])) => new # plain
         BY <1>11
  <1> QED BY <1>9, <1>10, <1>12 DEF new, plain, fill, w

-----------------------------------------------------------------------------
(* The invariant: beside the properties, what the requests that paint again   *)
(* find of the one before them.                                              *)

Boxes == Nat \X Nat \X Nat \X Nat

BarDrawn ==
  drawn.kind = "bar" =>
    /\ drawn \in [kind : {"bar"}, box : Boxes, percent : Int]
    /\ drawn.box[1] < drawn.box[3] /\ drawn.box[3] < Width
    /\ drawn.box[2] < drawn.box[4] /\ drawn.box[4] < Height

BatteryDrawn ==
  drawn.kind = "battery" =>
    /\ drawn \in [kind : {"battery"}, box : Boxes, percent : Int]
    /\ drawn.box[3] = drawn.box[1] + 13 /\ drawn.box[3] < Width
    /\ drawn.box[4] = drawn.box[2] + 7 /\ drawn.box[4] < Height

PaintInv ==
  /\ TypeOK /\ OnlyTheShape /\ RedrawsClean /\ OutlineIsClosed /\ ReadsTheBitmap
  /\ TextComplete /\ LinesFit /\ ButtonReadable
  /\ drawn = Nothing => image = before
  /\ BarDrawn /\ BatteryDrawn

LEMMA PaintInit == Init => PaintInv
  <1> SUFFICES ASSUME Init PROVE PaintInv
      OBVIOUS
  <1>1. drawn = Nothing /\ drawn.kind = "nothing" /\ image = before /\ color = 0 /\ image \subseteq Framebuffer
        BY ClearIs DEF Init, Nothing
  <1>2. TypeOK /\ OnlyTheShape
        BY <1>1 DEF TypeOK, OnlyTheShape
  <1>3. RedrawsClean /\ OutlineIsClosed /\ ReadsTheBitmap
        BY <1>1 DEF RedrawsClean, OutlineIsClosed, ReadsTheBitmap
  <1>4. TextComplete /\ LinesFit /\ ButtonReadable
        BY <1>1 DEF TextComplete, LinesFit, ButtonReadable
  <1>5. BarDrawn /\ BatteryDrawn
        BY <1>1 DEF BarDrawn, BatteryDrawn
  <1> QED BY <1>1, <1>2, <1>3, <1>4, <1>5 DEF PaintInv

\* A display with nothing on it.
LEMMA NothingDrawn ==
  ASSUME drawn' = Nothing, image' = before', image' \subseteq Framebuffer, color' \in {0, 1}
  PROVE  PaintInv'
  <1>1. drawn'.kind = "nothing"
        BY DEF Nothing
  <1>2. TypeOK' /\ OnlyTheShape'
        BY <1>1 DEF TypeOK, OnlyTheShape
  <1>3. RedrawsClean' /\ OutlineIsClosed' /\ ReadsTheBitmap'
        BY <1>1 DEF RedrawsClean, OutlineIsClosed, ReadsTheBitmap
  <1>4. TextComplete' /\ LinesFit' /\ ButtonReadable'
        BY <1>1 DEF TextComplete, LinesFit, ButtonReadable
  <1>5. BarDrawn' /\ BatteryDrawn'
        BY <1>1 DEF BarDrawn, BatteryDrawn
  <1> QED BY <1>2, <1>3, <1>4, <1>5 DEF PaintInv

\* A request that keeps to its box: what is left to show is what its kind is to show.
LEMMA RequestDrawn ==
  ASSUME PaintInv, NEW k, NEW b, drawn'.kind = k, drawn'.box = b,
         k \in {"rectangle", "filled", "window", "bar", "battery", "bitmap", "text", "button"},
         color' = color, before' \subseteq Framebuffer, image' \subseteq Framebuffer,
         Changed(image', before') \subseteq Inside(b)
  PROVE  /\ k \notin {"bar", "battery"} => RedrawsClean' /\ BarDrawn' /\ BatteryDrawn'
         /\ k # "rectangle" => OutlineIsClosed'
         /\ k # "bitmap" => ReadsTheBitmap'
         /\ k # "text" => TextComplete' /\ LinesFit'
         /\ k # "button" => ButtonReadable'
         /\ k # "bar" => BarDrawn'
         /\ k # "battery" => BatteryDrawn'
         /\ /\ RedrawsClean' /\ OutlineIsClosed' /\ ReadsTheBitmap' /\ TextComplete' /\ LinesFit'
            /\ ButtonReadable' /\ BarDrawn' /\ BatteryDrawn'
            => PaintInv'
  <1>1. drawn'.kind # "nothing" /\ drawn' # Nothing
        BY DEF Nothing
  <1>2. TypeOK'
        BY DEF TypeOK, PaintInv
  <1>3. OnlyTheShape'
        BY <1>1 DEF OnlyTheShape, Changed, Inside
  <1>4. k \notin {"bar", "battery"} => RedrawsClean'
        BY DEF RedrawsClean
  <1>5. (k # "bar" => BarDrawn') /\ (k # "battery" => BatteryDrawn')
        BY DEF BarDrawn, BatteryDrawn
  <1>6. k # "rectangle" => OutlineIsClosed'
        BY DEF OutlineIsClosed
  <1>7. k # "bitmap" => ReadsTheBitmap'
        BY DEF ReadsTheBitmap
  <1>8. k # "text" => TextComplete' /\ LinesFit'
        BY DEF TextComplete, LinesFit
  <1>9. k # "button" => ButtonReadable'
        BY DEF ButtonReadable
  <1>10. /\ RedrawsClean' /\ OutlineIsClosed' /\ ReadsTheBitmap' /\ TextComplete' /\ LinesFit'
         /\ ButtonReadable' /\ BarDrawn' /\ BatteryDrawn'
         => PaintInv'
         BY <1>1, <1>2, <1>3 DEF PaintInv
  <1> QED BY <1>4, <1>5, <1>6, <1>7, <1>8, <1>9, <1>10

LEMMA ShapeInv == PaintInv /\ PaintShape => PaintInv'
  <1> SUFFICES ASSUME PaintInv, PaintShape PROVE PaintInv'
      OBVIOUS
  <1> PICK x1 \in Xs, x2 \in Xs, y1 \in Ys, y2 \in Ys :
        /\ x1 <= x2 /\ y1 <= y2 /\ (x2 = Width => y2 < Height - 1)
        /\ \/ Request("rectangle", Rectangle(image, x1, y1, x2, y2, color), <<x1, y1, x2, y2>>)
           \/ Request("filled", FilledRectangle(image, x1, y1, x2, y2, color), <<x1, y1, x2, y2>>)
           \/ \E more \in {0, 6} :
                /\ y2 < Height - 1
                /\ Request("window", ClearWindow(image, x1, y1, x2 - x1 + more, y2 - y1),
                           <<x1, y1, x2 + more, y2>>)
      BY DEF PaintShape
  <1>1. /\ x1 \in Nat /\ x2 \in Nat /\ y1 \in Nat /\ y2 \in Nat /\ x2 <= Width /\ y2 < Height
        /\ Width \in Nat /\ Height \in Nat
        BY DisplayAssumption
  <1>2. x2 < Width \/ y2 < Height - 1
        BY <1>1
  <1>3. image \subseteq Framebuffer
        BY DEF PaintInv, TypeOK
  <1>4. CASE Request("rectangle", Rectangle(image, x1, y1, x2, y2, color), <<x1, y1, x2, y2>>)
    <2> DEFINE P == Border(x1, y1, x2, y2)
               b == <<x1, y1, x2, y2>>
    <2>1. Rectangle(image, x1, y1, x2, y2, color) = SetPixels(image, P, color)
          BY <1>1, RectangleIs
    <2>2. /\ image' = SetPixels(image, P, color) /\ before' = image /\ color' = color
          /\ drawn'.kind = "rectangle" /\ drawn'.box = b
          BY <1>4, <2>1 DEF Request
    <2>3. P \subseteq Box(x1, y1, x2, y2)
          BY DEF Border
    <2>4. image' \subseteq Framebuffer /\ Changed(image', before') \subseteq Inside(b)
      <3>1. x2 \in Int /\ y2 \in Int
            BY <1>1
      <3> HIDE DEF P
      <3> QED BY <1>1, <1>2, <1>3, <2>2, <2>3, <3>1, InTheBox
    <2>5. OutlineIsClosed'
          BY <2>2 DEF OutlineIsClosed, Border
    <2> HIDE DEF P, b
    <2> QED BY <1>3, <2>2, <2>4, <2>5, RequestDrawn
  <1>5. CASE Request("filled", FilledRectangle(image, x1, y1, x2, y2, color), <<x1, y1, x2, y2>>)
    <2> DEFINE P == Box(x1, y1, x2, y2)
               b == <<x1, y1, x2, y2>>
    <2>1. FilledRectangle(image, x1, y1, x2, y2, color) = SetPixels(image, P, color)
      <3>1. Fits(x1, y1, x2, y2)
            BY <1>1 DEF Fits
      <3> QED BY <3>1 DEF FilledRectangle
    <2>2. /\ image' = SetPixels(image, P, color) /\ before' = image /\ color' = color
          /\ drawn'.kind = "filled" /\ drawn'.box = b
          BY <1>5, <2>1 DEF Request
    <2>3. P \subseteq Box(x1, y1, x2, y2)
          OBVIOUS
    <2>4. image' \subseteq Framebuffer /\ Changed(image', before') \subseteq Inside(b)
      <3>1. x2 \in Int /\ y2 \in Int
            BY <1>1
      <3> HIDE DEF P
      <3> QED BY <1>1, <1>2, <1>3, <2>2, <2>3, <3>1, InTheBox
    <2> HIDE DEF P, b
    <2> QED BY <1>3, <2>2, <2>4, RequestDrawn
  <1>6. ASSUME NEW more \in {0, 6}, y2 < Height - 1,
               Request("window", ClearWindow(image, x1, y1, x2 - x1 + more, y2 - y1),
                       <<x1, y1, x2 + more, y2>>)
        PROVE  PaintInv'
    <2> DEFINE P == Box(x1, y1, x2 + more, y2)
               b == <<x1, y1, x2 + more, y2>>
    <2>1. ClearWindow(image, x1, y1, x2 - x1 + more, y2 - y1) = SetPixels(image, P, 1 - color)
      <3>1. x1 + (x2 - x1 + more) = x2 + more /\ y1 + (y2 - y1) = y2
            BY <1>1
      <3> QED BY <3>1 DEF ClearWindow
    <2>2. /\ image' = SetPixels(image, P, 1 - color) /\ before' = image /\ color' = color
          /\ drawn'.kind = "window" /\ drawn'.box = b
          BY <1>6, <2>1 DEF Request
    <2>3. P \subseteq Box(x1, y1, x2 + more, y2)
          OBVIOUS
    <2>4. image' \subseteq Framebuffer /\ Changed(image', before') \subseteq Inside(b)
      <3>1. x2 + more \in Int /\ y2 \in Int
            BY <1>1
      <3> HIDE DEF P
      <3> QED BY <1>1, <1>3, <1>6, <2>2, <2>3, <3>1, InTheBox
    <2> HIDE DEF P, b
    <2> QED BY <1>3, <2>2, <2>4, RequestDrawn
  <1> QED BY <1>4, <1>5, <1>6

LEMMA BarInv == PaintInv /\ PaintBar => PaintInv'
  <1> SUFFICES ASSUME PaintInv, PaintBar PROVE PaintInv'
      OBVIOUS
  <1>0. image \subseteq Framebuffer /\ before \subseteq Framebuffer /\ Width \in Nat /\ Height \in Nat
        BY Sizes DEF PaintInv, TypeOK
  \* What a first or a later bar leaves.
  <1>1. ASSUME NEW x1 \in Nat, NEW y1 \in Nat, NEW x2 \in Nat, NEW y2 \in Nat, NEW p \in Int,
               x1 < x2, x2 < Width, y1 < y2, y2 < Height,
               image' = ProgressBar(before', x1, y1, x2 - x1, y2 - y1, p), before' \subseteq Framebuffer,
               drawn' \in [kind : {"bar"}, box : Boxes, percent : Int],
               drawn'.box = <<x1, y1, x2, y2>>, drawn'.percent = p, color' = color
        PROVE  PaintInv'
    <2> DEFINE b == <<x1, y1, x2, y2>>
               w == x2 - x1
               h == y2 - y1
    <2>1. w \in Nat /\ h \in Nat /\ x1 + w = x2 /\ y1 + h = y2
          BY <1>1
    <2>2. image' \subseteq Framebuffer /\ Changed(image', before') \subseteq Inside(b)
      <3> HIDE DEF w, h
      <3>1. x1 + w < Width /\ y1 + h < Height
            BY <1>1, <2>1
      <3>2. image' = ProgressBar(before', x1, y1, w, h, p)
            BY <1>1 DEF w, h
      <3>3. /\ ProgressBar(before', x1, y1, w, h, p) \subseteq Framebuffer
            /\ Changed(ProgressBar(before', x1, y1, w, h, p), before') \subseteq Inside(<<x1, y1, x1 + w, y1 + h>>)
            BY <1>1, <2>1, <3>1, BarInTheBox
      <3> QED BY <2>1, <3>2, <3>3
    <2>3. drawn'.kind = "bar"
          BY <1>1
    <2>4. RedrawsClean'
          BY <1>1, <2>3 DEF RedrawsClean, ProgressBar
    <2>5. BarDrawn'
          BY <1>1, <2>3 DEF BarDrawn
    <2> HIDE DEF b
    <2> QED BY <1>1, <2>2, <2>3, <2>4, <2>5, RequestDrawn DEF b
  <1>2. CASE drawn = Nothing
    <2>1. PICK x1 \in Xs, x2 \in Xs, y1 \in Ys, y2 \in Ys, p \in Percents :
            /\ x1 < x2 /\ x2 < Width /\ y1 < y2
            /\ image' = ProgressBar(image, x1, y1, x2 - x1, y2 - y1, p)
            /\ drawn' = [kind |-> "bar", box |-> <<x1, y1, x2, y2>>, percent |-> p]
            /\ before' = image /\ UNCHANGED color
      <3>1. drawn.kind # "bar"
            BY <1>2 DEF Nothing
      <3> QED BY <3>1 DEF PaintBar
    <2>2. x1 \in Nat /\ x2 \in Nat /\ y1 \in Nat /\ y2 \in Nat /\ y2 < Height /\ p \in Int
          BY DisplayAssumption
    <2>3. /\ drawn' \in [kind : {"bar"}, box : Boxes, percent : Int]
          /\ drawn'.box = <<x1, y1, x2, y2>> /\ drawn'.percent = p
          BY <2>1, <2>2 DEF Boxes
    <2> QED BY <1>0, <1>1, <2>1, <2>2, <2>3
  <1>3. CASE drawn # Nothing
    <2>1. drawn.kind = "bar"
          BY <1>3 DEF PaintBar
    <2>2. PICK p \in Percents :
            /\ image' = ProgressBar(image, drawn.box[1], drawn.box[2], drawn.box[3] - drawn.box[1],
                                    drawn.box[4] - drawn.box[2], p)
            /\ drawn' = [drawn EXCEPT !.percent = p]
            /\ UNCHANGED <<before, color>>
          BY <1>3, <2>1 DEF PaintBar
    <2> DEFINE x1 == drawn.box[1]
               y1 == drawn.box[2]
               x2 == drawn.box[3]
               y2 == drawn.box[4]
               q == drawn.percent
    <2>3. /\ drawn \in [kind : {"bar"}, box : Boxes, percent : Int]
          /\ x1 \in Nat /\ x2 \in Nat /\ y1 \in Nat /\ y2 \in Nat /\ q \in Int /\ p \in Int
          /\ drawn.box = <<x1, y1, x2, y2>>
          /\ x1 < x2 /\ x2 < Width /\ y1 < y2 /\ y2 < Height
          BY <2>1, DisplayAssumption DEF PaintInv, BarDrawn, Boxes
    <2>4. image = ProgressBar(before, x1, y1, x2 - x1, y2 - y1, q)
          BY <2>1 DEF PaintInv, RedrawsClean
    <2>5. /\ drawn' \in [kind : {"bar"}, box : Boxes, percent : Int]
          /\ drawn'.box = <<x1, y1, x2, y2>> /\ drawn'.percent = p
          BY <2>2, <2>3
    <2>6. image' = ProgressBar(image, x1, y1, x2 - x1, y2 - y1, p)
          BY <2>2
    <2> HIDE DEF x1, x2, y1, y2, q
    <2>7. image' = ProgressBar(before, x1, y1, x2 - x1, y2 - y1, p)
      <3> DEFINE w == x2 - x1
                 h == y2 - y1
      <3>1. w \in Nat /\ h \in Nat /\ x1 + w <= Width /\ y1 + h <= Height
            BY <1>0, <2>3
      <3>2. image = ProgressBar(before, x1, y1, w, h, q) /\ image' = ProgressBar(image, x1, y1, w, h, p)
            BY <2>4, <2>6
      <3> HIDE DEF w, h
      <3>3. image' = ProgressBar(before, x1, y1, w, h, p)
            BY <2>3, <3>1, <3>2, BarTwice
      <3> QED BY <3>3 DEF w, h
    <2> QED BY <1>0, <1>1, <2>2, <2>3, <2>5, <2>7
  <1> QED BY <1>2, <1>3

LEMMA BatteryInv == PaintInv /\ PaintBattery => PaintInv'
  <1> SUFFICES ASSUME PaintInv, PaintBattery PROVE PaintInv'
      OBVIOUS
  <1>0. image \subseteq Framebuffer /\ before \subseteq Framebuffer /\ Width \in Nat /\ Height \in Nat
        /\ color \in {0, 1}
        BY Sizes DEF PaintInv, TypeOK
  <1>1. ASSUME NEW x \in Nat, NEW y \in Nat, NEW p \in Int, x + 13 < Width, y + 7 < Height,
               image' = Battery(before', x, y, p), before' \subseteq Framebuffer,
               drawn' \in [kind : {"battery"}, box : Boxes, percent : Int],
               drawn'.box = <<x, y, x + 13, y + 7>>, drawn'.percent = p, color' = color
        PROVE  PaintInv'
    <2> DEFINE b == <<x, y, x + 13, y + 7>>
    <2>2. image' \subseteq Framebuffer /\ Changed(image', before') \subseteq Inside(b)
      <3>3. /\ Battery(before', x, y, p) \subseteq Framebuffer
            /\ Changed(Battery(before', x, y, p), before') \subseteq Inside(b)
            BY <1>1, BatteryInTheBox
      <3> QED BY <1>1, <3>3
    <2>3. drawn'.kind = "battery"
          BY <1>1
    <2>4. RedrawsClean'
      <3>1. Battery(before', x, y, p) = Battery(before', x, y, 100) <=> p >= 100
            BY <1>0, <1>1, BatteryFull
      <3>2. image' = Battery(before', x, y, 100) <=> p >= 100
            BY <1>1, <3>1
      <3> QED BY <1>1, <2>3, <3>2 DEF RedrawsClean, Battery, ProgressBar
    <2>5. BatteryDrawn'
          BY <1>1, <2>3 DEF BatteryDrawn
    <2> HIDE DEF b
    <2> QED BY <1>1, <2>2, <2>3, <2>4, <2>5, RequestDrawn DEF b
  <1>2. CASE drawn = Nothing
    <2>1. PICK x \in Xs, y \in Ys, p \in Percents :
            /\ x + 13 < Width /\ y + 7 < Height
            /\ image' = Battery(image, x, y, p)
            /\ drawn' = [kind |-> "battery", box |-> <<x, y, x + 13, y + 7>>, percent |-> p]
            /\ before' = image /\ UNCHANGED color
      <3>1. drawn.kind # "battery"
            BY <1>2 DEF Nothing
      <3> QED BY <3>1 DEF PaintBattery
    <2>2. x \in Nat /\ y \in Nat /\ p \in Int
          BY DisplayAssumption
    <2>3. /\ drawn' \in [kind : {"battery"}, box : Boxes, percent : Int]
          /\ drawn'.box = <<x, y, x + 13, y + 7>> /\ drawn'.percent = p
          BY <2>1, <2>2 DEF Boxes
    <2> QED BY <1>0, <1>1, <2>1, <2>2, <2>3
  <1>3. CASE drawn # Nothing
    <2>1. drawn.kind = "battery"
          BY <1>3 DEF PaintBattery
    <2>2. PICK p \in Percents :
            /\ image' = Battery(image, drawn.box[1], drawn.box[2], p)
            /\ drawn' = [drawn EXCEPT !.percent = p]
            /\ UNCHANGED <<before, color>>
          BY <1>3, <2>1 DEF PaintBattery
    <2> DEFINE x == drawn.box[1]
               y == drawn.box[2]
               q == drawn.percent
    <2>3. /\ drawn \in [kind : {"battery"}, box : Boxes, percent : Int]
          /\ x \in Nat /\ y \in Nat /\ q \in Int /\ p \in Int
          /\ drawn.box = <<x, y, x + 13, y + 7>> /\ x + 13 < Width /\ y + 7 < Height
          BY <2>1, DisplayAssumption DEF PaintInv, BatteryDrawn, Boxes
    <2>4. image = Battery(before, x, y, q)
          BY <2>1 DEF PaintInv, RedrawsClean
    <2>5. /\ drawn' \in [kind : {"battery"}, box : Boxes, percent : Int]
          /\ drawn'.box = <<x, y, x + 13, y + 7>> /\ drawn'.percent = p
          BY <2>2, <2>3
    <2>6. image' = Battery(image, x, y, p)
          BY <2>2
    <2> HIDE DEF x, y, q
    <2>7. image' = Battery(before, x, y, p)
          BY <2>3, <2>4, <2>6, BatteryTwice
    <2> QED BY <1>0, <1>1, <2>2, <2>3, <2>5, <2>7
  <1> QED BY <1>2, <1>3

LEMMA BitMapInv == PaintInv /\ PaintBitMap => PaintInv'
  <1> SUFFICES ASSUME PaintInv, PaintBitMap PROVE PaintInv'
      OBVIOUS
  <1> PICK x \in Xs, y \in Ys, dsc \in Images, style \in {"color", "background", "invert"} :
        /\ x + dsc.width <= Width /\ y + dsc.height <= Height
        /\ image' = BitMap(image, x, y, dsc, style)
        /\ drawn' = [kind |-> "bitmap", box |-> <<x, y, x + dsc.width - 1, y + dsc.height - 1>>,
                     dsc |-> dsc]
        /\ before' = image /\ UNCHANGED color
      BY DEF PaintBitMap
  <1> DEFINE x2 == x + dsc.width - 1
             y2 == y + dsc.height - 1
             b == <<x, y, x2, y2>>
             P == Box(x, y, x2, y2)
  <1>1. image \subseteq Framebuffer /\ x \in Nat /\ y \in Nat /\ dsc \in Bitmaps /\ Width \in Nat /\ Height \in Nat
        BY DisplayAssumption DEF PaintInv, TypeOK
  <1>2. dsc.width \in Nat \ {0} /\ dsc.height \in Nat \ {0}
        BY <1>1 DEF Bitmaps
  <1>3. x2 \in Int /\ y2 \in Int /\ x2 < Width /\ y2 < Height
        BY <1>1, <1>2
  <1>4. Changed(image', image) \subseteq Bits(P)
        BY <1>1, <1>2, BitMapChanges
  <1>5. drawn'.kind = "bitmap" /\ drawn'.box = b /\ drawn'.dsc = dsc
        OBVIOUS
  <1> HIDE DEF x2, y2
  <1>6. image' \subseteq Framebuffer /\ Changed(image', image) \subseteq Inside(b)
    <2>1. P \subseteq Box(x, y, x2, y2)
          OBVIOUS
    <2> HIDE DEF P
    <2> QED BY ONLY <1>1, <1>3, <1>4, <2>1, WithinTheBox DEF b
  <1>7. ReadsTheBitmap'
        BY <1>1, <1>5, BitmapIsRead DEF ReadsTheBitmap
  <1> HIDE DEF b
  <1> QED BY <1>1, <1>5, <1>6, <1>7, RequestDrawn

LEMMA StringInv == PaintInv /\ PaintString => PaintInv'
  <1> SUFFICES ASSUME PaintInv, PaintString PROVE PaintInv'
      OBVIOUS
  <1> PICK text \in Texts, x1 \in TextXs, y1 \in TextYs,
           align \in {"left", "center"}, style \in {"color", "background"} :
        /\ align = "center" => 2 * x1 <= Width
        /\ \/ x1 >= 8 /\ Ordinary(text, x1, align)
           \/ LET lines == Lines(text, x1, y1, align)
              IN  \A k \in DOMAIN lines : lines[k].y + LineHeight <= Height
        /\ image' = DrawString(image, text, x1, y1, align, style)
        /\ drawn' = [kind |-> "text", box |-> <<0, y1, Width - 1, Height - 1>>,
                     text |-> text, x |-> x1, y |-> y1, align |-> align]
        /\ before' = image /\ UNCHANGED color
      BY DEF PaintString
  <1> DEFINE b == <<0, y1, Width - 1, Height - 1>>
  <1>1. image \subseteq Framebuffer /\ y1 \in Nat
        BY DisplayAssumption DEF PaintInv, TypeOK
  <1>2. Margin(x1, align)
        BY DisplayAssumption DEF Margin
  <1>3. /\ drawn'.kind = "text" /\ drawn'.box = b /\ drawn'.text = text /\ drawn'.x = x1
        /\ drawn'.y = y1 /\ drawn'.align = align
        OBVIOUS
  <1>4. image' \subseteq Framebuffer /\ Changed(image', image) \subseteq Inside(b)
        BY <1>1, <1>2, TextInTheDisplay
  <1>5. TextComplete'
        BY <1>1, <1>2, <1>3, TextIsComplete DEF TextComplete
  <1>6. LinesFit'
        BY <1>1, <1>2, <1>3, LinesAreFit DEF LinesFit
  <1> HIDE DEF b
  <1> QED BY <1>1, <1>3, <1>4, <1>5, <1>6, RequestDrawn

LEMMA ButtonInv == PaintInv /\ PaintButton => PaintInv'
  <1> SUFFICES ASSUME PaintInv, PaintButton PROVE PaintInv'
      OBVIOUS
  <1> PICK text \in Texts, x \in TextXs, y1 \in Ys, y2 \in Ys, base \in {0, 1}, pressed \in BOOLEAN :
        LET w == Width - 2 * x
            h == y2 - y1
            lines == Lines(text, x, TextTop(y1, h, text), "center")
        IN  /\ x >= 8 /\ w > 0 /\ LineHeight * LinesOf(text) <= h + 1
            /\ Ordinary(text, x, "center")
            /\ \A k \in DOMAIN lines : At(text, lines[k].last) \in {"newline", "end"}
            /\ image' = Button(image, x, y1, w, h, text, base, pressed)
            /\ drawn' = [kind |-> "button", box |-> <<x, y1, x + w, y2>>, text |-> text,
                         fill |-> ButtonFill(base, pressed)]
            /\ before' = image /\ UNCHANGED color
      BY DEF PaintButton
  <1> DEFINE w == Width - 2 * x
             b == <<x, y1, x + w, y2>>
             fill == ButtonFill(base, pressed)
             plain == SetPixels(image, Box(x, y1, x + w, y2), fill)
  <1>1. image \subseteq Framebuffer
        BY DEF PaintInv, TypeOK
  <1>2. /\ drawn'.kind = "button" /\ drawn'.box = b /\ drawn'.text = text /\ drawn'.fill = fill
        /\ before' = image /\ color' = color /\ image' = Button(image, x, y1, w, y2 - y1, text, base, pressed)
        OBVIOUS
  <1>3. /\ image' \subseteq Framebuffer /\ Changed(image', image) \subseteq Inside(b)
        /\ Changed(image', plain) \subseteq Bits(Box(x, y1, x + w, y2))
        /\ (\E i \in DOMAIN text : text[i] \notin {"space", "newline"} /\ Visible(text[i])) => image' # plain
        BY <1>1, <1>2, ButtonIs
  <1> HIDE DEF w, fill
  <1>4. ButtonReadable'
        BY <1>2, <1>3 DEF ButtonReadable, Changed
  <1> HIDE DEF b
  <1> QED BY <1>1, <1>2, <1>3, <1>4, RequestDrawn

LEMMA PaintStep == PaintInv /\ [Next]_vars => PaintInv'
  <1> SUFFICES ASSUME PaintInv, [Next]_vars PROVE PaintInv'
      OBVIOUS
  <1>1. color \in {0, 1} /\ image \subseteq Framebuffer /\ (drawn = Nothing => image = before)
        BY DEF PaintInv, TypeOK
  <1>2. CASE PaintClear
        BY <1>1, <1>2, ClearIs, NothingDrawn DEF PaintClear
  <1>3. CASE SelectColor
    <2>1. color' \in {0, 1}
          BY <1>1, <1>3 DEF SelectColor
    <2> QED BY <1>1, <1>3, <2>1, NothingDrawn DEF SelectColor
  <1>4. CASE UNCHANGED vars
    <2>1. image' = image /\ color' = color /\ drawn' = drawn /\ before' = before
          BY <1>4 DEF vars
    <2>2. TypeOK' /\ OnlyTheShape' /\ (drawn' = Nothing => image' = before')
          BY <2>1, SMTT(30) DEF PaintInv, TypeOK, OnlyTheShape
    <2>3. RedrawsClean'
          BY <2>1 DEF PaintInv, RedrawsClean, ProgressBar, Battery
    <2>4. OutlineIsClosed' /\ ReadsTheBitmap' /\ BarDrawn' /\ BatteryDrawn'
          BY <2>1 DEF PaintInv, OutlineIsClosed, ReadsTheBitmap, BarDrawn, BatteryDrawn
    <2>5. TextComplete' /\ LinesFit' /\ ButtonReadable'
          BY <2>1 DEF PaintInv, TextComplete, LinesFit, ButtonReadable
    <2> QED BY <2>2, <2>3, <2>4, <2>5 DEF PaintInv
  <1> QED BY <1>2, <1>3, <1>4, ShapeInv, BarInv, BatteryInv, BitMapInv, StringInv, ButtonInv DEF Next

LEMMA PaintInvariant == Spec => []PaintInv
  BY PaintInit, PaintStep, PTL DEF Spec

-----------------------------------------------------------------------------
(* The properties, for every display, font, text and image of the assumptions. *)

\* No request leaves a bit behind the framebuffer, whatever is painted on it one after the other
\* (paint_setPixel, paint_setPixelInvert and all that paints by them).
THEOREM PaintTypeCorrect == Spec => []TypeOK
  <1>1. PaintInv => TypeOK
        BY DEF PaintInv
  <1> QED BY <1>1, PaintInvariant, PTL

\* What a request changes is in its box, but for the column behind the display, which lies in
\* the row below (the bounds checks of gui_paint.c compare with > and not with >=).
THEOREM PaintsOnlyTheShape == Spec => []OnlyTheShape
  <1>1. PaintInv => OnlyTheShape
        BY DEF PaintInv
  <1> QED BY <1>1, PaintInvariant, PTL

\* A bar or a battery painted over an older one looks like one painted afresh, for every
\* size, percentage and display; a battery is full at 100 percent and over and never below
\* (paint_drawProgressBar, paint_drawBattery).
THEOREM PaintRedrawsClean == Spec => []RedrawsClean
  <1>1. PaintInv => RedrawsClean
        BY DEF PaintInv
  <1> QED BY <1>1, PaintInvariant, PTL

\* The four runs of paint_drawLine of an outline paint its border, without a gap, and nothing
\* else (paint_drawRectangle).
THEOREM PaintClosesOutlines == Spec => []OutlineIsClosed
  <1>1. PaintInv => OutlineIsClosed
        BY DEF PaintInv
  <1> QED BY <1>1, PaintInvariant, PTL

\* paint_drawBitMap takes every pixel from a bit of its own and reads every byte of the bitmap,
\* for each of the two layouts and every width and height.
THEOREM PaintReadsTheBitmap == Spec => []ReadsTheBitmap
  <1>1. PaintInv => ReadsTheBitmap
        BY DEF PaintInv
  <1> QED BY <1>1, PaintInvariant, PTL

\* Breaking a text into lines loses no symbol of its words, if the display has room for all of
\* them: for every text and every font (paint_drawStringEn).
THEOREM PaintTextComplete == Spec => []TextComplete
  <1>1. PaintInv => TextComplete
        BY DEF PaintInv
  <1> QED BY <1>1, PaintInvariant, PTL

\* The lines of such a text are inside of its margins and below each other (paint_drawStringEn,
\* get_centeredX).
THEOREM PaintLinesFit == Spec => []LinesFit
  <1>1. PaintInv => LinesFit
        BY DEF PaintInv
  <1> QED BY <1>1, PaintInvariant, PTL

\* The text of a button keeps inside of it and shows: no symbol inverts away what another has
\* painted (paint_drawButton, paint_drawBitMap with invert).
THEOREM PaintButtonReadable == Spec => []ButtonReadable
  <1>1. PaintInv => ButtonReadable
        BY DEF PaintInv
  <1> QED BY <1>1, PaintInvariant, PTL
=============================================================================
