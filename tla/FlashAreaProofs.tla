--------------------------- MODULE FlashAreaProofs ---------------------------
(***************************************************************************)
(* Proofs about FlashArea, for every geometry that FlashAssumption admits. *)
(***************************************************************************)
EXTENDS FlashArea, TLAPS

-----------------------------------------------------------------------------
(* Quotients and remainders.                                                 *)

LEMMA DivMod ==
  ASSUME NEW a \in Nat, NEW n \in Nat \ {0}
  PROVE  /\ a \div n \in Nat /\ a % n \in Nat /\ a % n < n
         /\ a = n * (a \div n) + (a % n)
  OBVIOUS

LEMMA ProductNat ==
  ASSUME NEW p \in Nat, NEW q \in Nat
  PROVE  p * q \in Nat /\ p * q = q * p
  OBVIOUS

\* A product grows by the factor with each step of the other factor.
LEMMA ProductGrows ==
  ASSUME NEW n \in Nat \ {0}, NEW p \in Nat, NEW q \in Nat
  PROVE  /\ p < q => n * p + n <= n * q
         /\ p <= q => n * p <= n * q
         /\ n * (p + 1) = n * p + n
  <1>1. n * (p + 1) = n * p + n
        OBVIOUS
  <1>2. ASSUME p < q
        PROVE  n * p + n <= n * q
    <2>1. PICK d \in Nat : q = p + 1 + d
      <3>1. q - (p + 1) \in Nat /\ q = p + 1 + (q - (p + 1))
            BY <1>2
      <3> QED BY <3>1
    <2>2. n * q = n * p + n + n * d
          BY <2>1
    <2>3. n * d \in Nat /\ n * p \in Nat
          BY ProductNat
    <2> QED BY <2>2, <2>3
  <1>3. ASSUME p <= q
        PROVE  n * p <= n * q
    <2>1. CASE p = q
          BY <2>1, ProductNat
    <2>2. CASE p < q
          BY <1>2, <2>2, ProductNat
    <2> QED BY <1>3, <2>1, <2>2
  <1> QED BY <1>1, <1>2, <1>3

LEMMA DivBounds ==
  ASSUME NEW a \in Nat, NEW n \in Nat \ {0}
  PROVE  /\ a \div n \in Nat /\ n * (a \div n) \in Nat
         /\ n * (a \div n) <= a /\ a < n * (a \div n) + n
  <1> DEFINE q == a \div n
             r == a % n
             p == n * q
  <1>1. q \in Nat /\ r \in Nat /\ r < n /\ a = p + r
        BY DivMod
  <1> HIDE DEF q, r
  <1>2. p \in Nat
        BY <1>1, ProductNat
  <1> HIDE DEF p
  <1>3. p <= a /\ a < p + n
        BY <1>1, <1>2
  <1> QED BY <1>1, <1>2, <1>3 DEF p, q

\* Division with remainder has one result.
LEMMA DivUnique ==
  ASSUME NEW n \in Nat \ {0}, NEW q \in Nat, NEW r \in Nat, r < n
  PROVE  (n * q + r) \div n = q /\ (n * q + r) % n = r
  <1> DEFINE a == n * q + r
             p == a \div n
             m == a % n
  <1>1. a \in Nat
        BY ProductNat
  <1>2. p \in Nat /\ m \in Nat /\ m < n /\ a = n * p + m
        BY <1>1, DivMod
  <1> HIDE DEF p, m
  <1>3. ~(p < q) /\ ~(q < p)
        BY <1>2, ProductGrows, ProductNat
  <1>4. p = q
        BY <1>2, <1>3
  <1>5. m = r
        BY <1>2, <1>4, ProductNat
  <1> QED BY <1>4, <1>5 DEF p, m

LEMMA ModSmall ==
  ASSUME NEW n \in Nat \ {0}, NEW x \in Nat, x < n
  PROVE  x % n = x
  BY DivUnique, 0 \in Nat, n * 0 + x = x

\* What a remainder of zero says.
LEMMA Divides ==
  ASSUME NEW a \in Nat, NEW n \in Nat \ {0}, a % n = 0
  PROVE  a = n * (a \div n) /\ a \div n \in Nat
  BY DivMod, ProductNat

LEMMA SumDivides ==
  ASSUME NEW a \in Nat, NEW b \in Nat, NEW n \in Nat \ {0}, a % n = 0, b % n = 0
  PROVE  (a + b) % n = 0
  <1> DEFINE p == a \div n
             q == b \div n
  <1>1. a = n * p /\ b = n * q /\ p \in Nat /\ q \in Nat
        BY Divides
  <1> HIDE DEF p, q
  <1>2. a + b = n * (p + q) + 0 /\ p + q \in Nat
        BY <1>1
  <1> QED BY <1>2, DivUnique

LEMMA WordSum ==
  ASSUME NEW x \in Nat, NEW y \in Nat
  PROVE  /\ Plus(x, y) \in 0..(Word - 1)
         /\ x + y < Word => Plus(x, y) = x + y
  <1>1. Word \in Nat \ {0} /\ x + y \in Nat
        BY FlashAssumption
  <1>2. (x + y) % Word \in 0..(Word - 1)
        BY <1>1, DivMod
  <1> QED BY <1>1, <1>2, ModSmall DEF Plus

-----------------------------------------------------------------------------
(* The areas.                                                                *)

LEMMA Constants ==
  /\ Word \in Nat \ {0} /\ Page \in Nat \ {0} /\ ExtSector \in Nat \ {0} /\ IntSector \in Nat \ {0}
  /\ IntBase \in Nat /\ PrimaryFirst \in Nat /\ PrimaryLast \in Nat /\ ExtFirst \in Nat
  /\ ExtHigh \in Nat /\ ExtSectors \in Nat
  BY FlashAssumption

\* Both slots are whole internal sectors, at least one; the primary one fits into its sectors,
\* and the secondary one leaves room for the header of a wrapper.
LEMMA SlotSizes ==
  /\ \E k \in Nat \ {0} : SecondarySize = IntSector * k
  /\ \E k \in Nat \ {0} : PrimarySize = IntSector * k
  /\ ExtFirst + ExtSector + SecondarySize <= ExtHigh + 1
  /\ IntSector * PrimaryFirst + PrimarySize <= IntSector * (PrimaryLast + 1)
  /\ PrimarySize <= SecondarySize
  <1> USE Constants
  <1> DEFINE available == (ExtHigh - ExtFirst + 1) - ExtSector
             fit == available \div IntSector
             all == PrimaryLast - PrimaryFirst + 1
  <1>1. available \in Nat /\ available >= IntSector
        BY FlashAssumption
  <1>2. SecondarySize = IntSector * fit /\ fit \in Nat
    <2>1. fit \in Nat /\ available % IntSector \in Nat
          /\ available = IntSector * fit + (available % IntSector)
          BY <1>1, DivMod
    <2> QED BY <2>1, <1>1, ProductNat DEF SecondarySize
  <1>3. fit # 0
        BY <1>1, DivMod
  <1>4. SecondarySize <= available /\ SecondarySize \in Nat
    <2>1. available % IntSector \in Nat
          BY <1>1, DivMod
    <2> QED BY <1>1, <1>2, <2>1, ProductNat DEF SecondarySize
  <1>5. all \in Nat \ {0}
        BY FlashAssumption
  <1>6. SecondarySize \div IntSector = fit
    <2>1. (IntSector * fit + 0) \div IntSector = fit
          BY <1>2, DivUnique
    <2> QED BY <1>2, <2>1, ProductNat
  <1>7. PrimarySize = IF SecondarySize < IntSector * all THEN IntSector * fit ELSE IntSector * all
        BY <1>6 DEF PrimarySize
  <1>8. PrimarySize <= IntSector * all /\ PrimarySize <= SecondarySize
        BY <1>2, <1>5, <1>7, ProductNat, <1>4
  <1>9. IntSector * PrimaryFirst + IntSector * all = IntSector * (PrimaryLast + 1)
    <2>1. PrimaryFirst + all = PrimaryLast + 1
          BY FlashAssumption
    <2>2. IntSector * (PrimaryFirst + all) = IntSector * PrimaryFirst + IntSector * all
          BY <1>5
    <2> QED BY <2>1, <2>2
  <1> HIDE DEF available, fit, all
  <1>10. \E k \in Nat \ {0} : PrimarySize = IntSector * k
        BY <1>2, <1>3, <1>5, <1>7
  <1>11. ExtFirst + ExtSector + SecondarySize <= ExtHigh + 1
        BY <1>1, <1>4 DEF available
  <1>12. IntSector * PrimaryFirst + PrimarySize <= IntSector * (PrimaryLast + 1)
    <2>1. PrimarySize \in Nat
          BY <1>10, ProductNat
    <2> QED BY <1>5, <1>8, <1>9, <2>1, ProductNat
  <1> QED BY <1>2, <1>3, <1>8, <1>10, <1>11, <1>12

\* Every area begins with a sector of its device, is at least one sector long and made of whole
\* sectors, and ends before addresses wrap around; moved or not.
LEMMA Layout ==
  ASSUME NEW a \in Area, secOff \in {ExtFirst, ExtFirst + ExtSector}
  PROVE  /\ SectorSize(a) \in Nat \ {0} /\ Base(a) \in Nat /\ Off(a) \in Nat /\ Size[a] \in Nat
         /\ \E o \in Nat : Off(a) = Base(a) + SectorSize(a) * o
         /\ \E m \in Nat \ {0} : Size[a] = SectorSize(a) * m
         /\ Off(a) + Size[a] < Word
         /\ a = "secondary" => Size[a] = SecondarySize
  <1> USE Constants
  <1>1. CASE a = "primary"
    <2>1. /\ SectorSize(a) = IntSector /\ Base(a) = IntBase /\ Size[a] = PrimarySize
          /\ Off(a) = IntBase + IntSector * PrimaryFirst
          BY <1>1 DEF SectorSize, Base, Size, Off, Device
    <2>2. \E m \in Nat \ {0} : PrimarySize = IntSector * m
          BY SlotSizes
    <2>3. PrimarySize \in Nat /\ IntSector * PrimaryFirst \in Nat
          BY <2>2, ProductNat
    <2>4. IntSector * (PrimaryLast + 1) \in Nat
          BY ProductNat
    <2>5. Off(a) + Size[a] < Word
          BY <2>1, <2>3, <2>4, SlotSizes, FlashAssumption
    <2>6. \E o \in Nat : Off(a) = Base(a) + SectorSize(a) * o
          BY <2>1
    <2>7. \E m \in Nat \ {0} : Size[a] = SectorSize(a) * m
          BY <2>1, SlotSizes
    <2>8. Off(a) \in Nat
          BY <2>1, <2>3
    <2> QED BY <1>1, <2>1, <2>3, <2>5, <2>6, <2>7, <2>8
  <1>2. CASE a = "self"
    <2>1. /\ SectorSize(a) = IntSector /\ Base(a) = IntBase /\ Size[a] = IntSector
          /\ Off(a) = IntBase + IntSector
          BY <1>2 DEF SectorSize, Base, Size, Off, Device, Area
    <2>2. IntSector * 2 <= IntSector * (PrimaryLast + 1) /\ IntSector * (PrimaryLast + 1) \in Nat
          BY ProductGrows, ProductNat, FlashAssumption
    <2>3. IntSector * 1 = IntSector /\ IntSector * 2 = IntSector + IntSector
          OBVIOUS
    <2>4. Off(a) + Size[a] < Word
          BY <2>1, <2>2, <2>3, FlashAssumption
    <2> QED BY <1>2, <2>1, <2>3, <2>4
  <1>3. CASE a = "secondary"
    <2>1. /\ SectorSize(a) = ExtSector /\ Base(a) = 0 /\ Size[a] = SecondarySize /\ Off(a) = secOff
          BY <1>3 DEF SectorSize, Base, Size, Off, Device, Area
    <2>2. PICK k \in Nat \ {0} : SecondarySize = IntSector * k
          BY SlotSizes
    <2>3. PICK j \in Nat : IntSector = ExtSector * j
          BY Divides, FlashAssumption
    <2>4. IntSector * k = ExtSector * (j * k) /\ j * k \in Nat
          BY <2>3, ProductNat
    <2>5. SecondarySize \in Nat \ {0}
      <3>1. IntSector * k >= IntSector * 1 /\ IntSector * 1 = IntSector
            BY ProductGrows
      <3> QED BY <2>2, <3>1, ProductNat
    <2>6. j * k # 0
      <3>1. ExtSector * 0 = 0
            OBVIOUS
      <3> QED BY <2>2, <2>4, <2>5, <3>1
    <2>7. PICK e \in Nat : ExtFirst = ExtSector * e
          BY Divides, FlashAssumption
    <2>8. ExtSector * (e + 1) = ExtFirst + ExtSector
          BY <2>7, ProductGrows
    <2>9. \E o \in Nat : secOff = ExtSector * o
      <3>1. e + 1 \in Nat
            OBVIOUS
      <3> QED BY <2>7, <2>8, <3>1
    <2>10. Off(a) + Size[a] < Word
      <3>1. secOff + SecondarySize <= ExtHigh + 1
            BY <2>5, SlotSizes
      <3>2. ExtSectors * ExtSector \in Nat
            BY ProductNat
      <3> QED BY <2>1, <2>5, <3>1, <3>2, FlashAssumption
    <2>11. \E m \in Nat \ {0} : Size[a] = SectorSize(a) * m
          BY <2>1, <2>2, <2>4, <2>6
    <2>12. \E o \in Nat : Off(a) = Base(a) + SectorSize(a) * o
      <3>1. PICK o \in Nat : secOff = ExtSector * o
            BY <2>9
      <3>2. Off(a) = Base(a) + SectorSize(a) * o
            BY <2>1, <3>1, ProductNat
      <3> QED BY <3>2
    <2> QED BY <1>3, <2>1, <2>5, <2>10, <2>11, <2>12
  <1> QED BY <1>1, <1>2, <1>3 DEF Area

-----------------------------------------------------------------------------
(* The call in progress.                                                     *)

\* A piece more.
Adds(f, l) == pieces' = Append(pieces, <<f, l>>)

\* All pieces lie in a range.
Within(lo, hi) ==
  \A i \in DOMAIN pieces :
    lo <= pieces[i][1] /\ pieces[i][1] <= pieces[i][2] /\ pieces[i][2] < hi

LEMMA Appended ==
  ASSUME pieces \in Seq(Nat \X Nat), NEW f \in Nat, NEW l \in Nat, Adds(f, l)
  PROVE  /\ pieces' \in Seq(Nat \X Nat) /\ pieces' # <<>> /\ Len(pieces') = Len(pieces) + 1
         /\ DOMAIN pieces = 1..Len(pieces) /\ DOMAIN pieces' = 1..(Len(pieces) + 1)
         /\ Len(pieces) \in Nat
         /\ \A i \in DOMAIN pieces :
              /\ pieces'[i] = pieces[i] /\ pieces[i] \in Nat \X Nat
              /\ pieces[i][1] \in Nat /\ pieces[i][2] \in Nat
         /\ pieces'[Len(pieces) + 1] = <<f, l>>
         /\ pieces = <<>> <=> Len(pieces) = 0
  BY DEF Adds

\* A piece that follows the last one.
LEMMA Chained ==
  ASSUME pieces \in Seq(Nat \X Nat), NEW f \in Nat, NEW l \in Nat, NEW lo \in Nat, NEW hi \in Nat,
         Adds(f, l), Follow, Within(lo, hi),
         pieces # <<>> => f = pieces[Len(pieces)][2] + 1,
         lo <= f, f <= l, l < hi
  PROVE  /\ \A i \in DOMAIN pieces' :
              lo <= pieces'[i][1] /\ pieces'[i][1] <= pieces'[i][2] /\ pieces'[i][2] < hi
         /\ Follow'
         /\ pieces'[Len(pieces')][2] = l
         /\ pieces'[1][1] = IF pieces = <<>> THEN f ELSE pieces[1][1]
  <1> DEFINE n == Len(pieces)
  <1>1. /\ Len(pieces') = n + 1 /\ n \in Nat
        /\ DOMAIN pieces = 1..n /\ DOMAIN pieces' = 1..(n + 1)
        /\ \A i \in 1..n : pieces'[i] = pieces[i]
        /\ pieces'[n + 1] = <<f, l>> /\ (pieces = <<>> <=> n = 0)
        BY Appended
  <1>. n \in Nat /\ (n # 0 => f = pieces[n][2] + 1)
       BY <1>1
  <1> HIDE DEF n
  <1>2. ASSUME NEW i \in 1..(n + 1)
        PROVE  lo <= pieces'[i][1] /\ pieces'[i][1] <= pieces'[i][2] /\ pieces'[i][2] < hi
    <2>1. CASE i = n + 1
          BY <1>1, <2>1
    <2>2. CASE i # n + 1
      <3>1. i \in 1..n
            BY <1>1, <2>2
      <3> QED BY <1>1, <3>1 DEF Within
    <2> QED BY <2>1, <2>2
  <1>3. ASSUME NEW i \in 1..(n + 1), i # 1
        PROVE  pieces'[i][1] = pieces'[i - 1][2] + 1
    <2>1. CASE i = n + 1
      <3>1. i - 1 = n /\ n \in 1..n
            BY <1>1, <1>3, <2>1
      <3>2. pieces'[i - 1] = pieces[n] /\ n # 0 /\ pieces'[i] = <<f, l>>
            BY <1>1, <2>1, <3>1
      <3>3. f = pieces'[i - 1][2] + 1
            BY ONLY <3>2, n \in Nat /\ (n # 0 => f = pieces[n][2] + 1)
      <3>4. pieces'[i][1] = f
            BY ONLY <3>2, f \in Nat, l \in Nat
      <3> QED BY ONLY <3>3, <3>4
    <2>2. CASE i # n + 1
      <3>1. i \in 1..n /\ i - 1 \in 1..n
            BY ONLY n \in Nat, i \in 1..(n + 1), i # 1, i # n + 1
      <3>2. pieces'[i] = pieces[i] /\ pieces'[i - 1] = pieces[i - 1]
            BY <1>1, <3>1
      <3>3. pieces[i][1] = pieces[i - 1][2] + 1
            BY <1>1, <1>3, <3>1 DEF Follow
      <3> QED BY <3>2, <3>3
    <2> QED BY <2>1, <2>2
  <1>4. Follow'
        BY <1>1, <1>3 DEF Follow
  <1>5. pieces'[1][1] = IF pieces = <<>> THEN f ELSE pieces[1][1]
    <2>1. n # 0 => 1 \in 1..n
          BY <1>1
    <2> QED BY <1>1, <2>1
  <1> QED BY <1>1, <1>2, <1>4, <1>5

\* The fields a running call keeps, and what they are.
LEMMA Fields ==
  ASSUME FlashTypeOK
  PROVE  /\ call.op \in Op /\ call.area \in Area /\ call.off \in Nat /\ call.len \in Nat
         /\ call.at \in Nat /\ call.left \in Nat /\ call.res \in {"run", "ok", "error"}
         /\ call.off < Word /\ call.len < Word /\ call.at < Word /\ call.left < Word
  BY Constants DEF FlashTypeOK

\* The range of a call that passed the bounds check lies in the area, unless its end wraps around.
LEMMA RangeInArea ==
  ASSUME FlashTypeOK, CallInv, Running \/ pieces # <<>>, Unwrapped
  PROVE  /\ call.off + call.len <= Size[call.area]
         /\ Off(call.area) \in Nat /\ Size[call.area] \in Nat
         /\ First \in Nat /\ Behind \in Nat /\ Off(call.area) <= First
         /\ Behind <= Off(call.area) + Size[call.area] /\ Behind < Word
  <1> USE Constants, Fields
  <1>1. /\ Off(call.area) \in Nat /\ Size[call.area] \in Nat
        /\ Off(call.area) + Size[call.area] < Word
        BY Layout DEF CallInv
  <1>2. call.off <= Size[call.area] /\ Plus(call.off, call.len) <= Size[call.area]
        BY DEF CallInv
  <1>3. call.off + call.len < Word
        BY <1>1, <1>2 DEF Unwrapped
  <1>4. call.off + call.len <= Size[call.area]
        BY <1>2, <1>3, WordSum
  <1> QED BY <1>1, <1>4 DEF First, Behind

\* Steps that leave no call behind.
LEMMA NoCallKeeps ==
  ASSUME chip' \in BOOLEAN, secOff' \in {ExtFirst, ExtFirst + ExtSector}, pieces' = <<>>,
         NEW a \in Area, NEW r \in {"ok", "error"},
         call' = [NoCall EXCEPT !.area = a, !.res = r]
  PROVE  FlashInv'
  <1> USE Constants
  <1>1. ExtFirst + ExtSector < Word
    <2>1. ExtSectors * ExtSector \in Nat
          BY ProductNat
    <2> QED BY <2>1, FlashAssumption
  <1>2. call' = [op |-> "none", area |-> a, off |-> 0, len |-> 0, at |-> 0, left |-> 0, res |-> r]
        BY DEF NoCall
  <1>3. FlashTypeOK'
        BY <1>1, <1>2 DEF FlashTypeOK, Op
  <1>4. call'.op = "none" /\ call'.res \in {"ok", "error"}
    <2>1. call'.op = "none"
          BY DEF NoCall
    <2>2. call'.res = r
          BY <1>2
    <2> QED BY <2>1, <2>2
  <1>5. CallInv'
    <2>1. pieces' \in Seq(Nat \X Nat)
          OBVIOUS
    <2> QED BY <1>2, <1>4, <2>1 DEF CallInv, Running
  <1>6. TransferInv' /\ EraseInv'
        BY <1>4 DEF TransferInv, EraseInv
  <1> QED BY <1>3, <1>5, <1>6 DEF FlashInv

LEMMA IdleKeeps ==
  ASSUME FlashInv, MoveStart \/ ResetStart \/ \E a \in Area : Open(a)
  PROVE  FlashInv'
  <1>1. NoCall = [NoCall EXCEPT !.area = "self", !.res = "ok"] /\ "self" \in Area
    <2>1. NoCall.area = "self" /\ NoCall.res = "ok"
          BY DEF NoCall
    <2> QED BY <2>1 DEF NoCall, Area
  <1>2. secOff \in {ExtFirst, ExtFirst + ExtSector} /\ chip \in BOOLEAN
        BY DEF FlashInv, CallInv, FlashTypeOK
  <1>3. CASE MoveStart
    <2>1. secOff' = ExtFirst + ExtSector
      <3>1. ExtFirst + ExtSector < Word
        <4>1. ExtSectors * ExtSector \in Nat
              BY Constants, ProductNat
        <4> QED BY <4>1, Constants, FlashAssumption
      <3> QED BY <1>3, <3>1, Constants, WordSum DEF MoveStart
    <2> QED BY <1>1, <1>2, <1>3, <2>1, NoCallKeeps DEF MoveStart
  <1>4. CASE ResetStart
        BY <1>1, <1>2, <1>4, NoCallKeeps DEF ResetStart
  <1>5. ASSUME NEW a \in Area, Open(a)
        PROVE  FlashInv'
        BY <1>2, <1>5, NoCallKeeps DEF Open
  <1> QED BY <1>3, <1>4, <1>5

LEMMA RefuseKeeps ==
  ASSUME FlashInv, NEW op \in Op \ {"none"}, NEW a \in Area,
         NEW off \in 0..(Word - 1), NEW len \in 0..(Word - 1), Refuse(op, a, off, len)
  PROVE  FlashInv'
  <1> USE Constants DEF FlashInv, Refuse
  <1>1. FlashTypeOK'
        BY DEF FlashTypeOK, Op
  <1>2. CallInv'
        BY DEF CallInv, Running
  <1>3. TransferInv'
        BY DEF TransferInv, Follow
  <1>4. EraseInv'
        BY DEF EraseInv, Follow, Running
  <1> QED BY <1>1, <1>2, <1>3, <1>4

-----------------------------------------------------------------------------
(* Sectors.                                                                  *)

\* Sectors follow one another.
LEMMA NextSector ==
  ASSUME NEW a \in Area, secOff \in {ExtFirst, ExtFirst + ExtSector}, NEW i \in Nat, NEW j \in Nat
  PROVE  /\ SectorAt(a, i) \in Nat /\ i <= SectorAt(a, i)
         /\ SectorAt(a, i + 1) = SectorAt(a, i) + SectorSize(a)
         /\ i <= j => SectorAt(a, i) <= SectorAt(a, j)
         /\ i < j => SectorAt(a, i) + SectorSize(a) <= SectorAt(a, j)
  <1>1. SectorSize(a) \in Nat \ {0} /\ Base(a) \in Nat
        BY Layout
  <1>2. /\ SectorAt(a, i) = Base(a) + SectorSize(a) * i
        /\ SectorAt(a, j) = Base(a) + SectorSize(a) * j
        /\ SectorAt(a, i + 1) = Base(a) + SectorSize(a) * (i + 1)
        BY <1>1, ProductNat DEF SectorAt
  <1>3. /\ SectorSize(a) * i \in Nat /\ SectorSize(a) * j \in Nat
        /\ i <= j => SectorSize(a) * i <= SectorSize(a) * j
        /\ i < j => SectorSize(a) * i + SectorSize(a) <= SectorSize(a) * j
        /\ SectorSize(a) * (i + 1) = SectorSize(a) * i + SectorSize(a)
        BY <1>1, ProductNat, ProductGrows
  <1>4. i <= SectorSize(a) * i
    <2>1. i * 1 <= i * SectorSize(a) /\ i * 1 = i
      <3>1. CASE i = 0
            BY <1>1, <3>1, ProductNat
      <3>2. CASE i # 0
            BY <1>1, <3>2, ProductGrows
      <3> QED BY <3>1, <3>2
    <2> QED BY <1>1, <2>1, ProductNat
  <1> QED BY <1>1, <1>2, <1>3, <1>4

\* The sector that holds an address of the area, or the one behind it, lies in the area as well,
\* and an address at a multiple of the sector size begins one.
LEMMA HoldingSector ==
  ASSUME NEW a \in Area, secOff \in {ExtFirst, ExtFirst + ExtSector}, NEW o \in Nat,
         NEW k, k = ((Off(a) + o) - Base(a)) \div SectorSize(a)
  PROVE  /\ k \in Nat /\ k <= Off(a) + o
         /\ Off(a) <= SectorAt(a, k) /\ SectorAt(a, k) <= Off(a) + o
         /\ o % SectorSize(a) = 0 => SectorAt(a, k) = Off(a) + o
  <1> DEFINE sz == SectorSize(a)
             x == (Off(a) + o) - Base(a)
  <1>1. sz \in Nat \ {0} /\ Base(a) \in Nat /\ Off(a) \in Nat
        BY Layout
  <1>2. PICK m \in Nat : Off(a) = Base(a) + sz * m
        BY Layout
  <1>3. sz * m \in Nat
        BY <1>1, ProductNat
  <1>4. x = sz * m + o /\ x \in Nat /\ x + Base(a) = Off(a) + o
        BY <1>1, <1>2, <1>3
  <1>. k = x \div sz
       OBVIOUS
  <1> HIDE DEF x
  <1>5. k \in Nat /\ sz * k <= x /\ x < sz * k + sz /\ sz * k \in Nat
        BY <1>1, <1>4, DivBounds
  <1>6. SectorAt(a, k) = Base(a) + sz * k
        BY <1>1, <1>5, ProductNat DEF SectorAt
  <1>7. k <= x
    <2>1. CASE k = 0
          BY <2>1, <1>4
    <2>2. CASE k # 0
      <3>1. k * 1 <= k * sz /\ k * 1 = k
            BY <2>2, <1>1, <1>5, ProductGrows
      <3> QED BY <3>1, <1>1, <1>5, <1>4, ProductNat
    <2> QED BY <2>1, <2>2
  <1>8. m <= k
    <2>1. SUFFICES ASSUME k < m
                   PROVE  FALSE
          BY <1>5
    <2>2. sz * k + sz <= sz * m
          BY <2>1, <1>1, <1>5, ProductGrows
    <2> QED BY <2>2, <1>1, <1>3, <1>4, <1>5
  <1>9. sz * m <= sz * k
        BY <1>1, <1>5, <1>8, ProductGrows
  <1>10. ASSUME o % sz = 0
         PROVE  sz * k = sz * m + o
    <2> DEFINE d == o \div sz
    <2>1. o = sz * d /\ d \in Nat
          BY <1>1, <1>10, Divides
    <2> HIDE DEF d
    <2>2. x = sz * (m + d) + 0
          BY <1>1, <1>4, <2>1
    <2>3. k = m + d
      <3>1. (sz * (m + d) + 0) \div sz = m + d
            BY <1>1, <2>1, DivUnique
      <3> QED BY <2>2, <3>1
    <2> QED BY <1>1, <2>1, <2>2, <2>3, <1>4
  <1>11. k \in Nat /\ k <= Off(a) + o
        BY <1>1, <1>4, <1>5, <1>7
  <1>12. Off(a) <= SectorAt(a, k) /\ SectorAt(a, k) <= Off(a) + o
        BY <1>1, <1>2, <1>3, <1>4, <1>5, <1>6, <1>9
  <1>13. o % sz = 0 => SectorAt(a, k) = Off(a) + o
        BY <1>1, <1>2, <1>3, <1>4, <1>6, <1>10
  <1> QED BY <1>11, <1>12, <1>13

\* What the bounds check says of the range of a call: its first address, and where it ends in the
\* area if its length wraps around.
LEMMA Checked ==
  ASSUME NEW a \in Area, secOff \in {ExtFirst, ExtFirst + ExtSector},
         NEW off \in 0..(Word - 1), NEW len \in 0..(Word - 1),
         off <= Size[a], Plus(off, len) <= Size[a]
  PROVE  /\ Plus(Off(a), off) = Off(a) + off
         /\ Plus(Off(a) + off, len) = Off(a) + Plus(off, len)
         /\ len < Word - Size[a] => Plus(off, len) = off + len
  <1> DEFINE r == Plus(off, len)
             q == (off + len) \div Word
  <1>1. Word \in Nat \ {0} /\ off \in Nat /\ len \in Nat
        BY Constants
  <1>2. Off(a) \in Nat /\ Size[a] \in Nat /\ Off(a) + Size[a] < Word
        BY Layout
  <1>3. Plus(Off(a), off) = Off(a) + off
    <2>1. Off(a) + off < Word
          BY <1>1, <1>2
    <2> QED BY <2>1, <1>1, <1>2, WordSum
  <1>4. q \in Nat /\ r \in Nat /\ off + len = Word * q + r /\ Word * q \in Nat
        BY <1>1, DivMod, ProductNat DEF Plus
  <1> HIDE DEF q, r
  <1>5. r <= Size[a]
        BY DEF r
  <1>6. Off(a) + off + len = Word * q + (Off(a) + r)
    <2> DEFINE w == Word * q
    <2>1. w \in Nat /\ off + len = w + r
          BY <1>4
    <2> HIDE DEF w
    <2>2. Off(a) + (off + len) = Off(a) + (w + r)
          BY <2>1
    <2>3. Off(a) + off + len = w + (Off(a) + r)
          BY <2>1, <2>2, <1>1, <1>2, <1>4
    <2> QED BY <2>3 DEF w
  <1>7. Off(a) + r \in Nat /\ Off(a) + r < Word
        BY <1>1, <1>2, <1>4, <1>5
  <1>8. (Word * q + (Off(a) + r)) % Word = Off(a) + r
        BY <1>1, <1>4, <1>7, DivUnique
  <1>9. Plus(Off(a) + off, len) = Off(a) + r
        BY <1>6, <1>8 DEF Plus
  <1>10. len < Word - Size[a] => Plus(off, len) = off + len
    <2>1. len < Word - Size[a] => off + len < Word
          BY <1>1, <1>2
    <2> QED BY <2>1, <1>1, WordSum
  <1> QED BY <1>3, <1>9, <1>10 DEF r

-----------------------------------------------------------------------------
(* The steps of a call.                                                      *)

LEMMA BeginKeeps ==
  ASSUME FlashInv, NEW op \in Op \ {"none"}, NEW a \in Area,
         NEW off \in 0..(Word - 1), NEW len \in 0..(Word - 1), Begin(op, a, off, len)
  PROVE  FlashInv'
  <1> DEFINE start == Off(a) + off
             stop == Off(a) + Plus(off, len)
             first == (start - Base(a)) \div SectorSize(a)
             end == (stop - Base(a)) \div SectorSize(a)
             at == IF op = "erase" THEN first ELSE start
             left == IF op # "erase" THEN len ELSE IF first < end THEN end - first ELSE 0
  <1>0. /\ start = Off(a) + off /\ first = ((Off(a) + off) - Base(a)) \div SectorSize(a)
        /\ stop = Off(a) + Plus(off, len)
        /\ end = ((Off(a) + Plus(off, len)) - Base(a)) \div SectorSize(a)
        OBVIOUS
  <1>1. secOff \in {ExtFirst, ExtFirst + ExtSector} /\ secOff \in 0..(Word - 1) /\ chip \in BOOLEAN
        BY DEF FlashInv, CallInv, FlashTypeOK
  <1>2. /\ Off(a) \in Nat /\ Size[a] \in Nat /\ Off(a) + Size[a] < Word
        /\ SectorSize(a) \in Nat \ {0} /\ Base(a) \in Nat
        BY <1>1, Layout
  <1>3. Word \in Nat \ {0} /\ off \in Nat /\ len \in Nat /\ Plus(off, len) \in Nat
        BY Constants, WordSum
  <1>4. off <= Size[a] /\ Plus(off, len) <= Size[a]
        BY <1>2, <1>3 DEF Begin, InBounds
  <1>5. /\ Plus(Off(a), off) = start /\ Plus(start, len) = stop
        /\ len < Word - Size[a] => Plus(off, len) = off + len
        BY <1>1, <1>4, Checked
  <1>6. call' = [op |-> op, area |-> a, off |-> off, len |-> len, at |-> at, left |-> left,
                 res |-> "run"]
        BY <1>5 DEF Begin
  <1>7. pieces' = <<>> /\ secOff' = secOff /\ chip' = chip /\ Off(a)' = Off(a)
        BY DEF Begin, Off
  <1> HIDE DEF first, end, start, stop
  <1>8. start \in Nat /\ stop \in Nat /\ start <= Off(a) + Size[a] /\ stop <= Off(a) + Size[a]
        BY <1>2, <1>3, <1>4 DEF start, stop
  <1>9. /\ first \in Nat /\ first <= start /\ Off(a) <= SectorAt(a, first)
        /\ SectorAt(a, first) <= start
        /\ off % SectorSize(a) = 0 => SectorAt(a, first) = start
        BY <1>0, <1>1, <1>3, HoldingSector
  <1>10. /\ end \in Nat /\ end <= stop /\ SectorAt(a, end) <= stop
         /\ Plus(off, len) % SectorSize(a) = 0 => SectorAt(a, end) = stop
        BY <1>0, <1>1, <1>3, HoldingSector
  <1>11. at \in 0..(Word - 1) /\ left \in 0..(Word - 1)
        BY <1>2, <1>3, <1>8, <1>9, <1>10
  <1> HIDE DEF at, left
  <1>12. /\ call'.op = op /\ call'.area = a /\ call'.off = off /\ call'.len = len
         /\ call'.at = at /\ call'.left = left /\ call'.res = "run"
        BY <1>6
  <1>13. FlashTypeOK'
        BY <1>1, <1>6, <1>7, <1>11 DEF FlashTypeOK
  <1>14. CallInv'
    <2>1. pieces' \in Seq(Nat \X Nat)
          BY <1>7
    <2> QED BY <1>1, <1>4, <1>7, <1>12, <2>1 DEF CallInv, Running
  <1>15. Unwrapped' => /\ First' = start /\ Behind' = Off(a) + off + len
                       /\ Plus(off, len) = off + len /\ stop = Off(a) + off + len
    <2>1. Unwrapped' => len < Word - Size[a]
          BY <1>12 DEF Unwrapped
    <2>2. First' = start /\ Behind' = start + len
          BY <1>7, <1>12 DEF First, Behind, Off, start
    <2> QED BY <1>2, <1>3, <1>5, <2>1, <2>2 DEF start, stop
  <1>16. TransferInv'
    <2>1. op # "erase" => at = start /\ left = len
          BY DEF at, left
    <2>2. Unwrapped' /\ op # "erase" => call'.at + call'.left = Behind'
          BY <1>2, <1>3, <1>12, <1>15, <2>1 DEF start
    <2> QED BY <1>7, <1>12, <2>1, <2>2 DEF TransferInv, Follow
  <1>17. EraseInv'
    <2> SUFFICES ASSUME op = "erase"
                 PROVE  EraseInv'
          BY <1>12 DEF EraseInv
    <2>1. /\ at = first /\ left \in Nat
          /\ first < end => at + left = end
          /\ ~(first < end) => at + left = first
          BY <1>9, <1>10 DEF at, left
    <2>2. SectorAt(a, at) = SectorAt(a, first) /\ SectorAt(a, first) \in Nat
          /\ SectorAt(a, end) \in Nat
          BY <1>1, <1>9, <1>10, <2>1, NextSector
    <2>3. SectorAt(a, at + left) <= Off(a) + Size[a]
          BY <1>2, <1>8, <1>9, <1>10, <2>1, <2>2
    <2>4. ASSUME Unwrapped', off % SectorSize(a) = 0, len % SectorSize(a) = 0
          PROVE  /\ SectorAt(a, at) = First'
                 /\ SectorAt(a, at + left) = Behind'
      <3>1. (off + len) % SectorSize(a) = 0
            BY <1>2, <1>3, <2>4, SumDivides
      <3>2. SectorAt(a, end) = stop
            BY <1>10, <1>15, <2>4, <3>1
      <3>3. stop = start + len
            BY <1>2, <1>3, <1>15, <2>4 DEF start
      <3>4. ~(first < end) => SectorAt(a, end) <= SectorAt(a, first)
            BY <1>1, <1>9, <1>10, NextSector
      <3>5. ~(first < end) => stop = start
            BY <1>3, <1>8, <1>9, <2>4, <3>2, <3>3, <3>4
      <3>6. Behind' = stop
            BY <1>15, <2>4
      <3> QED BY <1>9, <1>15, <2>1, <2>4, <3>2, <3>5, <3>6
    <2> QED BY <1>7, <1>9, <1>12, <2>2, <2>3, <2>4 DEF EraseInv, Follow, Aligned
  <1> QED BY <1>13, <1>14, <1>16, <1>17 DEF FlashInv

\* A transfer ends in the page it begins in, which does not wrap around, and what follows a
\* transfer that leaves something to do begins behind it.
LEMMA OneTransfer ==
  ASSUME FlashTypeOK, call.left > 0
  PROVE  /\ Chunk \in 1..call.left
         /\ Device[call.area] = "external" =>
              /\ call.at + Chunk <= Word
              /\ Plus(call.at, Chunk - 1) \div Page = call.at \div Page
         /\ Chunk < call.left /\ call.at + Chunk < Word => NextAt(Chunk) = call.at + Chunk
  <1> DEFINE q == call.at \div Page
             r == call.at % Page
             w == Word \div Page
             rest == Page - r
  <1>1. /\ Page \in Nat \ {0} /\ Word \in Nat \ {0}
        /\ call.at \in Nat /\ call.left \in Nat /\ call.at < Word
        BY Constants, Fields
  <1>2. q \in Nat /\ r \in Nat /\ r < Page /\ call.at = Page * q + r /\ Page * q \in Nat
        BY <1>1, DivMod, ProductNat
  <1>3. w \in Nat /\ Word = Page * w
        BY <1>1, Divides, FlashAssumption
  <1>4. /\ Device[call.area] = "internal" => Chunk = call.left
        /\ Device[call.area] # "internal" =>
             Chunk = IF rest > call.left THEN call.left ELSE rest
        BY DEF Chunk
  <1>5. (call.at \div Page + 1) * Page = Page * q + Page
    <2> HIDE DEF q
    <2>1. q + 1 \in Nat /\ (q + 1) * Page = Page * (q + 1) /\ Page * (q + 1) = Page * q + Page
          BY <1>1, <1>2, ProductNat, ProductGrows
    <2> QED BY <2>1 DEF q
  <1>6. NextAt(Chunk) = IF call.op = "write" /\ Device[call.area] = "external"
                        THEN (Page * q + Page) % Word ELSE Plus(call.at, Chunk)
        BY <1>5 DEF NextAt
  <1> HIDE DEF q, w, r
  <1>7. rest \in 1..Page /\ call.at + rest = Page * q + Page
        BY <1>1, <1>2
  <1> HIDE DEF rest
  <1>8. Page * q + Page <= Word
    <2>1. ~(w <= q)
      <3>1. w <= q => Page * w <= Page * q
            BY <1>1, <1>2, <1>3, ProductGrows
      <3> QED BY <1>1, <1>2, <1>3, <3>1
    <2> QED BY <2>1, <1>1, <1>2, <1>3, ProductGrows
  <1>9. Chunk \in 1..call.left
        BY <1>1, <1>4, <1>7
  <1>10. ASSUME Device[call.area] = "external"
         PROVE  /\ call.at + Chunk <= Word
                /\ Plus(call.at, Chunk - 1) \div Page = q
    <2>1. Chunk <= rest
          BY <1>1, <1>4, <1>7, <1>10
    <2>2. /\ call.at + Chunk <= Word /\ r + (Chunk - 1) \in Nat /\ r + (Chunk - 1) < Page
          /\ call.at + (Chunk - 1) = Page * q + (r + (Chunk - 1))
          BY <1>1, <1>2, <1>7, <1>8, <1>9, <2>1
    <2>3. Plus(call.at, Chunk - 1) = call.at + (Chunk - 1)
      <3>1. call.at + (Chunk - 1) < Word /\ Chunk - 1 \in Nat
            BY <1>1, <1>9, <2>2
      <3> QED BY <1>1, <3>1, WordSum
    <2>4. (Page * q + (r + (Chunk - 1))) \div Page = q
          BY <1>1, <1>2, <2>2, DivUnique
    <2> QED BY <2>2, <2>3, <2>4
  <1>11. ASSUME Chunk < call.left, call.at + Chunk < Word
         PROVE  NextAt(Chunk) = call.at + Chunk
    <2>1. Plus(call.at, Chunk) = call.at + Chunk
      <3>1. Chunk \in Nat
            BY <1>1, <1>9
      <3> QED BY <1>1, <1>11, <3>1, WordSum
    <2>2. Device[call.area] = "external" => Chunk = rest
          BY <1>1, <1>4, <1>7, <1>9, <1>11
    <2>3. Device[call.area] = "external" => (Page * q + Page) % Word = call.at + Chunk
      <3>1. call.at + Chunk \in Nat
            BY <1>1, <1>9
      <3> QED BY <1>1, <1>7, <1>11, <2>2, <3>1, ModSmall
    <2> QED BY <1>6, <2>1, <2>3
  <1> QED BY <1>9, <1>10, <1>11 DEF q

LEMMA TransferKeeps ==
  ASSUME FlashInv, Transfer
  PROVE  FlashInv'
  <1> DEFINE n == Len(pieces)
             last == Plus(call.at, Chunk - 1)
             left == call.left - Chunk
             next == NextAt(Chunk)
  <1>1. /\ Word \in Nat \ {0} /\ call.area \in Area /\ call.off \in Nat /\ call.len \in Nat
        /\ call.at \in Nat /\ call.left \in Nat /\ call.at < Word /\ call.left < Word
        /\ call.left > 0 /\ call.op \in {"read", "write"} /\ call.res = "run"
        BY Constants, Fields DEF FlashInv, Transfer, Running
  <1>2. Chunk \in 1..call.left /\ Chunk \in Nat /\ Chunk - 1 \in Nat
        BY <1>1, OneTransfer DEF FlashInv
  <1>3. left \in Nat /\ left < call.left
        BY <1>1, <1>2
  <1>4. last \in 0..(Word - 1) /\ last \in Nat
    <2>1. Plus(call.at, Chunk - 1) \in 0..(Word - 1)
          BY <1>1, <1>2, WordSum
    <2> QED BY <1>1, <2>1
  <1>5. next \in 0..(Word - 1)
    <2>1. Plus(call.at, Chunk) \in 0..(Word - 1)
          BY <1>1, <1>2, WordSum
    <2>2. ((call.at \div Page + 1) * Page) % Word \in 0..(Word - 1)
      <3>1. call.at \div Page + 1 \in Nat /\ Page \in Nat
            BY <1>1, Constants, DivMod
      <3>2. (call.at \div Page + 1) * Page \in Nat
            BY <3>1, ProductNat
      <3> QED BY <1>1, <3>2, DivMod
    <2> QED BY <2>1, <2>2 DEF NextAt
  <1>6. /\ pieces \in Seq(Nat \X Nat) /\ Adds(call.at, last)
        /\ secOff' = secOff /\ chip' = chip
        BY DEF FlashInv, CallInv, Transfer, Adds
  <1>7. call' = [call EXCEPT !.left = left, !.at = next]
        BY DEF Transfer
  <1>8. FlashTypeOK'
    <2> HIDE DEF left, next, last
    <2>1. call' \in [op : Op, area : Area, off : 0..(Word - 1), len : 0..(Word - 1),
                     at : 0..(Word - 1), left : 0..(Word - 1), res : {"run", "ok", "error"}]
      <3>1. left \in 0..(Word - 1)
            BY <1>1, <1>3
      <3> QED BY <1>5, <1>7, <3>1 DEF FlashInv, FlashTypeOK
    <2>2. <<call.at, last>> \in (0..(Word - 1)) \X (0..(Word - 1))
          BY <1>1, <1>4
    <2>3. ASSUME NEW i \in DOMAIN pieces'
          PROVE  pieces'[i] \in (0..(Word - 1)) \X (0..(Word - 1))
      <3>1. /\ DOMAIN pieces' = DOMAIN pieces \cup {n + 1} /\ pieces'[n + 1] = <<call.at, last>>
            /\ \A j \in DOMAIN pieces : pieces'[j] = pieces[j]
        <4>1. 1..(n + 1) = (1..n) \cup {n + 1} /\ n \in Nat
              BY <1>6
        <4> QED BY <1>1, <1>4, <1>6, <4>1, Appended
      <3> QED BY <2>2, <3>1 DEF FlashInv, FlashTypeOK
    <2> QED BY <1>6, <2>1, <2>3 DEF FlashInv, FlashTypeOK
  <1> HIDE DEF last, left, next
  <1>9. /\ call'.op = call.op /\ call'.area = call.area /\ call'.off = call.off
        /\ call'.len = call.len /\ call'.at = next /\ call'.left = left /\ call'.res = "run"
        BY <1>1, <1>7 DEF FlashInv, FlashTypeOK
  <1>10. /\ pieces' \in Seq(Nat \X Nat) /\ pieces' # <<>> /\ Len(pieces') = n + 1
         /\ DOMAIN pieces = 1..n /\ DOMAIN pieces' = 1..(n + 1) /\ n \in Nat
         /\ \A i \in 1..n : pieces'[i] = pieces[i] /\ pieces[i] \in Nat \X Nat
         /\ pieces'[n + 1] = <<call.at, last>> /\ (pieces = <<>> <=> n = 0)
         BY <1>1, <1>4, <1>6, Appended
  <1>11. CallInv'
         BY <1>1, <1>6, <1>9, <1>10 DEF FlashInv, CallInv, Running
  <1>12. EraseInv'
         BY <1>1, <1>9 DEF EraseInv
  <1>13. ASSUME Device[call.area] = "external"
         PROVE  \A i \in DOMAIN pieces' : pieces'[i][1] \div Page = pieces'[i][2] \div Page
    <2>1. call.at \div Page = last \div Page
          BY <1>1, <1>13, OneTransfer DEF FlashInv, last
    <2>2. \A i \in DOMAIN pieces : pieces[i][1] \div Page = pieces[i][2] \div Page
          BY <1>1, <1>13 DEF FlashInv, TransferInv
    <2> QED BY <1>10, <2>1, <2>2
  <1>14. First' = First /\ Behind' = Behind /\ (Unwrapped' <=> Unwrapped)
         BY <1>6, <1>9 DEF First, Behind, Unwrapped, Off
  <1>15. ASSUME Unwrapped
         PROVE  /\ \A i \in DOMAIN pieces' : /\ First <= pieces'[i][1]
                                             /\ pieces'[i][1] <= pieces'[i][2]
                                             /\ pieces'[i][2] < Behind
                /\ Follow'
                /\ pieces'[1][1] = First
                /\ left > 0 => next + left = Behind
                /\ left < call.len
                /\ last + 1 + left = Behind
    <2>1. First \in Nat /\ Behind \in Nat /\ Behind < Word /\ Behind = First + call.len
          BY <1>1, <1>15, RangeInArea DEF FlashInv, Running, Behind
    <2>2. /\ n # 0 => /\ pieces[1][1] = First /\ call.left < call.len
                      /\ pieces[n][2] + 1 + call.left = Behind
          /\ n = 0 => call.left = call.len
          /\ call.at + call.left = Behind
          BY <1>1, <1>10, <1>15 DEF FlashInv, TransferInv
    <2>3. last = call.at + (Chunk - 1)
      <3>1. call.at + (Chunk - 1) < Word
            BY <1>1, <1>2, <2>1, <2>2
      <3> QED BY <1>1, <1>2, <3>1, WordSum DEF last
    <2>4. n # 0 => call.at = pieces[n][2] + 1 /\ First <= call.at
      <3> SUFFICES ASSUME n # 0
                   PROVE  call.at = pieces[n][2] + 1 /\ First <= call.at
            OBVIOUS
      <3>1. n \in 1..n /\ n \in DOMAIN pieces
            BY <1>10
      <3> DEFINE p == pieces[n][2]
      <3>2. p \in Nat
            BY <1>10, <3>1
      <3>3. First <= pieces[n][1] /\ pieces[n][1] <= p /\ pieces[n][1] \in Nat
            BY <1>1, <1>10, <1>15, <3>1 DEF FlashInv, TransferInv
      <3>4. p + 1 + call.left = Behind
            BY <2>2
      <3> HIDE DEF p
      <3>5. call.at = p + 1
            BY <1>1, <2>2, <3>2, <3>4
      <3>6. First <= call.at
            BY <2>1, <3>2, <3>3, <3>5
      <3> QED BY <3>5, <3>6 DEF p
    <2>5. n = 0 => call.at = First
          BY <1>1, <2>1, <2>2
    <2>6. First <= call.at /\ call.at <= last /\ last < Behind /\ last + 1 + left = Behind
      <3>1. First <= call.at
            BY <1>1, <2>1, <2>4, <2>5
      <3>2. call.at + call.left = Behind
            BY <2>2
      <3> QED BY <1>1, <1>2, <2>1, <2>3, <3>1, <3>2 DEF left
    <2>7. left < call.len
          BY <1>1, <1>3, <2>2
    <2>8. Follow /\ Within(First, Behind)
          BY <1>1, <1>15 DEF FlashInv, TransferInv, Within
    <2>9. left > 0 => next + left = Behind
      <3>1. call.at + call.left = Behind
            BY <2>2
      <3>2. left > 0 => Chunk < call.left /\ call.at + Chunk < Word
            BY <1>1, <1>2, <2>1, <3>1 DEF left
      <3>3. left > 0 => next = call.at + Chunk
            BY <1>1, <3>2, OneTransfer DEF FlashInv, next
      <3> QED BY <1>1, <1>2, <3>1, <3>3 DEF left
    <2>10. pieces # <<>> => call.at = pieces[Len(pieces)][2] + 1
           BY <1>10, <2>4
    <2>11. /\ \A i \in DOMAIN pieces' : /\ First <= pieces'[i][1]
                                          /\ pieces'[i][1] <= pieces'[i][2]
                                          /\ pieces'[i][2] < Behind
           /\ Follow'
           /\ pieces'[1][1] = IF pieces = <<>> THEN call.at ELSE pieces[1][1]
           BY <1>1, <1>4, <1>6, <2>1, <2>6, <2>8, <2>10, Chained
    <2>12. pieces'[1][1] = First
           BY <1>10, <2>2, <2>5, <2>11
    <2> QED BY <2>6, <2>7, <2>9, <2>11, <2>12
  <1>16. TransferInv'
         BY <1>9, <1>10, <1>13, <1>14, <1>15 DEF TransferInv
  <1> QED BY <1>8, <1>11, <1>12, <1>16 DEF FlashInv

LEMMA EraseSectorKeeps ==
  ASSUME FlashInv, EraseSector
  PROVE  FlashInv'
  <1> DEFINE a == call.area
             sz == SectorSize(a)
             from == SectorAt(a, call.at)
             to == SectorAt(a, call.at + 1)
             end == SectorAt(a, call.at + call.left)
             last == Plus(from, sz - 1)
  <1>1. /\ Word \in Nat \ {0} /\ a \in Area /\ call.off \in Nat /\ call.len \in Nat
        /\ call.at \in Nat /\ call.left \in Nat /\ call.at < Word /\ call.left < Word
        /\ call.left > 0 /\ call.op = "erase" /\ call.res = "run"
        BY Constants, Fields DEF FlashInv, EraseSector, Running
  <1>2. /\ secOff \in {ExtFirst, ExtFirst + ExtSector} /\ pieces \in Seq(Nat \X Nat)
        /\ secOff' = secOff /\ chip' = chip
        BY DEF FlashInv, CallInv, EraseSector
  <1>3. sz \in Nat \ {0} /\ Off(a) \in Nat /\ Size[a] \in Nat /\ Off(a) + Size[a] < Word
        BY <1>1, <1>2, Layout
  <1>4. /\ \A i \in DOMAIN pieces :
             Off(a) <= pieces[i][1] /\ pieces[i][1] <= pieces[i][2] /\ pieces[i][2] < from
        /\ Follow
        /\ Off(a) <= from /\ end <= Off(a) + Size[a]
        /\ pieces # <<>> => pieces[Len(pieces)][2] + 1 = from
        /\ Unwrapped /\ Aligned =>
             /\ pieces # <<>> => pieces[1][1] = First /\ First < from
             /\ pieces = <<>> => from = First
             /\ end = Behind
        BY <1>1 DEF FlashInv, EraseInv, Running
  <1>5. from \in Nat /\ to \in Nat /\ end \in Nat /\ to = from + sz
    <2>1. call.at + 1 \in Nat /\ call.at + call.left \in Nat
          BY <1>1
    <2> QED BY <1>1, <1>2, <2>1, NextSector
  <1>6. to <= end /\ call.at + 1 <= to
    <2>1. call.at + 1 \in Nat /\ call.at + call.left \in Nat /\ call.at + 1 <= call.at + call.left
          BY <1>1
    <2> QED BY <1>1, <1>2, <2>1, NextSector
  <1> DEFINE at == call.at + 1
             left == call.left - 1
  <1>7. /\ pieces' = Append(pieces, <<from, last>>)
        /\ call' = [call EXCEPT !.left = left, !.at = at]
        BY DEF EraseSector
  <1>8. SectorAt(a, at) = to /\ SectorAt(a, at + left) = end
    <2>1. at + left = call.at + call.left
          BY <1>1
    <2> QED BY <2>1
  <1> HIDE DEF from, to, end, sz
  <1>9. last = from + (sz - 1) /\ last \in Nat /\ last < to /\ last + 1 = to /\ from <= last
    <2>1. from + (sz - 1) < Word /\ sz - 1 \in Nat
          BY <1>1, <1>3, <1>4, <1>5, <1>6
    <2>2. last = from + (sz - 1)
          BY <1>5, <2>1, WordSum
    <2> QED BY <1>3, <1>5, <2>2
  <1>10. /\ from \in 0..(Word - 1) /\ last \in 0..(Word - 1)
         /\ at \in 0..(Word - 1) /\ left \in 0..(Word - 1)
    <2>1. end <= Off(a) + Size[a]
          BY <1>4
    <2> HIDE DEF last
    <2>2. end < Word
          BY <1>1, <1>3, <1>5, <2>1
    <2>3. from < Word /\ last < Word /\ call.at + 1 < Word
          BY <1>1, <1>3, <1>5, <1>6, <1>9, <2>2
    <2> QED BY <1>1, <1>5, <1>9, <2>3
  <1> HIDE DEF last, at, left, a
  <1>11. /\ call'.op = "erase" /\ call'.area = a /\ call'.off = call.off
         /\ call'.len = call.len /\ call'.at = at /\ call'.left = left /\ call'.res = "run"
    <2>1. DOMAIN call = {"op", "area", "off", "len", "at", "left", "res"}
          BY DEF FlashInv, FlashTypeOK
    <2> QED BY <1>1, <1>7, <2>1 DEF a
  <1>12. Adds(from, last)
         BY <1>7 DEF Adds
  <1>13. /\ pieces' \in Seq(Nat \X Nat) /\ pieces' # <<>>
         /\ DOMAIN pieces' = 1..(Len(pieces) + 1) /\ DOMAIN pieces = 1..Len(pieces)
         /\ \A i \in DOMAIN pieces : pieces'[i] = pieces[i]
         /\ pieces'[Len(pieces) + 1] = <<from, last>> /\ Len(pieces) \in Nat
         BY <1>2, <1>5, <1>9, <1>12, Appended
  <1>14. FlashTypeOK'
    <2>1. call' \in [op : Op, area : Area, off : 0..(Word - 1), len : 0..(Word - 1),
                     at : 0..(Word - 1), left : 0..(Word - 1), res : {"run", "ok", "error"}]
          BY <1>7, <1>10 DEF FlashInv, FlashTypeOK
    <2>2. <<from, last>> \in (0..(Word - 1)) \X (0..(Word - 1))
          BY <1>10
    <2>3. ASSUME NEW i \in DOMAIN pieces'
          PROVE  pieces'[i] \in (0..(Word - 1)) \X (0..(Word - 1))
      <3>1. i \in DOMAIN pieces \/ i = Len(pieces) + 1
        <4>1. 1..(Len(pieces) + 1) = (1..Len(pieces)) \cup {Len(pieces) + 1}
              BY <1>2
        <4> QED BY <1>13, <4>1
      <3> QED BY <1>13, <2>2, <3>1 DEF FlashInv, FlashTypeOK
    <2> QED BY <1>2, <2>1, <2>3 DEF FlashInv, FlashTypeOK
  <1>15. CallInv'
         BY <1>1, <1>2, <1>11, <1>13 DEF FlashInv, CallInv, Running, a
  <1>16. TransferInv'
         BY <1>11 DEF TransferInv
  <1>17. /\ First' = First /\ Behind' = Behind /\ (Unwrapped' <=> Unwrapped)
         /\ (Aligned' <=> Aligned)
         BY <1>2, <1>11 DEF First, Behind, Unwrapped, Off, Aligned, a
  <1>18. /\ \A i \in DOMAIN pieces' :
              Off(a) <= pieces'[i][1] /\ pieces'[i][1] <= pieces'[i][2] /\ pieces'[i][2] < to
         /\ Follow'
         /\ pieces'[Len(pieces')][2] = last
         /\ pieces'[1][1] = IF pieces = <<>> THEN from ELSE pieces[1][1]
    <2>1. Within(Off(a), to)
      <3> SUFFICES ASSUME NEW i \in DOMAIN pieces
                   PROVE  /\ Off(a) <= pieces[i][1] /\ pieces[i][1] <= pieces[i][2]
                          /\ pieces[i][2] < to
            BY DEF Within
      <3>1. pieces[i][2] \in Nat
            BY <1>2
      <3>2. pieces[i][2] < from /\ from < to
            BY <1>3, <1>4, <1>5
      <3>3. pieces[i][2] < to
            BY <1>5, <3>1, <3>2
      <3> QED BY <1>4, <3>3
    <2>2. pieces # <<>> => from = pieces[Len(pieces)][2] + 1
          BY <1>4
    <2>3. Follow /\ Off(a) <= from
          BY <1>4
    <2> QED BY <1>2, <1>3, <1>5, <1>9, <1>12, <2>1, <2>2, <2>3, Chained
  <1>19. ASSUME Unwrapped, Aligned
         PROVE  pieces'[1][1] = First /\ First < to /\ end = Behind
    <2>1. First \in Nat
          BY <1>1, <1>3 DEF First, a
    <2>2. First < to
      <3>1. First = from \/ First < from
            BY <1>4, <1>19
      <3> QED BY <1>3, <1>5, <2>1, <3>1
    <2> QED BY <1>4, <1>18, <1>19, <2>2
  <1>20. /\ SectorAt(call'.area, call'.at) = to
         /\ SectorAt(call'.area, call'.at + call'.left) = end
         BY <1>8, <1>11
  <1>21. Off(a) <= to
         BY <1>3, <1>4, <1>5
  <1>22. pieces'[Len(pieces')][2] + 1 = to
         BY <1>9, <1>18
  <1>23. end <= Off(a) + Size[a]
         BY <1>4
  <1>24. Off(call.area)' = Off(a) /\ Size[call.area]' = Size[a] /\ call'.res # "error"
         BY <1>2, <1>11 DEF Off
  <1>25. EraseInv'
         BY <1>11, <1>13, <1>17, <1>18, <1>19, <1>20, <1>21, <1>22, <1>23, <1>24 DEF EraseInv
  <1> QED BY <1>14, <1>15, <1>16, <1>25 DEF FlashInv

LEMMA DriverFailsKeeps ==
  ASSUME FlashInv, DriverFails
  PROVE  FlashInv'
  <1>1. /\ call.op \in Op /\ call.area \in Area /\ call.at \in Nat /\ call.left \in Nat
        /\ 0 \in 0..(Word - 1)
        BY Constants, Fields DEF FlashInv
  <1>2. /\ call' = [call EXCEPT !.left = 0, !.res = "error"]
        /\ pieces' = pieces /\ secOff' = secOff /\ chip' = chip /\ Running
        BY DEF DriverFails
  <1>3. FlashTypeOK'
        BY <1>1, <1>2 DEF FlashInv, FlashTypeOK
  <1>4. /\ call'.op = call.op /\ call'.area = call.area /\ call'.off = call.off
        /\ call'.len = call.len /\ call'.at = call.at /\ call'.left = 0 /\ call'.res = "error"
        BY <1>2 DEF FlashInv, FlashTypeOK
  <1>5. CallInv'
        BY <1>2, <1>4 DEF FlashInv, CallInv, Running
  <1>6. First' = First /\ Behind' = Behind /\ (Unwrapped' <=> Unwrapped) /\ (Aligned' <=> Aligned)
        BY <1>2, <1>4 DEF First, Behind, Unwrapped, Off, Aligned
  <1>7. TransferInv'
        BY <1>2, <1>4, <1>6 DEF FlashInv, TransferInv, Follow
  <1>8. EraseInv'
    <2> SUFFICES ASSUME call.op = "erase"
                 PROVE  EraseInv'
          BY <1>4 DEF EraseInv
    <2>1. /\ SectorAt(call.area, call.at) <= SectorAt(call.area, call.at + call.left)
          /\ SectorAt(call.area, call.at) \in Nat
          /\ SectorAt(call.area, call.at + call.left) \in Nat
          /\ Off(call.area) \in Nat /\ Size[call.area] \in Nat
      <3>1. call.at + call.left \in Nat /\ call.at <= call.at + call.left
            BY <1>1
      <3> QED BY <1>1, <3>1, NextSector, Layout DEF FlashInv, CallInv
    <2>2. /\ Off(call.area) <= SectorAt(call.area, call.at)
          /\ SectorAt(call.area, call.at) <= Off(call.area) + Size[call.area]
          BY <1>2, <2>1 DEF FlashInv, EraseInv
    <2>3. call'.at + call'.left = call.at /\ Off(call.area)' = Off(call.area)
          BY <1>1, <1>2, <1>4 DEF Off
    <2> QED BY <1>2, <1>4, <1>6, <2>2, <2>3 DEF FlashInv, EraseInv, Follow
  <1> QED BY <1>3, <1>5, <1>7, <1>8 DEF FlashInv

LEMMA ReturnKeeps ==
  ASSUME FlashInv, Return
  PROVE  FlashInv'
  <1>1. /\ call' = [call EXCEPT !.res = "ok"] /\ call.left = 0
        /\ pieces' = pieces /\ secOff' = secOff /\ chip' = chip /\ Running /\ call.res = "run"
        BY DEF Return, Running
  <1>2. FlashTypeOK'
        BY <1>1 DEF FlashInv, FlashTypeOK
  <1>3. /\ call'.op = call.op /\ call'.area = call.area /\ call'.off = call.off
        /\ call'.len = call.len /\ call'.at = call.at /\ call'.left = call.left /\ call'.res = "ok"
        BY <1>1 DEF FlashInv, FlashTypeOK
  <1>4. CallInv'
        BY <1>1, <1>3 DEF FlashInv, CallInv, Running
  <1>5. First' = First /\ Behind' = Behind /\ (Unwrapped' <=> Unwrapped) /\ (Aligned' <=> Aligned)
        BY <1>1, <1>3 DEF First, Behind, Unwrapped, Off, Aligned
  <1>6. TransferInv'
        BY <1>1, <1>3, <1>5 DEF FlashInv, TransferInv, Follow
  <1>7. EraseInv'
    <2>1. Off(call.area)' = Off(call.area)
          BY <1>1, <1>3 DEF Off
    <2> QED BY <1>1, <1>3, <1>5, <2>1 DEF FlashInv, EraseInv, Follow, Running
  <1> QED BY <1>2, <1>4, <1>6, <1>7 DEF FlashInv

-----------------------------------------------------------------------------
(* What the invariant says.                                                  *)

LEMMA InitFlash ==
  ASSUME FlashInit
  PROVE  FlashInv
  <1>1. /\ call.op = "none" /\ call.res = "ok" /\ call.left = 0 /\ pieces = <<>>
        /\ secOff = ExtFirst /\ chip \in BOOLEAN
        BY DEF FlashInit, NoCall
  <1>2. FlashTypeOK
    <2>1. ExtFirst \in 0..(Word - 1) /\ 0 \in 0..(Word - 1)
      <3>1. ExtSectors * ExtSector \in Nat
            BY Constants, ProductNat
      <3> QED BY <3>1, Constants, FlashAssumption
    <2> QED BY <1>1, <2>1 DEF FlashTypeOK, FlashInit, NoCall, Op, Area
  <1>3. CallInv
    <2>1. pieces \in Seq(Nat \X Nat)
          BY <1>1
    <2> QED BY <1>1, <2>1 DEF CallInv, Running
  <1>4. TransferInv /\ EraseInv
        BY <1>1 DEF TransferInv, EraseInv
  <1> QED BY <1>2, <1>3, <1>4 DEF FlashInv

LEMMA InvStaysInArea ==
  ASSUME FlashInv
  PROVE  StaysInArea
  <1> SUFFICES ASSUME Unwrapped, NEW i \in DOMAIN pieces
               PROVE  /\ Off(call.area) <= pieces[i][1] /\ pieces[i][1] <= pieces[i][2]
                      /\ pieces[i][2] < Off(call.area) + Size[call.area]
      BY DEF StaysInArea
  <1>1. /\ call.op \in Op /\ call.area \in Area /\ call.at \in Nat /\ call.left \in Nat
        /\ secOff \in {ExtFirst, ExtFirst + ExtSector}
        BY Fields DEF FlashInv, CallInv
  <1>2. pieces[i][1] \in Nat /\ pieces[i][2] \in Nat /\ pieces # <<>> /\ call.op # "none"
    <2>1. pieces[i] \in Nat \X Nat /\ pieces # <<>>
          BY DEF FlashInv, CallInv
    <2> QED BY <2>1 DEF FlashInv, CallInv
  <1>3. CASE call.op \in {"read", "write"}
    <2>1. First <= pieces[i][1] /\ pieces[i][1] <= pieces[i][2] /\ pieces[i][2] < Behind
          BY <1>3 DEF FlashInv, TransferInv
    <2>2. /\ Off(call.area) \in Nat /\ Size[call.area] \in Nat
          /\ First \in Nat /\ Behind \in Nat /\ Off(call.area) <= First
          /\ Behind <= Off(call.area) + Size[call.area]
          BY <1>2, RangeInArea DEF FlashInv
    <2> QED BY <1>2, <2>1, <2>2
  <1>4. CASE call.op = "erase"
    <2>1. /\ Off(call.area) <= pieces[i][1] /\ pieces[i][1] <= pieces[i][2]
          /\ pieces[i][2] < SectorAt(call.area, call.at)
          /\ SectorAt(call.area, call.at + call.left) <= Off(call.area) + Size[call.area]
          BY <1>2, <1>4 DEF FlashInv, EraseInv
    <2>2. /\ SectorAt(call.area, call.at) \in Nat
          /\ SectorAt(call.area, call.at + call.left) \in Nat
          /\ SectorAt(call.area, call.at) <= SectorAt(call.area, call.at + call.left)
      <3>1. call.at + call.left \in Nat /\ call.at <= call.at + call.left
            BY <1>1
      <3> QED BY <1>1, <3>1, NextSector
    <2>3. Off(call.area) \in Nat /\ Size[call.area] \in Nat
          BY <1>1, Layout
    <2> QED BY <1>2, <2>1, <2>2, <2>3
  <1> QED BY <1>1, <1>2, <1>3, <1>4 DEF Op

LEMMA InvDoesWhatItSays ==
  ASSUME FlashInv
  PROVE  DoesWhatItSays
  <1>1. /\ call.op \in Op /\ call.area \in Area /\ call.at \in Nat /\ call.left \in Nat
        /\ call.off \in Nat /\ call.len \in Nat
        /\ secOff \in {ExtFirst, ExtFirst + ExtSector} /\ pieces \in Seq(Nat \X Nat)
        BY Fields DEF FlashInv, CallInv
  <1>2. Off(call.area) \in Nat
        BY <1>1, Layout
  <1>3. call.op \in {"read", "write"} /\ Device[call.area] = "external" =>
          \A i \in DOMAIN pieces : pieces[i][1] \div Page = pieces[i][2] \div Page
        BY DEF FlashInv, TransferInv
  <1>4. ASSUME call.op # "none", call.res = "ok", Unwrapped, call.op = "erase" => Aligned
        PROVE  /\ call.len = 0 <=> pieces = <<>>
               /\ Follow
               /\ pieces # <<>> => /\ pieces[1][1] = First
                                   /\ pieces[Len(pieces)][2] + 1 = Behind
    <2>1. call.left = 0
          BY <1>4 DEF FlashInv, CallInv
    <2>2. CASE call.op = "erase"
      <3>1. /\ Follow
            /\ pieces # <<>> => /\ pieces[Len(pieces)][2] + 1 = SectorAt(call.area, call.at)
                                /\ pieces[1][1] = First /\ First < SectorAt(call.area, call.at)
            /\ pieces = <<>> => SectorAt(call.area, call.at) = First
            /\ SectorAt(call.area, call.at + call.left) = Behind
            BY <1>4, <2>2 DEF FlashInv, EraseInv
      <3>2. call.at + call.left = call.at
            BY <1>1, <2>1
      <3>3. First \in Nat /\ Behind = First + call.len
            BY <1>1, <1>2 DEF First, Behind
      <3>4. SectorAt(call.area, call.at) = Behind
            BY <3>1, <3>2
      <3> QED BY <1>1, <3>1, <3>3, <3>4
    <2>3. CASE call.op \in {"read", "write"}
      <3>1. /\ Follow
            /\ pieces # <<>> => /\ pieces[1][1] = First /\ call.left < call.len
                                /\ pieces[Len(pieces)][2] + 1 + call.left = Behind
            /\ pieces = <<>> => call.left = call.len
            BY <1>4, <2>3 DEF FlashInv, TransferInv
      <3>2. pieces # <<>> => pieces[Len(pieces)][2] \in Nat
        <4>1. pieces # <<>> => Len(pieces) \in DOMAIN pieces
              BY <1>1
        <4> QED BY <1>1, <4>1, Fields DEF FlashInv, CallInv
      <3>3. pieces # <<>> => pieces[Len(pieces)][2] + 1 = Behind
            BY <2>1, <3>1, <3>2
      <3> QED BY <1>1, <2>1, <3>1, <3>3
    <2> QED BY <1>1, <1>4, <2>2, <2>3 DEF Op
  <1>5. ASSUME pieces # <<>>, pieces[Len(pieces)][2] + 1 = Behind
        PROVE  pieces[Len(pieces)][2] = Off(call.area) + call.off + call.len - 1
    <2>1. pieces[Len(pieces)][2] \in Nat
      <3>1. Len(pieces) \in DOMAIN pieces
            BY <1>1, <1>5
      <3>2. pieces[Len(pieces)] \in Nat \X Nat
            BY <1>1, <3>1
      <3> QED BY <3>2
    <2> DEFINE p == pieces[Len(pieces)][2]
    <2>2. p \in Nat /\ p + 1 = Behind
          BY <1>5, <2>1
    <2> HIDE DEF p
    <2>3. p = Off(call.area) + call.off + call.len - 1
          BY <1>1, <1>2, <2>2 DEF First, Behind
    <2> QED BY <2>3 DEF p
  <1> QED BY <1>3, <1>4, <1>5 DEF DoesWhatItSays, Follow, First

-----------------------------------------------------------------------------
(* The sector table.                                                         *)

\* A table has a row for each sector of the area: every sector has its full size, and there
\* are never more of them than MCUboot has room for.
LEMMA Table ==
  ASSUME NEW a \in Area, secOff \in {ExtFirst, ExtFirst + ExtSector}
  PROVE  \E m \in Nat \ {0} :
           /\ Size[a] = SectorSize(a) * m /\ Delta(a) = 0
           /\ Sectors(a) = [i \in 1..m |-> [off |-> (i - 1) * SectorSize(a), size |-> SectorSize(a)]]
  <1> DEFINE sz == SectorSize(a)
             n == (Size[a] + sz - 1) \div sz
  <1>1. sz \in Nat \ {0} /\ Base(a) \in Nat /\ Off(a) \in Nat /\ Size[a] \in Nat
        BY Layout
  <1>2. PICK m \in Nat \ {0} : Size[a] = sz * m
        BY Layout
  <1>3. PICK o \in Nat : Off(a) = Base(a) + sz * o
        BY Layout
  <1>4. Delta(a) = 0
    <2>1. Base(a) % sz = 0
      <3>1. CASE Device[a] = "internal"
            BY <3>1, FlashAssumption DEF Base, SectorSize
      <3>2. CASE Device[a] # "internal"
            BY <1>1, <3>2, ModSmall DEF Base
      <3> QED BY <3>1, <3>2
    <2>2. (sz * o) % sz = 0 /\ sz * o \in Nat
      <3>1. (sz * o + 0) % sz = 0 /\ sz * o \in Nat
            BY <1>1, DivUnique, ProductNat
      <3> QED BY <3>1
    <2>3. (Base(a) + sz * o) % sz = 0
          BY <1>1, <2>1, <2>2, SumDivides
    <2> QED BY <1>3, <2>3 DEF Delta
  <1>5. n = m
    <2> DEFINE r == sz - 1
    <2>1. r \in Nat /\ r < sz /\ Size[a] + sz - 1 = sz * m + r
          BY <1>1, <1>2
    <2> HIDE DEF r
    <2>2. (sz * m + r) \div sz = m
          BY <1>1, <2>1, DivUnique
    <2> QED BY <2>1, <2>2
  <1>6. m <= MaxSectors
    <2>1. ExtSector \in Nat \ {0} /\ ExtSector <= sz
      <3>1. PICK j \in Nat : IntSector = ExtSector * j
            BY Divides, Constants, FlashAssumption
      <3>2. j # 0
        <4>1. ExtSector * 0 = 0
              BY Constants
        <4> QED BY <3>1, <4>1, Constants
      <3>3. ExtSector * 1 <= ExtSector * j /\ ExtSector * 1 = ExtSector
            BY <3>2, Constants, ProductGrows
      <3> QED BY <3>1, <3>3, Constants DEF SectorSize
    <2>2. ExtSector * m <= sz * m
      <3>1. m * ExtSector <= m * sz
            BY <1>1, <2>1, ProductGrows
      <3> QED BY <1>1, <2>1, <3>1, ProductNat
    <2>3. Size[a] <= SecondarySize /\ SecondarySize \in Nat
      <3>1. PICK k \in Nat \ {0} : PrimarySize = IntSector * k
            BY SlotSizes
      <3>2. IntSector * 1 <= IntSector * k /\ IntSector * 1 = IntSector /\ IntSector * k \in Nat
            BY Constants, ProductGrows, ProductNat
      <3>3. IntSector <= PrimarySize /\ PrimarySize <= SecondarySize /\ PrimarySize \in Nat
            BY <3>1, <3>2, SlotSizes
      <3>4. SecondarySize \in Nat
        <4>1. PICK l \in Nat \ {0} : SecondarySize = IntSector * l
              BY SlotSizes
        <4> QED BY <4>1, Constants, ProductNat
      <3> QED BY <3>3, <3>4, Constants DEF Size, Area
    <2> DEFINE room == ExtHigh - ExtFirst
               q == room \div ExtSector
    <2>4. room \in Nat /\ ExtSector * m <= room /\ ExtSector * m \in Nat
          BY <1>1, <1>2, <2>1, <2>2, <2>3, SlotSizes, Constants, ProductNat
    <2> HIDE DEF room
    <2>5. q \in Nat /\ room < ExtSector * q + ExtSector /\ ExtSector * q \in Nat
          BY <2>1, <2>4, DivBounds
    <2> HIDE DEF q
    <2>6. ~(q < m)
      <3>1. q < m => ExtSector * q + ExtSector <= ExtSector * m
            BY <2>1, <2>5, ProductGrows
      <3> QED BY <2>1, <2>4, <2>5, <3>1
    <2> QED BY <2>5, <2>6 DEF MaxSectors, room, q
  <1>7. MaxSectors \in Nat
    <2>1. ExtHigh - ExtFirst \in Nat
          BY Constants, FlashAssumption
    <2> QED BY <2>1, Constants, DivMod DEF MaxSectors
  <1> HIDE DEF n
  <1>8. (IF n < MaxSectors THEN n ELSE MaxSectors) = m
        BY <1>5, <1>6, <1>7
  <1>9. Sectors(a) = [i \in 1..m |-> [off |-> (i - 1) * sz, size |-> IF i = 1 THEN sz - Delta(a) ELSE sz]]
        BY <1>8 DEF Sectors, n
  <1>10. sz - Delta(a) = sz
         BY <1>1, <1>4
  <1>11. Sectors(a) = [i \in 1..m |-> [off |-> (i - 1) * sz, size |-> sz]]
         BY <1>9, <1>10
  <1> QED BY <1>2, <1>4, <1>11

LEMMA InvSectorsTile ==
  ASSUME FlashInv
  PROVE  SectorsTile
  <1>1. secOff \in {ExtFirst, ExtFirst + ExtSector}
        BY DEF FlashInv, CallInv
  <1>2. ExtFirst <= secOff /\ secOff + SecondarySize <= ExtHigh + 1
    <2>1. SecondarySize \in Nat
      <3>1. PICK l \in Nat \ {0} : SecondarySize = IntSector * l
            BY SlotSizes
      <3> QED BY <3>1, Constants, ProductNat
    <2> QED BY <1>1, <2>1, SlotSizes, Constants
  <1>3. ASSUME NEW a \in Area
        PROVE  LET table == Sectors(a) IN
               /\ table[1].off = 0
               /\ \A i \in DOMAIN table \ {1} :
                    table[i].off = table[i - 1].off + table[i - 1].size
               /\ table[Len(table)].off + table[Len(table)].size = Size[a]
               /\ \A addr \in 0..(Size[a] - 1) :
                    \E i \in DOMAIN table :
                      /\ table[i] = SectorOf(a, addr)
                      /\ addr \in table[i].off..(table[i].off + table[i].size - 1)
    <2> DEFINE sz == SectorSize(a)
               table == Sectors(a)
    <2>1. sz \in Nat \ {0} /\ Size[a] \in Nat
          BY <1>1, Layout
    <2>2. PICK m \in Nat \ {0} :
            /\ Size[a] = sz * m /\ Delta(a) = 0
            /\ table = [i \in 1..m |-> [off |-> (i - 1) * sz, size |-> sz]]
          BY <1>1, Table
    <2> HIDE DEF sz, table
    <2>3. /\ DOMAIN table = 1..m /\ Len(table) = m /\ 1 \in 1..m /\ m \in 1..m
          /\ \A i \in 1..m : table[i].off = (i - 1) * sz /\ table[i].size = sz
          BY <2>2
    <2>4. \A i \in Nat : i * sz \in Nat /\ (i + 1) * sz = i * sz + sz
      <3> TAKE i \in Nat
      <3>1. sz * (i + 1) = sz * i + sz /\ sz * i \in Nat
            BY <2>1, ProductNat, ProductGrows
      <3> QED BY <2>1, <3>1, ProductNat
    <2>5. table[1].off = 0
      <3>1. 0 * sz = 0
            BY <2>1
      <3> QED BY <2>3, <3>1
    <2>6. ASSUME NEW i \in DOMAIN table \ {1}
          PROVE  table[i].off = table[i - 1].off + table[i - 1].size
      <3>1. i \in 1..m /\ i - 1 \in 1..m /\ i - 2 \in Nat /\ (i - 2) + 1 = i - 1
            BY <2>3
      <3>2. (i - 1) * sz = (i - 2) * sz + sz
            BY <2>4, <3>1
      <3>3. /\ table[i].off = (i - 1) * sz
            /\ table[i - 1].off = ((i - 1) - 1) * sz /\ table[i - 1].size = sz
            BY <2>3, <3>1
      <3>4. (i - 1) - 1 = i - 2
            BY <3>1
      <3> QED BY <3>2, <3>3, <3>4
    <2>7. table[Len(table)].off + table[Len(table)].size = Size[a]
      <3>1. m - 1 \in Nat /\ (m - 1) + 1 = m
            OBVIOUS
      <3>2. m * sz = (m - 1) * sz + sz
            BY <2>4, <3>1
      <3> QED BY <2>1, <2>2, <2>3, <3>2, ProductNat
    <2>8. ASSUME NEW addr \in 0..(Size[a] - 1)
          PROVE  \E i \in DOMAIN table :
                   /\ table[i] = SectorOf(a, addr)
                   /\ addr \in table[i].off..(table[i].off + table[i].size - 1)
      <3> DEFINE q == addr \div sz
                 p == q * sz
      <3>1. addr \in Nat /\ addr < sz * m
            BY <2>1, <2>2
      <3>2. q \in Nat /\ sz * q \in Nat /\ sz * q <= addr /\ addr < sz * q + sz
            BY <2>1, <3>1, DivBounds
      <3>3. SectorOf(a, addr) = [off |-> p, size |-> sz]
        <4>1. sz - Delta(a) = sz
              BY <2>1, <2>2
        <4> QED BY <4>1 DEF SectorOf, sz
      <3> HIDE DEF q
      <3>4. q < m
        <4>1. m <= q => sz * m <= sz * q
              BY <2>1, <3>2, ProductGrows
        <4> QED BY <2>1, <3>1, <3>2, <4>1, ProductNat
      <3>5. p \in Nat /\ p <= addr /\ addr < p + sz
            BY <2>1, <3>2, ProductNat
      <3> HIDE DEF p
      <3>6. q + 1 \in 1..m /\ (q + 1) - 1 = q
            BY <3>2, <3>4
      <3>7. table[q + 1] = [off |-> p, size |-> sz]
            BY <2>2, <3>6 DEF p
      <3>8. addr \in p..(p + sz - 1)
            BY <2>1, <3>1, <3>5
      <3> QED BY <2>3, <3>3, <3>6, <3>7, <3>8
    <2> QED BY <2>5, <2>6, <2>7, <2>8 DEF table
  <1> QED BY <1>2, <1>3 DEF SectorsTile
-----------------------------------------------------------------------------
(* The theorems.                                                             *)

LEMMA FlashStutters ==
  ASSUME FlashInv, UNCHANGED flashVars
  PROVE  FlashInv'
  BY DEF FlashInv, flashVars, FlashTypeOK, CallInv, TransferInv, EraseInv, Running, Unwrapped,
         Aligned, Follow, First, Behind, Chunk, Off

LEMMA FlashCorrect == FlashSpec => []FlashInv
  <1>1. FlashInit => FlashInv
        BY InitFlash
  <1>2. FlashInv /\ [FlashNext]_flashVars => FlashInv'
    <2>1. SUFFICES ASSUME FlashInv, [FlashNext]_flashVars
                   PROVE  FlashInv'
          OBVIOUS
    <2>2. CASE MoveStart \/ ResetStart \/ \E a \in Area : Open(a)
          BY <2>1, <2>2, IdleKeeps
    <2>3. ASSUME NEW op \in Op \ {"none"}, NEW a \in Area, NEW off \in 0..(Word - 1),
                 NEW len \in 0..(Word - 1), Refuse(op, a, off, len) \/ Begin(op, a, off, len)
          PROVE  FlashInv'
          BY <2>1, <2>3, RefuseKeeps, BeginKeeps
    <2>4. CASE Transfer \/ EraseSector \/ DriverFails \/ Return
          BY <2>1, <2>4, TransferKeeps, EraseSectorKeeps, DriverFailsKeeps, ReturnKeeps
    <2>5. CASE UNCHANGED flashVars
          BY <2>1, <2>5, FlashStutters
    <2> QED BY <2>1, <2>2, <2>3, <2>4, <2>5 DEF FlashNext
  <1> QED BY <1>1, <1>2, PTL DEF FlashSpec

\* For every geometry, call and failure of a driver: no driver is asked for an address outside of
\* the area of the call (the bounds checks of flash_area_read, flash_area_write,
\* flash_area_erase).
THEOREM FlashStaysInArea == FlashSpec => []StaysInArea
  BY FlashCorrect, InvStaysInArea, PTL

\* Transfers to the external chip never cross a page, and a call that succeeds has transferred or
\* erased its range without gap or overlap (flash_write, flash_read, the loops of
\* flash_area_write, flash_area_read and flash_area_erase).
THEOREM FlashDoesWhatItSays == FlashSpec => []DoesWhatItSays
  BY FlashCorrect, InvDoesWhatItSays, PTL

\* Moved or not, the secondary slot lies in the memory kept for it, and the sectors MCUboot is told
\* of tile every area (flash_area_move_start, flash_area_get_sectors, flash_area_get_sector).
THEOREM FlashSectorsTile == FlashSpec => []SectorsTile
  BY FlashCorrect, InvSectorsTile, PTL
=============================================================================
