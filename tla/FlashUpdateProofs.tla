------------------------- MODULE FlashUpdateProofs -------------------------
(***************************************************************************)
(* Proofs about FlashUpdate: the bar that the GUI task shows is full when  *)
(* the image is stored and not before, and what it shows at the end, for   *)
(* every geometry, any size of image and of the firmware before it, and    *)
(* every interleaving of the two tasks.                                    *)
(***************************************************************************)
EXTENDS FlashUpdate, FlashAreaProofs

-----------------------------------------------------------------------------
(* The constants.                                                            *)

LEMMA UpdateConstants ==
  /\ ImageSizes \subseteq Nat /\ \A s \in ImageSizes : 2 * Page < s /\ s <= PrimarySize
  /\ PrimarySizes \subseteq Nat \ {0} /\ 2 * Page <= IntSector
  /\ CopyChunk \in Nat \ {0} /\ CopyChunk <= IntSector /\ GuiLen \in Nat \ {0} /\ MaxStarts \in Nat
  <1>1. PICK k \in Nat : IntSector = CopyChunk * k
    <2>1. CopyChunk \in Nat \ {0} /\ IntSector \in Nat /\ IntSector % CopyChunk = 0
          BY Constants, UpdateAssumption
    <2> QED BY <2>1, Divides
  <1>2. k # 0
    <2>1. CopyChunk * 0 = 0
          BY UpdateAssumption
    <2> QED BY <1>1, <2>1, Constants
  <1>3. CopyChunk * 1 <= CopyChunk * k /\ CopyChunk * 1 = CopyChunk
        BY <1>2, ProductGrows, UpdateAssumption
  <1>4. 2 * Page + 1 \in Nat /\ PrimarySize \in Nat
    <2>1. PICK j \in Nat : PrimarySize = IntSector * j
          BY SlotSizes
    <2> QED BY <2>1, Constants, ProductNat
  <1>5. \A s \in ImageSizes : s \in (2 * Page + 1)..PrimarySize
        BY UpdateAssumption
  <1> QED BY <1>1, <1>3, <1>4, <1>5, Constants, UpdateAssumption

\* The slots hold an internal sector at least, and so a sector of either kind and the trailer.
LEMMA Slots ==
  /\ Size["primary"] \in Nat /\ Size["secondary"] \in Nat
  /\ Size["primary"] = PrimarySize /\ Size["secondary"] = SecondarySize
  /\ IntSector <= Size["primary"] /\ Size["primary"] <= Size["secondary"]
  /\ Size["secondary"] + ExtSector < Word /\ IntSector < Word /\ ExtSector <= IntSector
  <1> USE Constants
  <1>1. Size["primary"] = PrimarySize /\ Size["secondary"] = SecondarySize
        BY DEF Size, Area
  <1>2. PICK k \in Nat \ {0} : PrimarySize = IntSector * k
        BY SlotSizes
  <1>3. PICK m \in Nat \ {0} : SecondarySize = IntSector * m
        BY SlotSizes
  <1>4. PrimarySize \in Nat /\ SecondarySize \in Nat /\ IntSector <= PrimarySize
    <2>1. IntSector * 1 <= IntSector * k /\ IntSector * 1 = IntSector
          BY ProductGrows
    <2> QED BY <1>2, <1>3, <2>1, ProductNat
  <1>5. PrimarySize <= SecondarySize
        BY SlotSizes
  <1>6. SecondarySize + ExtSector < Word
    <2>1. ExtSectors * ExtSector \in Nat
          BY ProductNat
    <2> QED BY <1>4, <2>1, SlotSizes, FlashAssumption
  <1>7. ExtSector <= IntSector
    <2>1. PICK j \in Nat : IntSector = ExtSector * j
          BY Divides, FlashAssumption
    <2>2. j # 0
      <3>1. ExtSector * 0 = 0
            OBVIOUS
      <3> QED BY <2>1, <3>1
    <2>3. ExtSector * 1 <= ExtSector * j /\ ExtSector * 1 = ExtSector
          BY <2>2, ProductGrows
    <2> QED BY <2>1, <2>3
  <1> QED BY <1>1, <1>4, <1>5, <1>6, <1>7

LEMMA PartsAre ==
  /\ Parts = {"verify", "erasePrimary", "copy", "eraseSecondary"}
  /\ Part[1] = "verify" /\ Part[2] = "erasePrimary" /\ Part[3] = "copy" /\ Part[4] = "eraseSecondary"
  /\ Percent["verify"] = 10 /\ Percent["erasePrimary"] = 20
  /\ Percent["copy"] = 50 /\ Percent["eraseSecondary"] = 20
  BY DEF Parts, Percent, Part

\* Whole sectors hold the image.
LEMMA Rounded ==
  ASSUME image \in Nat
  PROVE  /\ \E q \in Nat : CopySize = IntSector * q
         /\ CopySize \in Nat /\ image <= CopySize
  <1> DEFINE x == image + IntSector - 1
             q == x \div IntSector
  <1>1. IntSector \in Nat \ {0} /\ x \in Nat /\ x = image + (IntSector - 1)
        BY Constants
  <1>0. CopySize = q * IntSector
        BY DEF CopySize
  <1> HIDE DEF x
  <1>2. q \in Nat /\ x < IntSector * q + IntSector /\ IntSector * q \in Nat
        BY <1>1, DivBounds
  <1>3. IntSector * q = q * IntSector
        BY <1>1, <1>2, ProductNat
  <1> HIDE DEF q
  <1> QED BY <1>0, <1>1, <1>2, <1>3

-----------------------------------------------------------------------------
(* The steps of the flow that move no counter.                               *)

\* What such a step leaves alone.
Quiet ==
  /\ clamp = "none" /\ ~Running
  /\ UNCHANGED <<progressVars, workVars, guiVars>>
  /\ guiQ' = guiQ \/ ToGui("failed") \/ ToGui("started")
  /\ Running' => CallOfFlow'

LEMMA MovesQuietly ==
  ASSUME FlashInv, NEW from, NEW to, Moves(from, to) \/ (Answers(from) /\ to = "idle")
  PROVE  FlashInv' /\ Quiet /\ flow = from /\ flow' = to
  <1>1. /\ Step(from, to) /\ Forget /\ UNCHANGED <<progressVars, workVars, guiVars>>
        /\ guiQ' = guiQ \/ ToGui("failed")
        BY DEF Moves, Answers
  <1>2. FlashInv'
    <2>1. NoCall = [NoCall EXCEPT !.area = "self", !.res = "ok"] /\ "self" \in Area
      <3>1. NoCall.area = "self" /\ NoCall.res = "ok"
            BY DEF NoCall
      <3> QED BY <3>1 DEF NoCall, Area
    <2>2. /\ chip' \in BOOLEAN /\ secOff' \in {ExtFirst, ExtFirst + ExtSector} /\ pieces' = <<>>
          /\ call' = NoCall
          BY <1>1 DEF Forget, FlashInv, FlashTypeOK, CallInv
    <2> QED BY <2>1, <2>2, NoCallKeeps
  <1>3. ~Running'
        BY <1>1 DEF Forget, NoCall, Running
  <1> QED BY <1>1, <1>2, <1>3 DEF Quiet, Step, BootMay

\* The calls of CallOfFlow.
Fits(op, a, to) ==
  \/ op = "read" /\ to = "fetched"
  \/ op = "write" /\ a = "secondary" /\ to = "marked"
  \/ op = "write" /\ a = "primary" /\ to \in {"writing", "magic", "marking", "keepMagic", "keepDone"}
  \/ op = "erase" /\ a = "primary" /\ to \in {"erasing", "wiping", "badHeader", "badTrailer"}
  \/ op = "erase" /\ a = "secondary"
       /\ to \in {"status", "rejecting", "dropHeader", "dropTrailer", "areaHeader",
                  "areaTrailer"}

\* A call of the flow is one that the checks in front of the drivers let pass; its offset is not
\* negative, and its length is one that a word holds.
LEMMA CallQuietly ==
  ASSUME FlashInv, NEW from, NEW to, NEW op \in {"read", "write", "erase"},
         NEW a \in {"primary", "secondary"}, NEW off \in Nat, NEW len \in 0..(Word - 1),
         CallFor(from, to, op, a, off, len),
         Fits(op, a, to)
  PROVE  /\ FlashInv' /\ Quiet /\ flow = from /\ flow' = to /\ InBounds(op, a, off, len)
         /\ call'.op = op /\ call'.area = a /\ call'.res = "run" /\ (op # "erase" => call'.left = len)
  <1>1. Begin(op, a, off, len)
        BY DEF CallFor
  <1>2. op \in Op \ {"none"} /\ a \in Area
        BY DEF Op, Area
  <1>3. Size[a] \in Nat /\ Size[a] < Word
        BY Slots, Constants
  <1>4. off \in 0..(Word - 1)
        BY <1>1, <1>3, Constants DEF Begin, InBounds
  <1>5. FlashInv'
        BY <1>1, <1>2, <1>4, BeginKeeps
  <1>6. /\ InBounds(op, a, off, len)
        /\ call'.op = op /\ call'.area = a /\ call'.res = "run" /\ (op # "erase" => call'.left = len)
        BY <1>1 DEF Begin
  <1>7. flow = from /\ flow' = to /\ clamp = "none" /\ ~Running
        BY DEF CallFor, Step, BootMay
  <1>8. CallOfFlow'
        BY <1>6, <1>7 DEF CallOfFlow, Fits
  <1>9. UNCHANGED <<progressVars, workVars, guiVars>> /\ guiQ' = guiQ
        BY DEF CallFor
  <1> QED BY <1>5, <1>6, <1>7, <1>8, <1>9 DEF Quiet

LEMMA Distributes ==
  ASSUME NEW n \in Nat, NEW p \in Nat, NEW q \in Nat
  PROVE  n * (p + q) = n * p + n * q
  OBVIOUS

LEMMA SectorsUpTo ==
  ASSUME NEW n \in Nat \ {0}, NEW base \in Nat, NEW p \in Nat, NEW x, x = base + n * p
  PROVE  (x - base) \div n = p
  <1>1. n * p \in Nat /\ x - base = n * p + 0
        BY ProductNat
  <1>2. (n * p + 0) \div n = p
        BY DivUnique, 0 \in Nat, 0 < n
  <1> QED BY <1>1, <1>2

\* An erasure of q whole sectors is one of q operations.
LEMMA ErasesSectors ==
  ASSUME secOff \in {ExtFirst, ExtFirst + ExtSector}, NEW a \in {"primary", "secondary"},
         NEW from, NEW to, NEW p \in Nat, NEW q \in Nat, NEW off, NEW len,
         off = SectorSize(a) * p, len = SectorSize(a) * q, off + len <= Size[a],
         CallFor(from, to, "erase", a, off, len)
  PROVE  call'.left = q
  <1>1. a \in Area
        BY DEF Area
  <1>2. /\ SectorSize(a) \in Nat \ {0} /\ Base(a) \in Nat /\ Off(a) \in Nat /\ Size[a] \in Nat
        /\ Off(a) + Size[a] < Word
        BY <1>1, Layout
  <1>3. PICK o \in Nat : Off(a) = Base(a) + SectorSize(a) * o
        BY <1>1, Layout
  <1>4. off \in Nat /\ len \in Nat
        BY <1>2, ProductNat
  <1>5. Plus(Off(a), off) = Off(a) + off
    <2>1. off <= Size[a]
          BY ONLY <1>2, <1>4, off + len <= Size[a]
    <2>2. Off(a) + off < Word
          BY ONLY <1>2, <1>4, <2>1, Constants
    <2> QED BY ONLY <1>2, <1>4, <2>2, WordSum
  <1>6. Plus(Off(a) + off, len) = Off(a) + off + len
    <2>1. Off(a) + off \in Nat /\ Off(a) + off + len < Word
          BY ONLY <1>2, <1>4, Constants, off + len <= Size[a]
    <2> QED BY ONLY <1>4, <2>1, WordSum
  <1>7. /\ Off(a) + off = Base(a) + SectorSize(a) * (o + p)
        /\ Off(a) + off + len = Base(a) + SectorSize(a) * (o + p + q)
    <2>1. /\ SectorSize(a) * (o + p) = SectorSize(a) * o + off
          /\ SectorSize(a) * (o + p + q) = SectorSize(a) * (o + p) + len
          /\ SectorSize(a) * o \in Nat
      <3>1. SectorSize(a) \in Nat /\ o + p \in Nat
            BY <1>2
      <3>2. SectorSize(a) * (o + p) = SectorSize(a) * o + SectorSize(a) * p
            BY ONLY <3>1, o \in Nat, p \in Nat, Distributes
      <3>3. SectorSize(a) * (o + p + q) = SectorSize(a) * (o + p) + SectorSize(a) * q
            BY ONLY <3>1, q \in Nat, Distributes
      <3>4. SectorSize(a) * o \in Nat
            BY ONLY <3>1, o \in Nat, ProductNat
      <3> QED BY <3>2, <3>3, <3>4
    <2> QED BY ONLY <1>2, <1>3, <1>4, <2>1
  <1>8. /\ ((Off(a) + off) - Base(a)) \div SectorSize(a) = o + p
        /\ ((Off(a) + off + len) - Base(a)) \div SectorSize(a) = o + p + q
    <2>1. o + p \in Nat /\ o + p + q \in Nat
          OBVIOUS
    <2> DEFINE x == Off(a) + off
               y == Off(a) + off + len
               b == Base(a)
               n == SectorSize(a)
    <2>2. /\ x = b + n * (o + p) /\ y = b + n * (o + p + q)
          /\ n \in Nat \ {0} /\ b \in Nat
          BY <1>2, <1>7
    <2> HIDE DEF x, y, b, n
    <2>3. (x - b) \div n = o + p
          BY ONLY <2>1, <2>2, SectorsUpTo
    <2>4. (y - b) \div n = o + p + q
          BY ONLY <2>1, <2>2, SectorsUpTo
    <2> QED BY <2>3, <2>4 DEF x, y, b, n
  <1>9. call'.left = LET start == Plus(Off(a), off)
                         first == (start - Base(a)) \div SectorSize(a)
                         end == (Plus(start, len) - Base(a)) \div SectorSize(a)
                     IN  IF first < end THEN end - first ELSE 0
        BY DEF CallFor, Begin
  <1>10. call'.left = IF o + p < o + p + q THEN (o + p + q) - (o + p) ELSE 0
         BY ONLY <1>5, <1>6, <1>8, <1>9
  <1> QED BY <1>10

QuietStep ==
  \/ Wrapper \/ EraseStatus \/ WriteMagic \/ Announce \/ JustBoot \/ NoUpdate \/ RefuseUpdate
  \/ EraseHeader \/ EraseTrailer \/ AreaErased \/ EraseUpdate \/ NothingFound \/ BootFails
  \/ Adopt \/ Canceled \/ Reject \/ ErasePrimary \/ Erased \/ Fetch \/ FetchFails \/ Store
  \/ Magic \/ CopyDone \/ DropHeader \/ DropTrailer \/ Complete

\* Where these steps lead.
Ended == {"idle", "bad", "badHeader", "badTrailer", "area", "areaHeader", "areaTrailer"}
Edge ==
  \/ flow \notin Resetting \cup {"reset4", "writing"} /\ flow' \in Ended
  \/ ~initiated /\ flow' \in Deciding
  \/ flow \in {"bootGo", "go"} /\ flow' = "rejecting"
  \/ flow \in {"bootGo", "go", "rejecting"} /\ flow' = "keepMagic" /\ call'.left = Page
  \/ flow = "keepMagic" /\ flow' = "keepDone" /\ call'.left = Page
  \/ flow = "reset4" /\ flow' = "bootGo"
  \/ flow = "verified" /\ flow' = "erasing" /\ IntSector * call'.left <= PrimarySize
  \/ flow = "erasing" /\ flow' = "wiping" /\ call'.left = 1
  \/ flow = "wiping" /\ flow' = "copying"
  \/ flow = "copying" /\ flow' = "fetched"
  \/ /\ flow = "fetched" /\ flow' = "writing"
     /\ call'.op = "write" /\ call'.area = "primary" /\ call'.res = "run"
     /\ call'.left = CopyChunk /\ copied + CopyChunk <= PrimarySize
  \/ flow = "copying" /\ flow' = "magic" /\ copied >= image
  \/ flow = "magic" /\ flow' = "marking"
  \/ flow = "hook" /\ flow' = "dropHeader" /\ call'.left = 1
  \/ flow = "dropHeader" /\ flow' = "dropTrailer" /\ call'.left = 1
  \/ flow = "dropTrailer" /\ flow' = "complete"

\* Lengths and offsets of the calls.
LEMMA Lengths ==
  /\ Size["secondary"] \in 0..(Word - 1) /\ IntSector \in 0..(Word - 1)
  /\ ExtSector \in 0..(Word - 1) /\ CopyChunk \in 0..(Word - 1)
  /\ Page \in 0..(Word - 1) /\ 2 * Page \in 0..(Word - 1) /\ 0 \in Nat
  /\ \A a \in {"primary", "secondary"} :
       /\ Size[a] - Page \in Nat /\ Size[a] - 2 * Page \in Nat /\ Size[a] - IntSector \in Nat
       /\ Size[a] - ExtSector \in Nat
  BY Slots, Constants, UpdateConstants

\* Initial letStart and the calls of imgManager_initiateUpdate.
LEMMA QuietDecisions ==
  ASSUME FlashInv, PhaseInv,
         Wrapper \/ EraseStatus \/ WriteMagic \/ Announce \/ JustBoot \/ NoUpdate \/ RefuseUpdate
  PROVE  FlashInv' /\ Quiet /\ Edge
  <1> USE DEF Edge, Fits, Deciding, Ended, Resetting
  <1>0. initiated => flow \notin Deciding
        BY DEF PhaseInv
  <1>1. CASE Wrapper
    <2>1. FlashInv'
          BY <1>1, IdleKeeps DEF Wrapper
    <2>2. ~Running'
          BY <1>1 DEF Wrapper, MoveStart, NoCall, Running
    <2> QED BY <1>0, <1>1, <2>1, <2>2 DEF Wrapper, Quiet, Step, BootMay
  <1>2. CASE EraseStatus
    <2>1. PICK from \in {"sized", "moved"} :
            \/ CallFor(from, "status", "erase", "secondary", Size["secondary"] - 2 * Page, 2 * Page)
            \/ Moves(from, "status")
          BY <1>2 DEF EraseStatus
    <2>2. FlashInv' /\ Quiet /\ flow = from /\ flow' = "status"
          BY <2>1, Lengths, CallQuietly, MovesQuietly
    <2> QED BY <1>0, <2>2
  <1>3. CASE WriteMagic
    <2>1. FlashInv' /\ Quiet /\ flow = "status" /\ flow' = "marked"
          BY <1>3, Lengths, CallQuietly, MovesQuietly DEF WriteMagic
    <2> QED BY <1>0, <2>1
  <1>4. CASE Announce
    <2>1. FlashInv' /\ (Running' <=> Running)
          BY <1>4, FlashStutters DEF Announce, flashVars, Running
    <2> QED BY <1>4, <2>1 DEF Announce, Quiet, Step, BootMay
  <1>5. CASE JustBoot
    <2>1. FlashInv' /\ Quiet /\ flow = "start" /\ flow' = "go"
          BY <1>5, MovesQuietly DEF JustBoot
    <2> QED BY <1>0, <2>1
  <1>6. CASE NoUpdate
    <2>1. FlashInv' /\ Quiet /\ flow = "start" /\ flow' = "idle"
          BY <1>6, MovesQuietly DEF NoUpdate
    <2> QED BY <2>1
  <1>7. CASE RefuseUpdate
    <2>1. FlashInv' /\ Quiet /\ flow \in {"start", "sized", "moved"} /\ flow' = "area"
          BY <1>7, MovesQuietly DEF RefuseUpdate
    <2> QED BY <2>1
  <1> QED BY <1>1, <1>2, <1>3, <1>4, <1>5, <1>6, <1>7

\* The end of letStart: what does not work is erased, the old firmware is started or not.
LEMMA QuietEnds ==
  ASSUME FlashInv, PhaseInv,
         \/ EraseHeader \/ EraseTrailer \/ AreaErased \/ EraseUpdate \/ NothingFound \/ BootFails
         \/ Adopt \/ Canceled \/ Reject
  PROVE  FlashInv' /\ Quiet /\ Edge
  <1> USE DEF Edge, Deciding, Ended, Resetting
  <1>1. CASE EraseHeader
    <2>1. /\ FlashInv' /\ Quiet
          /\ flow \in {"bad", "area"} /\ flow' \in {"badHeader", "areaHeader"}
          BY <1>1, Lengths, CallQuietly, MovesQuietly DEF EraseHeader, Fits
    <2> QED BY <2>1
  <1>2. CASE EraseTrailer
    <2>1. /\ Size["primary"] = PrimarySize /\ Size["secondary"] = SecondarySize
          /\ PrimarySize - IntSector \in Nat /\ SecondarySize - IntSector \in Nat
          BY Slots, Lengths
    <2>2. /\ FlashInv' /\ Quiet
          /\ flow \in {"badHeader", "areaHeader"} /\ flow' \in {"badTrailer", "areaTrailer"}
          BY <1>2, <2>1, Lengths, CallQuietly, MovesQuietly DEF EraseTrailer, Fits
    <2> QED BY <2>2
  <1>3. CASE AreaErased
    <2>1. /\ FlashInv' /\ Quiet /\ flow = "areaTrailer"
          /\ flow' = "idle" \/ (~initiated /\ flow' = "go")
          BY <1>3, MovesQuietly DEF AreaErased
    <2> QED BY <2>1
  <1>4. CASE EraseUpdate
    <2>1. FlashInv'
          BY <1>4, IdleKeeps DEF EraseUpdate
    <2>2. ~Running'
          BY <1>4 DEF EraseUpdate, ResetStart, NoCall, Running
    <2> QED BY <1>4, <2>1, <2>2 DEF EraseUpdate, Quiet, Step, BootMay
  <1>5. CASE NothingFound
    <2>1. FlashInv' /\ Quiet /\ flow = "badTrailer" /\ flow' = "idle"
          BY <1>5, MovesQuietly DEF NothingFound
    <2> QED BY <2>1
  <1>6. CASE BootFails
    <2>1. /\ FlashInv' /\ Quiet /\ flow \in {"start", "bootGo", "go", "rejecting", "areaTrailer"}
          /\ flow' = "bad"
          BY <1>6, MovesQuietly DEF BootFails
    <2> QED BY <2>1
  <1>7. CASE Adopt
    <2>1. CASE \E from \in {"bootGo", "go", "rejecting"} :
                 CallFor(from, "keepMagic", "write", "primary", Size["primary"] - Page, Page)
      <3>1. PICK from \in {"bootGo", "go", "rejecting"} :
              CallFor(from, "keepMagic", "write", "primary", Size["primary"] - Page, Page)
            BY <2>1
      <3>2. FlashInv' /\ Quiet /\ flow = from /\ flow' = "keepMagic" /\ call'.left = Page
            BY <3>1, Lengths, CallQuietly DEF Fits
      <3> QED BY <3>2
    <2>2. CASE CallFor("keepMagic", "keepDone", "write", "primary", Size["primary"] - 2 * Page, Page)
      <3>1. Size["primary"] - 2 * Page \in Nat /\ Page \in 0..(Word - 1)
            BY Lengths
      <3>2. /\ FlashInv' /\ Quiet /\ flow = "keepMagic" /\ flow' = "keepDone"
            /\ "write" # "erase" => call'.left = Page
        <4>1. Fits("write", "primary", "keepDone")
              BY DEF Fits
        <4> QED BY <2>2, <3>1, <4>1, CallQuietly
      <3> QED BY <3>2
    <2> QED BY <1>7, <2>1, <2>2 DEF Adopt
  <1>8. CASE Canceled
    <2>1. /\ FlashInv' /\ Quiet /\ flow \in {"bootGo", "go", "rejecting", "keepMagic", "keepDone"}
          /\ flow' = "idle"
          BY <1>8, MovesQuietly DEF Canceled
    <2> QED BY <2>1
  <1>9. CASE Reject
    <2>1. FlashInv' /\ Quiet /\ flow \in {"bootGo", "go"} /\ flow' = "rejecting"
          BY <1>9, Lengths, CallQuietly DEF Reject, Fits
    <2> QED BY <2>1
  <1> QED BY <1>1, <1>2, <1>3, <1>4, <1>5, <1>6, <1>7, <1>8, <1>9

\* The calls and steps of boot_go that install the update.
LEMMA QuietInstall ==
  ASSUME FlashInv, PhaseInv,
         \/ ErasePrimary \/ Erased \/ Fetch \/ FetchFails \/ Store
         \/ Magic \/ CopyDone \/ DropHeader \/ DropTrailer \/ Complete
  PROVE  FlashInv' /\ Quiet /\ Edge
  <1> USE DEF Edge, Fits, Ended, Resetting
  <1>0. /\ secOff \in {ExtFirst, ExtFirst + ExtSector} /\ copied \in Nat /\ image \in Nat
        /\ SectorSize("primary") = IntSector /\ SectorSize("secondary") = ExtSector
        /\ IntSector \in Nat \ {0} /\ ExtSector \in Nat \ {0}
    <2>1. copied \in 0..PrimarySize /\ image \in ImageSizes \cup {0}
          BY DEF PhaseInv
    <2> QED BY <2>1, UpdateConstants, Slots, Constants
            DEF FlashInv, CallInv, SectorSize, Device, Area
  <1>1. CASE ErasePrimary
    <2>1. CASE CallFor("verified", "erasing", "erase", "primary", 0, CopySize)
      <3>1. PICK q \in Nat : CopySize = IntSector * q
            BY <1>0, Rounded
      <3>2. CopySize \in Nat /\ InBounds("erase", "primary", 0, CopySize)
            BY <1>0, <2>1, Rounded DEF CallFor, Begin
      <3>3. CopySize <= PrimarySize
        <4>1. Plus(0, CopySize) <= PrimarySize
              BY <3>2, Slots DEF InBounds
        <4>2. CopySize < Word
          <5>1. image <= PrimarySize /\ PrimarySize \in Nat /\ PrimarySize + IntSector \in Nat
                BY <1>0, UpdateConstants, Slots DEF PhaseInv
          <5>2. PICK k \in Nat \ {0} : PrimarySize = IntSector * k
                BY SlotSizes
          <5>3. q <= k
            <6>1. CASE q > k
              <7>1. IntSector * k + IntSector <= IntSector * q
                    BY <1>0, <6>1, ProductGrows
              <7>2. CopySize < image + IntSector
                <8> DEFINE x == image + IntSector - 1
                <8>1. x \in Nat /\ IntSector * (x \div IntSector) <= x /\ x \div IntSector \in Nat
                      BY <1>0, DivBounds
                <8>2. CopySize = (x \div IntSector) * IntSector
                      BY DEF CopySize
                <8>3. CopySize = IntSector * (x \div IntSector)
                      BY <1>0, <8>1, <8>2, ProductNat
                <8> QED BY <1>0, <8>1, <8>3
              <7> QED BY <1>0, <3>1, <3>2, <5>1, <5>2, <7>1, <7>2
            <6> QED BY <6>1
          <5>4. IntSector * q <= IntSector * k
                BY <1>0, <5>3, ProductGrows
          <5> QED BY <3>1, <3>2, <5>1, <5>2, <5>4, Slots, Constants
        <4> QED BY <3>2, <4>1, <4>2, WordSum
      <3>4. CopySize \in 0..(Word - 1)
            BY <3>2, <3>3, Slots, Constants
      <3>5. FlashInv' /\ Quiet /\ flow = "verified" /\ flow' = "erasing"
            BY <2>1, <3>4, CallQuietly, Lengths
      <3>6. call'.left = q
        <4>1. /\ 0 = IntSector * 0 /\ 0 + CopySize <= Size["primary"] /\ 0 \in Nat
              BY <1>0, <3>2, <3>3, Slots
        <4> QED BY <1>0, <2>1, <3>1, <4>1, ErasesSectors
      <3> QED BY <3>1, <3>3, <3>5, <3>6
    <2>2. CASE CallFor("erasing", "wiping", "erase", "primary", Size["primary"] - IntSector, IntSector)
      <3>1. FlashInv' /\ Quiet /\ flow = "erasing" /\ flow' = "wiping"
            BY <2>2, CallQuietly, Lengths
      <3>2. PICK k \in Nat \ {0} : PrimarySize = IntSector * k
            BY SlotSizes
      <3>3. /\ Size["primary"] - IntSector = IntSector * (k - 1) /\ k - 1 \in Nat
            /\ IntSector = IntSector * 1
            /\ (Size["primary"] - IntSector) + IntSector <= Size["primary"]
        <4>1. k - 1 \in Nat /\ (k - 1) + 1 = k
              OBVIOUS
        <4>2. IntSector * ((k - 1) + 1) = IntSector * (k - 1) + IntSector
              BY <1>0, <4>1, ProductGrows
        <4>3. IntSector * (k - 1) \in Nat
              BY <1>0, <4>1, ProductNat
        <4> QED BY <1>0, <3>2, <4>1, <4>2, <4>3, Slots
      <3>4. call'.left = 1
            BY <1>0, <2>2, <3>3, ErasesSectors, 1 \in Nat
      <3> QED BY <3>1, <3>4
    <2> QED BY <1>1, <2>1, <2>2 DEF ErasePrimary
  <1>2. CASE Erased
    <2>1. FlashInv' /\ Quiet /\ flow = "wiping" /\ flow' = "copying"
          BY <1>2, MovesQuietly DEF Erased
    <2> QED BY <2>1
  <1>3. CASE Fetch
    <2>1. FlashInv' /\ Quiet /\ flow = "copying" /\ flow' = "fetched"
          BY <1>0, <1>3, Lengths, CallQuietly DEF Fetch
    <2> QED BY <2>1
  <1>4. CASE FetchFails
    <2>1. FlashInv' /\ Quiet /\ flow = "fetched" /\ flow' = "bad"
          BY <1>4, MovesQuietly DEF FetchFails
    <2> QED BY <2>1
  <1>5. CASE Store
    <2>1. /\ FlashInv' /\ Quiet /\ flow = "fetched" /\ flow' = "writing"
          /\ call'.op = "write" /\ call'.area = "primary" /\ call'.res = "run"
          /\ call'.left = CopyChunk /\ InBounds("write", "primary", copied, CopyChunk)
          BY <1>0, <1>5, Lengths, CallQuietly DEF Store
    <2>2. copied + CopyChunk <= PrimarySize
      <3>1. copied <= PrimarySize /\ Plus(copied, CopyChunk) <= PrimarySize
            BY <2>1, Slots DEF InBounds, PhaseInv
      <3>2. copied + CopyChunk < Word
        <4>1. PrimarySize + CopyChunk < Word \/ CopyChunk <= IntSector
              BY UpdateConstants
        <4>2. PrimarySize + IntSector < Word
          <5>1. /\ IntSector * PrimaryFirst + PrimarySize <= IntSector * (PrimaryLast + 1)
                /\ IntBase + IntSector * (PrimaryLast + 1) < Word
                BY SlotSizes, FlashAssumption
          <5>2. IntSector * 1 <= IntSector * PrimaryFirst /\ IntSector * 1 = IntSector
                BY Constants, ProductGrows, FlashAssumption
          <5>3. IntSector * PrimaryFirst \in Nat /\ IntSector * (PrimaryLast + 1) \in Nat
                BY Constants, ProductNat
          <5> QED BY <5>1, <5>2, <5>3, Constants, Slots
        <4> QED BY <1>0, <3>1, <4>2, UpdateConstants, Slots, Constants
      <3> QED BY <1>0, <3>1, <3>2, WordSum, UpdateConstants
    <2> QED BY <2>1, <2>2
  <1>6. CASE Magic
    <2>1. FlashInv' /\ Quiet /\ flow = "copying" /\ flow' = "magic"
          BY <1>6, Lengths, CallQuietly DEF Magic
    <2>2. copied >= image
          BY <1>0, <1>6, Rounded DEF Magic
    <2> QED BY <2>1, <2>2
  <1>7. CASE CopyDone
    <2>1. FlashInv' /\ Quiet /\ flow = "magic" /\ flow' = "marking"
          BY <1>7, Lengths, CallQuietly DEF CopyDone
    <2> QED BY <2>1
  <1>8. CASE DropHeader
    <2>1. FlashInv' /\ Quiet /\ flow = "hook" /\ flow' = "dropHeader"
          BY <1>8, Lengths, CallQuietly DEF DropHeader
    <2>2. /\ 0 = ExtSector * 0 /\ ExtSector = ExtSector * 1 /\ 0 + ExtSector <= Size["secondary"]
          /\ 0 \in Nat /\ 1 \in Nat
          BY <1>0, Slots
    <2>3. call'.left = 1
          BY <1>0, <1>8, <2>2, ErasesSectors DEF DropHeader
    <2> QED BY <2>1, <2>3
  <1>9. CASE DropTrailer
    <2>1. FlashInv' /\ Quiet /\ flow = "dropHeader" /\ flow' = "dropTrailer"
          BY <1>9, Lengths, CallQuietly DEF DropTrailer
    <2>2. PICK m \in Nat \ {0} : Size["secondary"] = ExtSector * m
      <3>1. "secondary" \in Area
            BY DEF Area
      <3> QED BY <1>0, <3>1, Layout
    <2>3. /\ Size["secondary"] - ExtSector = ExtSector * (m - 1) /\ m - 1 \in Nat
          /\ ExtSector = ExtSector * 1
          /\ (Size["secondary"] - ExtSector) + ExtSector <= Size["secondary"]
      <3>1. m - 1 \in Nat /\ (m - 1) + 1 = m
            OBVIOUS
      <3>2. ExtSector * ((m - 1) + 1) = ExtSector * (m - 1) + ExtSector
            BY <1>0, <3>1, ProductGrows
      <3>3. ExtSector * (m - 1) \in Nat
            BY <1>0, <3>1, ProductNat
      <3> QED BY <1>0, <2>2, <3>1, <3>2, <3>3, Slots
    <2>4. call'.left = 1
          BY <1>0, <1>9, <2>3, ErasesSectors, 1 \in Nat DEF DropTrailer
    <2> QED BY <2>1, <2>4
  <1>10. CASE Complete
    <2>1. /\ FlashInv' /\ Quiet /\ flow = "dropTrailer" /\ flow' \in {"complete", "bad"}
          BY <1>10, MovesQuietly DEF Complete
    <2> QED BY <2>1
  <1> QED BY <1>1, <1>2, <1>3, <1>4, <1>5, <1>6, <1>7, <1>8, <1>9, <1>10

LEMMA QuietSteps ==
  ASSUME FlashInv, PhaseInv, QuietStep
  PROVE  FlashInv' /\ Quiet /\ Edge
  BY QuietDecisions, QuietEnds, QuietInstall DEF QuietStep

-----------------------------------------------------------------------------
(* The steps, and what each of them moves.                                   *)

LEMMA FlashKeeps ==
  ASSUME FlashInv, PhaseInv, [Next]_vars
  PROVE  FlashInv'
  <1>1. CASE FlashWork
    <2>1. Transfer \/ EraseSector \/ DriverFails \/ Return
          BY <1>1 DEF FlashWork
    <2> QED BY <2>1, TransferKeeps, EraseSectorKeeps, DriverFailsKeeps, ReturnKeeps
  <1>2. CASE QuietStep
        BY <1>2, QuietSteps
  <1>3. CASE LetStart \/ Search
    <2>1. Open("secondary") /\ "secondary" \in Area
          BY <1>3 DEF LetStart, Search, Area
    <2> QED BY <2>1, IdleKeeps
  <1>4. CASE \/ EraseSize \/ Flag \/ SetSizes \/ ResetProgress \/ Verified \/ CopyHook \/ Stored
             \/ Clamp \/ GuiStep \/ UNCHANGED vars
    <2>1. UNCHANGED flashVars
          BY <1>4 DEF EraseSize, Flag, SetSizes, ResetProgress, Verified, CopyHook, Stored, Clamp,
                      GuiStep, Receive, ReadFlag, ReadCounter, Redraw, vars
    <2> QED BY <2>1, FlashStutters
  <1> QED BY <1>1, <1>2, <1>3, <1>4 DEF Next, BootStep, QuietStep

\* One call of tryUpdateProgress, up to where it stores the counter.
LEMMA CountedOnce ==
  ASSUME done \in [Parts -> Nat], size \in [Parts -> Nat], clamp = "none",
         NEW part \in Parts, NEW chunk \in Nat, Counted(part, chunk)
  PROVE  /\ done' \in [Parts -> Nat] /\ clamp' \in {"none", part}
         /\ \A p \in Parts : p # part => done'[p] = done[p]
         /\ done[part] >= size[part] => done' = done /\ clamp' = "none"
         /\ done[part] < size[part] =>
              /\ clamp' = part
              /\ done'[part] = IF chunk < size[part] THEN done[part] + chunk ELSE size[part]
  BY DEF Counted

\* A flash operation: a piece transferred, a sector erased, or the end of the call.
Transferred ==
  /\ call.op \in {"read", "write"} /\ call.left > 0
  /\ call'.left = call.left - Chunk /\ call'.res = "run"
  /\ IF call.op = "write" /\ Device[call.area] = "internal"
     THEN Counted("copy", Chunk) ELSE done' = done /\ clamp' = clamp
  /\ dropped' = dropped /\ wiped' = wiped
ErasedOne ==
  /\ call.op = "erase" /\ call.left > 0 /\ call'.left = call.left - 1 /\ call'.res = "run"
  /\ Counted(IF Device[call.area] = "internal" THEN "erasePrimary" ELSE "eraseSecondary",
             SectorSize(call.area))
  /\ dropped' = IF flow \in {"dropHeader", "dropTrailer"} THEN dropped + 1 ELSE dropped
  /\ wiped' = IF flow \in {"erasing", "wiping"} THEN wiped + IntSector ELSE wiped
Over ==
  /\ call'.left \in {0, call.left}
  /\ \/ call'.res = "ok"
     \/ call'.res = "error" /\ (call.op = "read" \/ Device[call.area] = "external")
  /\ done' = done /\ clamp' = clamp /\ dropped' = dropped /\ wiped' = wiped

LEMMA OneOperation ==
  ASSUME FlashInv, FlashWork
  PROVE  /\ clamp = "none" /\ Running /\ call'.op = call.op /\ call'.area = call.area
         /\ UNCHANGED <<flow, again, image, copied, starts, initiated, size, guiQ, guiVars>>
         /\ Transferred \/ ErasedOne \/ Over
  <1>0. call \in [op : Op, area : Area, off : 0..(Word - 1), len : 0..(Word - 1),
                  at : 0..(Word - 1), left : 0..(Word - 1), res : {"run", "ok", "error"}]
        BY DEF FlashInv, FlashTypeOK
  <1>1. /\ clamp = "none"
        /\ UNCHANGED <<flow, again, image, copied, starts, initiated, size, guiQ, guiVars>>
        BY DEF FlashWork
  <1>2. CASE Transfer
    <2>1. /\ call' = [call EXCEPT !.left = @ - Chunk, !.at = NextAt(Chunk)]
          /\ Running /\ call.op \in {"read", "write"} /\ call.left > 0
          BY <1>2 DEF Transfer
    <2>2. /\ IF call.op = "write" /\ Device[call.area] = "internal"
             THEN Counted("copy", Chunk) ELSE done' = done /\ clamp' = clamp
          /\ dropped' = dropped /\ wiped' = wiped
          BY <1>2 DEF FlashWork, Transfer, EraseSector, DriverFails, Return
    <2> QED BY <1>0, <1>1, <2>1, <2>2 DEF Transferred, Running
  <1>3. CASE EraseSector
    <2>1. /\ call' = [call EXCEPT !.left = @ - 1, !.at = @ + 1]
          /\ Running /\ call.op = "erase" /\ call.left > 0
          BY <1>3 DEF EraseSector
    <2>2. /\ Counted(IF Device[call.area] = "internal" THEN "erasePrimary" ELSE "eraseSecondary",
                     SectorSize(call.area))
          /\ dropped' = IF flow \in {"dropHeader", "dropTrailer"} THEN dropped + 1 ELSE dropped
          /\ wiped' = IF flow \in {"erasing", "wiping"} THEN wiped + IntSector ELSE wiped
          BY <1>3 DEF FlashWork, Transfer, EraseSector, DriverFails, Return
    <2> QED BY <1>0, <1>1, <2>1, <2>2 DEF ErasedOne, Running
  <1>4. CASE DriverFails \/ Return
    <2>1. /\ Running /\ call'.op = call.op /\ call'.area = call.area /\ call'.left \in {0, call.left}
          /\ \/ call'.res = "ok"
             \/ call'.res = "error" /\ (call.op = "read" \/ Device[call.area] = "external")
          BY <1>0, <1>4 DEF DriverFails, Return
    <2>2. done' = done /\ clamp' = clamp /\ dropped' = dropped /\ wiped' = wiped
          BY <1>4 DEF FlashWork, Transfer, EraseSector, DriverFails, Return
    <2> QED BY <1>1, <2>1, <2>2 DEF Over
  <1> QED BY <1>1, <1>2, <1>3, <1>4 DEF FlashWork

\* The fields of a quiet step.
LEMMA QuietFields ==
  ASSUME Quiet
  PROVE  /\ clamp = "none" /\ clamp' = "none" /\ ~Running /\ (Running' => CallOfFlow')
         /\ again' = again /\ image' = image /\ copied' = copied /\ starts' = starts
         /\ dropped' = dropped /\ wiped' = wiped
         /\ initiated' = initiated /\ size' = size /\ done' = done
         /\ screen' = screen /\ at' = at /\ sum' = sum /\ fresh' = fresh
         /\ guiQ' = guiQ \/ ToGui("failed") \/ ToGui("started")
  BY DEF Quiet, progressVars, workVars, guiVars

\* The GUI task, and a counter that is cut back, leave the flow alone.
LEMMA Bystanders ==
  ASSUME Clamp \/ GuiStep \/ UNCHANGED vars
  PROVE  /\ UNCHANGED <<flow, again, image, copied, starts, dropped, wiped, initiated, size, call>>
         /\ ~Clamp => UNCHANGED <<done, clamp>>
  BY DEF Clamp, GuiStep, Receive, ReadFlag, ReadCounter, Redraw, vars, bootVars, progressVars,
         flashVars

-----------------------------------------------------------------------------
(* Where the flow and its flash call are.                                    *)

LEMMA PhaseKeeps ==
  ASSUME FlashInv, PhaseInv, SizeInv, [Next]_vars
  PROVE  PhaseInv'
  <1> USE DEF PhaseInv, Flow, Resetting, Deciding, Installing, Trailing, Filled
  <1>0. /\ PrimarySize \in Nat /\ CopyChunk \in Nat \ {0} /\ MaxStarts \in Nat
        /\ call.op \in Op /\ call.area \in Area /\ call.left \in Nat /\ call'.left \in Nat
        /\ (call.op # "none" /\ call.res = "ok" => call.left = 0)
    <2>1. FlashInv'
          BY FlashKeeps
    <2> QED BY <2>1, Slots, UpdateConstants, Fields DEF FlashInv, CallInv, FlashTypeOK
  <1>1. CASE FlashWork
    <2>0. /\ UNCHANGED <<flow, again, image, copied, starts, initiated>> /\ Running
          /\ call'.op = call.op /\ call'.area = call.area
          /\ Transferred \/ ErasedOne \/ Over
          BY <1>1, OneOperation
    <2>1. CallOfFlow /\ CallOfFlow'
          BY <2>0 DEF CallOfFlow
    <2>2. flow = "writing" =>
            /\ call'.res # "error" /\ call'.left \in {0, CopyChunk}
            /\ dropped' = dropped /\ wiped' = wiped
      <3>1. flow = "writing" => call.op = "write" /\ Device[call.area] = "internal"
            BY DEF Device, Area
      <3>2. CASE Transferred
            BY <1>0, <3>1, <3>2 DEF Transferred, Chunk
      <3>3. CASE Over
            BY <1>0, <3>1, <3>3 DEF Over
      <3>4. CASE ErasedOne
            BY <3>1, <3>4 DEF ErasedOne
      <3> QED BY <2>0, <3>2, <3>3, <3>4
    <2>3. ~initiated \/ flow \in Resetting \cup {"reset4"} => dropped' = dropped /\ wiped' = wiped
      <3>1. ~initiated \/ flow \in Resetting \cup {"reset4"} =>
              flow \notin {"dropHeader", "dropTrailer", "erasing", "wiping"}
            OBVIOUS
      <3> QED BY <2>0, <3>1 DEF Transferred, ErasedOne, Over
    <2>4. Running' => CallOfFlow'
          BY <2>1
    <2> QED BY <1>0, <2>0, <2>2, <2>3, <2>4
  <1>2. CASE QuietStep
    <2>1. Quiet /\ Edge
          BY <1>2, QuietSteps
    <2>2. /\ Running' => CallOfFlow'
          /\ again' = again /\ image' = image /\ copied' = copied /\ starts' = starts
          /\ dropped' = dropped /\ wiped' = wiped /\ initiated' = initiated
          BY <2>1, QuietFields
    <2>3. initiated => image \in Nat
          BY UpdateConstants
    <2> QED BY <1>0, <2>1, <2>2, <2>3 DEF Edge, Ended
  <1>3. CASE LetStart \/ Search
    <2>1. /\ ~Running' /\ flow' = "start" /\ ~initiated' /\ initiated' \in BOOLEAN
          /\ again' \in BOOLEAN /\ image' = 0 /\ copied' = 0 /\ dropped' = 0 /\ wiped' = 0
          /\ starts' \in 0..MaxStarts
      <3>1. ~Running'
            BY <1>3 DEF LetStart, Search, Open, NoCall, Running
      <3>2. CASE LetStart
        <4>1. starts' \in 0..MaxStarts
              BY <1>0, <3>2 DEF LetStart
        <4> QED BY <3>1, <3>2, <4>1 DEF LetStart, Step
      <3>3. CASE Search
            BY <3>1, <3>3 DEF Search, Step, progressVars
      <3> QED BY <1>3, <3>2, <3>3
    <2> QED BY <1>0, <2>1
  <1>4. CASE EraseSize \/ Flag
    <2>1. /\ ~Running' /\ again' = again /\ image' = image /\ copied' = copied /\ starts' = starts
          /\ dropped' = dropped /\ wiped' = wiped /\ flow \in {"start", "marked"}
          /\ \/ flow' = "sized" /\ initiated' = initiated
             \/ flow' = "flag" /\ initiated' /\ initiated' \in BOOLEAN
          BY <1>4 DEF EraseSize, Flag, Step, BootMay, Running, flashVars, workVars
    <2> QED BY <1>0, <2>1
  <1>5. CASE SetSizes
    <2>1. /\ ~Running' /\ again' = again /\ copied' = copied /\ starts' = starts
          /\ dropped' = dropped /\ wiped' = wiped /\ initiated' = initiated
          /\ \/ flow = "flag" /\ flow' = "sizeCopy" /\ image' \in ImageSizes
             \/ flow = "sizeCopy" /\ flow' = "sizeErase" /\ image' = image
          BY <1>5 DEF SetSizes, Step, BootMay, Running, flashVars
    <2> QED BY <1>0, <2>1
  <1>6. CASE ResetProgress
    <2>1. PICK i \in 1..4 :
            /\ flow = CASE i = 1 -> "sizeErase" [] i = 2 -> "reset1" [] i = 3 -> "reset2"
                        [] OTHER -> "reset3"
            /\ flow' = CASE i = 1 -> "reset1" [] i = 2 -> "reset2" [] i = 3 -> "reset3"
                         [] OTHER -> "reset4"
            /\ UNCHANGED <<flashVars, initiated, workVars>> /\ ~Running
          BY <1>6 DEF ResetProgress, Step, BootMay
    <2>2. /\ ~Running' /\ flow \in {"sizeErase", "reset1", "reset2", "reset3"}
          /\ flow' \in {"reset1", "reset2", "reset3", "reset4"}
          BY <2>1 DEF Running, flashVars
    <2>3. /\ again' = again /\ image' = image /\ copied' = copied /\ starts' = starts
          /\ dropped' = dropped /\ wiped' = wiped /\ initiated' = initiated
          BY <2>1 DEF workVars
    <2> QED BY <1>0, <2>2, <2>3
  <1>7. CASE Verified \/ CopyHook
    <2>1. /\ ~Running' /\ again' = again /\ image' = image /\ copied' = copied /\ starts' = starts
          /\ dropped' = dropped /\ wiped' = wiped /\ initiated' = initiated
          /\ \/ flow = "bootGo" /\ flow' = "verified"
             \/ flow = "marking" /\ flow' = "hook"
          BY <1>7 DEF Verified, CopyHook, Step, BootMay, Running, flashVars, workVars
    <2> QED BY <1>0, <2>1
  <1>8. CASE Stored
    <2>1. /\ ~Running' /\ again' = again /\ image' = image /\ starts' = starts
          /\ dropped' = dropped /\ wiped' = wiped /\ initiated' = initiated
          /\ flow = "writing" /\ flow' = "copying" /\ copied' = copied + CopyChunk
          BY <1>8 DEF Stored, Step, BootMay, Running, flashVars, progressVars
    <2> QED BY <1>0, <2>1
  <1>9. CASE Clamp \/ GuiStep \/ UNCHANGED vars
    <2>1. UNCHANGED <<flow, again, image, copied, starts, dropped, wiped, initiated, call>>
          BY <1>9, Bystanders
    <2>2. (Running' <=> Running) /\ (CallOfFlow' <=> CallOfFlow)
          BY <2>1 DEF Running, CallOfFlow
    <2> QED BY <1>0, <2>1, <2>2
  <1> QED BY <1>1, <1>2, <1>3, <1>4, <1>5, <1>6, <1>7, <1>8, <1>9 DEF Next, BootStep, QuietStep

-----------------------------------------------------------------------------
(* The sectors that are erased.                                              *)

LEMMA ErasedKeeps ==
  ASSUME FlashInv, PhaseInv, ErasedInv, [Next]_vars
  PROVE  ErasedInv'
  <1> USE DEF ErasedInv, Installing
  <1>0. /\ PrimarySize \in Nat /\ IntSector \in Nat \ {0} /\ 0 \in 0..(PrimarySize + IntSector)
        /\ wiped \in Nat /\ dropped \in Nat /\ call.left \in Nat /\ call'.left \in Nat
        /\ call.area \in Area
    <2>1. FlashInv'
          BY FlashKeeps
    <2> QED BY <2>1, Slots, Constants, Fields DEF FlashInv, FlashTypeOK
  <1>1. CASE FlashWork
    <2>0. /\ UNCHANGED <<flow, initiated>> /\ Running
          /\ Transferred \/ ErasedOne \/ Over
          BY <1>1, OneOperation
    <2>1. CASE Transferred
      <3>1. /\ dropped' = dropped /\ wiped' = wiped
            /\ flow \notin {"erasing", "wiping", "dropHeader", "dropTrailer"}
            BY <2>0, <2>1 DEF Transferred, PhaseInv, CallOfFlow
      <3> QED BY <2>0, <3>1
    <2>2. CASE Over
      <3>1. /\ dropped' = dropped /\ wiped' = wiped /\ call'.left \in {0, call.left}
            BY <2>2 DEF Over
      <3>2. IntSector * 0 = 0 /\ IntSector * call.left \in Nat
            BY <1>0, ProductNat
      <3>3. IntSector * call'.left <= IntSector * call.left /\ IntSector * call'.left \in Nat
            BY <1>0, <3>1, <3>2
      <3> QED BY <1>0, <2>0, <3>1, <3>2, <3>3
    <2>3. CASE ErasedOne
      <3>1. /\ call'.left = call.left - 1 /\ call.left > 0
            /\ dropped' = IF flow \in {"dropHeader", "dropTrailer"} THEN dropped + 1 ELSE dropped
            /\ wiped' = IF flow \in {"erasing", "wiping"} THEN wiped + IntSector ELSE wiped
            BY <2>3 DEF ErasedOne
      <3>2. IntSector * call.left = IntSector * call'.left + IntSector /\ IntSector * call'.left \in Nat
        <4>1. call.left = call'.left + 1
              BY <1>0, <3>1
        <4>2. IntSector * (call'.left + 1) = IntSector * call'.left + IntSector
              BY <1>0, ProductGrows
        <4> QED BY <1>0, <4>1, <4>2, ProductNat
      <3> QED BY <1>0, <2>0, <3>1, <3>2
    <2> QED BY <2>0, <2>1, <2>2, <2>3
  <1>2. CASE QuietStep
    <2>1. Quiet /\ Edge
          BY <1>2, QuietSteps
    <2>2. dropped' = dropped /\ wiped' = wiped /\ initiated' = initiated
          BY <2>1, QuietFields
    <2>3. flow = "reset4" => wiped = 0 /\ dropped = 0
          BY DEF PhaseInv
    <2>4. flow' = "erasing" => wiped = 0 /\ IntSector * call'.left <= PrimarySize
          BY <2>1 DEF Edge, Ended, Deciding
    <2>5. flow' = "wiping" => wiped <= PrimarySize /\ call'.left = 1
      <3>1. IntSector * call.left \in Nat
            BY <1>0, ProductNat
      <3> QED BY <1>0, <2>1, <3>1 DEF Edge, Ended, Deciding
    <2>6. IntSector * 1 = IntSector
          BY <1>0
    <2>7. flow' = "wiping" => wiped' + IntSector * call'.left <= PrimarySize + IntSector
          BY <1>0, <2>2, <2>5, <2>6
    <2>8. flow' \in {"bootGo", "verified"} => wiped = 0
          BY <2>1, <2>3 DEF Edge, Ended, Deciding
    <2>9. flow' \in Installing \ {"dropHeader", "dropTrailer", "complete"} => dropped = 0
          BY <2>1, <2>3 DEF Edge, Ended, Deciding
    <2>10. /\ flow' = "dropHeader" => dropped = 0 /\ call'.left = 1
           /\ flow' = "dropTrailer" => dropped <= 1 /\ call'.left = 1
          BY <1>0, <2>1 DEF Edge, Ended, Deciding
    <2> QED BY <1>0, <2>2, <2>4, <2>7, <2>8, <2>9, <2>10
  <1>3. CASE LetStart \/ Search
    <2>1. flow' = "start" /\ dropped' = 0 /\ wiped' = 0
          BY <1>3 DEF LetStart, Search, Step, PhaseInv
    <2> QED BY <1>0, <2>1
  <1>4. CASE EraseSize \/ Flag \/ SetSizes \/ ResetProgress
    <2>1. dropped' = dropped /\ wiped' = wiped /\ flow' \notin Installing
      <3>1. CASE ResetProgress
            BY <3>1 DEF ResetProgress, Step, workVars
      <3> QED BY <1>4, <3>1 DEF EraseSize, Flag, SetSizes, Step, workVars
    <2> QED BY <2>1
  <1>5. CASE Verified \/ CopyHook \/ Stored
    <2>1. /\ dropped' = dropped /\ wiped' = wiped
          /\ \/ flow = "bootGo" /\ flow' = "verified"
             \/ flow = "marking" /\ flow' = "hook"
             \/ flow = "writing" /\ flow' = "copying"
          BY <1>5 DEF Verified, CopyHook, Stored, Step, workVars
    <2> QED BY <2>1
  <1>6. CASE Clamp \/ GuiStep \/ UNCHANGED vars
        BY <1>6, Bystanders
  <1> QED BY <1>1, <1>2, <1>3, <1>4, <1>5, <1>6 DEF Next, BootStep, QuietStep

\* The sizes of an update, once they are set.
LEMMA SizeKeeps ==
  ASSUME FlashInv, PhaseInv, SizeInv, [Next]_vars
  PROVE  SizeInv'
  <1>1. ASSUME size' = size, image' = image,
               initiated' => initiated /\ flow \notin {"flag", "sizeCopy"}
        PROVE  SizeInv'
        BY <1>1 DEF SizeInv
  <1>2. CASE FlashWork \/ Clamp \/ GuiStep \/ UNCHANGED vars
    <2>1. size' = size /\ flow' = flow /\ image' = image /\ initiated' = initiated
          BY <1>2, OneOperation, Bystanders
    <2> QED BY <2>1 DEF SizeInv
  <1>3. CASE QuietStep
    <2>1. Quiet /\ Edge
          BY <1>3, QuietSteps
    <2>2. size' = size /\ image' = image /\ initiated' = initiated
          BY <2>1, QuietFields
    <2>3. initiated => flow \notin {"flag", "sizeCopy"}
          BY <2>1 DEF Edge, Resetting
    <2> QED BY <1>1, <2>2, <2>3
  <1>4. CASE LetStart \/ Search \/ EraseSize \/ Flag
    <2>1. /\ size' \in [Parts -> Nat] /\ size'.verify = 1 /\ (initiated' => flow' = "flag")
      <3>1. CASE EraseSize
        <4>1. PICK x \in PrimarySizes \cup {0} : size' = [size EXCEPT !.erasePrimary = x]
              BY <3>1 DEF EraseSize
        <4>2. x \in Nat
              BY UpdateConstants
        <4>3. ~initiated'
              BY <3>1 DEF EraseSize, Step, PhaseInv, Deciding
        <4> QED BY <4>1, <4>2, <4>3, PartsAre DEF SizeInv
      <3>2. CASE LetStart \/ Search \/ Flag
            BY <3>2 DEF LetStart, Search, Flag, Step, SizeInv, progressVars
      <3> QED BY <1>4, <3>1, <3>2
    <2> QED BY <2>1 DEF SizeInv
  <1>5. CASE SetSizes
    <2>1. CASE /\ Step("flag", "sizeCopy")
               /\ \E s \in ImageSizes, wrapper \in (IF secOff = ExtFirst THEN {0} ELSE {0, ExtSector}) :
                    image' = s /\ size' = [size EXCEPT !.copy = s + wrapper]
      <3>1. PICK s \in ImageSizes, wrapper \in {0, ExtSector} :
              image' = s /\ size' = [size EXCEPT !.copy = s + wrapper]
            BY <2>1
      <3>2. s \in Nat /\ s + wrapper \in Nat /\ s + wrapper \in s..(SecondarySize + ExtSector)
            BY UpdateConstants, Slots, Constants
      <3>3. flow' = "sizeCopy"
            BY <2>1 DEF Step
      <3>4. size' \in [Parts -> Nat] /\ size'.copy = s + wrapper /\ size'.verify = size.verify
            BY <3>1, <3>2, PartsAre DEF SizeInv
      <3> QED BY <3>1, <3>2, <3>3, <3>4 DEF SizeInv
    <2>2. CASE /\ Step("sizeCopy", "sizeErase") /\ UNCHANGED image
               /\ size' = [size EXCEPT !.eraseSecondary = 2 * ExtSector]
      <3>1. flow = "sizeCopy" /\ flow' = "sizeErase" /\ image' = image /\ initiated' = initiated
            BY <1>5, <2>2 DEF Step, SetSizes
      <3>2. 2 * ExtSector \in Nat
            BY Constants
      <3>3. /\ size' \in [Parts -> Nat] /\ size'.copy = size.copy /\ size'.verify = size.verify
            /\ size'.eraseSecondary = 2 * ExtSector
            BY <2>2, <3>2, PartsAre DEF SizeInv
      <3> QED BY <3>1, <3>3 DEF SizeInv
    <2> QED BY <1>5, <2>1, <2>2 DEF SetSizes
  <1>6. CASE ResetProgress
    <2>1. /\ size' = size /\ image' = image /\ initiated' = initiated
          /\ flow \in {"sizeErase", "reset1", "reset2", "reset3"}
          BY <1>6 DEF ResetProgress, Step, workVars
    <2> QED BY <1>1, <2>1
  <1>7. CASE Verified \/ CopyHook \/ Stored
    <2>1. /\ size' = size /\ image' = image /\ initiated' = initiated
          /\ flow \in {"bootGo", "marking", "writing"}
          BY <1>7 DEF Verified, CopyHook, Stored, Step, workVars, progressVars
    <2> QED BY <1>1, <2>1
  <1> QED BY <1>2, <1>3, <1>4, <1>5, <1>6, <1>7 DEF Next, BootStep, QuietStep

-----------------------------------------------------------------------------
(* The counters.                                                             *)

CounterTypes == done \in [Parts -> Nat] /\ clamp \in Parts \cup {"none"}

LEMMA Counters ==
  ASSUME SizeInv, CounterTypes
  PROVE  /\ done \in [Parts -> Nat] /\ size \in [Parts -> Nat]
         /\ {"verify", "erasePrimary", "copy", "eraseSecondary"} \subseteq Parts
         /\ done.verify \in Nat /\ done.erasePrimary \in Nat /\ done.copy \in Nat
         /\ done.eraseSecondary \in Nat
         /\ size.erasePrimary \in Nat /\ size.copy \in Nat /\ size.eraseSecondary \in Nat
  BY PartsAre DEF SizeInv, CounterTypes

\* A counter that is cut back to its size.
LEMMA Cut ==
  ASSUME SizeInv, CounterTypes, Clamp
  PROVE  /\ clamp \in Parts /\ clamp' = "none" /\ done' \in [Parts -> Nat]
         /\ UNCHANGED <<flow, again, image, copied, starts, dropped, wiped, initiated, size, call>>
         /\ \A p \in Parts : p # clamp => done'[p] = done[p]
         /\ \A p \in Parts : done'[p] = done[p] \/ (done[p] > size[p] /\ done'[p] = size[p])
         /\ done'[clamp] <= size[clamp]
  <1>1. /\ clamp # "none" /\ clamp' = "none"
        /\ done' = [done EXCEPT ![clamp] = IF @ > size[clamp] THEN size[clamp] ELSE @]
        BY DEF Clamp
  <1>2. clamp \in Parts
        BY <1>1 DEF CounterTypes
  <1> QED BY <1>1, <1>2, Counters, Bystanders

\* A flash operation: the counter that it moves, and by how much.
LEMMA WorkCounts ==
  ASSUME FlashInv, PhaseInv, SizeInv, CounterTypes, FlashWork
  PROVE  \/ done' = done /\ clamp' = clamp
         \/ /\ Transferred /\ flow \in {"writing", "magic", "marking", "keepMagic", "keepDone"}
            /\ call'.left = 0 /\ call.left \in Nat /\ Counted("copy", call.left)
         \/ /\ ErasedOne /\ call.area = "primary" /\ Counted("erasePrimary", IntSector)
         \/ /\ ErasedOne /\ call.area = "secondary" /\ Counted("eraseSecondary", ExtSector)
  <1>0. /\ clamp = "none" /\ Running
        /\ Transferred \/ ErasedOne \/ Over
        /\ CallOfFlow /\ call.left \in Nat
        BY OneOperation, Fields DEF FlashInv, PhaseInv
  <1>1. CASE Transferred
    <2>1. CASE call.op = "write" /\ Device[call.area] = "internal"
      <3>1. Chunk = call.left /\ call'.left = 0 /\ Counted("copy", call.left)
            BY <1>0, <1>1, <2>1 DEF Transferred, Chunk
      <3>2. flow \in {"writing", "magic", "marking", "keepMagic", "keepDone"}
            BY <1>0, <2>1 DEF CallOfFlow, Device, Area
      <3> QED BY <1>0, <1>1, <3>1, <3>2
    <2> QED BY <1>1, <2>1 DEF Transferred
  <1>2. CASE ErasedOne
    <2>1. call.area \in {"primary", "secondary"}
          BY <1>0, <1>2 DEF CallOfFlow, ErasedOne
    <2> QED BY <1>2, <2>1 DEF ErasedOne, SectorSize, Device, Area
  <1>3. CASE Over
        BY <1>3 DEF Over
  <1> QED BY <1>0, <1>1, <1>2, <1>3

\* Every step moves one counter, or none.
LEMMA TypesKeep ==
  ASSUME FlashInv, PhaseInv, SizeInv, CounterTypes, [Next]_vars
  PROVE  CounterTypes'
  <1> USE DEF CounterTypes
  <1>0. /\ IntSector \in Nat /\ ExtSector \in Nat /\ Word - 1 \in Nat /\ 1 \in Nat
        BY Constants
  <1>1. CASE FlashWork
    <2>1. clamp = "none"
          BY <1>1, OneOperation
    <2> QED BY <1>0, <1>1, <2>1, WorkCounts, CountedOnce, Counters
  <1>2. CASE QuietStep
        BY <1>2, QuietSteps, QuietFields
  <1>3. CASE LetStart \/ EraseSize \/ Flag \/ SetSizes \/ Search \/ Stored
        BY <1>3 DEF LetStart, EraseSize, Flag, SetSizes, Search, Stored, progressVars
  <1>4. CASE ResetProgress
    <2>1. PICK i \in 1..4 : done' = [done EXCEPT ![Part[i]] = 0] /\ clamp' = clamp
          BY <1>4 DEF ResetProgress
    <2> QED BY <2>1
  <1>5. CASE Verified \/ CopyHook
    <2>1. clamp = "none" /\ (Counted("verify", 1) \/ Counted("copy", Word - 1))
          BY <1>5 DEF Verified, CopyHook, Step, BootMay
    <2> QED BY <1>0, <2>1, CountedOnce, Counters
  <1>6. CASE Clamp
        BY <1>6, Cut
  <1>7. CASE GuiStep \/ UNCHANGED vars
    <2>1. done' = done /\ clamp' = clamp
          BY <1>7 DEF GuiStep, Receive, ReadFlag, ReadCounter, Redraw, vars, progressVars
    <2> QED BY <2>1
  <1> QED BY <1>1, <1>2, <1>3, <1>4, <1>5, <1>6, <1>7 DEF Next, BootStep, QuietStep

\* The counters are reset while nothing is counted.
LEMMA ResetsKeep ==
  ASSUME FlashInv, PhaseInv, SizeInv, CounterInv, [Next]_vars
  PROVE  Resets'
  <1> USE DEF Resets, Resetting
  <1>0. CounterTypes /\ Resets
        BY DEF CounterInv, CounterTypes
  <1>1. ASSUME flow' \notin Resetting \cup {"reset4"}, flow' = "idle" => clamp' = "none"
        PROVE  Resets'
        BY <1>1
  <1>2. CASE FlashWork
    <2>1. flow' = flow /\ Running
          BY <1>2, OneOperation
    <2>2. flow \notin Resetting \cup {"idle", "reset4"}
          BY <2>1 DEF PhaseInv, CallOfFlow
    <2> QED BY <1>1, <2>1, <2>2
  <1>3. CASE QuietStep
    <2>1. clamp' = "none" /\ Edge
          BY <1>3, QuietSteps, QuietFields
    <2> QED BY <1>1, <2>1 DEF Edge, Ended, Deciding
  <1>4. CASE LetStart \/ EraseSize \/ Search \/ Verified \/ CopyHook \/ Stored
    <2>1. flow' \in {"start", "sized", "verified", "hook", "copying"}
          BY <1>4 DEF LetStart, EraseSize, Search, Verified, CopyHook, Stored, Step
    <2> QED BY <1>1, <2>1
  <1>5. CASE Flag \/ SetSizes
    <2>1. clamp' = "none" /\ flow' \in {"flag", "sizeCopy", "sizeErase"}
          BY <1>5 DEF Flag, SetSizes, Step, BootMay
    <2> QED BY <2>1
  <1>6. CASE ResetProgress
    <2>1. PICK i \in 1..4 :
            /\ flow = CASE i = 1 -> "sizeErase" [] i = 2 -> "reset1" [] i = 3 -> "reset2"
                        [] OTHER -> "reset3"
            /\ flow' = CASE i = 1 -> "reset1" [] i = 2 -> "reset2" [] i = 3 -> "reset3"
                         [] OTHER -> "reset4"
            /\ done' = [done EXCEPT ![Part[i]] = 0] /\ clamp' = clamp /\ clamp = "none"
          BY <1>6 DEF ResetProgress, Step, BootMay
    <2>2. \A p \in Parts : done'[p] = IF p = Part[i] THEN 0 ELSE done[p]
          BY <1>0, <2>1, Counters
    <2> QED BY <1>0, <2>1, <2>2, PartsAre
  <1>7. CASE Clamp
    <2>1. flow' = flow /\ flow \notin Resetting \cup {"idle", "reset4"}
      <3>1. clamp # "none" /\ flow' = flow
            BY <1>7, Bystanders DEF Clamp
      <3> QED BY <1>0, <3>1
    <2> QED BY <1>1, <2>1
  <1>8. CASE GuiStep \/ UNCHANGED vars
    <2>1. done' = done /\ clamp' = clamp /\ flow' = flow
          BY <1>8 DEF GuiStep, Receive, ReadFlag, ReadCounter, Redraw, vars, bootVars, progressVars
    <2> QED BY <1>0, <2>1
  <1> QED BY <1>2, <1>3, <1>4, <1>5, <1>6, <1>7, <1>8 DEF Next, BootStep, QuietStep

\* Where a quiet step leads while an update is counted or installed.
LEMMA QuietLands ==
  ASSUME FlashInv, PhaseInv, QuietStep
  PROVE  /\ Counting' => Counting
         /\ flow' \in Installing => flow \in Installing \cup {"reset4"}
         /\ flow' \in Installing \ {"bootGo"} => flow \in Installing \ {"bootGo"}
         /\ flow' \in Filled => flow \in Filled
         /\ flow' # "writing" \/ flow = "fetched"
         /\ flow # "writing"
         /\ (initiated' <=> initiated) /\ done' = done /\ clamp' = "none" /\ clamp = "none"
         /\ size' = size /\ image' = image /\ copied' = copied /\ dropped' = dropped /\ wiped' = wiped
  <1>1. Edge
        BY QuietSteps
  <1>2. /\ initiated' = initiated /\ done' = done /\ clamp' = "none" /\ clamp = "none"
        /\ size' = size /\ image' = image /\ copied' = copied /\ dropped' = dropped /\ wiped' = wiped
        BY QuietSteps, QuietFields
  <1>3. /\ Counting' => Counting
        /\ flow' \in Installing => flow \in Installing \cup {"reset4"}
        /\ flow' \in Installing \ {"bootGo"} => flow \in Installing \ {"bootGo"}
        /\ flow' \in Filled => flow \in Filled
        /\ flow' # "writing" \/ flow = "fetched"
        /\ flow # "writing" \/ ~initiated
        BY <1>1, <1>2 DEF Edge, Counting, Installing, Filled, Ended, Deciding, Resetting
  <1>4. flow = "writing" => initiated
        BY DEF PhaseInv, Installing
  <1> QED BY <1>2, <1>3, <1>4

\* Every counter but the one that is being moved stays within its size.
LEMMA LimitsKeep ==
  ASSUME FlashInv, PhaseInv, SizeInv, CounterInv, [Next]_vars
  PROVE  Limits'
  <1> USE DEF Limits
  <1>0. /\ CounterTypes /\ Limits /\ size \in [Parts -> Nat] /\ size.verify = 1
        /\ IntSector \in Nat /\ ExtSector \in Nat /\ Word - 1 \in Nat /\ 1 \in Nat
        BY Constants DEF CounterInv, CounterTypes, SizeInv
  <1>1. ASSUME done' = done, clamp' = clamp, size' = size, Counting' => Counting,
               flow' \in Installing \ {"bootGo"} => flow \in Installing \ {"bootGo"}
        PROVE  Limits'
        BY <1>0, <1>1
  <1>2. ASSUME clamp = "none", NEW part \in Parts, NEW chunk \in Nat, Counted(part, chunk),
               size' = size, Counting' => Counting
        PROVE  Counting' => \A p \in Parts : clamp' # p => done'[p] <= size'[p]
    <2>1. /\ \A p \in Parts : p # part => done'[p] = done[p]
          /\ done[part] >= size[part] => done' = done /\ clamp' = "none"
          /\ done[part] < size[part] => clamp' = part
      <3>1. done \in [Parts -> Nat]
            BY <1>0 DEF CounterTypes
      <3> QED BY <1>0, <1>2, <3>1, CountedOnce
    <2>2. done[part] \in Nat /\ size[part] \in Nat /\ "none" \notin Parts
          BY <1>0, PartsAre DEF CounterTypes
    <2> QED BY <1>0, <1>2, <2>1, <2>2
  <1>3. CASE FlashWork
    <2>1. clamp = "none" /\ size' = size /\ flow' = flow /\ initiated' = initiated
          BY <1>3, OneOperation
    <2>2. Counting' => Counting
          BY <2>1 DEF Counting
    <2>3. CASE done' = done /\ clamp' = clamp
          BY <1>1, <2>1, <2>2, <2>3
    <2>4. ASSUME NEW part \in Parts, part # "verify", NEW chunk \in Nat, Counted(part, chunk)
          PROVE  Limits'
      <3>1. done'.verify = done.verify
            BY <1>0, <2>1, <2>4, CountedOnce, PartsAre DEF CounterTypes
      <3> QED BY <1>0, <1>2, <2>1, <2>2, <2>4, <3>1
    <2> QED BY <1>0, <1>3, <2>3, <2>4, WorkCounts, PartsAre
  <1>4. CASE QuietStep
        BY <1>1, <1>4, QuietLands
  <1>5. CASE LetStart \/ Search \/ EraseSize
    <2>1. ~initiated' /\ flow' \in {"start", "sized"}
          BY <1>5 DEF LetStart, Search, EraseSize, Step, progressVars, PhaseInv, Deciding
    <2> QED BY <2>1 DEF Counting, Installing
  <1>6. CASE Flag \/ SetSizes
    <2>1. flow' \in {"flag", "sizeCopy", "sizeErase"}
          BY <1>6 DEF Flag, SetSizes, Step
    <2> QED BY <2>1 DEF Counting, Installing, Resetting
  <1>7. CASE ResetProgress
    <2>1. flow' \in {"reset1", "reset2", "reset3", "reset4"} /\ size' = size
          BY <1>7 DEF ResetProgress, Step
    <2>2. flow' = "reset4" => \A p \in Parts : done'[p] = 0
          BY ResetsKeep, PartsAre DEF Resets
    <2> QED BY <1>0, <2>1, <2>2 DEF Counting, Installing, Resetting
  <1>8. CASE Verified
    <2>1. /\ flow = "bootGo" /\ flow' = "verified" /\ clamp = "none" /\ size' = size
          /\ initiated' = initiated /\ Counted("verify", 1)
          BY <1>8 DEF Verified, Step, BootMay
    <2>2. Counting
          BY <2>1 DEF PhaseInv, Counting, Installing, Resetting
    <2>3. done.verify \in Nat /\ done.verify <= 1 /\ "verify" \in Parts
          BY <1>0, <2>1, <2>2, Counters, PartsAre
    <2>4. done'.verify = 1
          BY <1>0, <2>1, <2>3, CountedOnce DEF CounterTypes
    <2> QED BY <1>0, <1>2, <2>1, <2>2, <2>3, <2>4
  <1>9. CASE CopyHook
    <2>1. /\ flow = "marking" /\ flow' = "hook" /\ clamp = "none" /\ size' = size
          /\ initiated' = initiated /\ Counted("copy", Word - 1)
          BY <1>9 DEF CopyHook, Step, BootMay
    <2>2. Counting' => Counting
          BY <2>1 DEF Counting, Resetting
    <2>3. done'.verify = done.verify /\ done.verify = 1 /\ "copy" \in Parts
      <3>1. done.verify = 1
            BY <1>0, <2>1 DEF Installing
      <3> QED BY <1>0, <2>1, <3>1, CountedOnce, PartsAre DEF CounterTypes
    <2> QED BY <1>0, <1>2, <2>1, <2>2, <2>3
  <1>10. CASE Stored
    <2>1. /\ flow = "writing" /\ flow' = "copying" /\ clamp' = clamp /\ size' = size
          /\ initiated' = initiated /\ done' = done
          BY <1>10 DEF Stored, Step, progressVars
    <2> QED BY <1>1, <2>1 DEF Counting, Installing, Resetting
  <1>11. CASE Clamp
    <2>1. /\ clamp \in Parts /\ clamp' = "none" /\ flow' = flow /\ initiated' = initiated
          /\ size' = size /\ done' \in [Parts -> Nat]
          /\ \A p \in Parts : p # clamp => done'[p] = done[p]
          /\ \A p \in Parts : done'[p] = done[p] \/ (done[p] > size[p] /\ done'[p] = size[p])
          /\ done'[clamp] <= size[clamp]
          BY <1>0, <1>11, Cut
    <2>2. Counting' => \A p \in Parts : done'[p] <= size'[p]
          BY <1>0, <2>1 DEF Counting
    <2>3. flow' \in Installing \ {"bootGo"} => done'.verify = 1
          BY <1>0, <2>1, PartsAre
    <2> QED BY <2>2, <2>3
  <1>12. CASE GuiStep \/ UNCHANGED vars
    <2>1. done' = done /\ clamp' = clamp /\ flow' = flow /\ size' = size /\ initiated' = initiated
          BY <1>12 DEF GuiStep, Receive, ReadFlag, ReadCounter, Redraw, vars, bootVars, progressVars
    <2> QED BY <1>1, <2>1 DEF Counting
  <1> QED BY <1>3, <1>4, <1>5, <1>6, <1>7, <1>8, <1>9, <1>10, <1>11, <1>12
          DEF Next, BootStep, QuietStep

\* What has been erased is what has been counted.
LEMMA EraseCountsKeep ==
  ASSUME FlashInv, PhaseInv, ErasedInv, SizeInv, CounterInv, [Next]_vars
  PROVE  EraseCounts'
  <1> USE DEF EraseCounts, Least
  <1>0. /\ CounterTypes /\ EraseCounts /\ done \in [Parts -> Nat] /\ size \in [Parts -> Nat]
        /\ IntSector \in Nat \ {0} /\ ExtSector \in Nat \ {0} /\ Word - 1 \in Nat /\ 1 \in Nat
        /\ wiped \in Nat /\ dropped \in 0..2 /\ PrimarySize \in Nat
        /\ done.erasePrimary \in Nat /\ done.eraseSecondary \in Nat /\ size.erasePrimary \in Nat
    <2>1. CounterTypes /\ EraseCounts /\ wiped \in 0..(PrimarySize + IntSector) /\ dropped \in 0..2
          BY DEF CounterInv, CounterTypes, ErasedInv
    <2> QED BY <2>1, Counters, Constants, Slots
  <1>1. ASSUME done'.erasePrimary = done.erasePrimary, done'.eraseSecondary = done.eraseSecondary,
               size' = size, wiped' = wiped, dropped' = dropped,
               flow' \in Installing => flow \in Installing
        PROVE  EraseCounts'
        BY <1>0, <1>1
  <1>2. CASE FlashWork
    <2>1. /\ clamp = "none" /\ Running /\ size' = size /\ flow' = flow
          /\ Transferred \/ ErasedOne \/ Over
          BY <1>2, OneOperation
    <2>2. CASE Transferred
      <3>1. Counted("copy", Chunk) \/ done' = done
            BY <2>2 DEF Transferred
      <3>2. Counted("copy", Chunk) => Chunk \in Nat
        <4>1. call.left \in Nat /\ FlashTypeOK
              BY Fields DEF FlashInv
        <4> QED BY <2>2, <4>1, OneTransfer DEF Transferred
      <3> QED BY <1>0, <1>1, <2>1, <2>2, <3>1, <3>2, CountedOnce, PartsAre DEF Transferred
    <2>3. CASE Over
          BY <1>1, <2>1, <2>3 DEF Over
    <2>4. CASE ErasedOne
      <3>1. CASE call.area = "primary"
        <4>1. /\ Counted("erasePrimary", IntSector) /\ dropped' = dropped
              /\ wiped' = IF flow \in {"erasing", "wiping"} THEN wiped + IntSector ELSE wiped
          <5>1. CallOfFlow /\ flow \notin {"dropHeader", "dropTrailer"}
                BY <2>1, <2>4, <3>1 DEF ErasedOne, PhaseInv, CallOfFlow
          <5> QED BY <2>4, <3>1, <5>1 DEF ErasedOne, SectorSize, Device, Area
        <4>2. flow \in Installing => flow \in {"erasing", "wiping"}
              BY <2>1, <2>4, <3>1 DEF ErasedOne, PhaseInv, CallOfFlow, Installing
        <4>3. /\ done'.eraseSecondary = done.eraseSecondary
              /\ done.erasePrimary >= size.erasePrimary => done'.erasePrimary = done.erasePrimary
              /\ done.erasePrimary < size.erasePrimary =>
                   done'.erasePrimary = IF IntSector < size.erasePrimary
                                        THEN done.erasePrimary + IntSector ELSE size.erasePrimary
              BY <1>0, <2>1, <4>1, CountedOnce, PartsAre
        <4>4. flow' \in Installing =>
                /\ Least(done.erasePrimary, size.erasePrimary) = Least(wiped, size.erasePrimary)
                /\ wiped' = wiped + IntSector
              BY <1>0, <2>1, <4>1, <4>2
        <4>5. flow' \in Installing =>
                Least(done'.erasePrimary, size.erasePrimary) = Least(wiped', size.erasePrimary)
              BY ONLY <1>0, <4>3, <4>4 DEF Least
        <4> QED BY <1>0, <2>1, <4>1, <4>3, <4>5
      <3>2. CASE call.area = "secondary"
        <4>1. /\ Counted("eraseSecondary", ExtSector)
              /\ dropped' = IF flow \in {"dropHeader", "dropTrailer"} THEN dropped + 1 ELSE dropped
              /\ wiped' = wiped
          <5>1. CallOfFlow /\ flow \notin {"erasing", "wiping"}
                BY <2>1, <2>4, <3>2 DEF ErasedOne, PhaseInv, CallOfFlow
          <5> QED BY <2>4, <3>2, <5>1 DEF ErasedOne, SectorSize, Device, Area
        <4>2. flow \in Installing =>
                /\ flow \in {"dropHeader", "dropTrailer"} /\ dropped <= 1
                /\ size.eraseSecondary = 2 * ExtSector
          <5>1. flow \in Installing => flow \in {"dropHeader", "dropTrailer"}
                BY <2>1, <2>4, <3>2 DEF ErasedOne, PhaseInv, CallOfFlow, Installing
          <5>2. call.left \in Nat /\ call.left > 0
                BY <2>4, Fields DEF FlashInv, ErasedOne
          <5>3. flow \in {"dropHeader", "dropTrailer"} => dropped <= 1
                BY <1>0, <5>2 DEF ErasedInv
          <5>4. flow \in Installing => size.eraseSecondary = 2 * ExtSector
                BY <5>1 DEF SizeInv, PhaseInv, Installing
          <5> QED BY <5>1, <5>3, <5>4
        <4>3. /\ done'.erasePrimary = done.erasePrimary
              /\ done.eraseSecondary >= size.eraseSecondary =>
                   done'.eraseSecondary = done.eraseSecondary
              /\ done.eraseSecondary < size.eraseSecondary =>
                   done'.eraseSecondary = IF ExtSector < size.eraseSecondary
                                          THEN done.eraseSecondary + ExtSector
                                          ELSE size.eraseSecondary
              BY <1>0, <2>1, <4>1, CountedOnce, PartsAre
        <4>4. flow' \in Installing =>
                /\ dropped' = dropped + 1 /\ dropped \in {0, 1}
                /\ Least(done.eraseSecondary, 2 * ExtSector) = dropped * ExtSector
                /\ size.eraseSecondary = 2 * ExtSector
              BY <1>0, <2>1, <4>1, <4>2
        <4>5. flow' \in Installing =>
                Least(done'.eraseSecondary, 2 * ExtSector) = dropped' * ExtSector
          <5>1. /\ 0 * ExtSector = 0 /\ (0 + 1) * ExtSector = ExtSector
                /\ 1 * ExtSector = ExtSector /\ (1 + 1) * ExtSector = 2 * ExtSector
                BY <1>0
          <5>2. CASE dropped = 0
                BY ONLY <1>0, <4>3, <4>4, <5>1, <5>2 DEF Least
          <5>3. CASE dropped = 1
                BY ONLY <1>0, <4>3, <4>4, <5>1, <5>3 DEF Least
          <5> QED BY <4>4, <5>2, <5>3
        <4> QED BY <1>0, <2>1, <4>1, <4>3, <4>5
      <3> QED BY <2>1, <2>4, <3>1, <3>2 DEF ErasedOne, PhaseInv, CallOfFlow
    <2> QED BY <2>1, <2>2, <2>3, <2>4
  <1>3. CASE QuietStep
    <2>1. /\ flow' \in Installing => flow \in Installing \cup {"reset4"}
          /\ done' = done /\ size' = size /\ wiped' = wiped /\ dropped' = dropped
          BY <1>3, QuietLands
    <2>2. flow = "reset4" => /\ wiped = 0 /\ dropped = 0
                             /\ done.erasePrimary = 0 /\ done.eraseSecondary = 0
          BY DEF PhaseInv, CounterInv, Resets
    <2>3. 0 * ExtSector = 0
          BY <1>0
    <2> QED BY <1>0, <2>1, <2>2, <2>3
  <1>4. CASE LetStart \/ Search \/ EraseSize \/ Flag \/ SetSizes
    <2>1. flow' \notin Installing
          BY <1>4 DEF LetStart, Search, EraseSize, Flag, SetSizes, Step, Installing
    <2> QED BY <2>1
  <1>5. CASE ResetProgress
    <2>1. flow' \notin Installing
          BY <1>5 DEF ResetProgress, Step, Installing
    <2> QED BY <2>1
  <1>6. CASE Verified \/ CopyHook
    <2>1. /\ flow \in Installing /\ clamp = "none" /\ size' = size
          /\ wiped' = wiped /\ dropped' = dropped
          /\ Counted("verify", 1) \/ Counted("copy", Word - 1)
          BY <1>6 DEF Verified, CopyHook, Step, BootMay, workVars, Installing
    <2>2. done'.erasePrimary = done.erasePrimary /\ done'.eraseSecondary = done.eraseSecondary
          BY <1>0, <2>1, CountedOnce, PartsAre
    <2> QED BY <1>1, <2>1, <2>2
  <1>7. CASE Stored
    <2>1. /\ flow \in Installing /\ done' = done /\ size' = size
          /\ wiped' = wiped /\ dropped' = dropped
          BY <1>7 DEF Stored, Step, progressVars, Installing
    <2> QED BY <1>1, <2>1
  <1>8. CASE Clamp
    <2>1. /\ flow' = flow /\ size' = size /\ wiped' = wiped /\ dropped' = dropped
          /\ done' \in [Parts -> Nat]
          /\ \A p \in Parts : done'[p] = done[p] \/ (done[p] > size[p] /\ done'[p] = size[p])
          BY <1>0, <1>8, Cut
    <2>2. flow \in Installing => size.eraseSecondary = 2 * ExtSector
          BY DEF SizeInv, PhaseInv, Installing
    <2>3. /\ Least(done'.erasePrimary, size.erasePrimary) = Least(done.erasePrimary, size.erasePrimary)
          /\ flow \in Installing =>
               Least(done'.eraseSecondary, 2 * ExtSector) = Least(done.eraseSecondary, 2 * ExtSector)
          BY <1>0, <2>1, <2>2, PartsAre
    <2> QED BY <1>0, <2>1, <2>3
  <1>9. CASE GuiStep \/ UNCHANGED vars
    <2>1. done' = done /\ flow' = flow /\ size' = size /\ wiped' = wiped /\ dropped' = dropped
          BY <1>9 DEF GuiStep, Receive, ReadFlag, ReadCounter, Redraw, vars, bootVars, progressVars
    <2> QED BY <1>1, <2>1
  <1> QED BY <1>2, <1>3, <1>4, <1>5, <1>6, <1>7, <1>8, <1>9 DEF Next, BootStep, QuietStep

\* The bytes of a running write that are still to be counted.
Left == IF Running THEN call.left ELSE 0

\* What has been copied is counted once, and the flags of the old firmware are too few to matter.
LEMMA CopyCountsKeep ==
  ASSUME FlashInv, PhaseInv, ErasedInv, SizeInv, CounterInv, [Next]_vars
  PROVE  CopyCounts'
  <1> USE DEF CopyCounts
  <1>0. /\ CounterTypes /\ CopyCounts /\ done \in [Parts -> Nat] /\ size \in [Parts -> Nat]
        /\ Page \in Nat \ {0} /\ CopyChunk \in Nat \ {0} /\ IntSector \in Nat /\ ExtSector \in Nat
        /\ Word - 1 \in Nat /\ 1 \in Nat
        /\ copied \in Nat /\ image \in Nat /\ done.copy \in Nat /\ size.copy \in Nat
        /\ call.left \in Nat /\ call'.left \in Nat /\ PrimarySize \in Nat
    <2>1. CounterTypes /\ CopyCounts /\ copied \in 0..PrimarySize /\ image \in ImageSizes \cup {0}
          BY DEF CounterInv, CounterTypes, PhaseInv
    <2>2. FlashInv'
          BY FlashKeeps
    <2>3. call.left \in Nat /\ call'.left \in Nat
          BY <2>2, Constants DEF FlashInv, FlashTypeOK
    <2>4. image \in Nat /\ copied \in Nat /\ PrimarySize \in Nat
          BY <2>1, UpdateConstants, Slots
    <2> QED BY <2>1, <2>3, <2>4, Counters, Constants, UpdateConstants DEF CounterTypes
  <1>1. (initiated /\ flow = "keepMagic" => done.copy + Left <= Page)
        /\ (initiated /\ flow = "keepDone" => done.copy + Left <= 2 * Page)
        BY <1>0 DEF Left
  <1>2. ASSUME initiated /\ flow = "keepMagic" => done.copy + Left <= Page,
               initiated /\ flow = "keepDone" => done.copy + Left <= 2 * Page,
               initiated /\ flow \in {"bootGo", "rejecting"} => done.copy = 0,
               Counting => \/ copied >= image \/ done.copy <= Arrived
                           \/ flow \notin Installing /\ done.copy <= 2 * Page,
               flow \in Filled => done.copy >= size.copy
        PROVE  CopyCounts
        BY <1>2 DEF Left
  <1>3. CASE FlashWork
    <2>1. /\ clamp = "none" /\ Running /\ size' = size
          /\ Transferred \/ ErasedOne \/ Over
          /\ flow' = flow /\ initiated' = initiated /\ copied' = copied /\ image' = image
          /\ call'.op = call.op /\ call'.area = call.area
          BY <1>3, OneOperation
    <2>2. ASSUME done'.copy = done.copy, call'.left <= call.left
          PROVE  CopyCounts'
      <3>1. Arrived' >= Arrived /\ Arrived \in Nat /\ Arrived' \in Nat
        <4>1. call.left = 0 => call'.left = 0
              BY <1>0, <2>2
        <4>2. /\ copied' = copied /\ flow' = flow /\ copied \in Nat /\ CopyChunk \in Nat
              /\ flow = "writing" /\ call.left = 0 => flow' = "writing" /\ call'.left = 0
              BY <1>0, <2>1, <4>1
        <4> QED BY ONLY <4>2 DEF Arrived
      <3>2. Left' <= Left /\ Left \in Nat /\ Left' \in Nat
            BY <1>0, <2>1, <2>2 DEF Left
      <3>3. (Counting' <=> Counting)
            BY <2>1 DEF Counting
      <3>4. /\ initiated' /\ flow' = "keepMagic" => done'.copy + Left' <= Page
            /\ initiated' /\ flow' = "keepDone" => done'.copy + Left' <= 2 * Page
            /\ initiated' /\ flow' \in {"bootGo", "rejecting"} => done'.copy = 0
            /\ Counting' => \/ copied' >= image' \/ done'.copy <= Arrived'
                            \/ flow' \notin Installing /\ done'.copy <= 2 * Page
            /\ flow' \in Filled => done'.copy >= size'.copy
            BY <1>0, <1>1, <2>1, <2>2, <3>1, <3>2, <3>3
      <3> QED BY <3>4 DEF Left
    <2>3. call'.left <= call.left
      <3>1. CASE Transferred
        <4>1. Chunk \in 1..call.left
              BY <3>1, OneTransfer DEF Transferred, FlashInv
        <4> QED BY <1>0, <3>1, <4>1 DEF Transferred
      <3>2. CASE ErasedOne
            BY <1>0, <3>2 DEF ErasedOne
      <3>3. CASE Over
            BY <1>0, <3>3 DEF Over
      <3> QED BY <2>1, <3>1, <3>2, <3>3
    <2>4. CASE /\ Transferred /\ flow \in {"writing", "magic", "marking", "keepMagic", "keepDone"}
               /\ call'.left = 0 /\ call.left \in Nat /\ Counted("copy", call.left)
      <3>1. done'.copy \in Nat /\ done'.copy <= done.copy + call.left
        <4>1. /\ done' \in [Parts -> Nat]
              /\ done.copy >= size.copy => done' = done
              /\ done.copy < size.copy =>
                   done'.copy = IF call.left < size.copy THEN done.copy + call.left ELSE size.copy
          <5>1. "copy" \in Parts /\ clamp = "none" /\ call.left \in Nat /\ Counted("copy", call.left)
                BY <2>1, <2>4, PartsAre
          <5> QED BY <1>0, <5>1, CountedOnce
        <4>2. done'.copy \in Nat
              BY <4>1, PartsAre
        <4>3. /\ done.copy >= size.copy => done'.copy = done.copy
              /\ done.copy < size.copy =>
                   done'.copy = IF call.left < size.copy THEN done.copy + call.left ELSE size.copy
              BY <4>1
        <4> QED BY ONLY <1>0, <4>2, <4>3
      <3>2. Left = call.left /\ Left' = 0
            BY <2>1, <2>4 DEF Left, Transferred, Running
      <3>3. flow = "writing" => call.left = CopyChunk /\ Arrived = copied /\ Arrived' = copied + CopyChunk
        <4>1. call.left > 0
              BY <2>4 DEF Transferred
        <4> QED BY <1>0, <2>1, <2>4, <4>1 DEF Arrived, PhaseInv
      <3>4. flow \in {"magic", "marking"} => copied >= image
            BY DEF PhaseInv, Trailing
      <3>5. /\ initiated' /\ flow' = "keepMagic" => done'.copy + Left' <= Page
            /\ initiated' /\ flow' = "keepDone" => done'.copy + Left' <= 2 * Page
            BY <1>0, <1>1, <2>1, <3>1, <3>2
      <3>6. Counting' => \/ copied' >= image' \/ done'.copy <= Arrived'
                         \/ flow' \notin Installing /\ done'.copy <= 2 * Page
        <4>1. CASE flow = "writing"
              BY <1>0, <2>1, <3>1, <3>3, <4>1 DEF Counting, Installing
        <4>2. CASE flow \in {"magic", "marking"}
              BY <2>1, <3>4, <4>2
        <4>3. CASE flow \in {"keepMagic", "keepDone"}
              BY <1>0, <2>1, <3>2, <3>5, <3>1, <4>3 DEF Counting, Installing
        <4> QED BY <2>4, <4>1, <4>2, <4>3
      <3>7. flow' \notin Filled \cup {"bootGo", "rejecting"}
            BY <2>1, <2>4 DEF Filled
      <3> QED BY <3>5, <3>6, <3>7 DEF Left
    <2>5. CASE done' = done
          BY <2>2, <2>3, <2>5
    <2>6. CASE Counted("erasePrimary", IntSector) \/ Counted("eraseSecondary", ExtSector)
      <3>1. /\ clamp = "none" /\ {"erasePrimary", "copy", "eraseSecondary"} \subseteq Parts
            /\ IntSector \in Nat /\ ExtSector \in Nat
            BY <1>0, <2>1, PartsAre
      <3>2. done'.copy = done.copy
        <4>1. CASE Counted("erasePrimary", IntSector)
              BY <1>0, <3>1, <4>1, CountedOnce
        <4>2. CASE Counted("eraseSecondary", ExtSector)
              BY <1>0, <3>1, <4>2, CountedOnce
        <4> QED BY <2>6, <4>1, <4>2
      <3> QED BY <2>2, <2>3, <3>2
    <2> QED BY <1>0, <1>3, <2>4, <2>5, <2>6, WorkCounts
  <1>4. ASSUME done'.copy = done.copy, size' = size, image' = image, copied' >= copied,
               copied' \in Nat, flow' \notin {"rejecting", "keepMagic", "keepDone"},
               initiated' /\ flow' = "bootGo" => done.copy = 0, Counting' => Counting,
               Arrived <= Arrived', Arrived' \in Nat,
               flow' \in Installing => flow \in Installing \/ done.copy = 0,
               flow' \in Filled => flow \in Filled
        PROVE  CopyCounts'
    <2>1. Arrived' \in Nat /\ Arrived \in Nat
      <3>1. Arrived \in Nat
            BY <1>0 DEF Arrived
      <3> QED BY <1>4, <3>1
    <2>2. Counting' => \/ copied' >= image' \/ done'.copy <= Arrived'
                       \/ flow' \notin Installing /\ done'.copy <= 2 * Page
      <3>1. CASE copied >= image
            BY <1>0, <1>4, <3>1
      <3>2. CASE done.copy <= Arrived
            BY <1>0, <1>4, <2>1, <3>2
      <3>3. CASE flow \notin Installing /\ done.copy <= 2 * Page
            BY <1>0, <1>4, <2>1, <3>3 DEF Arrived
      <3> QED BY <1>0, <1>4, <3>1, <3>2, <3>3
    <2> QED BY <1>0, <1>4, <2>2
  <1>5. CASE QuietStep
    <2>1. /\ Counting' => Counting
          /\ flow' \in Installing => flow \in Installing \cup {"reset4"}
          /\ flow' \in Filled => flow \in Filled
          /\ flow # "writing" /\ (initiated' <=> initiated) /\ done' = done /\ size' = size
          /\ image' = image /\ copied' = copied
          BY <1>5, QuietLands
    <2>2. flow = "reset4" => done.copy = 0
          BY DEF CounterInv, Resets
    <2>3. Arrived = copied /\ Arrived' >= copied /\ Arrived' \in Nat
          BY <1>0, <2>1 DEF Arrived
    <2>4. Quiet /\ Edge
          BY <1>5, QuietSteps
    <2>5. initiated => flow \notin Deciding
          BY DEF PhaseInv
    <2>6. /\ initiated' /\ flow' = "bootGo" => done.copy = 0
          /\ initiated' /\ flow' = "rejecting" => done.copy = 0
          BY <1>0, <2>1, <2>2, <2>4, <2>5 DEF Edge, Ended, Deciding
    <2>7. Left' <= call'.left /\ Left' \in Nat
          BY <1>0 DEF Left
    <2>8. initiated' /\ flow' = "keepMagic" => done'.copy + Left' <= Page
      <3>1. initiated' /\ flow' = "keepMagic" => done.copy = 0 /\ call'.left = Page
        <4>1. flow' = "keepMagic" => flow \in {"bootGo", "go", "rejecting"} /\ call'.left = Page
              BY <2>4 DEF Edge, Ended, Deciding
        <4> QED BY <1>0, <2>1, <2>5, <4>1 DEF Deciding
      <3> QED BY <1>0, <2>1, <2>7, <3>1
    <2>9. initiated' /\ flow' = "keepDone" => done'.copy + Left' <= 2 * Page
      <3>1. flow' = "keepDone" => flow = "keepMagic" /\ call'.left = Page
            BY <2>4 DEF Edge, Ended, Deciding
      <3>2. Left = 0
            BY <2>4, QuietFields DEF Left
      <3> QED BY <1>0, <1>1, <2>1, <2>7, <3>1, <3>2
    <2>10. Counting' => \/ copied' >= image' \/ done'.copy <= Arrived'
                        \/ flow' \notin Installing /\ done'.copy <= 2 * Page
          BY <1>0, <2>1, <2>2, <2>3
    <2>11. flow' \in Filled => done'.copy >= size'.copy
          BY <1>0, <2>1
    <2> QED BY <2>1, <2>6, <2>8, <2>9, <2>10, <2>11 DEF Left
  <1>6. CASE LetStart \/ Search \/ EraseSize
    <2>1. ~initiated' /\ flow' \in {"start", "sized"}
          BY <1>6 DEF LetStart, Search, EraseSize, Step, progressVars, PhaseInv, Deciding
    <2> QED BY <2>1 DEF Counting, Filled
  <1>7. CASE Flag \/ SetSizes
    <2>1. flow' \in {"flag", "sizeCopy", "sizeErase"}
          BY <1>7 DEF Flag, SetSizes, Step
    <2> QED BY <2>1 DEF Counting, Filled, Resetting
  <1>8. CASE ResetProgress
    <2>1. flow' \in {"reset1", "reset2", "reset3", "reset4"} /\ copied' = copied
          BY <1>8 DEF ResetProgress, Step, workVars
    <2>2. flow' = "reset4" => done'.copy = 0
          BY ResetsKeep DEF Resets
    <2>3. Arrived' \in Nat
          BY <1>0, <2>1 DEF Arrived
    <2> QED BY <2>1, <2>2, <2>3 DEF Counting, Filled, Resetting
  <1>9. CASE Verified
    <2>1. /\ flow = "bootGo" /\ flow' = "verified" /\ clamp = "none" /\ size' = size
          /\ initiated' = initiated /\ copied' = copied /\ image' = image /\ Counted("verify", 1)
          BY <1>9 DEF Verified, Step, BootMay, workVars
    <2>2. done'.copy = done.copy
          BY <1>0, <2>1, CountedOnce, PartsAre
    <2>3. Arrived' = Arrived
          BY <2>1 DEF Arrived
    <2>4. Arrived \in Nat
          BY <1>0 DEF Arrived
    <2> QED BY <1>0, <1>4, <2>1, <2>2, <2>3, <2>4 DEF Counting, Installing, Filled, Resetting
  <1>10. CASE CopyHook
    <2>1. /\ flow = "marking" /\ flow' = "hook" /\ clamp = "none" /\ size' = size
          /\ copied' = copied /\ image' = image /\ Counted("copy", Word - 1)
          BY <1>10 DEF CopyHook, Step, BootMay, workVars
    <2>2. copied >= image /\ size.copy <= Word - 1
      <3>1. copied >= image /\ initiated
            BY <2>1 DEF PhaseInv, Trailing, Installing
      <3>2. size.copy <= SecondarySize + ExtSector
            BY <2>1, <3>1 DEF SizeInv
      <3> QED BY <1>0, <3>1, <3>2, Slots, Constants
    <2>3. done'.copy >= size'.copy
          BY <1>0, <2>1, <2>2, CountedOnce, PartsAre
    <2> QED BY <1>0, <2>1, <2>2, <2>3
  <1>11. CASE Stored
    <2>1. /\ flow = "writing" /\ flow' = "copying" /\ done' = done /\ size' = size /\ ~Running
          /\ initiated' = initiated /\ image' = image /\ copied' = copied + CopyChunk
          BY <1>11 DEF Stored, Step, BootMay, progressVars
    <2>2. call.left = 0
      <3>1. call.op = "write" /\ call.res = "ok"
        <4>1. call.op = "write" /\ call.res # "error" /\ call.res # "run"
              BY <2>1 DEF PhaseInv, Running
        <4> QED BY <4>1, Fields DEF FlashInv
      <3> QED BY <3>1 DEF FlashInv, CallInv
    <2>3. Arrived = copied + CopyChunk /\ Arrived' = copied + CopyChunk
          BY <1>0, <2>1, <2>2 DEF Arrived
    <2>4. Arrived <= Arrived' /\ Arrived' \in Nat /\ copied' \in Nat /\ copied' >= copied
          BY <1>0, <2>1, <2>3
    <2> QED BY <1>4, <2>1, <2>4 DEF Counting, Installing, Filled, Resetting
  <1>12. CASE Clamp
    <2>1. /\ UNCHANGED <<flow, again, image, copied, starts, dropped, wiped, initiated, size, call>>
          /\ done' \in [Parts -> Nat]
          /\ \A p \in Parts : done'[p] = done[p] \/ (done[p] > size[p] /\ done'[p] = size[p])
          BY <1>0, <1>12, Cut
    <2>2. /\ done'.copy \in Nat /\ done'.copy <= done.copy
          /\ done'.copy >= size.copy \/ done'.copy = done.copy
          BY <1>0, <2>1, PartsAre
    <2>3. /\ Arrived' = Arrived /\ Left' = Left /\ (Counting' <=> Counting)
          /\ Arrived \in Nat /\ Left \in Nat
          BY <1>0, <2>1 DEF Arrived, Left, Counting, Running
    <2>4. /\ initiated' /\ flow' = "keepMagic" => done'.copy + Left' <= Page
          /\ initiated' /\ flow' = "keepDone" => done'.copy + Left' <= 2 * Page
          /\ initiated' /\ flow' \in {"bootGo", "rejecting"} => done'.copy = 0
          /\ Counting' => \/ copied' >= image' \/ done'.copy <= Arrived'
                          \/ flow' \notin Installing /\ done'.copy <= 2 * Page
          /\ flow' \in Filled => done'.copy >= size'.copy
          BY <1>0, <1>1, <2>1, <2>2, <2>3
    <2> QED BY <2>4 DEF Left
  <1>13. CASE GuiStep \/ UNCHANGED vars
    <2>1. /\ UNCHANGED <<flow, again, image, copied, starts, dropped, wiped, initiated, size, call>>
          /\ done' = done
          BY <1>13, Bystanders DEF GuiStep, Receive, ReadFlag, ReadCounter, Redraw, Clamp, vars,
                                   progressVars
    <2>2. Arrived' = Arrived /\ (Counting' <=> Counting) /\ (Running' <=> Running)
          BY <2>1 DEF Arrived, Counting, Running
    <2> QED BY <1>0, <2>1, <2>2
  <1> QED BY <1>3, <1>5, <1>6, <1>7, <1>8, <1>9, <1>10, <1>11, <1>12, <1>13
          DEF Next, BootStep, QuietStep

LEMMA CounterKeeps ==
  ASSUME FlashInv, PhaseInv, ErasedInv, SizeInv, CounterInv, [Next]_vars
  PROVE  CounterInv'
  <1>1. CounterTypes'
        BY TypesKeep DEF CounterInv, CounterTypes
  <1>2. Resets' /\ Limits' /\ EraseCounts' /\ CopyCounts'
        BY ResetsKeep, LimitsKeep, EraseCountsKeep, CopyCountsKeep
  <1> QED BY <1>1, <1>2 DEF CounterInv, CounterTypes

-----------------------------------------------------------------------------
(* The poll of the GUI task.                                                 *)

LEMMA Sent ==
  ASSUME guiQ \in Seq({"started", "process", "failed"}), Len(guiQ) <= GuiLen,
         NEW e \in {"started", "process", "failed"}, ToGui(e)
  PROVE  guiQ' \in Seq({"started", "process", "failed"}) /\ Len(guiQ') <= GuiLen
  <1>1. GuiLen \in Nat
        BY UpdateConstants
  <1>2. CASE Len(guiQ) < GuiLen
    <2>1. guiQ' = Append(guiQ, e)
          BY <1>2 DEF ToGui
    <2>2. /\ Len(guiQ') = Len(guiQ) + 1 /\ Len(guiQ) \in Nat
          /\ guiQ' \in Seq({"started", "process", "failed"})
          BY <2>1
    <2> QED BY <1>1, <1>2, <2>2
  <1>3. CASE ~(Len(guiQ) < GuiLen)
        BY <1>3 DEF ToGui
  <1> QED BY <1>2, <1>3

\* The share of a counter within its size: the whole of it only when the counter is full.
LEMMA Share ==
  ASSUME NEW d \in Nat, NEW s \in Nat \ {0}, NEW k \in Nat
  PROVE  /\ (d * k) \div s \in Nat
         /\ d <= s => (d * k) \div s <= k
         /\ d < s /\ k # 0 => (d * k) \div s < k
  <1> DEFINE x == d * k
             q == x \div s
  <1>1. x \in Nat /\ x = k * d
        BY ProductNat
  <1>2. d <= s => x <= k * s
        BY <1>1, ProductGrows
  <1>3. d < s /\ k # 0 => x < k * s
    <2>1. ASSUME d < s, k # 0
          PROVE  x < k * s
      <3>1. k * d + k <= k * s /\ k * d \in Nat /\ k * s \in Nat
            BY <2>1, ProductGrows, ProductNat
      <3> QED BY <1>1, <2>1, <3>1
    <2> QED BY <2>1
  <1>4. k * s = s * k /\ s * k \in Nat
        BY ProductNat
  <1> HIDE DEF x
  <1>5. q \in Nat /\ s * q <= x /\ s * q \in Nat
        BY <1>1, DivBounds, ProductNat
  <1> HIDE DEF q
  <1>6. q > k => s * k + s <= s * q
        BY <1>5, ProductGrows
  <1>7. q = k => s * q = s * k
        OBVIOUS
  <1> DEFINE sq == s * q
             sk == s * k
  <1>8. /\ sq \in Nat /\ sk \in Nat /\ q \in Nat /\ x \in Nat /\ sq <= x
        /\ q > k => sk + s <= sq
        /\ q = k => sq = sk
        /\ d <= s => x <= sk
        /\ d < s /\ k # 0 => x < sk
        BY <1>1, <1>2, <1>3, <1>4, <1>5, <1>6, <1>7
  <1> HIDE DEF sq, sk
  <1>9. (d <= s => q <= k) /\ (d < s /\ k # 0 => q < k)
        BY <1>8
  <1> QED BY <1>5, <1>9 DEF x, q

\* While an update is being counted no step of the boot task undoes what the poll has read.
LEMMA Monotone ==
  ASSUME FlashInv, PhaseInv, ErasedInv, SizeInv, CounterInv, Counting, fresh',
         FlashWork \/ Clamp \/ BootStep \/ UNCHANGED vars
  PROVE  /\ Counting' /\ size' = size /\ image' = image /\ copied' \in Nat /\ copied' >= copied
         /\ done.copy >= size.copy => done'.copy >= size.copy
         /\ done.eraseSecondary >= size.eraseSecondary =>
              done'.eraseSecondary >= size.eraseSecondary
  <1>0. /\ CounterTypes /\ done \in [Parts -> Nat] /\ size \in [Parts -> Nat]
        /\ IntSector \in Nat /\ ExtSector \in Nat /\ Word - 1 \in Nat /\ 1 \in Nat
        /\ done.copy \in Nat /\ done.eraseSecondary \in Nat /\ size.copy \in Nat
        /\ size.eraseSecondary \in Nat /\ copied \in Nat /\ CopyChunk \in Nat
        /\ initiated /\ flow \notin Resetting /\ flow \notin Deciding
    <2>1. CounterTypes /\ copied \in 0..PrimarySize /\ flow \notin Deciding
          BY DEF CounterInv, CounterTypes, PhaseInv, Counting
    <2> QED BY <2>1, Counters, Constants, UpdateConstants, Slots DEF Counting
  <1>1. ASSUME clamp = "none", NEW part \in Parts, NEW chunk \in Nat, Counted(part, chunk)
        PROVE  /\ done.copy >= size.copy => done'.copy >= size.copy
               /\ done.eraseSecondary >= size.eraseSecondary =>
                    done'.eraseSecondary >= size.eraseSecondary
    <2>1. /\ \A p \in Parts : p # part => done'[p] = done[p]
          /\ done[part] >= size[part] => done' = done
          BY <1>0, <1>1, CountedOnce
    <2>2. CASE part = "copy"
          BY <1>0, <2>1, <2>2, PartsAre
    <2>3. CASE part = "eraseSecondary"
          BY <1>0, <2>1, <2>3, PartsAre
    <2>4. CASE part \notin {"copy", "eraseSecondary"}
          BY <1>0, <2>1, <2>4, PartsAre
    <2> QED BY <2>2, <2>3, <2>4
  <1>2. CASE FlashWork
    <2>1. /\ clamp = "none" /\ size' = size /\ image' = image /\ copied' = copied
          /\ flow' = flow /\ initiated' = initiated
          BY <1>2, OneOperation
    <2>2. \/ done' = done
          \/ \E part \in Parts, chunk \in Nat : Counted(part, chunk)
          BY <1>0, <1>2, WorkCounts, PartsAre
    <2> QED BY <1>0, <1>1, <2>1, <2>2 DEF Counting
  <1>3. CASE Clamp
    <2>1. /\ UNCHANGED <<flow, again, image, copied, starts, dropped, wiped, initiated, size, call>>
          /\ \A p \in Parts : done'[p] = done[p] \/ (done[p] > size[p] /\ done'[p] = size[p])
          BY <1>0, <1>3, Cut
    <2> QED BY <1>0, <2>1, PartsAre DEF Counting
  <1>4. CASE QuietStep
    <2>1. /\ initiated' = initiated /\ done' = done /\ size' = size /\ image' = image
          /\ copied' = copied /\ Edge
          BY <1>4, QuietSteps, QuietFields
    <2>2. flow' \notin Resetting
          BY <1>0, <2>1 DEF Edge, Ended, Deciding, Resetting
    <2> QED BY <1>0, <2>1, <2>2 DEF Counting
  <1>5. CASE LetStart
        BY <1>5 DEF LetStart
  <1>6. CASE EraseSize \/ Search \/ Flag \/ SetSizes
        BY <1>0, <1>6 DEF EraseSize, Search, Flag, SetSizes, Step, Deciding, Resetting
  <1>7. CASE ResetProgress
        BY <1>0, <1>7 DEF ResetProgress, Step, Resetting
  <1>8. CASE Verified \/ CopyHook
    <2>1. /\ clamp = "none" /\ size' = size /\ image' = image /\ copied' = copied
          /\ flow' \in {"verified", "hook"} /\ initiated' = initiated
          /\ Counted("verify", 1) \/ Counted("copy", Word - 1)
          BY <1>8 DEF Verified, CopyHook, Step, BootMay, workVars
    <2> QED BY <1>0, <1>1, <2>1, PartsAre DEF Counting, Resetting
  <1>9. CASE Stored
    <2>1. /\ size' = size /\ image' = image /\ copied' = copied + CopyChunk /\ done' = done
          /\ flow' = "copying" /\ initiated' = initiated
          BY <1>9 DEF Stored, Step, progressVars
    <2> QED BY <1>0, <2>1 DEF Counting, Resetting
  <1>10. CASE UNCHANGED vars
        BY <1>0, <1>10 DEF vars, bootVars, progressVars, Counting
  <1> QED BY <1>2, <1>3, <1>4, <1>5, <1>6, <1>7, <1>8, <1>9, <1>10 DEF BootStep, QuietStep

\* A step of the boot task leaves the poll alone, except that letStart makes it worthless.
LEMMA BootLeavesPoll ==
  ASSUME FlashInv, PhaseInv, FlashWork \/ Clamp \/ BootStep \/ UNCHANGED vars
  PROVE  /\ screen' = screen /\ at' = at /\ sum' = sum
         /\ fresh' = fresh \/ (~fresh' /\ fresh' \in BOOLEAN)
         /\ guiQ' = guiQ \/ ToGui("process") \/ ToGui("failed") \/ ToGui("started")
  <1>1. CASE FlashWork
        BY <1>1, OneOperation DEF guiVars
  <1>2. CASE Clamp
        BY <1>2 DEF Clamp, guiVars
  <1>3. CASE QuietStep
        BY <1>3, QuietSteps, QuietFields
  <1>4. CASE LetStart
        BY <1>4 DEF LetStart
  <1>5. CASE Search \/ EraseSize \/ Flag \/ SetSizes
        BY <1>5 DEF Search, EraseSize, Flag, SetSizes, guiVars
  <1>6. CASE ResetProgress
    <2>1. UNCHANGED <<guiQ, guiVars>>
          BY <1>6 DEF ResetProgress
    <2> QED BY <2>1 DEF guiVars
  <1>7. CASE Verified \/ CopyHook \/ Stored
        BY <1>7 DEF Verified, CopyHook, Stored, guiVars
  <1>8. CASE UNCHANGED vars
        BY <1>8 DEF vars, guiVars
  <1> QED BY <1>1, <1>2, <1>3, <1>4, <1>5, <1>6, <1>7, <1>8 DEF BootStep, QuietStep

\* The poll reads the next counter.
LEMMA PollKeeps ==
  ASSUME FlashInv, PhaseInv, ErasedInv, SizeInv, CounterInv, GuiInv, ReadCounter
  PROVE  GuiInv'
  <1>0. /\ at \in Parts /\ sum \in Nat /\ fresh \in BOOLEAN
        /\ Parts = {"verify", "erasePrimary", "copy", "eraseSecondary"}
        /\ done \in [Parts -> Nat] /\ size \in [Parts -> Nat] /\ size.verify = 1
        /\ done.copy \in Nat /\ size.copy \in Nat /\ done.eraseSecondary \in Nat
        /\ size.eraseSecondary \in Nat /\ copied \in Nat /\ image \in Nat /\ Page \in Nat
        /\ ExtSector \in Nat \ {0}
    <2>1. copied \in 0..PrimarySize /\ image \in ImageSizes \cup {0} /\ CounterTypes
          BY DEF PhaseInv, CounterInv, CounterTypes
    <2>2. at \in Parts /\ sum \in Nat /\ fresh \in BOOLEAN
          BY DEF GuiInv, ReadCounter
    <2>3. size.verify = 1
          BY DEF SizeInv
    <2>4. copied \in Nat /\ image \in Nat
          BY <2>1, UpdateConstants, Slots
    <2> QED BY <2>1, <2>2, <2>3, <2>4, Counters, Constants, PartsAre
  <1> DEFINE q == IF size[at] # 0 THEN (done[at] * Percent[at]) \div size[at] ELSE Percent[at]
  <1>1. /\ screen' = screen /\ guiQ' = guiQ /\ flow' = flow /\ initiated' = initiated
        /\ done' = done /\ size' = size /\ copied' = copied /\ image' = image
        /\ at' = NextPart(at) /\ sum' = sum + q
        /\ (fresh' <=> fresh /\ done[at] <= size[at]) /\ fresh' \in BOOLEAN
        BY <1>0 DEF ReadCounter, bootVars, progressVars
  <1>2. /\ NextPart("verify") = "erasePrimary" /\ NextPart("erasePrimary") = "copy"
        /\ NextPart("copy") = "eraseSecondary" /\ NextPart("eraseSecondary") = "decide"
        BY DEF NextPart, Part
  <1>3. done[at] \in Nat /\ size[at] \in Nat /\ Percent[at] \in Nat \ {0}
        BY <1>0, PartsAre
  <1>4. /\ q \in Nat
        /\ done[at] <= size[at] => q <= Percent[at]
        /\ done[at] < size[at] => q < Percent[at]
    <2>1. CASE size[at] = 0
          BY <1>3, <2>1
    <2>2. CASE size[at] # 0
      <3>1. size[at] \in Nat \ {0} /\ q = (done[at] * Percent[at]) \div size[at]
            BY <1>3, <2>2
      <3> QED BY <1>3, <3>1, Share
    <2> QED BY <2>1, <2>2
  <1> HIDE DEF q
  <1>5. /\ at' \in Parts \cup {"decide"} /\ sum' \in Nat /\ sum' # -1
        /\ at' # "receive" /\ at' # "flag" /\ at' # "verify"
        BY <1>0, <1>1, <1>2, <1>4
  <1>6. fresh' => fresh /\ done[at] <= size[at] /\ Counting
        BY <1>0, <1>1 DEF GuiInv
  <1>7. Counting' <=> Counting
        BY <1>1 DEF Counting
  <1>8. fresh' /\ at' = "erasePrimary" => sum' <= 10
    <2>1. at' = "erasePrimary" => at = "verify"
          BY <1>0, <1>1, <1>2
    <2> QED BY <1>0, <1>1, <1>4, <1>6, <2>1, PartsAre DEF GuiInv
  <1>9. fresh' /\ at' = "copy" => sum' <= 30
    <2>1. at' = "copy" => at = "erasePrimary"
          BY <1>0, <1>1, <1>2
    <2> QED BY <1>0, <1>1, <1>4, <1>6, <2>1, PartsAre DEF GuiInv
  <1>10. fresh' /\ at' = "eraseSecondary" => sum' <= 80 /\ (sum' = 80 => done.copy >= size.copy)
    <2>1. at' = "eraseSecondary" => at = "copy"
          BY <1>0, <1>1, <1>2
    <2>2. fresh' /\ at = "copy" => sum <= 30 /\ q <= 50 /\ (done.copy < size.copy => q < 50)
          BY <1>0, <1>4, <1>6, PartsAre DEF GuiInv
    <2> QED BY <1>0, <1>1, <1>4, <2>1, <2>2
  <1>11. FullMeansStored'
    <2>1. SUFFICES ASSUME at' = "decide", fresh'
                   PROVE  /\ sum' <= 100
                          /\ sum' = 100 => copied >= image /\ done.eraseSecondary >= size.eraseSecondary
          BY <1>1 DEF FullMeansStored
    <2>2. at = "eraseSecondary" /\ fresh /\ Counting
          BY <1>0, <1>1, <1>2, <1>6, <2>1
    <2>3. /\ sum <= 80 /\ (sum = 80 => done.copy >= size.copy)
          /\ q <= 20 /\ (done.eraseSecondary < size.eraseSecondary => q < 20)
          BY <1>4, <1>6, <2>1, <2>2, PartsAre DEF GuiInv
    <2>4. /\ sum' <= 100
          /\ sum' = 100 => done.copy >= size.copy /\ done.eraseSecondary >= size.eraseSecondary
          BY <1>0, <1>1, <1>4, <2>3
    <2>5. ASSUME done.copy >= size.copy, done.eraseSecondary >= size.eraseSecondary
          PROVE  copied >= image
      <3>1. /\ initiated /\ flow \notin Resetting /\ flow \notin {"flag", "sizeCopy"}
            BY <2>2 DEF Counting, Resetting
      <3>2. /\ image \in ImageSizes /\ size.copy >= image /\ size.eraseSecondary = 2 * ExtSector
        <4>1. image \in ImageSizes
              BY <3>1 DEF PhaseInv
        <4>2. size.copy \in image..(SecondarySize + ExtSector) /\ size.eraseSecondary = 2 * ExtSector
              BY <3>1 DEF SizeInv
        <4> QED BY <1>0, <4>1, <4>2, Slots, Constants
      <3>3. 2 * Page < image
            BY <3>2, UpdateConstants
      <3>4. flow # "writing"
        <4>1. flow = "writing" => dropped = 0
              BY DEF ErasedInv, Installing
        <4>2. flow = "writing" => Least(done.eraseSecondary, 2 * ExtSector) = dropped * ExtSector
              BY DEF CounterInv, EraseCounts, Installing
        <4>3. 0 * ExtSector = 0
              BY <1>0
        <4> QED BY <1>0, <2>5, <3>2, <4>1, <4>2, <4>3 DEF Least
      <3>5. Arrived = copied
            BY <1>0, <3>4 DEF Arrived
      <3>6. \/ copied >= image \/ done.copy <= copied
            \/ done.copy <= 2 * Page
            BY <2>2, <3>5 DEF CounterInv, CopyCounts
      <3> QED BY <1>0, <2>5, <3>2, <3>3, <3>6
    <2> QED BY <2>4, <2>5
  <1>12. guiQ' \in Seq({"started", "process", "failed"}) /\ Len(guiQ') <= GuiLen
         /\ screen' \in {"other", "updating"}
         BY <1>1 DEF GuiInv
  <1> QED BY <1>1, <1>5, <1>6, <1>7, <1>8, <1>9, <1>10, <1>11, <1>12 DEF GuiInv

LEMMA GuiKeeps ==
  ASSUME FlashInv, PhaseInv, ErasedInv, SizeInv, CounterInv, GuiInv, [Next]_vars
  PROVE  GuiInv'
  <1>0. /\ guiQ \in Seq({"started", "process", "failed"}) /\ Len(guiQ) <= GuiLen
        /\ GuiLen \in Nat /\ screen \in {"other", "updating"} /\ fresh \in BOOLEAN
        /\ sum \in Nat \cup {-1} /\ Parts = {"verify", "erasePrimary", "copy", "eraseSecondary"}
        /\ copied \in Nat /\ image \in Nat /\ size.copy \in Nat /\ size.eraseSecondary \in Nat
    <2>1. copied \in 0..PrimarySize /\ image \in ImageSizes \cup {0} /\ CounterTypes
          BY DEF PhaseInv, CounterInv, CounterTypes
    <2>2. copied \in Nat /\ image \in Nat
          BY <2>1, UpdateConstants, Slots
    <2> QED BY <2>1, <2>2, Counters, UpdateConstants, PartsAre DEF GuiInv
  <1>1. CASE FlashWork \/ Clamp \/ BootStep \/ UNCHANGED vars
    <2>1. /\ screen' = screen /\ at' = at /\ sum' = sum
          /\ fresh' = fresh \/ (~fresh' /\ fresh' \in BOOLEAN)
          /\ guiQ' = guiQ \/ ToGui("process") \/ ToGui("failed") \/ ToGui("started")
          BY <1>1, BootLeavesPoll
    <2>2. guiQ' \in Seq({"started", "process", "failed"}) /\ Len(guiQ') <= GuiLen
          BY <1>0, <2>1, Sent
    <2>3. fresh' /\ at \in Parts \cup {"decide"} /\ sum # -1 =>
            /\ fresh /\ Counting /\ Counting' /\ size' = size /\ image' = image
            /\ copied' \in Nat /\ copied' >= copied
            /\ done.copy >= size.copy => done'.copy >= size.copy
            /\ done.eraseSecondary >= size.eraseSecondary =>
                 done'.eraseSecondary >= size.eraseSecondary
      <3>1. fresh' /\ at \in Parts \cup {"decide"} /\ sum # -1 => fresh /\ Counting
            BY <1>0, <2>1 DEF GuiInv
      <3> QED BY <1>1, <3>1, Monotone
    <2>4. FullMeansStored'
      <3>1. sum = 100 => sum # -1
            OBVIOUS
      <3> QED BY <1>0, <2>1, <2>3, <3>1 DEF GuiInv, FullMeansStored
    <2>5. fresh' /\ at = "eraseSecondary" => sum <= 80 /\ (sum = 80 => done'.copy >= size'.copy)
          BY <1>0, <2>1, <2>3 DEF GuiInv
    <2>6. fresh' => fresh
          BY <1>0, <2>1
    <2>7. fresh' \in BOOLEAN
          BY <1>0, <2>1
    <2> QED BY <1>0, <2>1, <2>2, <2>3, <2>4, <2>5, <2>6, <2>7 DEF GuiInv
  <1>2. CASE ReadCounter
        BY <1>2, PollKeeps
  <1>3. CASE Receive
    <2>1. /\ sum' = sum /\ fresh' = fresh /\ at' \in {"flag", "receive"}
          BY <1>3 DEF Receive
    <2>2. /\ guiQ' \in Seq({"started", "process", "failed"}) /\ Len(guiQ') <= GuiLen
          /\ screen' \in {"other", "updating"}
      <3>1. CASE guiQ = <<>> /\ UNCHANGED <<guiQ, screen>>
            BY <1>0, <3>1
      <3>2. CASE /\ guiQ # <<>> /\ guiQ' = Tail(guiQ)
                 /\ screen' = CASE Head(guiQ) = "started" -> "updating"
                                [] Head(guiQ) = "failed" -> "other" [] OTHER -> screen
            BY <1>0, <3>2
      <3> QED BY <1>3, <3>1, <3>2 DEF Receive
    <2>3. at' \notin Parts \cup {"decide"}
          BY <1>0, <2>1
    <2>4. at' \in {"receive", "flag", "decide"} \cup Parts /\ FullMeansStored'
          BY <2>1, <2>3 DEF FullMeansStored
    <2> QED BY <1>0, <2>1, <2>2, <2>3, <2>4 DEF GuiInv
  <1>4. CASE ReadFlag
    <2>1. /\ guiQ' = guiQ /\ screen' = screen /\ flow' = flow /\ initiated' = initiated
          /\ \/ initiated /\ at' = "verify" /\ sum' = 0
             \/ ~initiated /\ at' = "decide" /\ sum' = -1
          /\ fresh' = (flow \notin Resetting)
          BY <1>4 DEF ReadFlag, Part, bootVars, progressVars
    <2>2. fresh' /\ sum' # -1 => Counting'
          BY <2>1 DEF Counting
    <2>3. FullMeansStored'
          BY <2>1 DEF FullMeansStored
    <2> QED BY <1>0, <2>1, <2>2, <2>3 DEF GuiInv
  <1>5. CASE Redraw
    <2>1. /\ guiQ' = guiQ /\ screen' = screen /\ fresh' = fresh /\ at' = "receive" /\ sum' = 0
          BY <1>5 DEF Redraw
    <2>2. FullMeansStored' /\ at' \notin Parts \cup {"decide"}
          BY <1>0, <2>1 DEF FullMeansStored
    <2> QED BY <1>0, <2>1, <2>2 DEF GuiInv
  <1> QED BY <1>1, <1>2, <1>3, <1>4, <1>5 DEF Next, GuiStep

-----------------------------------------------------------------------------
(* The bar.                                                                  *)

LEMMA InitBar ==
  ASSUME Init
  PROVE  FlashInv /\ BarInv
  <1>1. FlashInv
        BY InitFlash DEF Init
  <1>2. /\ size \in [Parts -> Nat] /\ done \in [Parts -> Nat] /\ size.verify = 1
        /\ \A p \in Parts : done[p] = 0
        BY PartsAre DEF Init
  <1>3. /\ flow = "idle" /\ again \in BOOLEAN /\ image = 0 /\ copied = 0 /\ clamp = "none"
        /\ starts = 0 /\ dropped = 0 /\ wiped = 0 /\ initiated \in BOOLEAN /\ ~initiated /\ ~fresh
        /\ fresh \in BOOLEAN /\ guiQ = <<>> /\ screen = "other" /\ at = "receive" /\ sum = 0
        BY DEF Init
  <1>4. ~Running
        BY DEF Init, FlashInit, NoCall, Running
  <1>5. PhaseInv
        BY <1>3, <1>4, Slots, UpdateConstants
           DEF PhaseInv, Flow, Resetting, Installing, Trailing, Filled, Deciding
  <1>6. ErasedInv
        BY <1>3, Slots, Constants DEF ErasedInv, Installing
  <1>7. SizeInv
        BY <1>2, <1>3 DEF SizeInv
  <1>8. CounterInv
        BY <1>2, <1>3, PartsAre
           DEF CounterInv, Resets, Limits, EraseCounts, CopyCounts, Counting, Installing, Filled,
               Resetting
  <1>9. GuiInv
    <2>1. guiQ \in Seq({"started", "process", "failed"}) /\ Len(guiQ) = 0
          BY <1>3
    <2> QED BY <1>3, <2>1, UpdateConstants, PartsAre DEF GuiInv, FullMeansStored
  <1> QED BY <1>1, <1>5, <1>6, <1>7, <1>8, <1>9 DEF BarInv

LEMMA BarCorrect == Spec => [](FlashInv /\ BarInv)
  <1>1. Init => FlashInv /\ BarInv
        BY InitBar
  <1>2. FlashInv /\ BarInv /\ [Next]_vars => (FlashInv /\ BarInv)'
    <2>1. ASSUME FlashInv, BarInv, [Next]_vars
          PROVE  (FlashInv /\ BarInv)'
      <3>1. FlashInv' /\ PhaseInv' /\ ErasedInv' /\ SizeInv'
            BY <2>1, FlashKeeps, PhaseKeeps, ErasedKeeps, SizeKeeps DEF BarInv
      <3>2. CounterInv' /\ GuiInv'
            BY <2>1, CounterKeeps, GuiKeeps DEF BarInv
      <3> QED BY <3>1, <3>2 DEF BarInv
    <2> QED BY <2>1
  <1> QED BY <1>1, <1>2, PTL DEF Spec

\* Every variable of an update keeps its type: no counter, sum or count of sectors leaves its
\* range, and the event queue of the GUI task never overflows (getUpdateProgress, taskGui_sendEvent).
THEOREM UpdateTypeCorrect == Spec => []TypeOK
  <1>1. FlashInv /\ BarInv => TypeOK
    <2>1. ASSUME FlashInv, BarInv
          PROVE  TypeOK
      <3>1. copied \in 0..Size["primary"]
            BY <2>1, Slots DEF BarInv, PhaseInv
      <3> QED BY <2>1, <3>1
              DEF BarInv, FlashInv, PhaseInv, ErasedInv, SizeInv, CounterInv, GuiInv, TypeOK
    <2> QED BY <2>1
  <1> QED BY <1>1, BarCorrect, PTL

\* For every geometry, image and firmware before it, and every interleaving of the two tasks, a
\* new letStart and the erasures of a failed update included: the bar is full only when the whole
\* image is in the primary slot and both sectors of its copy have been counted
\* (screenUpdating_poll, bootloader_tryUpdateProgress).
THEOREM FullBarMeansStored == Spec => []FullMeansStored
  <1>1. BarInv => FullMeansStored
        BY DEF BarInv, GuiInv
  <1> QED BY <1>1, BarCorrect, PTL

\* For every size of image and of the firmware before it: when the update is complete the
\* counters add up to 100 exactly if MCUboot erased as much as the older firmware is long, and to
\* 80 at least otherwise (bootloader_getUpdateProgress).
THEOREM CompleteBarIsFull == Spec => []CompleteMeansFull
  <1>1. BarInv => CompleteMeansFull
    <2>1. SUFFICES ASSUME BarInv, flow = "complete", clamp = "none", dropped = 2
                   PROVE  Total \in 80..100 /\ (Total = 100 <=> size.erasePrimary <= wiped)
          BY DEF CompleteMeansFull
    <2>2. /\ initiated /\ flow \in Installing /\ flow \notin Resetting /\ Counting
          /\ flow \in Filled
      <3>1. flow \in Installing /\ flow \notin Resetting /\ flow \in Filled
            BY <2>1 DEF Installing, Resetting, Filled
      <3>2. initiated
            BY <2>1, <3>1 DEF BarInv, PhaseInv
      <3> QED BY <3>1, <3>2 DEF Counting
    <2>3. /\ CounterTypes /\ SizeInv /\ size.verify = 1 /\ done.verify = 1
          /\ size.eraseSecondary = 2 * ExtSector /\ wiped \in Nat
          /\ size.copy \in Nat \ {0} /\ ExtSector \in Nat \ {0}
          /\ size.erasePrimary \in Nat /\ done.erasePrimary \in Nat
          /\ done.copy \in Nat /\ done.eraseSecondary \in Nat
      <3>1. CounterTypes /\ SizeInv /\ size.verify = 1 /\ size.eraseSecondary = 2 * ExtSector
            BY <2>1, <2>2 DEF BarInv, CounterInv, CounterTypes, SizeInv, Resetting
      <3>2. done.verify = 1
            BY <2>1 DEF BarInv, CounterInv, Limits, Installing
      <3>3. image \in ImageSizes /\ size.copy \in image..(SecondarySize + ExtSector)
            BY <2>1, <2>2 DEF BarInv, PhaseInv, SizeInv, Resetting
      <3>4. size.copy \in Nat \ {0}
        <4>1. image \in Nat /\ 2 * Page < image /\ Page \in Nat
              BY <3>3, UpdateConstants, Constants
        <4> QED BY <3>3, <4>1, Slots, Constants
      <3>5. wiped \in Nat
            BY <2>1, Slots, Constants DEF BarInv, ErasedInv
      <3> QED BY <3>1, <3>2, <3>4, <3>5, Counters, Constants
    <2>4. \A p \in Parts : done[p] <= size[p]
          BY <2>1, <2>2, PartsAre DEF BarInv, CounterInv, Limits
    <2>5. done.copy = size.copy
      <3>1. done.copy <= size.copy /\ done.copy >= size.copy
            BY <2>1, <2>2, <2>4, PartsAre DEF BarInv, CounterInv, CopyCounts
      <3> QED BY <2>3, <3>1
    <2>6. done.eraseSecondary = 2 * ExtSector
      <3>1. done.eraseSecondary <= 2 * ExtSector
            BY <2>3, <2>4, PartsAre
      <3>2. Least(done.eraseSecondary, 2 * ExtSector) = 2 * ExtSector
            BY <2>1, <2>2 DEF BarInv, CounterInv, EraseCounts
      <3> QED BY <2>3, <3>1, <3>2 DEF Least
    <2>7. ASSUME NEW n \in Nat \ {0}, NEW k \in Nat
          PROVE  (n * k) \div n = k
      <3>1. n * k + 0 = n * k /\ 0 \in Nat /\ 0 < n
            BY ProductNat
      <3> QED BY <3>1, DivUnique
    <2>8. (done.copy * 50) \div size.copy = 50
          BY <2>3, <2>5, <2>7, 50 \in Nat
    <2>9. (done.eraseSecondary * 20) \div size.eraseSecondary = 20
      <3>1. 2 * ExtSector \in Nat \ {0}
            BY <2>3
      <3> QED BY <2>3, <2>6, <2>7, <3>1, 20 \in Nat
    <2>10. (done.verify * 10) \div size.verify = 10
      <3>1. (1 * 10) \div 1 = 10
            OBVIOUS
      <3> QED BY <2>3, <3>1
    <2> DEFINE e == IF size.erasePrimary = 0 THEN 20
                    ELSE (done.erasePrimary * 20) \div size.erasePrimary
    <2>11. e \in 0..20 /\ (e = 20 <=> done.erasePrimary >= size.erasePrimary)
      <3>1. CASE size.erasePrimary = 0
            BY <2>3, <3>1
      <3>2. CASE size.erasePrimary # 0
        <4>1. size.erasePrimary \in Nat \ {0} /\ done.erasePrimary <= size.erasePrimary
              BY <2>3, <2>4, <3>2, PartsAre
        <4>2. e \in Nat /\ e <= 20 /\ (done.erasePrimary < size.erasePrimary => e < 20)
          <5> DEFINE r == (done.erasePrimary * 20) \div size.erasePrimary
          <5>1. /\ r \in Nat
                /\ done.erasePrimary <= size.erasePrimary => r <= 20
                /\ done.erasePrimary < size.erasePrimary /\ 20 # 0 => r < 20
                BY <2>3, <4>1, Share, 20 \in Nat
          <5>2. e = r
                BY <3>2
          <5> HIDE DEF r, e
          <5> QED BY <4>1, <5>1, <5>2
        <4>3. done.erasePrimary = size.erasePrimary => e = 20
          <5>1. (size.erasePrimary * 20) \div size.erasePrimary = 20
                BY <2>7, <4>1, 20 \in Nat
          <5> QED BY <3>2, <5>1
        <4> HIDE DEF e
        <4> QED BY <2>3, <4>1, <4>2, <4>3
      <3> QED BY <3>1, <3>2
    <2>12. Total = 10 + e + 50 + 20
          BY <2>8, <2>9, <2>10 DEF Total
    <2>13. done.erasePrimary >= size.erasePrimary <=> size.erasePrimary <= wiped
      <3>1. Least(done.erasePrimary, size.erasePrimary) = Least(wiped, size.erasePrimary)
            BY <2>1, <2>2 DEF BarInv, CounterInv, EraseCounts
      <3> QED BY <2>3, <3>1 DEF Least
    <2> HIDE DEF e
    <2> QED BY <2>11, <2>12, <2>13
  <1> QED BY <1>1, BarCorrect, PTL
=============================================================================
