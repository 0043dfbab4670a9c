----------------------------- MODULE FlashArea -----------------------------
(***************************************************************************)
(* flash_map_backend.c: the flash areas of the bootloader, and the reads,  *)
(* writes and erasures MCUboot and img_manager.c make through them.        *)
(*                                                                         *)
(* A call is checked, split into operations of the flash drivers (pieces), *)
(* and ends with a result; each piece is a step.  Addresses, offsets and   *)
(* lengths are unsigned words of Word values.                              *)
(***************************************************************************)
EXTENDS Naturals, Sequences

CONSTANTS
  Word,           \* uint32_t has Word values
  Page,           \* EXTERNAL_FLASH_PAGE_SIZE, flash_getPageSize()
  ExtSector,      \* EXTERNAL_FLASH_SECTOR_SIZE, flash_getSectorSize()
  IntSector,      \* FLASH_SECTOR_SIZE
  IntBase,        \* address of internal sector 0
  PrimaryFirst, PrimaryLast,    \* internal sectors of the primary slot
  ExtFirst, ExtHigh,            \* first and last address kept for the secondary slot
  ExtSectors      \* flash_getSectorCount()

ASSUME FlashAssumption ==
  /\ {Word, Page, ExtSector, IntSector} \subseteq Nat \ {0}
  /\ {IntBase, PrimaryFirst, PrimaryLast, ExtFirst, ExtHigh, ExtSectors} \subseteq Nat
  /\ ExtSector % Page = 0 /\ IntSector % ExtSector = 0
  /\ IntBase % IntSector = 0 /\ ExtFirst % ExtSector = 0
  /\ 1 < PrimaryFirst /\ PrimaryFirst <= PrimaryLast    \* sector 1 is the area "self"
  /\ ExtFirst + ExtSector + IntSector <= ExtHigh + 1
  /\ ExtHigh < ExtSectors * ExtSector /\ ExtSectors * ExtSector < Word
  /\ IntBase + IntSector * (PrimaryLast + 1) < Word /\ Word % Page = 0

Area == {"primary", "secondary", "self"}
Device == [a \in Area |-> IF a = "secondary" THEN "external" ELSE "internal"]

\* Mutant: nothing is kept for the header of a wrapper.
SecondarySizeUnreserved ==
  LET available == ExtHigh - ExtFirst + 1
  IN  available - (available % IntSector)

\* Room for the header of a wrapper is kept; the rest is used in whole internal sectors.
SecondarySize ==
  LET available == (ExtHigh - ExtFirst + 1) - ExtSector
  IN  available - (available % IntSector)

\* The primary slot is cut to the size of the secondary one.
PrimarySize ==
  LET all == IntSector * (PrimaryLast - PrimaryFirst + 1)
      fit == SecondarySize \div IntSector
  IN  IF SecondarySize < all THEN IntSector * fit ELSE all

Size == [a \in Area |-> CASE a = "primary" -> PrimarySize
                          [] a = "secondary" -> SecondarySize
                          [] OTHER -> IntSector]

VARIABLES
  secOff,      \* fa_off of the secondary area
  chip,        \* flash_getInitStatus() = 0
  call,        \* the call in progress, or the last one
  pieces       \* what the drivers were asked for since it began: first and last address

flashVars == <<secOff, chip, call, pieces>>

\* fa_off
Off(a) == CASE a = "primary" -> IntBase + IntSector * PrimaryFirst
            [] a = "secondary" -> secOff
            [] OTHER -> IntBase + IntSector

NoCall == [op |-> "none", area |-> "self", off |-> 0, len |-> 0,
           at |-> 0, left |-> 0, res |-> "ok"]
Op == {"none", "read", "write", "erase"}

FlashTypeOK ==
  /\ secOff \in 0..(Word - 1) /\ chip \in BOOLEAN
  /\ call \in [op : Op, area : Area, off : 0..(Word - 1), len : 0..(Word - 1),
               at : 0..(Word - 1), left : 0..(Word - 1), res : {"run", "ok", "error"}]
  /\ \A i \in DOMAIN pieces : pieces[i] \in (0..(Word - 1)) \X (0..(Word - 1))

FlashInit ==
  /\ secOff = ExtFirst /\ chip \in BOOLEAN
  /\ call = NoCall /\ pieces = <<>>

Running == call.res = "run"
Plus(x, y) == (x + y) % Word

-----------------------------------------------------------------------------
(* The areas. *)

\* flash_area_move_start; BootFlow shows that an area is moved at most once before a reset.
MoveStart ==
  /\ ~Running /\ secOff = ExtFirst
  /\ secOff' = Plus(secOff, ExtSector)
  /\ call' = NoCall /\ pieces' = <<>> /\ UNCHANGED chip

ResetStart ==
  /\ ~Running /\ secOff' = ExtFirst
  /\ call' = NoCall /\ pieces' = <<>> /\ UNCHANGED chip

\* flash_area_open: an area in a chip that had to be initialised first is not opened.
Opens(a) == Device[a] = "internal" \/ chip
Open(a) ==
  /\ ~Running
  /\ call' = [NoCall EXCEPT !.area = a, !.res = IF Opens(a) THEN "ok" ELSE "error"]
  /\ chip' \in (IF Opens(a) THEN {chip} ELSE {FALSE, TRUE})
  /\ pieces' = <<>> /\ UNCHANGED secOff

-----------------------------------------------------------------------------
(* Sector tables, relative to the area.                                      *)

SectorSize(a) == IF Device[a] = "internal" THEN IntSector ELSE ExtSector
Delta(a) == Off(a) % SectorSize(a)

\* First address of a sector of the device that holds the area.
Base(a) == IF Device[a] = "internal" THEN IntBase ELSE 0
SectorAt(a, i) == Base(a) + i * SectorSize(a)

\* Mutant: the sector behind the one that holds the address.
SectorOfNext(a, addr) ==
  LET sz == SectorSize(a) IN
  [off |-> ((addr + sz - 1) \div sz) * sz,
   size |-> IF addr < sz THEN sz - Delta(a) ELSE sz]

\* flash_area_get_sector: the last sector that does not begin behind addr.
SectorOf(a, addr) ==
  LET sz == SectorSize(a) IN
  [off |-> (addr \div sz) * sz,
   size |-> IF addr < sz THEN sz - Delta(a) ELSE sz]

\* MCUBOOT_MAX_IMG_SECTORS
MaxSectors == (ExtHigh - ExtFirst) \div ExtSector + 1

\* flash_area_get_sectors
Sectors(a) ==
  LET sz == SectorSize(a)
      n == (Size[a] + sz - 1) \div sz
  IN  [i \in 1..(IF n < MaxSectors THEN n ELSE MaxSectors) |->
         [off |-> (i - 1) * sz, size |-> IF i = 1 THEN sz - Delta(a) ELSE sz]]

-----------------------------------------------------------------------------
(* Reads, writes, erasures.                                                  *)

\* Mutant: a read may begin at the very end of the area and run past it.
InBoundsLoose(op, a, off, len) == off <= Size[a]

InBounds(op, a, off, len) ==
  /\ IF op = "erase" THEN off <= Size[a] ELSE off < Size[a]
  /\ Plus(off, len) <= Size[a]

\* An internal erasure is of whole sectors; the last external sector must exist.
Erasable(a, off, len) ==
  IF Device[a] = "internal" THEN len % IntSector = 0 /\ off % IntSector = 0
  ELSE Plus(Plus(Off(a), off), len) \div ExtSector <= ExtSectors

Refuse(op, a, off, len) ==
  /\ ~Running
  /\ ~InBounds(op, a, off, len) \/ (op = "erase" /\ ~Erasable(a, off, len))
  /\ call' = [op |-> op, area |-> a, off |-> off, len |-> len,
              at |-> 0, left |-> 0, res |-> "error"]
  /\ pieces' = <<>> /\ UNCHANGED <<secOff, chip>>

\* "at" and "left" are the driver's address and the bytes to go; for an erasure, the sector
\* and the sectors to go.
Begin(op, a, off, len) ==
  /\ ~Running /\ InBounds(op, a, off, len)
  /\ op = "erase" => Erasable(a, off, len)
  /\ LET start == Plus(Off(a), off)
         first == (start - Base(a)) \div SectorSize(a)
         end == (Plus(start, len) - Base(a)) \div SectorSize(a)
     IN call' = [op |-> op, area |-> a, off |-> off, len |-> len,
                 at |-> IF op = "erase" THEN first ELSE start,
                 left |-> IF op # "erase" THEN len
                          ELSE IF first < end THEN end - first ELSE 0,
                 res |-> "run"]
  /\ pieces' = <<>> /\ UNCHANGED <<secOff, chip>>

\* Mutant: a whole page wherever the transfer begins.
ChunkUnaligned == IF Page > call.left THEN call.left ELSE Page

\* A transfer to the external chip goes on to the end of the page it is in.
Chunk == IF Device[call.area] = "internal" THEN call.left
         ELSE IF Page - (call.at % Page) > call.left THEN call.left ELSE Page - (call.at % Page)

\* Where the next transfer begins: a write counts pages and begins the next one.
NextAt(size) ==
  IF call.op = "write" /\ Device[call.area] = "external"
  THEN ((call.at \div Page + 1) * Page) % Word ELSE Plus(call.at, size)

Transfer ==
  /\ Running /\ call.op \in {"read", "write"} /\ call.left > 0
  /\ pieces' = Append(pieces, <<call.at, Plus(call.at, Chunk - 1)>>)
  /\ call' = [call EXCEPT !.left = @ - Chunk, !.at = NextAt(Chunk)]
  /\ UNCHANGED <<secOff, chip>>

EraseSector ==
  /\ Running /\ call.op = "erase" /\ call.left > 0
  /\ LET first == SectorAt(call.area, call.at)
     IN pieces' = Append(pieces, <<first, Plus(first, SectorSize(call.area) - 1)>>)
  /\ call' = [call EXCEPT !.left = @ - 1, !.at = @ + 1]
  /\ UNCHANGED <<secOff, chip>>

\* The driver of the external chip, or the read of the internal one, fails.
DriverFails ==
  /\ Running /\ call.left > 0
  /\ call.op = "read" \/ Device[call.area] = "external"
  /\ call' = [call EXCEPT !.left = 0, !.res = "error"]
  /\ UNCHANGED <<secOff, chip, pieces>>

Return ==
  /\ Running /\ call.left = 0
  /\ call' = [call EXCEPT !.res = "ok"]
  /\ UNCHANGED <<secOff, chip, pieces>>

\* Calls one after the other, with any argument.
FlashNext ==
  \/ MoveStart \/ ResetStart
  \/ \E a \in Area : Open(a)
  \/ call = NoCall /\ \E op \in Op \ {"none"}, a \in Area, off, len \in 0..(Word - 1) :
       Refuse(op, a, off, len) \/ Begin(op, a, off, len)
  \/ Transfer \/ EraseSector \/ DriverFails \/ Return

FlashSpec == FlashInit /\ [][FlashNext]_flashVars

-----------------------------------------------------------------------------
(* Properties. *)

\* The longest length for which off + len does not wrap around in the bounds check.
Unwrapped == call.len < Word - Size[call.area]

\* No driver is ever asked for an address outside of the area of the call, wherever the area
\* has been moved, at any offset, as long as off + len does not wrap around
\* (flash_area_read, flash_area_write, flash_area_erase: every bounds check).
StaysInArea ==
  Unwrapped =>
    \A i \in DOMAIN pieces :
      /\ Off(call.area) <= pieces[i][1] /\ pieces[i][1] <= pieces[i][2]
      /\ pieces[i][2] < Off(call.area) + Size[call.area]

\* A transfer to the external chip never crosses a page, and the transfers of a call that
\* succeeds are the requested range without gap or overlap; an erasure of whole sectors that
\* succeeds erases the requested range and nothing else.
Aligned == call.off % SectorSize(call.area) = 0 /\ call.len % SectorSize(call.area) = 0

DoesWhatItSays ==
  /\ call.op \in {"read", "write"} /\ Device[call.area] = "external" =>
       \A i \in DOMAIN pieces : pieces[i][1] \div Page = pieces[i][2] \div Page
  /\ call.op # "none" /\ call.res = "ok" /\ Unwrapped /\ (call.op = "erase" => Aligned) =>
       /\ call.len = 0 <=> pieces = <<>>
       /\ \A i \in DOMAIN pieces \ {1} : pieces[i][1] = pieces[i - 1][2] + 1
       /\ pieces # <<>> =>
            /\ pieces[1][1] = Off(call.area) + call.off
            /\ pieces[Len(pieces)][2] = Off(call.area) + call.off + call.len - 1

\* Moved or not, the secondary area lies in the memory kept for it, its sectors tile it, and
\* the sector found for an address is the one of the table that holds it
\* (flash_area_move_start, flash_area_get_sector, flash_area_get_sectors).
SectorsTile ==
  /\ ExtFirst <= secOff /\ secOff + SecondarySize <= ExtHigh + 1
  /\ call = NoCall => \A a \in Area :
       LET table == Sectors(a) IN
       /\ table[1].off = 0
       /\ \A i \in DOMAIN table \ {1} : table[i].off = table[i - 1].off + table[i - 1].size
       /\ table[Len(table)].off + table[Len(table)].size = Size[a]
       /\ \A addr \in 0..(Size[a] - 1) :
            \E i \in DOMAIN table : /\ table[i] = SectorOf(a, addr)
                                    /\ addr \in table[i].off..(table[i].off + table[i].size - 1)

-----------------------------------------------------------------------------
(* Why the drivers stay in the area, and do what the call asks for: how far  *)
(* a call has come.                                                          *)

\* The range of the call: its first address, and the one behind its last.
First == Off(call.area) + call.off
Behind == First + call.len

Follow == \A i \in DOMAIN pieces \ {1} : pieces[i][1] = pieces[i - 1][2] + 1

\* What the bounds check leaves.
CallInv ==
  /\ secOff \in {ExtFirst, ExtFirst + ExtSector} /\ pieces \in Seq(Nat \X Nat)
  /\ call.op = "none" => pieces = <<>> /\ ~Running
  /\ Running \/ pieces # <<>> =>
       call.off <= Size[call.area] /\ Plus(call.off, call.len) <= Size[call.area]
  /\ call.op # "none" /\ call.res = "ok" => call.left = 0

\* A transfer has covered the range up to what is left of it.
TransferInv ==
  call.op \in {"read", "write"} =>
    /\ Device[call.area] = "external" =>
         \A i \in DOMAIN pieces : pieces[i][1] \div Page = pieces[i][2] \div Page
    /\ Unwrapped =>
         /\ \A i \in DOMAIN pieces :
              First <= pieces[i][1] /\ pieces[i][1] <= pieces[i][2] /\ pieces[i][2] < Behind
         /\ Follow
         /\ pieces # <<>> => pieces[1][1] = First
         /\ call.res # "error" =>
              /\ call.left > 0 => call.at + call.left = Behind
              /\ pieces = <<>> => call.left = call.len
              /\ pieces # <<>> => /\ call.left < call.len
                                  /\ pieces[Len(pieces)][2] + 1 + call.left = Behind

\* An erasure has covered the sectors up to the one it is at.
EraseInv ==
  call.op = "erase" =>
    /\ \A i \in DOMAIN pieces : /\ Off(call.area) <= pieces[i][1] /\ pieces[i][1] <= pieces[i][2]
                                /\ pieces[i][2] < SectorAt(call.area, call.at)
    /\ Follow
    /\ Running \/ pieces # <<>> =>
         /\ Off(call.area) <= SectorAt(call.area, call.at)
         /\ SectorAt(call.area, call.at + call.left) <= Off(call.area) + Size[call.area]
    /\ pieces # <<>> => pieces[Len(pieces)][2] + 1 = SectorAt(call.area, call.at)
    /\ Unwrapped /\ Aligned =>
         /\ pieces # <<>> => pieces[1][1] = First /\ First < SectorAt(call.area, call.at)
         /\ call.res # "error" =>
              /\ pieces = <<>> => SectorAt(call.area, call.at) = First
              /\ SectorAt(call.area, call.at + call.left) = Behind

FlashInv == FlashTypeOK /\ CallInv /\ TransferInv /\ EraseInv
=============================================================================
