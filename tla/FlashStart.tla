---------------------------- MODULE FlashStart -----------------------------
(***************************************************************************)
(* The size esp-flasher's flash_start sends to the loader in the ROM       *)
(* (esp-utils/esp-flasher.cpp), and what the ROM's SPIEraseArea makes of   *)
(* it.  Everything is counted in sectors.                                  *)
(***************************************************************************)
EXTENDS Integers, FiniteSetsExt

CONSTANT Block  \* sectors of a block of the flash: 16

ASSUME BlockAssumption == Block \in Nat \ {0}

\* The sectors from start to the next boundary of a block, of n.
Fix(start, n) == Min({n, Block - (start % Block)})

\* flash_start: the size it sends so that n sectors from start are erased.
EraseSize(start, n) ==
  LET fix == Fix(start, n) IN IF n < 2 * fix THEN (n + 1) \div 2 ELSE n - fix

\* The ROM's SPIEraseArea takes the sectors before the boundary on top of the size.
EraseArea(start, n) == start .. start + n + Fix(start, n) - 1

\* What a flash_start for n sectors erases.
Erased(start, n) == EraseArea(start, EraseSize(start, n))
=============================================================================
