----------------------------- MODULE AudioQueue -----------------------------
(***************************************************************************)
(* What app1 wants of the sound: blocks are played in the order they were  *)
(* filled in, each once, and the blocks of music follow each other as they *)
(* do in the file, from the last whole one to the first.  Once there is    *)
(* nothing to play any more, or the interrupt has been held up, it         *)
(* promises nothing.                                                       *)
(***************************************************************************)
EXTENDS Integers, Sequences

CONSTANTS
  Capacity,  \* the most blocks that wait
  Block,     \* the length of a block
  AudioSize, \* the length of the music
  Silence    \* a block of silence

VARIABLES
  queue,     \* the blocks that wait
  sounding,  \* the block that is heard
  music,     \* where the next block of music begins
  starved,   \* a block was wanted and none was there
  lost       \* an interrupt was held up

vars == <<queue, sounding, music, starved, lost>>

\* The block of music behind the one at p.
After(p) == IF p + 2 * Block > AudioSize THEN 0 ELSE p + Block

Init ==
  /\ queue = <<>> /\ sounding = Silence
  /\ music = 0 /\ starved = FALSE /\ lost = FALSE

Add(b) == Len(queue) < Capacity /\ queue' = Append(queue, b)

AddMusic == Add(music) /\ music' = After(music) /\ UNCHANGED <<sounding, starved, lost>>
AddSilence == Add(Silence) /\ UNCHANGED <<sounding, music, starved, lost>>

Play ==
  /\ queue # <<>>
  /\ sounding' = Head(queue)
  /\ queue' = Tail(queue)
  /\ UNCHANGED <<music, starved, lost>>

\* From here on, whatever is heard.
Starve == (starved \/ queue = <<>>) /\ starved' = TRUE /\ UNCHANGED lost
Lose == lost' = TRUE

\* A new start, with empty buffers.
Reset ==
  /\ queue' = <<>> /\ sounding' = Silence
  /\ music' = 0 /\ starved' = FALSE /\ lost' = FALSE

Next ==
  \/ Starve \/ Lose \/ Reset
  \/ ~ starved /\ ~ lost /\ (AddMusic \/ AddSilence \/ Play)

Spec == Init /\ [][Next]_vars
=============================================================================
