------------------------------- MODULE Audio --------------------------------
(***************************************************************************)
(* Sound on the device: the ring of DMA buffers and its interrupt          *)
(* (common/i2s_driver.c), and its one user, app1, that fills them with     *)
(* music or silence between its frames (oc/sources/app1.c).  A step is the *)
(* end of a DMA buffer, one call of GetAudioBuffer, or the filling of the  *)
(* buffer it returned: the interrupt may come between any two of them.     *)
(* main_loop (oc/sources/oc.c) stops the sound when the network protocol   *)
(* is not idle, and nothing starts it again but a reset.                   *)
(*                                                                         *)
(* A buffer's content is the place its block was read from, Silence, or    *)
(* Torn while the app is writing it.                                       *)
(***************************************************************************)
EXTENDS Integers, Sequences

CONSTANTS
  BufCnt,     \* I2SDMABUFCNT
  Block,      \* AUDIO_BUFFER_SIZE, 256 samples
  AudioSize,  \* audio_size, the length of the music
  Silence,
  Torn,
  SleepsPerBuffer, \* a buffer lasts so many SleepMs(1): 11.6 of them at 22050 Hz
  MaskedLoads \* TRUE: writing the map to the flash masks the interrupt

ASSUME AudioAssumption ==
  /\ BufCnt \in Nat /\ BufCnt >= 2
  /\ Block \in Nat \ {0}
  /\ AudioSize \in Nat /\ AudioSize >= Block
  /\ SleepsPerBuffer \in Nat \ {0}
  /\ MaskedLoads \in BOOLEAN

VARIABLES
  dmaidx,      \* the buffer the driver takes to be playing
  lastidx,     \* the buffer that was handed out last
  underrunCnt, \* capped at 1
  playing,     \* the buffer the DMA is playing
  running,     \* I2S_I2S_TX_START: the DMA moves
  irq,         \* the interrupt is pending
  content,     \* what is in each buffer
  pc,          \* where app1 is
  stage,       \* the calls of fill_audio main_loop1 has made in this frame
  audio_ptr,   \* from audio_start
  bufcnt,      \* the counter of fill_silence, 0 outside of it; past BufCnt it
               \* stays at BufCnt + 1, being compared with BufCnt alone
  slept,       \* SleepMs(1) since the last buffer ended, in fill_silence
  broken,      \* history: a buffer was played that was not filled anew
  late         \* history: an interrupt was held up while a map was written

ring == <<dmaidx, lastidx, underrunCnt, playing, running, irq>>
app == <<pc, stage, audio_ptr, bufcnt>>
vars == <<ring, content, app, slept, broken, late>>

Buffers == 0 .. BufCnt - 1

NextIdx == (lastidx + 1) % BufCnt

\* Variant: the playing buffer does not stop the search.
AvailableAlways == TRUE
\* i2sGetNextBuffer has a buffer to hand out.
Available == NextIdx # dmaidx

\* play_audio and i2sInit, called by main_start1, which goes on with loadmap and
\* returns to main_loop as the last part of a frame does.
Init ==
  /\ dmaidx = 0 /\ lastidx = 0 /\ underrunCnt = 0
  /\ playing = 0 /\ running = TRUE /\ irq = FALSE
  /\ content = [b \in Buffers |-> Silence]
  /\ pc = "silence" /\ stage = 2
  /\ audio_ptr = 0
  /\ bufcnt = 0 /\ slept = 0
  /\ broken = FALSE /\ late = FALSE
-----------------------------------------------------------------------------
(* The DMA and its interrupt *)

\* Variant: an underrun is noticed one buffer late.
UnderrunLate(d) == d = (lastidx + 1) % BufCnt
Underrun(d) == d = lastidx

\* slc_isr
Isr ==
  /\ dmaidx' = (dmaidx + 1) % BufCnt
  /\ underrunCnt' = IF Underrun(dmaidx') THEN 1 ELSE underrunCnt

\* The buffers that are filled and not yet played.
Waiting ==
  {(dmaidx + k) % BufCnt : k \in 1 .. (lastidx - dmaidx) % BufCnt}
    \ (IF pc \in {"music", "quiet"} THEN {lastidx} ELSE {})

\* A buffer ends, and the interrupt is taken at once.  While fill_silence
\* waits, it comes back to its loop several times in that time.
BufferEnds ==
  /\ running /\ ~ irq
  /\ pc \in {"silence", "quiet", "sleep"} => slept = SleepsPerBuffer
  /\ slept' = 0
  /\ playing' = (playing + 1) % BufCnt
  /\ broken' = (broken \/ Waiting = {})
  /\ Isr
  /\ UNCHANGED <<lastidx, running, irq, content, app, late>>

\* A buffer ends while the interrupt is masked; a second one is lost, as the
\* flag of the interrupt is already set.
BufferEndsMasked ==
  /\ running /\ MaskedLoads /\ pc = "load"
  /\ playing' = (playing + 1) % BufCnt
  /\ irq' = TRUE
  /\ broken' = (broken \/ irq \/ Waiting = {})
  /\ late' = TRUE
  /\ UNCHANGED <<dmaidx, lastidx, underrunCnt, running, content, app, slept>>

LateIsr ==
  /\ irq
  /\ Isr
  /\ irq' = FALSE
  /\ UNCHANGED <<lastidx, playing, running, content, app, slept, broken, late>>
-----------------------------------------------------------------------------
(* main_loop *)

Frame ==
  /\ pc = "loop"
  /\ pc' = "fill"
  /\ UNCHANGED <<ring, content, stage, audio_ptr, bufcnt, slept, broken, late>>

\* The protocol is not idle: StopAudio, and no frame.
Transfer ==
  /\ pc = "loop"
  /\ running' = FALSE
  /\ UNCHANGED <<dmaidx, lastidx, underrunCnt, playing, irq, content, app, slept,
                 broken, late>>

\* Y resets the device, and the user starts app1 again.
Restart ==
  /\ pc = "loop"
  /\ dmaidx' = 0 /\ lastidx' = 0 /\ underrunCnt' = 0
  /\ playing' = 0 /\ running' = TRUE /\ irq' = FALSE
  /\ content' = [b \in Buffers |-> Silence]
  /\ pc' = "silence" /\ stage' = 2
  /\ audio_ptr' = 0
  /\ bufcnt' = 0 /\ slept' = 0
  /\ broken' = FALSE /\ late' = FALSE
-----------------------------------------------------------------------------
(* app1 *)

\* i2sGetNextBuffer hands out a buffer, whose old content is gone.
HandOut ==
  /\ Available
  /\ lastidx' = NextIdx
  /\ content' = [content EXCEPT ![NextIdx] = Torn]
  /\ UNCHANGED <<dmaidx, underrunCnt, playing, running, irq>>

\* The place fill_audio reads from: behind the last whole block it starts over.
ReadFrom == IF audio_ptr + Block > AudioSize THEN 0 ELSE audio_ptr

MusicGet ==
  /\ pc = "fill"
  /\ HandOut
  /\ pc' = "music"
  /\ UNCHANGED <<stage, audio_ptr, bufcnt, slept, broken, late>>

MusicFill ==
  /\ pc = "music"
  /\ content' = [content EXCEPT ![lastidx] = ReadFrom]
  /\ audio_ptr' = ReadFrom + Block
  /\ pc' = "fill"
  /\ UNCHANGED <<ring, stage, bufcnt, slept, broken, late>>

\* GetAudioBuffer returns NULL: fill_audio returns, and the frame is drawn.
MusicDone ==
  /\ pc = "fill" /\ ~ Available
  /\ pc' = "draw"
  /\ UNCHANGED <<ring, content, stage, audio_ptr, bufcnt, slept, broken, late>>

\* The drawing behind one of the three fills of a frame is done.
Drawn ==
  /\ pc = "draw"
  /\ stage' = (stage + 1) % 3
  /\ pc' = IF stage = 2 THEN "loop" ELSE "fill"
  /\ UNCHANGED <<ring, content, audio_ptr, bufcnt, slept, broken, late>>

\* X is pressed: main_loop1 looks at the keys behind its first fill.
LoadMap ==
  /\ pc = "draw" /\ stage = 0
  /\ pc' = "silence"
  /\ bufcnt' = 0
  /\ slept' \in 0 .. SleepsPerBuffer
  /\ UNCHANGED <<ring, content, stage, audio_ptr, broken, late>>

\* Variants: a buffer of music stays in the ring; half the ring is enough.
SilenceShort == bufcnt = BufCnt - 1
SilenceHalf == bufcnt = BufCnt \div 2
SilenceDone == bufcnt = BufCnt

SilenceGet ==
  /\ pc = "silence"
  /\ HandOut
  /\ pc' = "quiet"
  /\ UNCHANGED <<stage, audio_ptr, bufcnt, slept, broken, late>>

SilenceFill ==
  /\ pc = "quiet"
  /\ content' = [content EXCEPT ![lastidx] = Silence]
  /\ bufcnt' = IF bufcnt > BufCnt THEN bufcnt ELSE bufcnt + 1
  /\ pc' = "silence"
  /\ UNCHANGED <<ring, stage, audio_ptr, slept, broken, late>>

\* GetAudioBuffer returns NULL: SleepMs(1).
SilenceSleep ==
  /\ pc = "silence" /\ ~ Available
  /\ pc' = "sleep"
  /\ UNCHANGED <<ring, content, stage, audio_ptr, bufcnt, slept, broken, late>>

\* The outer loop of fill_silence ends when it has counted exactly the ring.
SilenceWake ==
  /\ pc = "sleep"
  /\ slept' = IF slept < SleepsPerBuffer THEN slept + 1 ELSE slept
  /\ IF SilenceDone
     THEN pc' = "load" /\ bufcnt' = 0
     ELSE pc' = "silence" /\ UNCHANGED bufcnt
  /\ UNCHANGED <<ring, content, stage, audio_ptr, broken, late>>

\* load_file is through with the map; nothing is filled meanwhile.
MapLoaded ==
  /\ pc = "load" /\ ~ irq
  /\ pc' = "draw"
  /\ UNCHANGED <<ring, content, stage, audio_ptr, bufcnt, slept, broken, late>>

App ==
  \/ Frame \/ Transfer \/ Restart
  \/ MusicGet \/ MusicFill \/ MusicDone \/ Drawn
  \/ LoadMap \/ SilenceGet \/ SilenceFill \/ SilenceSleep \/ SilenceWake
  \/ MapLoaded

Next == BufferEnds \/ BufferEndsMasked \/ LateIsr \/ App

Spec == Init /\ [][Next]_vars

(* A running DMA goes on, and so does the app.                               *)
FairSpec == Spec /\ WF_vars(BufferEnds) /\ WF_vars(LateIsr) /\ WF_vars(App)
-----------------------------------------------------------------------------
TypeOK ==
  /\ dmaidx \in Buffers /\ lastidx \in Buffers /\ playing \in Buffers
  /\ underrunCnt \in 0 .. 1 /\ {running, irq} \subseteq BOOLEAN
  /\ content \in [Buffers -> 0 .. AudioSize \cup {Silence, Torn}]
  /\ pc \in {"loop", "fill", "music", "draw", "silence", "quiet", "sleep", "load"}
  /\ stage \in 0 .. 2
  /\ audio_ptr \in 0 .. AudioSize
  /\ bufcnt \in 0 .. BufCnt + 1 /\ slept \in 0 .. SleepsPerBuffer
  /\ {broken, late} \subseteq BOOLEAN

(* fill_silence has been through the whole ring when it returns: while a map *)
(* is loaded and nothing is filled, the DMA goes round and round in silence, *)
(* also when it had overtaken the app before or its interrupt is masked.     *)
LoadsInSilence == pc = "load" => \A b \in Buffers : content[b] = Silence

(* A buffer that was not filled anew is never played without underrunCnt     *)
(* having counted it, unless an interrupt was held up before.                *)
UnderrunCounted == broken => underrunCnt > 0 \/ late

(* fill_silence, which waits for its counter to be exactly the number of     *)
(* buffers, returns if the sound runs: no two buffers become free between    *)
(* two of its looks.  (Behind a Transfer it never returns.)                  *)
SilenceEnds == pc = "silence" /\ running ~> pc = "load"

(* The ring is a queue of blocks in the order they were filled, as long as   *)
(* no buffer is missing: the music is heard without a gap or a repetition,   *)
(* from a reset to the next.                                                 *)
Queued(n) == [k \in 1 .. n |-> content[(dmaidx + k) % BufCnt]]
Queue == INSTANCE AudioQueue WITH
  Capacity <- BufCnt - 1,
  queue <- Queued(((lastidx - dmaidx) % BufCnt)
                  - (IF pc \in {"music", "quiet"} THEN 1 ELSE 0)),
  sounding <- content[playing],
  music <- ReadFrom,
  starved <- broken,
  lost <- late
ImplementsQueue == Queue!Spec
=============================================================================
