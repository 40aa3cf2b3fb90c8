---------------------------- MODULE SoundPlayer ----------------------------
(***************************************************************************)
(* How DialogflowBlock plays the spoken answer.  The websocket client's    *)
(* task runs websocket_event_handler: "W" announces an answer, binary      *)
(* frames go to the ring wav_play, "E" ends it.  SoundPlayTask polls the   *)
(* ring and plays it piece by piece, guided by wav_play_size (bytes        *)
(* received) and wav_rcv_done; sound_player_state, 0 while it plays, is    *)
(* what SpeechRec looks at before it records.  The two variables are plain *)
(* statics written by the handler and, at the start of every recording, by *)
(* WS_Sender.  A step is one access to them, the ring or the semaphore.    *)
(***************************************************************************)
EXTENDS Integers, ByteRing

CONSTANTS
    MaxWav,      \* MAX_WAV_SIZE
    StartAt,     \* more than this in the ring starts the player (2000)
    Prebuffer,   \* received before playing begins (14000)
    Piece,       \* taken from the ring at a time (16)
    Patience,    \* the value of timeout_cnt that ends a playback (10000)
    EmptyCost,   \* what an empty ring adds to timeout_cnt (100)
    FrameSizes,  \* sizes of the binary frames the server sends
    Frames,      \* bound: binary frames of one answer
    Requests     \* bound: recordings made, each answered at most once

ASSUME PlayerAssumption ==
    /\ MaxWav \in Nat \ {0}
    /\ StartAt \in Nat /\ Prebuffer \in Nat
    /\ Piece \in Nat \ {0}
    /\ Patience \in Nat
    /\ EmptyCost \in Nat \ {0}
    /\ FrameSizes \subseteq Nat \ {0}
    /\ Frames \in Nat
    /\ Requests \in Nat \ {0}

VARIABLES
    wav_play_size, wav_rcv_done, wavRing, sound_player_state, \* shared
    handler,   \* the websocket client's task
    player,    \* SoundPlayTask
    sketch,    \* SpeechRec and its sender
    abandoned  \* auxiliary: a playback was ended by its timeout

size == <<wav_play_size, wav_rcv_done>>
vars == <<size, wavRing, sound_player_state, handler, player, sketch,
          abandoned>>

HandlerPCs == {"ready", "announced", "stream", "load", "store"}
PlayerPCs == {"boot", "idle", "acquire", "look", "choose", "read", "play",
              "done", "drain", "drainReturn"}
SketchPCs == {"idle", "clearSize", "clearDone", "listen"}

Init ==
    /\ wav_play_size = 0 /\ wav_rcv_done = FALSE
    /\ wavRing = EmptyRing /\ sound_player_state = 0
    /\ handler = [pc |-> "ready", loaded |-> 0, frame |-> 0, frames |-> 0]
    /\ player = [pc |-> "boot", seen |-> 0, play_bytes |-> 0, timeout_cnt |-> 0]
    /\ sketch = [pc |-> "idle", requests |-> 0, owed |-> 0]
    /\ abandoned = FALSE

-----------------------------------------------------------------------------
(* websocket_event_handler                                                 *)

HandlerAt(pc, next) ==
    handler.pc = pc /\ handler' = [handler EXCEPT !.pc = next]

\* "W": the size is cleared, then the end mark.  The answer before it may not
\* have had its "E".
AnnounceSize ==
    /\ HandlerAt("ready", "announced") \/ HandlerAt("stream", "announced")
    /\ sketch.owed > 0
    /\ sketch' = [sketch EXCEPT !.owed = @ - 1]
    /\ wav_play_size' = 0
    /\ UNCHANGED <<wav_rcv_done, wavRing, sound_player_state, player,
                   abandoned>>

AnnounceDone ==
    /\ handler.pc = "announced"
    /\ handler' = [handler EXCEPT !.pc = "stream", !.frames = 0]
    /\ wav_rcv_done' = FALSE
    /\ UNCHANGED <<wav_play_size, wavRing, sound_player_state, player, sketch,
                   abandoned>>

\* A binary frame: it enters the ring whole ...
FrameStored ==
    /\ handler.pc = "stream" /\ handler.frames < Frames
    /\ \E n \in FrameSizes :
         /\ n <= FreeSize(wavRing, MaxWav)
         /\ wavRing' = Put(wavRing, n, MaxWav)
         /\ handler' = [handler EXCEPT !.pc = "load", !.frame = n,
                                       !.frames = @ + 1]
    /\ UNCHANGED <<size, sound_player_state, player, sketch, abandoned>>

\* ... or finds no room for 4 ms and is lost ("X").
FrameLost ==
    /\ handler.pc = "stream" /\ handler.frames < Frames
    /\ \E n \in FrameSizes : n > FreeSize(wavRing, MaxWav)
    /\ handler' = [handler EXCEPT !.frames = @ + 1]
    /\ UNCHANGED <<size, wavRing, sound_player_state, player, sketch,
                   abandoned>>

\* wav_play_size += rcv_data_len, a load and a store another core's reset can
\* fall between.
LoadSize ==
    /\ handler.pc = "load"
    /\ handler' = [handler EXCEPT !.pc = "store", !.loaded = wav_play_size]
    /\ UNCHANGED <<size, wavRing, sound_player_state, player, sketch,
                   abandoned>>

\* Mutated: the frame's size is assigned, not added.
Store(base) ==
    /\ HandlerAt("store", "stream")
    /\ wav_play_size' = base + handler.frame
    /\ UNCHANGED <<wav_rcv_done, wavRing, sound_player_state, player, sketch,
                   abandoned>>

StoreFrameSize == Store(0)

StoreSize == Store(handler.loaded)

\* "E"
EndOfAnswer ==
    /\ HandlerAt("stream", "ready")
    /\ wav_rcv_done' = TRUE
    /\ UNCHANGED <<wav_play_size, wavRing, sound_player_state, player, sketch,
                   abandoned>>

Handler ==
    \/ AnnounceSize \/ AnnounceDone \/ FrameStored \/ FrameLost
    \/ LoadSize \/ StoreSize \/ EndOfAnswer

-----------------------------------------------------------------------------
(* SoundPlayTask                                                           *)

PlayerAt(pc, next) == player.pc = pc /\ player' = [player EXCEPT !.pc = next]

\* A step of the player's own, without effect on the ring or the semaphore.
Step(pc, next) ==
    /\ PlayerAt(pc, next)
    /\ UNCHANGED <<size, wavRing, sound_player_state, handler, sketch,
                   abandoned>>

Boot ==
    /\ PlayerAt("boot", "idle")
    /\ sound_player_state' = 1
    /\ UNCHANGED <<size, wavRing, handler, sketch, abandoned>>

Noticed ==
    MaxWav - FreeSize(wavRing, MaxWav) > StartAt /\ Step("idle", "acquire")

\* The semaphore is taken, or its absence ignored.
Acquire ==
    /\ player.pc = "acquire"
    /\ player' = [player EXCEPT !.pc = "look", !.play_bytes = 0,
                                !.timeout_cnt = 0]
    /\ sound_player_state' = 0
    /\ UNCHANGED <<size, wavRing, handler, sketch, abandoned>>

\* The end of an iteration, with played bytes and timeout_cnt n by now.
Iterate(played, n) ==
    /\ player' = [player EXCEPT !.pc = IF n > Patience THEN "drain" ELSE "look",
                                !.play_bytes = played, !.timeout_cnt = n]
    /\ abandoned' = (abandoned \/ n > Patience)

\* An iteration at pc that only waits.
Wait(pc, cost) ==
    /\ player.pc = pc
    /\ Iterate(player.play_bytes, player.timeout_cnt + cost)
    /\ UNCHANGED <<size, wavRing, sound_player_state, handler, sketch>>

\* The three conditions of an iteration.  The build loads each of the two
\* variables once: wav_play_size first, and wav_rcv_done only where that decides.
LookSize ==
    /\ player.pc = "look"
    /\ player' = [player EXCEPT !.pc = "choose", !.seen = wav_play_size]
    /\ UNCHANGED <<size, wavRing, sound_player_state, handler, sketch,
                   abandoned>>

Buffered == player.seen >= Prebuffer

\* Mutated: the piece about to be read is left out of the comparison.
PastTheEnd == player.play_bytes > player.seen

LastPiece == player.play_bytes + Piece > player.seen

WaitForBuffer == ~Buffered /\ ~wav_rcv_done /\ Wait("choose", 1)

\* Mutated: waiting for more data is not counted.
WaitForMoreForEver ==
    Buffered /\ LastPiece /\ ~wav_rcv_done /\ Wait("choose", 0)

WaitForMore == Buffered /\ LastPiece /\ ~wav_rcv_done /\ Wait("choose", 1)

PlayedAll == LastPiece /\ wav_rcv_done /\ Step("choose", "done")

MoreToPlay ==
    ~LastPiece /\ (Buffered \/ wav_rcv_done) /\ Step("choose", "read")

ReadPiece ==
    /\ PlayerAt("read", "play") /\ Receivable(wavRing)
    /\ wavRing' = Take(wavRing, Least(Piece, Contiguous(wavRing, MaxWav)),
                       MaxWav)
    /\ UNCHANGED <<size, sound_player_state, handler, sketch, abandoned>>

ReadNothing == ~Receivable(wavRing) /\ Wait("read", EmptyCost)

\* Written to the I2S speaker (an odd piece is skipped) and returned.
Play ==
    /\ player.pc = "play"
    /\ wavRing' = Return(wavRing)
    /\ Iterate(player.play_bytes + wavRing.held, 0)
    /\ UNCHANGED <<size, sound_player_state, handler, sketch>>

Finish == Step("done", "drain")

\* What is left in the ring is thrown away (the code takes it in pieces of 100
\* bytes, here in one).
DrainTake ==
    /\ PlayerAt("drain", "drainReturn") /\ Receivable(wavRing)
    /\ wavRing' = Take(wavRing, Contiguous(wavRing, MaxWav), MaxWav)
    /\ UNCHANGED <<size, sound_player_state, handler, sketch, abandoned>>

DrainReturn ==
    /\ PlayerAt("drainReturn", "drain")
    /\ wavRing' = Return(wavRing)
    /\ UNCHANGED <<size, sound_player_state, handler, sketch, abandoned>>

Release ==
    /\ PlayerAt("drain", "idle") /\ ~Receivable(wavRing)
    /\ sound_player_state' = 1
    /\ UNCHANGED <<size, wavRing, handler, sketch, abandoned>>

Player ==
    \/ Boot \/ Noticed \/ Acquire \/ LookSize \/ WaitForBuffer
    \/ WaitForMore \/ PlayedAll \/ MoreToPlay
    \/ ReadPiece \/ ReadNothing \/ Play \/ Finish
    \/ DrainTake \/ DrainReturn \/ Release

-----------------------------------------------------------------------------
(* SpeechRec, as far as it touches playing                                 *)

SketchAt(pc, next) == sketch.pc = pc /\ sketch' = [sketch EXCEPT !.pc = next]

\* check_sound_play finds no playback; nothing keeps one from starting after.
Record ==
    /\ sketch.pc = "idle" /\ sketch.requests < Requests
    /\ sound_player_state = 1
    /\ sketch' = [sketch EXCEPT !.pc = "clearSize", !.requests = @ + 1]
    /\ UNCHANGED <<size, wavRing, sound_player_state, handler, player,
                   abandoned>>

\* Its sender clears both variables and, in the end, asks for an answer.
\* Mutated: a sentinel for "unknown" instead of zero.
Clear(value) ==
    /\ SketchAt("clearSize", "clearDone")
    /\ wav_play_size' = value
    /\ UNCHANGED <<wav_rcv_done, wavRing, sound_player_state, handler, player,
                   abandoned>>

ClearSizeToSentinel == Clear(-1)

ClearSize == Clear(0)

ClearDone ==
    /\ sketch.pc = "clearDone"
    /\ wav_rcv_done' = FALSE
    /\ sketch' = [sketch EXCEPT !.pc = "listen", !.owed = @ + 1]
    /\ UNCHANGED <<wav_play_size, wavRing, sound_player_state, handler, player,
                   abandoned>>

\* SpeechRec waits three seconds for a playback to start and at most ten more
\* for it to end, then returns either way.
ReturnToSketch ==
    /\ SketchAt("listen", "idle")
    /\ UNCHANGED <<size, wavRing, sound_player_state, handler, player,
                   abandoned>>

Sketch == Record \/ ClearSize \/ ClearDone \/ ReturnToSketch

Next == Handler \/ Player \/ Sketch

Spec == Init /\ [][Next]_vars

\* Only the player's task is relied on: the server may stall for ever.
FairSpec == Spec /\ WF_vars(Player)

-----------------------------------------------------------------------------
(* Properties.                                                             *)

\* Every variable keeps its type.
TypeOK ==
    /\ wav_play_size \in Nat /\ wav_rcv_done \in BOOLEAN
    /\ wavRing \in Rings(MaxWav) /\ sound_player_state \in 0..1
    /\ handler \in [pc : HandlerPCs, loaded : Nat, frame : Nat,
                    frames : 0..Frames]
    /\ player \in [pc : PlayerPCs, seen : Nat, play_bytes : Nat,
                   timeout_cnt : Nat]
    /\ sketch \in [pc : SketchPCs, requests : 0..Requests, owed : 0..Requests]
    /\ abandoned \in BOOLEAN

\* A playback that ends because the answer has been received and played leaves
\* less than one piece of it unplayed (the third case of the player's loop), but
\* for what came after it looked how much was received: the end mark, looked at
\* later, may overtake the last frames.
AlmostAllPlayed ==
    player.pc = "done" => wavRing.stored < Piece + (wav_play_size - player.seen)

\* It does as long as no second recording has cleared the counters.
FirstAnswerPlayed == sketch.requests <= 1 => AlmostAllPlayed

\* The player of a first answer reads only when a whole piece is there, until a
\* playback has been abandoned, although the handler stores a frame before it
\* counts it and the player never asks the ring how full it is.
WholePieceThere ==
    sketch.requests <= 1 /\ ~abandoned /\ player.pc = "read" =>
        wavRing.stored >= Piece

\* The player always gives sound_player_state back, whether the server ends the
\* answer, stalls or falls silent, so that SpeechRec is not refused for ever.
PlayerComesBack == sound_player_state = 0 ~> sound_player_state = 1
=============================================================================
