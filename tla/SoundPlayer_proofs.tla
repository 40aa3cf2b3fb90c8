------------------------- MODULE SoundPlayer_proofs -------------------------
(***************************************************************************)
(* The player for every size, threshold and number of requests: its types, *)
(* and that it keeps its books on the first answer although it decides by  *)
(* two counters and never by what the ring holds.                          *)
(***************************************************************************)
EXTENDS SoundPlayer, TLAPS

\* What one item of the ring can cover; and every operation leaves a ring.
LEMMA RingSteps ==
  ASSUME wavRing \in Rings(MaxWav), MaxWav \in Nat \ {0}
  PROVE  /\ Contiguous(wavRing, MaxWav) \in 0..MaxWav
         /\ Contiguous(wavRing, MaxWav) <= wavRing.stored
         /\ Contiguous(wavRing, MaxWav) <= MaxWav - wavRing.rd
         /\ wavRing.stored > 0 => Contiguous(wavRing, MaxWav) > 0
         /\ \A n \in Nat : Put(wavRing, n, MaxWav) \in Rings(MaxWav)
         /\ \A n \in 0..Contiguous(wavRing, MaxWav) :
               Take(wavRing, n, MaxWav) \in Rings(MaxWav)
         /\ Return(wavRing) \in Rings(MaxWav) /\ Return(wavRing).stored = wavRing.stored
<1>1. /\ Contiguous(wavRing, MaxWav) \in 0..MaxWav
      /\ Contiguous(wavRing, MaxWav) <= wavRing.stored
      /\ Contiguous(wavRing, MaxWav) <= MaxWav - wavRing.rd
      /\ wavRing.stored > 0 => Contiguous(wavRing, MaxWav) > 0
  BY DEF Contiguous, Least, Rings
<1>2. ASSUME NEW n \in Nat PROVE Put(wavRing, n, MaxWav) \in Rings(MaxWav)
  BY DEF Put, FreeSize, Rings
<1>3. ASSUME NEW n \in 0..Contiguous(wavRing, MaxWav)
      PROVE  Take(wavRing, n, MaxWav) \in Rings(MaxWav)
  BY <1>1 DEF Take, Rings
<1>4. Return(wavRing) \in Rings(MaxWav) /\ Return(wavRing).stored = wavRing.stored
  BY DEF Return, Rings
<1> QED
  BY <1>1, <1>2, <1>3, <1>4

\* The initial state is well typed.
LEMMA InitType == Init => TypeOK
<1> SUFFICES ASSUME Init PROVE TypeOK
  OBVIOUS
<1>1. wavRing \in Rings(MaxWav)
  BY PlayerAssumption DEF Init, EmptyRing, Rings
<1>2. wav_rcv_done \in BOOLEAN /\ abandoned \in BOOLEAN
  BY DEF Init
<1> QED
  BY <1>1, <1>2, PlayerAssumption
  DEF Init, TypeOK, HandlerPCs, PlayerPCs, SketchPCs

HandlerTypes == [pc : HandlerPCs, loaded : Nat, frame : Nat, frames : 0..Frames]
PlayerTypes ==
  [pc : PlayerPCs, seen : Nat, play_bytes : Nat, timeout_cnt : Nat]
SketchTypes == [pc : SketchPCs, requests : 0..Requests, owed : 0..Requests]

\* A step of the handler keeps the types.
LEMMA HandlerType == TypeOK /\ Handler => TypeOK'
<1> SUFFICES ASSUME TypeOK, Handler PROVE TypeOK'
  OBVIOUS
<1> USE PlayerAssumption DEF TypeOK, size, HandlerAt, HandlerPCs
<1>1. CASE AnnounceSize
  BY <1>1 DEF AnnounceSize
<1>2. CASE AnnounceDone
  <2>1. 0 \in 0..Frames
    OBVIOUS
  <2>2. handler' \in HandlerTypes
    BY <1>2, <2>1 DEF AnnounceDone, HandlerTypes
  <2> QED
    BY <1>2, <2>2 DEF AnnounceDone, HandlerTypes
<1>3. CASE FrameStored
  <2>1. PICK n \in FrameSizes :
          /\ wavRing' = Put(wavRing, n, MaxWav)
          /\ handler' = [handler EXCEPT !.pc = "load", !.frame = n, !.frames = @ + 1]
    BY <1>3 DEF FrameStored
  <2>2. n \in Nat /\ wavRing' \in Rings(MaxWav)
    BY <2>1, RingSteps
  <2>3. handler.frames + 1 \in 0..Frames
    BY <1>3 DEF FrameStored
  <2>4. handler' \in HandlerTypes
    BY <2>1, <2>2, <2>3 DEF HandlerTypes
  <2> QED
    BY <1>3, <2>2, <2>4 DEF FrameStored, HandlerTypes
<1>4. CASE FrameLost
  BY <1>4 DEF FrameLost
<1>5. CASE LoadSize
  BY <1>5 DEF LoadSize
<1>6. CASE StoreSize
  BY <1>6 DEF StoreSize, Store
<1>7. CASE EndOfAnswer
  BY <1>7 DEF EndOfAnswer
<1> QED
  BY <1>1, <1>2, <1>3, <1>4, <1>5, <1>6, <1>7 DEF Handler

\* The end of an iteration of the player's loop.
LEMMA IterateType ==
  ASSUME NEW played \in Nat, NEW n \in Nat, Iterate(played, n),
         player \in PlayerTypes, abandoned \in BOOLEAN
  PROVE  player' \in PlayerTypes /\ abandoned' \in BOOLEAN
<1>1. player' \in PlayerTypes
  BY DEF Iterate, PlayerTypes, PlayerPCs
<1>2. abandoned' \in BOOLEAN
  BY DEF Iterate
<1> QED
  BY <1>1, <1>2

\* A step of the player keeps the types.
LEMMA PlayerType == TypeOK /\ Player => TypeOK'
<1> SUFFICES ASSUME TypeOK, Player PROVE TypeOK'
  OBVIOUS
<1>1. /\ player \in PlayerTypes /\ abandoned \in BOOLEAN /\ wavRing \in Rings(MaxWav)
      /\ MaxWav \in Nat \ {0} /\ EmptyCost \in Nat /\ Piece \in Nat
  BY PlayerAssumption DEF TypeOK, PlayerTypes
<1> SUFFICES /\ player' \in PlayerTypes /\ abandoned' \in BOOLEAN
             /\ wavRing' \in Rings(MaxWav) /\ sound_player_state' \in 0..1
             /\ UNCHANGED <<size, handler, sketch>>
  BY DEF TypeOK, PlayerTypes, size
<1> USE <1>1 DEF TypeOK, PlayerAt, PlayerTypes, PlayerPCs
<1>2. CASE Boot
  BY <1>2 DEF Boot
<1>3. CASE Noticed \/ PlayedAll \/ MoreToPlay \/ Finish
  BY <1>3 DEF Noticed, PlayedAll, MoreToPlay, Finish, Step
<1>4. CASE Acquire \/ LookSize
  <2>1. CASE Acquire
    <3>1. /\ player' = [player EXCEPT !.pc = "look", !.play_bytes = 0,
                                      !.timeout_cnt = 0]
          /\ sound_player_state' = 0 /\ UNCHANGED <<size, handler, sketch>>
          /\ wavRing' = wavRing /\ abandoned' = abandoned
      BY <2>1 DEF Acquire
    <3>2. player' \in PlayerTypes
      BY <3>1
    <3> QED
      BY <3>1, <3>2
  <2>2. CASE LookSize
    BY <2>2 DEF LookSize
  <2> QED
    BY <1>4, <2>1, <2>2
<1>5. CASE WaitForBuffer \/ WaitForMore \/ ReadNothing
  <2>1. PICK cost \in {1, EmptyCost} :
          /\ Iterate(player.play_bytes, player.timeout_cnt + cost)
          /\ UNCHANGED <<size, wavRing, sound_player_state, handler, sketch>>
    BY <1>5 DEF WaitForBuffer, WaitForMore, ReadNothing, Wait
  <2>2. player.play_bytes \in Nat /\ player.timeout_cnt + cost \in Nat
    OBVIOUS
  <2>3. player' \in PlayerTypes /\ abandoned' \in BOOLEAN
    BY <2>1, <2>2, IterateType
  <2> QED
    BY <2>1, <2>3
<1>6. CASE ReadPiece
  <2>1. Least(Piece, Contiguous(wavRing, MaxWav)) \in 0..Contiguous(wavRing, MaxWav)
    BY RingSteps DEF Least
  <2>2. wavRing' \in Rings(MaxWav)
    BY <1>6, <2>1, RingSteps DEF ReadPiece
  <2> QED
    BY <1>6, <2>2 DEF ReadPiece
<1>7. CASE Play
  <2>1. player.play_bytes + wavRing.held \in Nat
    BY DEF Rings
  <2>2. player' \in PlayerTypes /\ abandoned' \in BOOLEAN
    BY <1>7, <2>1, IterateType DEF Play
  <2>3. wavRing' \in Rings(MaxWav)
    BY <1>7, RingSteps DEF Play
  <2> QED
    BY <1>7, <2>2, <2>3 DEF Play
<1>8. CASE DrainTake
  <2>1. Contiguous(wavRing, MaxWav) \in 0..Contiguous(wavRing, MaxWav)
    BY RingSteps
  <2>2. wavRing' \in Rings(MaxWav)
    BY <1>8, <2>1, RingSteps DEF DrainTake
  <2> QED
    BY <1>8, <2>2 DEF DrainTake
<1>9. CASE DrainReturn
  <2>1. wavRing' \in Rings(MaxWav)
    BY <1>9, RingSteps DEF DrainReturn
  <2> QED
    BY <1>9, <2>1 DEF DrainReturn
<1>10. CASE Release
  BY <1>10 DEF Release
<1> QED
  BY <1>2, <1>3, <1>4, <1>5, <1>6, <1>7, <1>8, <1>9, <1>10 DEF Player

\* An answer is owed for a recording, and no more than were made.
Owed ==
    sketch.owed + (IF sketch.pc \in {"clearSize", "clearDone"} THEN 1 ELSE 0)
        <= sketch.requests

\* A step of the sketch keeps the types.
LEMMA SketchType == TypeOK /\ Owed /\ Sketch => TypeOK'
<1> SUFFICES ASSUME TypeOK, Owed, Sketch PROVE TypeOK'
  OBVIOUS
<1> USE PlayerAssumption DEF TypeOK, size, SketchAt, SketchPCs
<1>1. CASE Record
  <2>1. sketch.requests + 1 \in 0..Requests
    BY <1>1 DEF Record
  <2>2. sketch' \in SketchTypes
    BY <1>1, <2>1 DEF Record, SketchTypes
  <2> QED
    BY <1>1, <2>2 DEF Record, SketchTypes
<1>2. CASE ClearSize
  BY <1>2 DEF ClearSize, Clear
<1>3. CASE ClearDone
  <2>1. sketch.owed + 1 \in 0..Requests
    BY <1>3 DEF ClearDone, Owed
  <2>2. sketch' \in SketchTypes
    BY <1>3, <2>1 DEF ClearDone, SketchTypes
  <2> QED
    BY <1>3, <2>2 DEF ClearDone, SketchTypes
<1>4. CASE ReturnToSketch
  BY <1>4 DEF ReturnToSketch
<1> QED
  BY <1>1, <1>2, <1>3, <1>4 DEF Sketch

\* One answer is asked for by each recording.
LEMMA OwedKept == TypeOK /\ Owed /\ [Next]_vars => Owed'
<1> SUFFICES ASSUME TypeOK, Owed, [Next]_vars PROVE Owed'
  OBVIOUS
<1>1. sketch \in SketchTypes /\ Requests \in Nat
  BY PlayerAssumption DEF TypeOK, SketchTypes
<1>2. CASE Handler
  <2>1. sketch' = sketch \/ sketch' = [sketch EXCEPT !.owed = @ - 1]
    BY <1>2 DEF Handler, AnnounceSize, AnnounceDone, FrameStored, FrameLost,
                LoadSize, StoreSize, Store, EndOfAnswer
  <2> QED
    BY <1>1, <2>1 DEF Owed, SketchTypes
<1>3. CASE Player
  <2>1. sketch' = sketch
    BY <1>3 DEF Player, Boot, Noticed, Acquire, LookSize,
       WaitForBuffer, WaitForMore, PlayedAll, MoreToPlay, ReadPiece, ReadNothing,
       Play, Finish, DrainTake, DrainReturn, Release, Wait, Step
  <2> QED
    BY <2>1 DEF Owed
<1>4. CASE Sketch
  <2> USE <1>1 DEF SketchAt, Owed, SketchTypes
  <2>1. CASE Record
    BY <2>1 DEF Record
  <2>2. CASE ClearSize
    BY <2>2 DEF ClearSize, Clear
  <2>3. CASE ClearDone
    BY <2>3 DEF ClearDone
  <2>4. CASE ReturnToSketch
    BY <2>4 DEF ReturnToSketch
  <2> QED
    BY <1>4, <2>1, <2>2, <2>3, <2>4 DEF Sketch
<1>5. CASE UNCHANGED vars
  BY <1>5 DEF vars, Owed
<1> QED
  BY <1>2, <1>3, <1>4, <1>5 DEF Next

\* The types are inductive with the bound on the answers owed.
LEMMA TypesKept == TypeOK /\ Owed /\ [Next]_vars => TypeOK' /\ Owed'
<1>1. TypeOK /\ UNCHANGED vars => TypeOK'
  BY DEF TypeOK, vars, size
<1> QED
  BY <1>1, HandlerType, PlayerType, SketchType, OwedKept DEF Next

\* Every reachable state is well typed.
THEOREM TypeCorrect == Spec => []TypeOK
<1>1. Init => TypeOK /\ Owed
  BY InitType DEF Init, Owed
<1> QED
  BY <1>1, TypesKept, PTL DEF Spec

-----------------------------------------------------------------------------
(* The first answer.                                                       *)

\* What is stored in the ring and not counted yet.
Pending == IF handler.pc \in {"load", "store"} THEN handler.frame ELSE 0

\* What the playback under way has played; there is none at the start.
Played == IF player.pc \in {"boot", "idle", "acquire"} THEN 0
          ELSE player.play_bytes

Unanswered ==
    \/ sketch.requests = 0 \/ sketch.owed > 0
    \/ sketch.pc \in {"clearSize", "clearDone"}

\* Until the first answer is announced there is nothing to play, whenever the
\* sender clears the counters.
Fresh ==
    /\ wav_play_size = 0 /\ ~wav_rcv_done /\ wavRing.stored = 0 /\ wavRing.held = 0
    /\ handler.pc = "ready" /\ player.pc \in {"boot", "idle"}

\* The end mark comes last, and nobody writes between a load and its store.
InOrder ==
    /\ wav_rcv_done => handler.pc = "ready"
    /\ handler.pc = "store" => handler.loaded = wav_play_size
    /\ wavRing.held > 0 => player.pc \in {"play", "drainReturn"}

Ended == wav_rcv_done /\ wavRing.stored = 0 /\ player.pc = "idle"

\* What was played, is in the player's hands or in the ring was counted or is
\* about to be; all of what was counted, until the ring is emptied.
Books ==
    LET there == Played + wavRing.stored + wavRing.held
    IN  /\ there <= wav_play_size + Pending
        /\ abandoned \/ Ended \/ player.pc \in {"drain", "drainReturn"}
           \/ there = wav_play_size + Pending

\* What the player saw of the size is not more than it is, and what it decided
\* by that holds when it acts on it.
Decided ==
    /\ player.pc \in {"choose", "read", "done"} => player.seen <= wav_play_size
    /\ player.pc = "read" => ~LastPiece
    /\ player.pc = "done" => LastPiece /\ wav_rcv_done
    /\ player.pc \in {"drain", "drainReturn"} => abandoned \/ wav_rcv_done

FirstInv ==
    sketch.requests <= 1 =>
        (Unanswered => Fresh) /\ InOrder /\ Books /\ Decided

\* The types the arithmetic below needs.
LEMMA Counts ==
  ASSUME TypeOK
  PROVE  /\ Played \in Nat /\ Pending \in Nat /\ wav_play_size \in Nat
         /\ wavRing \in Rings(MaxWav) /\ MaxWav \in Nat \ {0}
         /\ wavRing.stored \in Nat /\ wavRing.held \in Nat
         /\ player \in PlayerTypes /\ player.play_bytes \in Nat
         /\ player.seen \in Nat
         /\ handler \in HandlerTypes /\ handler.frame \in Nat /\ handler.loaded \in Nat
         /\ sketch \in SketchTypes /\ sketch.requests \in Nat /\ sketch.owed \in Nat
         /\ Piece \in Nat \ {0} /\ StartAt \in Nat /\ Patience \in Nat
BY PlayerAssumption
DEF TypeOK, Rings, Played, Pending, PlayerTypes, HandlerTypes, SketchTypes

\* The first call's own part of the invariant.
FirstParts == (Unanswered => Fresh) /\ InOrder /\ Books /\ Decided

\* Nothing was asked, stored or played.
LEMMA InitFirst == Init => FirstInv
BY DEF Init, FirstInv, Unanswered, Fresh, InOrder, Books, Decided, Played, Pending,
       EmptyRing

\* The handler stores a frame before it counts it, and writes the end mark last.
LEMMA HandlerFirst == TypeOK /\ Owed /\ FirstInv /\ Handler => FirstInv'
<1> SUFFICES ASSUME TypeOK, Owed, FirstInv, Handler, sketch'.requests <= 1
             PROVE  FirstParts'
  BY DEF FirstInv, FirstParts
<1>1. sketch'.requests = sketch.requests /\ player' = player /\ abandoned' = abandoned
  <2>1. sketch' = sketch \/ sketch' = [sketch EXCEPT !.owed = @ - 1]
    BY DEF Handler, AnnounceSize, AnnounceDone, FrameStored, FrameLost,
           LoadSize, StoreSize, Store, EndOfAnswer
  <2>2. player' = player /\ abandoned' = abandoned
    BY DEF Handler, AnnounceSize, AnnounceDone, FrameStored, FrameLost,
           LoadSize, StoreSize, Store, EndOfAnswer
  <2> QED
    BY <2>1, <2>2, Counts DEF SketchTypes
<1>2. FirstParts /\ sketch.requests <= 1
  BY <1>1 DEF FirstInv, FirstParts
<1> USE Counts, <1>1, <1>2 DEF FirstParts, HandlerTypes, HandlerAt
<1>3. CASE AnnounceSize
  <2>1. /\ sketch.owed > 0 /\ sketch'.owed = sketch.owed - 1
        /\ sketch'.pc = sketch.pc
        /\ handler'.pc = "announced" /\ wav_play_size' = 0
        /\ wavRing' = wavRing /\ wav_rcv_done' = wav_rcv_done
    BY <1>3 DEF AnnounceSize, SketchTypes
  <2>2. Fresh
    BY <2>1 DEF Unanswered
  <2>3. ~Unanswered'
    BY <2>1 DEF Owed, Unanswered
  <2> QED
    BY <2>1, <2>2, <2>3
    DEF Fresh, InOrder, Books, Decided, Played, Pending
<1>4. ASSUME handler.pc # "ready", sketch' = sketch PROVE ~Unanswered' /\ ~wav_rcv_done
  BY <1>4 DEF Fresh, InOrder, Unanswered
<1>5. CASE AnnounceDone
  <2>1. /\ handler.pc = "announced" /\ handler'.pc = "stream"
        /\ wavRing' = wavRing /\ wav_play_size' = wav_play_size /\ ~wav_rcv_done'
        /\ sketch' = sketch
    BY <1>5 DEF AnnounceDone
  <2> QED
    BY <1>4, <2>1 DEF InOrder, Books, Decided, Played, Pending, Ended, LastPiece
<1>6. CASE FrameStored
  <2>1. PICK n \in FrameSizes :
          /\ n <= FreeSize(wavRing, MaxWav)
          /\ wavRing' = Put(wavRing, n, MaxWav)
          /\ handler' = [handler EXCEPT !.pc = "load", !.frame = n, !.frames = @ + 1]
    BY <1>6 DEF FrameStored
  <2>2. n \in Nat /\ n > 0
    BY PlayerAssumption
  <2>3. wavRing'.stored = wavRing.stored + n /\ wavRing'.held = wavRing.held
    BY <2>1 DEF Put, Rings
  <2>4. /\ handler.pc = "stream" /\ handler'.pc = "load" /\ handler'.frame = n
        /\ wav_play_size' = wav_play_size /\ wav_rcv_done' = wav_rcv_done
        /\ sketch' = sketch
    BY <1>6, <2>1 DEF FrameStored, size
  <2>5. Played' = Played /\ Pending = 0 /\ Pending' = n
    BY <2>4 DEF Played, Pending
  <2>6. Books'
    BY <1>4, <2>2, <2>3, <2>4, <2>5 DEF Books, Ended
  <2> QED
    BY <1>4, <2>3, <2>4, <2>6 DEF InOrder, Decided, LastPiece
<1>7. CASE FrameLost
  <2>1. /\ handler.pc = "stream" /\ handler'.pc = "stream"
        /\ wav_play_size' = wav_play_size /\ wav_rcv_done' = wav_rcv_done
        /\ sketch' = sketch /\ wavRing' = wavRing
    BY <1>7 DEF FrameLost, size
  <2> QED
    BY <1>4, <2>1 DEF InOrder, Books, Decided, Played, Pending, Ended, LastPiece
<1>8. CASE LoadSize
  <2>1. /\ handler.pc = "load" /\ handler'.pc = "store"
        /\ handler'.loaded = wav_play_size /\ handler'.frame = handler.frame
        /\ wav_play_size' = wav_play_size /\ wav_rcv_done' = wav_rcv_done
        /\ sketch' = sketch /\ wavRing' = wavRing
    BY <1>8 DEF LoadSize, size
  <2> QED
    BY <1>4, <2>1 DEF InOrder, Books, Decided, Played, Pending, Ended, LastPiece
<1>9. CASE StoreSize
  <2>1. /\ handler.pc = "store" /\ handler'.pc = "stream"
        /\ wav_play_size' = handler.loaded + handler.frame
        /\ wav_rcv_done' = wav_rcv_done /\ sketch' = sketch /\ wavRing' = wavRing
    BY <1>9 DEF StoreSize, Store
  <2>2. wav_play_size' = wav_play_size + handler.frame
    BY <2>1 DEF InOrder
  <2>3. Played' = Played /\ Pending = handler.frame /\ Pending' = 0
    BY <2>1 DEF Played, Pending
  <2>4. Books'
    BY <1>4, <2>1, <2>2, <2>3 DEF Books, Ended
  <2>5. Decided'
    BY <1>4, <2>1, <2>2 DEF Decided, LastPiece
  <2> QED
    BY <1>4, <2>1, <2>4, <2>5 DEF InOrder
<1>10. CASE EndOfAnswer
  <2>1. /\ handler.pc = "stream" /\ handler'.pc = "ready"
        /\ wav_play_size' = wav_play_size /\ wav_rcv_done'
        /\ sketch' = sketch /\ wavRing' = wavRing
    BY <1>10 DEF EndOfAnswer
  <2> QED
    BY <1>4, <2>1 DEF InOrder, Books, Decided, Played, Pending, Ended, LastPiece
<1> QED
  BY <1>3, <1>5, <1>6, <1>7, <1>8, <1>9, <1>10 DEF Handler

\* The sketch clears the counters of a first answer only while there is nothing
\* to count.
LEMMA SketchFirst == TypeOK /\ Owed /\ FirstInv /\ Sketch => FirstInv'
<1> SUFFICES ASSUME TypeOK, Owed, FirstInv, Sketch, sketch'.requests <= 1
             PROVE  FirstParts'
  BY DEF FirstInv, FirstParts
<1>1. /\ player' = player /\ abandoned' = abandoned
      /\ handler' = handler /\ wavRing' = wavRing
  BY DEF Sketch, Record, ClearSize, Clear, ClearDone, ReturnToSketch
<1> USE Counts DEF SketchAt, SketchTypes
<1>2. sketch.requests <= 1
  <2>1. CASE Record
    BY <2>1 DEF Record
  <2>2. CASE ClearSize
    BY <2>2 DEF ClearSize, Clear
  <2>3. CASE ClearDone
    BY <2>3 DEF ClearDone
  <2>4. CASE ReturnToSketch
    BY <2>4 DEF ReturnToSketch
  <2> QED
    BY <2>1, <2>2, <2>3, <2>4 DEF Sketch
<1>3. FirstParts
  BY <1>2 DEF FirstInv, FirstParts
<1>4. UNCHANGED size
  <2>1. CASE Record \/ ReturnToSketch
    BY <2>1 DEF Record, ReturnToSketch
  <2>2. CASE ClearSize
    BY <1>3, <2>2 DEF ClearSize, Clear, FirstParts, Unanswered, Fresh, size
  <2>3. CASE ClearDone
    BY <1>3, <2>3 DEF ClearDone, FirstParts, Unanswered, Fresh, size, TypeOK
  <2> QED
    BY <2>1, <2>2, <2>3 DEF Sketch
<1>5. Unanswered' => Unanswered
  <2>1. CASE Record
    BY <2>1 DEF Record, Unanswered
  <2>2. CASE ClearSize
    BY <2>2 DEF ClearSize, Clear, Unanswered
  <2>3. CASE ClearDone
    BY <2>3 DEF ClearDone, Unanswered
  <2>4. CASE ReturnToSketch
    BY <2>4 DEF ReturnToSketch, Unanswered
  <2> QED
    BY <2>1, <2>2, <2>3, <2>4 DEF Sketch
<1> QED
  BY <1>1, <1>3, <1>4, <1>5 DEF FirstParts, Fresh, InOrder, Books, Decided, Played,
     Pending, Ended, LastPiece, size

\* Where an iteration of the loop goes on.
LEMMA IterateFirst ==
  ASSUME NEW played \in Nat, NEW n \in Nat, Iterate(played, n),
         player \in PlayerTypes
  PROVE  /\ player'.play_bytes = played
         /\ player'.pc = "look" \/ (player'.pc = "drain" /\ abandoned' /\ n > Patience)
         /\ abandoned => abandoned'
BY DEF Iterate, PlayerTypes

\* A step of the player that leaves the ring alone and does not go where the
\* counters matter keeps its books.
LEMMA Onward ==
  ASSUME TypeOK, TypeOK', FirstParts, ~Unanswered, wavRing' = wavRing,
         wavRing.held = 0, ~Ended, player.pc \notin {"drain", "drainReturn"},
         UNCHANGED <<size, handler, sketch>>, Played' = Played,
         abandoned => abandoned', Decided'
  PROVE  FirstParts'
<1>1. ~Unanswered'
  BY DEF Unanswered
<1>2. Pending' = Pending /\ wav_play_size' = wav_play_size /\ wav_rcv_done' = wav_rcv_done
  BY DEF Pending, size
<1>3. Books'
  BY <1>2, Counts DEF FirstParts, Books
<1>4. InOrder'
  BY <1>2, Counts DEF FirstParts, InOrder
<1> QED
  BY <1>1, <1>3, <1>4 DEF FirstParts

\* The player goes by the counters alone; what they say of the ring is true.
LEMMA PlayerFirst == TypeOK /\ FirstInv /\ Player => FirstInv'
<1> SUFFICES ASSUME TypeOK, FirstInv, Player, sketch'.requests <= 1
             PROVE  FirstParts'
  BY DEF FirstInv, FirstParts
<1>1. UNCHANGED <<size, handler, sketch>>
  BY DEF Player, Boot, Noticed, Acquire, LookSize, WaitForBuffer,
     WaitForMore, PlayedAll, MoreToPlay, ReadPiece, ReadNothing,
     Play, Finish, DrainTake, DrainReturn, Release, Wait, Step
<1>2. FirstParts /\ TypeOK'
  BY <1>1, PlayerType DEF FirstInv, FirstParts
<1>3. /\ wav_play_size' = wav_play_size /\ wav_rcv_done' = wav_rcv_done
      /\ Pending' = Pending /\ Unanswered' = Unanswered /\ handler' = handler
  BY <1>1 DEF size, Pending, Unanswered
<1> USE Counts, <1>1, <1>2, <1>3 DEF PlayerAt, PlayerTypes
<1>4. CASE Unanswered
  <2>1. Fresh
    BY <1>4 DEF FirstParts
  <2>2. Boot
    BY <2>1 DEF Fresh, Player, Noticed, FreeSize, Acquire, LookSize,
       WaitForBuffer, WaitForMore, PlayedAll, MoreToPlay, ReadPiece, ReadNothing,
       Play, Finish, DrainTake, DrainReturn, Release, Wait, Step
  <2>3. player'.pc = "idle" /\ wavRing' = wavRing /\ abandoned' = abandoned
    BY <2>2 DEF Boot
  <2>4. Fresh'
    BY <2>1, <2>3 DEF Fresh
  <2> QED
    BY <2>3, <2>4 DEF FirstParts, Fresh, InOrder, Books, Decided, Played, Pending
<1>5. CASE ~Unanswered /\ wavRing' = wavRing /\ player.pc \notin {"drain", "play", "drainReturn"}
  <2>1. wavRing.held = 0
    BY <1>5 DEF FirstParts, InOrder
  <2>2. /\ ~Ended /\ (abandoned => abandoned') /\ Played' = Played /\ Decided'
    <3>1. CASE Boot
      BY <3>1 DEF Boot, Ended, Played, Decided
    <3>2. CASE Noticed
      BY <2>1, <3>2 DEF Noticed, Step, FreeSize, Ended, Played, Decided
    <3>3. CASE Acquire
      BY <3>3 DEF Acquire, Ended, Played, Decided
    <3>4. CASE WaitForBuffer \/ WaitForMore \/ ReadNothing
      <4>1. PICK cost \in {1, EmptyCost} :
              Iterate(player.play_bytes, player.timeout_cnt + cost)
        BY <3>4 DEF WaitForBuffer, WaitForMore, ReadNothing, Wait
      <4>2. player.play_bytes \in Nat /\ player.timeout_cnt + cost \in Nat
        BY PlayerAssumption
      <4>3. player.pc \in {"choose", "read"}
        BY <3>4 DEF WaitForBuffer, WaitForMore, ReadNothing, Wait
      <4>4. /\ player'.play_bytes = player.play_bytes
            /\ player'.pc = "look" \/ (player'.pc = "drain" /\ abandoned')
            /\ abandoned => abandoned'
        BY <4>1, <4>2, IterateFirst
      <4> QED
        BY <4>3, <4>4 DEF Ended, Played, Decided
    <3>5. CASE LookSize
      BY <3>5 DEF LookSize, Ended, Played, Decided
    <3>6. CASE PlayedAll
      BY <3>6 DEF PlayedAll, Step, Ended, Played, Decided, LastPiece, FirstParts
    <3>7. CASE MoreToPlay
      BY <3>7 DEF MoreToPlay, Step, Ended, Played, Decided, LastPiece, FirstParts
    <3>8. CASE Finish
      BY <3>8 DEF Finish, Step, Ended, Played, Decided, FirstParts
    <3>9. ~ReadPiece
      BY <1>5, <2>1 DEF ReadPiece, Take, Receivable, Least, Contiguous, Rings
    <3> QED
      BY <1>5, <3>1, <3>2, <3>3, <3>4, <3>5, <3>6, <3>7, <3>8, <3>9
      DEF Player, Play, DrainTake, DrainReturn, Release
  <2> QED
    BY <1>5, <2>1, <2>2, Onward
<1>6. CASE ~Unanswered /\ ReadPiece
  <2> DEFINE n == Least(Piece, Contiguous(wavRing, MaxWav))
  <2>1. n \in Nat /\ n <= wavRing.stored
    BY RingSteps DEF Least
  <2>2. /\ wavRing'.stored = wavRing.stored - n /\ wavRing'.held = n
        /\ wavRing.held = 0
    BY <1>6 DEF ReadPiece, Take, Receivable
  <2>3. /\ player.pc = "read" /\ player'.pc = "play" /\ abandoned' = abandoned
        /\ player'.play_bytes = player.play_bytes
    BY <1>6 DEF ReadPiece
  <2> HIDE DEF n
  <2>4. Books'
    BY <2>1, <2>2, <2>3 DEF FirstParts, Books, Played, Ended
  <2> QED
    BY <1>6, <2>3, <2>4 DEF FirstParts, InOrder, Decided
<1>7. CASE ~Unanswered /\ Play
  <2>1. player.play_bytes + wavRing.held \in Nat /\ 0 \in Nat /\ ~(0 > Patience)
    OBVIOUS
  <2>2. Iterate(player.play_bytes + wavRing.held, 0) /\ wavRing' = Return(wavRing)
        /\ player.pc = "play"
    BY <1>7 DEF Play
  <2>3. /\ player'.play_bytes = player.play_bytes + wavRing.held
        /\ player'.pc = "look" /\ (abandoned => abandoned')
    BY <2>1, <2>2, IterateFirst
  <2>4. wavRing'.stored = wavRing.stored /\ wavRing'.held = 0
    BY <2>2 DEF Return, Rings
  <2>5. Books'
    BY <2>2, <2>3, <2>4 DEF FirstParts, Books, Played, Ended
  <2> QED
    BY <1>7, <2>3, <2>4, <2>5 DEF FirstParts, InOrder, Decided
<1>8. CASE ~Unanswered /\ DrainTake
  <2>1. Contiguous(wavRing, MaxWav) \in Nat /\ Contiguous(wavRing, MaxWav) <= wavRing.stored
    BY RingSteps
  <2>2. /\ wavRing'.stored = wavRing.stored - Contiguous(wavRing, MaxWav)
        /\ wavRing'.held = Contiguous(wavRing, MaxWav) /\ wavRing.held = 0
    BY <1>8 DEF DrainTake, Take, Receivable
  <2>3. /\ player.pc = "drain" /\ player'.pc = "drainReturn" /\ abandoned' = abandoned
        /\ player'.play_bytes = player.play_bytes
    BY <1>8 DEF DrainTake
  <2>4. Books'
    BY <2>1, <2>2, <2>3 DEF FirstParts, Books, Played
  <2> QED
    BY <1>8, <2>3, <2>4 DEF FirstParts, InOrder, Decided
<1>9. CASE ~Unanswered /\ DrainReturn
  <2>1. wavRing'.stored = wavRing.stored /\ wavRing'.held = 0
    BY <1>9 DEF DrainReturn, Return, Rings
  <2>2. /\ player.pc = "drainReturn" /\ player'.pc = "drain" /\ abandoned' = abandoned
        /\ player'.play_bytes = player.play_bytes
    BY <1>9 DEF DrainReturn
  <2>3. Books'
    BY <2>1, <2>2 DEF FirstParts, Books, Played
  <2> QED
    BY <1>9, <2>1, <2>2, <2>3 DEF FirstParts, InOrder, Decided
<1>10. CASE ~Unanswered /\ Release
  <2>1. /\ player.pc = "drain" /\ player'.pc = "idle" /\ abandoned' = abandoned
        /\ wavRing' = wavRing /\ ~Receivable(wavRing)
    BY <1>10 DEF Release
  <2>2. wavRing.held = 0 /\ wavRing.stored = 0
    BY <2>1 DEF FirstParts, InOrder, Receivable
  <2>3. Books'
    BY <2>1, <2>2 DEF FirstParts, Books, Played, Ended, Decided
  <2> QED
    BY <1>10, <2>1, <2>2, <2>3 DEF FirstParts, InOrder, Decided
<1>11. \/ wavRing' = wavRing /\ player.pc \notin {"drain", "play", "drainReturn"}
       \/ ReadPiece \/ Play \/ DrainTake \/ DrainReturn \/ Release
  BY DEF Player, Boot, Noticed, Acquire, LookSize, WaitForBuffer, WaitForMore,
     PlayedAll, MoreToPlay, ReadNothing, Finish, Wait, Step
<1> QED
  BY <1>4, <1>5, <1>6, <1>7, <1>8, <1>9, <1>10, <1>11

\* The invariant of the first answer.
LEMMA FirstInvariant == Spec => [](TypeOK /\ FirstInv)
<1>1. Init => TypeOK /\ Owed /\ FirstInv
  BY InitType, InitFirst DEF Init, Owed
<1>2. FirstInv /\ UNCHANGED vars => FirstInv'
  BY DEF FirstInv, Unanswered, Fresh, InOrder, Books, Decided, Played, Pending,
         Ended, LastPiece, vars, size
<1>3. TypeOK /\ Owed /\ FirstInv /\ [Next]_vars => TypeOK' /\ Owed' /\ FirstInv'
  BY <1>2, TypesKept, HandlerFirst, PlayerFirst, SketchFirst DEF Next
<1> QED
  BY <1>1, <1>3, PTL DEF Spec

\* A first answer that ends normally is played but for less than a piece and
\* what came while the player looked, whatever the thresholds, the frames and
\* the frames lost.
THEOREM FirstPlayed == Spec => []FirstAnswerPlayed
<1>1. TypeOK /\ FirstInv => FirstAnswerPlayed
  <2> SUFFICES ASSUME TypeOK, FirstInv, sketch.requests <= 1, player.pc = "done"
               PROVE  wavRing.stored < Piece + (wav_play_size - player.seen)
    BY DEF FirstAnswerPlayed, AlmostAllPlayed
  <2>1. /\ Books /\ LastPiece /\ wav_rcv_done /\ handler.pc = "ready"
    BY DEF FirstInv, Decided, InOrder
  <2>2. Pending = 0 /\ Played = player.play_bytes
    BY <2>1 DEF Pending, Played
  <2> QED
    BY <2>1, <2>2, Counts DEF Books, LastPiece
<1> QED
  BY <1>1, FirstInvariant, PTL

\* Until it gives up, the player of a first answer finds a whole piece when it
\* reads, although it never looks how full the ring is.
THEOREM PiecesThere == Spec => []WholePieceThere
<1>1. TypeOK /\ FirstInv => WholePieceThere
  <2> SUFFICES ASSUME TypeOK, FirstInv, sketch.requests <= 1, ~abandoned,
                      player.pc = "read"
               PROVE  wavRing.stored >= Piece
    BY DEF WholePieceThere
  <2>1. /\ Books /\ ~LastPiece /\ wavRing.held = 0
        /\ player.seen <= wav_play_size
    BY Counts DEF FirstInv, Decided, InOrder
  <2>2. player.play_bytes + wavRing.stored = wav_play_size + Pending
    BY <2>1, Counts DEF Books, Ended, Played
  <2> QED
    BY <2>1, <2>2, Counts DEF LastPiece
<1> QED
  BY <1>1, FirstInvariant, PTL
=============================================================================
