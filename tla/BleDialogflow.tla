--------------------------- MODULE BleDialogflow ---------------------------
(***************************************************************************)
(* DialogflowBlock_BLE, whose voice is recorded by a phone: SpeechRec only *)
(* asks it to ("REC").  The phone writes its answer to two characteristics:*)
(* "W" with the size to come, frames of sound, "E".  The Bluetooth task's  *)
(* callbacks put the frames into the ring wav_play; SoundPlayTask waits    *)
(* till a share of the announced size is there, plays, and then sets       *)
(* wav_total_size back to "unknown".  "E" sets wav_rcv_done, which nobody  *)
(* reads.  A step is one access to what the tasks share.                   *)
(***************************************************************************)
EXTENDS Integers, ByteRing

CONSTANTS
    MaxWav,       \* MAX_WAV_SIZE (80000)
    Unknown,      \* the value of wav_total_size for "not announced" (1000)
    Tenths,       \* BUFFER_RESERVE_RATIO (0.6) in tenths
    Piece,        \* taken from the ring at a time (16)
    Patience,     \* the value of timeout_cnt that ends a playback (10000)
    EmptyCost,    \* what an empty ring adds to it (100)
    Totals,       \* sizes of the phone's answers
    Garbled,      \* what atoi makes of an announcement that is not the size
    FrameSizes,   \* of the frames it cuts them into
    Requests      \* bound: calls of SpeechRec that ask the phone

ASSUME BleAssumption ==
    /\ {MaxWav, Unknown, Piece, EmptyCost} \subseteq Nat \ {0}
    /\ Patience \in Nat /\ Requests \in Nat
    /\ Tenths \in 1..10 /\ Tenths * Least(Unknown, MaxWav) >= 10
    /\ MaxWav > 2 * Piece + 1
    /\ Totals \subseteq Nat /\ Garbled \subseteq Int
    /\ FrameSizes \subseteq Nat \ {0}

VARIABLES
    wav_total_size, wavRing, sound_player_state, deviceConnected,
    phone,     \* answers it owes, and bytes left to send of the present one
    player,    \* SoundPlayTask
    requests,  \* calls of SpeechRec that asked
    spoiled    \* auxiliary: an answer was not announced, or sent, as it should

asked == <<requests, spoiled>>
vars == <<wav_total_size, wavRing, sound_player_state, deviceConnected, phone,
          player, asked>>

PlayerPCs == {"boot", "wait", "measure", "acquire", "size", "space", "read",
              "play", "ended", "reset", "drain", "drainReturn"}

Used == MaxWav - FreeSize(wavRing, MaxWav)

\* BUFFER_RESERVE_RATIO * n, as an int
Reserve(n) ==
    IF n >= 0 THEN (Tenths * n) \div 10 ELSE -((Tenths * (-n)) \div 10)

Init ==
    /\ wav_total_size = Unknown /\ wavRing = EmptyRing
    /\ sound_player_state = 0 /\ deviceConnected = FALSE
    /\ phone = [owed |-> 0, left |-> 0]
    /\ player = [pc |-> "boot", wating_size |-> 0, play_bytes |-> 0,
                 timeout_cnt |-> 0]
    /\ requests = 0 /\ spoiled = FALSE

-----------------------------------------------------------------------------
(* The Bluetooth task: the callbacks of the phone's writes                 *)

\* onConnect and onDisconnect.  The phone may go on with an answer after it
\* lost the connection, or never.
Connect ==
    /\ deviceConnected' = ~deviceConnected
    /\ UNCHANGED <<wav_total_size, wavRing, sound_player_state, phone, player,
                   asked>>

\* "W": an answer to one of the requests is announced, with its size or with
\* something else.
Announce ==
    /\ deviceConnected /\ phone.owed > 0
    /\ \E total \in Totals : \E announced \in {total} \cup Garbled :
         /\ wav_total_size' = announced
         /\ phone' = [owed |-> phone.owed - 1, left |-> total]
         /\ spoiled' = (\/ spoiled \/ announced # total
                        \/ Reserve(Least(MaxWav, total)) = 0)
    /\ UNCHANGED <<wavRing, sound_player_state, deviceConnected, player,
                   requests>>

\* A frame goes into the ring, or is lost when it finds no room for 4 ms.
Frame ==
    /\ deviceConnected /\ phone.left > 0
    /\ \E size \in FrameSizes :
         LET n == Least(size, phone.left)
         IN  /\ wavRing' = Put(wavRing, n, MaxWav)
             /\ phone' = [phone EXCEPT !.left = @ - n]
    /\ UNCHANGED <<wav_total_size, sound_player_state, deviceConnected, player,
                   asked>>

UnderWay == phone.owed > 0 \/ phone.left > 0 \/ Used > 0

\* SpeechRec: connected, no playback found, and the phone is asked.
SpeechRec ==
    /\ deviceConnected /\ sound_player_state = 1 /\ requests < Requests
    /\ requests' = requests + 1 /\ spoiled' = (spoiled \/ UnderWay)
    /\ phone' = [phone EXCEPT !.owed = @ + 1]
    /\ UNCHANGED <<wav_total_size, wavRing, sound_player_state,
                   deviceConnected, player>>

-----------------------------------------------------------------------------
(* SoundPlayTask                                                           *)

PlayerAt(pc, next) == player.pc = pc /\ player' = [player EXCEPT !.pc = next]

Others == UNCHANGED <<deviceConnected, phone, asked>>

\* A step of the player's own, without effect on what it shares.
Step(pc, next) ==
    /\ PlayerAt(pc, next)
    /\ UNCHANGED <<wav_total_size, wavRing, sound_player_state>> /\ Others

Boot ==
    /\ player.pc = "boot"
    /\ player' = [player EXCEPT !.pc = "wait", !.wating_size =
                     Reserve(Least(MaxWav, wav_total_size))]
    /\ sound_player_state' = 1
    /\ UNCHANGED <<wav_total_size, wavRing>> /\ Others

\* The comparison is unsigned: a negative wating_size is never reached.
Reached == player.wating_size >= 0 /\ Used >= player.wating_size

TooLittle == ~Reached /\ Step("wait", "measure")

Enough == Reached /\ Step("wait", "acquire")

\* Mutated: the announced size is left out, or taken as it is.
ShareOfRing == Reserve(MaxWav)
ShareUncut == Reserve(wav_total_size)

Share ==
    IF wav_total_size = Unknown THEN Reserve(MaxWav)
    ELSE Reserve(Least(MaxWav, wav_total_size))

\* The size is looked at again each 50 ms.

Measure ==
    /\ player.pc = "measure"
    /\ player' = [player EXCEPT !.pc = "wait", !.wating_size = Share]
    /\ UNCHANGED <<wav_total_size, wavRing, sound_player_state>> /\ Others

\* The semaphore is taken, or its absence ignored.
Acquire ==
    /\ player.pc = "acquire"
    /\ player' = [player EXCEPT !.pc = "size", !.play_bytes = 0,
                                !.timeout_cnt = 0]
    /\ sound_player_state' = 0
    /\ UNCHANGED <<wav_total_size, wavRing>> /\ Others

\* while (play_bytes < wav_total_size - 17 or free > 16)
\* Mutated: only the second is asked.
SizeLeftIgnored == Step("size", "space")

SizeLeft ==
    player.play_bytes < wav_total_size - (Piece + 1) /\ Step("size", "read")

NoSizeLeft ==
    player.play_bytes >= wav_total_size - (Piece + 1) /\ Step("size", "space")

MuchFree == FreeSize(wavRing, MaxWav) > Piece

GoOn == MuchFree /\ Step("space", "read")

LoopEnd == ~MuchFree /\ Step("space", "ended")

ReadPiece ==
    /\ PlayerAt("read", "play") /\ Receivable(wavRing)
    /\ wavRing' = Take(wavRing, Least(Piece, Contiguous(wavRing, MaxWav)),
                       MaxWav)
    /\ UNCHANGED <<wav_total_size, sound_player_state>> /\ Others

Play ==
    /\ player.pc = "play"
    /\ player' = [player EXCEPT !.pc = "size", !.timeout_cnt = 0,
                                !.play_bytes = @ + wavRing.held]
    /\ wavRing' = Return(wavRing)
    /\ UNCHANGED <<wav_total_size, sound_player_state>> /\ Others

\* The ring is empty: silence is played, and too much of it ends the playback,
\* though the phone may not have sent all.
\* Mutated: the counter starts anew each time.
PatienceFromZero == EmptyCost

PatienceSpent == player.timeout_cnt + EmptyCost

ReadNothing ==
    /\ player.pc = "read" /\ ~Receivable(wavRing)
    /\ player' = [player EXCEPT
                     !.pc = IF PatienceSpent > Patience THEN "reset"
                            ELSE "size",
                     !.timeout_cnt = PatienceSpent]
    /\ spoiled' = (spoiled \/ (PatienceSpent > Patience /\ phone.left > 0))
    /\ UNCHANGED <<wav_total_size, wavRing, sound_player_state,
                   deviceConnected, phone, requests>>

Ended == Step("ended", "reset")

Reset ==
    /\ PlayerAt("reset", "drain")
    /\ wav_total_size' = Unknown
    /\ UNCHANGED <<wavRing, sound_player_state>> /\ Others

\* What is left in the ring is thrown away (the code takes it in pieces of 100
\* bytes, here in one).
DrainTake ==
    /\ PlayerAt("drain", "drainReturn") /\ Receivable(wavRing)
    /\ wavRing' = Take(wavRing, Contiguous(wavRing, MaxWav), MaxWav)
    /\ UNCHANGED <<wav_total_size, sound_player_state>> /\ Others

DrainReturn ==
    /\ PlayerAt("drainReturn", "drain")
    /\ wavRing' = Return(wavRing)
    /\ UNCHANGED <<wav_total_size, sound_player_state>> /\ Others

Release ==
    /\ PlayerAt("drain", "wait") /\ ~Receivable(wavRing)
    /\ sound_player_state' = 1
    /\ UNCHANGED <<wav_total_size, wavRing>> /\ Others

Player ==
    \/ Boot \/ TooLittle \/ Enough \/ Measure \/ Acquire \/ SizeLeft
    \/ NoSizeLeft \/ GoOn \/ LoopEnd \/ ReadPiece \/ Play \/ ReadNothing
    \/ Ended \/ Reset \/ DrainTake \/ DrainReturn \/ Release

Next == Connect \/ Announce \/ Frame \/ SpeechRec \/ Player

Spec == Init /\ [][Next]_vars

\* Only the player's task is relied on: the phone may stall or go for ever.
FairSpec == Spec /\ WF_vars(Player)

-----------------------------------------------------------------------------
(* Properties.                                                             *)

\* Every variable keeps its type.
TypeOK ==
    /\ wav_total_size \in Totals \cup Garbled \cup {Unknown}
    /\ wavRing \in Rings(MaxWav)
    /\ sound_player_state \in 0..1 /\ deviceConnected \in BOOLEAN
    /\ phone \in [owed : 0..Requests, left : Nat]
    /\ player \in [pc : PlayerPCs, wating_size : Int, play_bytes : Nat,
                   timeout_cnt : Nat]
    /\ player.wating_size <= MaxWav
    /\ requests \in 0..Requests /\ spoiled \in BOOLEAN

\* What a playback leaves in the ring, to be thrown away, is no more than the 17
\* bytes that the condition of its loop does not ask for: the player does not
\* take the answer for finished before it has emptied the ring.  That takes a
\* phone that announces the size it sends, does not fall silent for ten seconds
\* in the middle, and is not asked again before it is done.
NothingThrownAway ==
    ~spoiled /\ player.pc \in {"reset", "drain"} => Used <= Piece + 1

\* The player always gives sound_player_state back, whatever the phone does, so
\* that SpeechRec is not refused for ever.
PlayerComesBack == sound_player_state = 0 ~> sound_player_state = 1

\* Sound that has arrived with its size announced does not lie in the ring for
\* ever: once such a phone has sent all of an answer, the player plays until
\* no more than a piece is left.  (A size of exactly 1000 counts as not announced.)
AnswerIsPlayed ==
    /\ ~spoiled /\ Used > 0 /\ wav_total_size # Unknown /\ phone.left = 0
    /\ player.pc \notin {"ended", "reset", "drain", "drainReturn"}
    ~> spoiled \/ (Used <= Piece /\ player.pc \in {"size", "space", "read"})
=============================================================================
