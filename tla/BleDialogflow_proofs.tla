------------------------ MODULE BleDialogflow_proofs ------------------------
(***************************************************************************)
(* The player of the phone's answers, for every ring, share, piece and     *)
(* patience and for any announcements: its types, and that no sound which  *)
(* came as announced is thrown away.                                       *)
(***************************************************************************)
EXTENDS BleDialogflow, TLAPS

\* What one item of the ring can cover; and every operation leaves a ring.
LEMMA RingSteps ==
  ASSUME wavRing \in Rings(MaxWav), MaxWav \in Nat \ {0}
  PROVE  /\ Contiguous(wavRing, MaxWav) \in 0..MaxWav
         /\ Contiguous(wavRing, MaxWav) <= wavRing.stored
         /\ Contiguous(wavRing, MaxWav) <= MaxWav - wavRing.rd
         /\ wavRing.stored > 0 => Contiguous(wavRing, MaxWav) > 0
         /\ \A n \in Nat : Put(wavRing, n, MaxWav) \in Rings(MaxWav)
         /\ \A n \in 0..Contiguous(wavRing, MaxWav) :
               Take(wavRing, n, MaxWav) \in Rings(MaxWav)
         /\ Return(wavRing) \in Rings(MaxWav) /\ Return(wavRing).stored = wavRing.stored
<1>1. /\ Contiguous(wavRing, MaxWav) \in 0..MaxWav
      /\ Contiguous(wavRing, MaxWav) <= wavRing.stored
      /\ Contiguous(wavRing, MaxWav) <= MaxWav - wavRing.rd
      /\ wavRing.stored > 0 => Contiguous(wavRing, MaxWav) > 0
  BY DEF Contiguous, Least, Rings
<1>2. ASSUME NEW n \in Nat PROVE Put(wavRing, n, MaxWav) \in Rings(MaxWav)
  BY DEF Put, FreeSize, Rings
<1>3. ASSUME NEW n \in 0..Contiguous(wavRing, MaxWav)
      PROVE  Take(wavRing, n, MaxWav) \in Rings(MaxWav)
  BY <1>1 DEF Take, Rings
<1>4. Return(wavRing) \in Rings(MaxWav) /\ Return(wavRing).stored = wavRing.stored
  BY DEF Return, Rings
<1> QED
  BY <1>1, <1>2, <1>3, <1>4

\* A share of a size is at most that, and not nothing where tenths suffice; of
\* a negative number it is not positive.
LEMMA ReserveBound ==
  ASSUME NEW n \in Int
  PROVE  /\ Reserve(n) \in Int
         /\ n >= 0 => Reserve(n) \in 0..n
         /\ n < 0 => Reserve(n) <= 0
         /\ n >= 0 /\ Tenths * n >= 10 => Reserve(n) > 0
<1>1. Tenths \in 1..10
  BY BleAssumption
<1>2. ASSUME NEW k \in Nat
      PROVE  /\ Tenths * k \in Nat /\ (Tenths * k) \div 10 \in 0..k
             /\ Tenths * k >= 10 => (Tenths * k) \div 10 > 0
  <2>1. Tenths * k <= 10 * k /\ Tenths * k \in Nat
    <3>1. /\ 1 * k <= 10 * k /\ 2 * k <= 10 * k /\ 3 * k <= 10 * k
          /\ 4 * k <= 10 * k /\ 5 * k <= 10 * k /\ 6 * k <= 10 * k
          /\ 7 * k <= 10 * k /\ 8 * k <= 10 * k /\ 9 * k <= 10 * k
      OBVIOUS
    <3> QED
      BY <1>1, <3>1
  <2> DEFINE m == Tenths * k
  <2>2. m \in Nat /\ m <= 10 * k
    BY <2>1
  <2> HIDE DEF m
  <2>3. m \div 10 \in 0..k /\ (m >= 10 => m \div 10 > 0)
    BY <2>2
  <2> QED
    BY <2>1, <2>3 DEF m
<1>3. CASE n >= 0
  <2>1. n \in Nat /\ Reserve(n) = (Tenths * n) \div 10
    BY <1>3 DEF Reserve
  <2> QED
    BY <1>2, <1>3, <2>1
<1>4. CASE n < 0
  <2> DEFINE k == -n
             d == (Tenths * k) \div 10
  <2>1. k \in Nat /\ Reserve(n) = -d
    BY <1>4 DEF Reserve
  <2>2. d \in 0..k
    BY <1>2, <2>1
  <2> HIDE DEF k, d
  <2>3. d \in Nat
    BY <2>1, <2>2
  <2> QED
    BY <1>4, <2>1, <2>3
<1> QED
  BY <1>3, <1>4

\* A size of which there is a share worth waiting for.
Fair(n) == n \in Nat /\ Reserve(Least(MaxWav, n)) > 0

\* The mark for "not announced" is one of them.
LEMMA UnknownFair == Fair(Unknown)
<1>1. Least(MaxWav, Unknown) = Least(Unknown, MaxWav)
  BY BleAssumption DEF Least
<1>2. Least(Unknown, MaxWav) \in Nat /\ Tenths * Least(Unknown, MaxWav) >= 10
  BY BleAssumption DEF Least
<1> QED
  BY <1>1, <1>2, ReserveBound, BleAssumption DEF Fair

\* What the player waits for is at most what the ring can hold.
LEMMA ShareBound ==
  ASSUME TypeOK
  PROVE  /\ Share \in Int /\ Share <= MaxWav
         /\ Reserve(Least(MaxWav, wav_total_size)) \in Int
         /\ Reserve(Least(MaxWav, wav_total_size)) <= MaxWav
         /\ Fair(wav_total_size) => Share > 0
<1>1. MaxWav \in Nat \ {0} /\ wav_total_size \in Int
  BY BleAssumption DEF TypeOK
<1> DEFINE n == Least(MaxWav, wav_total_size)
<1>2. n \in Int /\ n <= MaxWav
  BY <1>1 DEF Least
<1> HIDE DEF n
<1>3. Reserve(n) \in Int /\ Reserve(n) <= MaxWav
  <2>1. CASE n >= 0
    BY <1>1, <1>2, <2>1, ReserveBound
  <2>2. CASE n < 0
    BY <1>1, <1>2, <2>2, ReserveBound
  <2> QED
    BY <1>2, <2>1, <2>2
<1>4. Reserve(MaxWav) \in 0..MaxWav /\ Reserve(MaxWav) > 0
  <2>1. Tenths * MaxWav >= 10
    <3>1. Tenths \in 1..10 /\ Least(Unknown, MaxWav) \in Nat
          /\ Least(Unknown, MaxWav) <= MaxWav /\ Tenths * Least(Unknown, MaxWav) >= 10
      BY <1>1, BleAssumption DEF Least
    <3> DEFINE l == Least(Unknown, MaxWav)
    <3> HIDE DEF l
    <3>2. l \in Nat /\ l <= MaxWav /\ Tenths * l >= 10
      BY <3>1 DEF l
    <3>3. /\ 1 * l <= 1 * MaxWav /\ 2 * l <= 2 * MaxWav /\ 3 * l <= 3 * MaxWav
          /\ 4 * l <= 4 * MaxWav /\ 5 * l <= 5 * MaxWav /\ 6 * l <= 6 * MaxWav
          /\ 7 * l <= 7 * MaxWav /\ 8 * l <= 8 * MaxWav /\ 9 * l <= 9 * MaxWav
          /\ 10 * l <= 10 * MaxWav
      BY <1>1, <3>2
    <3> QED
      BY <1>1, <3>1, <3>2, <3>3
  <2> QED
    BY <1>1, <2>1, ReserveBound
<1> QED
  BY <1>1, <1>3, <1>4 DEF Share, Fair, n

PhoneTypes == [owed : 0..Requests, left : Nat]
PlayerTypes == [pc : PlayerPCs, wating_size : Int, play_bytes : Nat,
                timeout_cnt : Nat]

\* The initial state is well typed.
LEMMA InitType == Init => TypeOK
<1> SUFFICES ASSUME Init PROVE TypeOK
  OBVIOUS
<1>1. wavRing \in Rings(MaxWav)
  BY BleAssumption DEF Init, EmptyRing, Rings
<1>2. deviceConnected \in BOOLEAN /\ spoiled \in BOOLEAN
  BY DEF Init
<1>3. player \in PlayerTypes /\ player.wating_size <= MaxWav /\ phone \in PhoneTypes
  BY BleAssumption DEF Init, PlayerTypes, PhoneTypes, PlayerPCs
<1> QED
  BY <1>1, <1>2, <1>3, BleAssumption DEF Init, TypeOK, PlayerTypes, PhoneTypes

\* A request, a connection and what the phone writes keep the types.
LEMMA PhoneType ==
  ASSUME TypeOK, Connect \/ Announce \/ Frame \/ SpeechRec,
         phone.owed < Requests \/ ~SpeechRec
  PROVE  TypeOK'
<1> USE BleAssumption DEF TypeOK, asked
<1>1. CASE Connect
  <2>1. deviceConnected' \in BOOLEAN
    BY <1>1 DEF Connect
  <2> QED
    BY <1>1, <2>1 DEF Connect
<1>2. CASE Announce
  <2>1. /\ phone' \in PhoneTypes /\ spoiled' \in BOOLEAN
        /\ wav_total_size' \in Totals \cup Garbled \cup {Unknown}
    BY <1>2 DEF Announce, PhoneTypes
  <2> QED
    BY <1>2, <2>1 DEF Announce, PhoneTypes
<1>3. CASE Frame
  <2>1. PICK size \in FrameSizes :
          LET n == Least(size, phone.left)
          IN  /\ wavRing' = Put(wavRing, n, MaxWav)
              /\ phone' = [phone EXCEPT !.left = @ - n]
    BY <1>3 DEF Frame
  <2> DEFINE n == Least(size, phone.left)
  <2>2. n \in Nat /\ n <= phone.left
    BY DEF Least
  <2>3. wavRing' = Put(wavRing, n, MaxWav) /\ phone' = [phone EXCEPT !.left = @ - n]
    BY <2>1
  <2> HIDE DEF n
  <2>4. wavRing' \in Rings(MaxWav) /\ phone' \in PhoneTypes
    BY <2>2, <2>3, RingSteps DEF PhoneTypes
  <2> QED
    BY <1>3, <2>4 DEF Frame, PhoneTypes
<1>4. CASE SpeechRec
  <2>1. spoiled' \in BOOLEAN
    BY <1>4 DEF SpeechRec, UnderWay
  <2>2. phone' \in PhoneTypes /\ requests' \in 0..Requests
    BY <1>4 DEF SpeechRec, PhoneTypes
  <2> QED
    BY <1>4, <2>1, <2>2 DEF SpeechRec, PhoneTypes
<1> QED
  BY <1>1, <1>2, <1>3, <1>4

\* A step of the player keeps the types.
LEMMA PlayerType == TypeOK /\ Player => TypeOK'
<1> SUFFICES ASSUME TypeOK, Player PROVE TypeOK'
  OBVIOUS
<1>1. /\ player \in PlayerTypes /\ player.wating_size <= MaxWav
      /\ wavRing \in Rings(MaxWav)
      /\ MaxWav \in Nat \ {0} /\ Piece \in Nat /\ EmptyCost \in Nat
      /\ wav_total_size \in Totals \cup Garbled \cup {Unknown}
      /\ sound_player_state \in 0..1 /\ spoiled \in BOOLEAN
  BY BleAssumption DEF TypeOK, PlayerTypes
<1> SUFFICES /\ player' \in PlayerTypes /\ player'.wating_size <= MaxWav
             /\ wavRing' \in Rings(MaxWav)
             /\ sound_player_state' \in 0..1
             /\ wav_total_size' \in Totals \cup Garbled \cup {Unknown}
             /\ UNCHANGED <<deviceConnected, phone, requests>>
             /\ spoiled' \in BOOLEAN
  BY DEF TypeOK, PlayerTypes
<1> USE <1>1 DEF PlayerAt, PlayerTypes, PlayerPCs, Others, asked
<1>2. CASE Boot
  <2> DEFINE n == Reserve(Least(MaxWav, wav_total_size))
  <2>1. /\ n \in Int /\ n <= MaxWav
        /\ player' = [player EXCEPT !.pc = "wait", !.wating_size = n]
    BY <1>2, ShareBound DEF Boot
  <2> HIDE DEF n
  <2>2. player' \in PlayerTypes /\ player'.wating_size <= MaxWav
    BY <2>1
  <2> QED
    BY <1>2, <2>2 DEF Boot
<1>3. CASE TooLittle \/ Enough \/ SizeLeft \/ NoSizeLeft \/ GoOn \/ LoopEnd \/ Ended
  BY <1>3 DEF TooLittle, Enough, SizeLeft, NoSizeLeft, GoOn, LoopEnd, Ended, Step
<1>4. CASE Measure
  BY <1>4, ShareBound DEF Measure
<1>5. CASE Acquire
  <2>1. player' \in PlayerTypes /\ player'.wating_size <= MaxWav
    BY <1>5 DEF Acquire
  <2> QED
    BY <1>5, <2>1 DEF Acquire
<1>6. CASE ReadPiece
  <2> DEFINE n == Least(Piece, Contiguous(wavRing, MaxWav))
  <2>1. n \in 0..Contiguous(wavRing, MaxWav)
    BY RingSteps DEF Least
  <2>2. wavRing' = Take(wavRing, n, MaxWav)
    BY <1>6 DEF ReadPiece
  <2> HIDE DEF n
  <2>3. wavRing' \in Rings(MaxWav)
    BY <2>1, <2>2, RingSteps
  <2> QED
    BY <1>6, <2>3 DEF ReadPiece
<1>7. CASE Play
  <2>1. player.play_bytes + wavRing.held \in Nat
    BY DEF Rings
  <2> QED
    BY <1>7, <2>1, RingSteps DEF Play
<1>8. CASE ReadNothing
  <2>1. PatienceSpent \in Nat
    BY DEF PatienceSpent
  <2>2. player' \in PlayerTypes /\ player'.wating_size <= MaxWav
    BY <1>8, <2>1 DEF ReadNothing
  <2> QED
    BY <1>8, <2>2 DEF ReadNothing
<1>9. CASE Reset \/ Release
  BY <1>9 DEF Reset, Release
<1>10. CASE DrainTake
  <2>1. wavRing' \in Rings(MaxWav)
    BY <1>10, RingSteps DEF DrainTake
  <2> QED
    BY <1>10, <2>1 DEF DrainTake
<1>11. CASE DrainReturn
  BY <1>11, RingSteps DEF DrainReturn
<1> QED
  BY <1>2, <1>3, <1>4, <1>5, <1>6, <1>7, <1>8, <1>9, <1>10, <1>11 DEF Player

\* No more answers are owed than were asked for.
Owed == phone.owed <= requests

LEMMA TypesKept == TypeOK /\ Owed /\ [Next]_vars => TypeOK' /\ Owed'
<1> SUFFICES ASSUME TypeOK, Owed, [Next]_vars PROVE TypeOK' /\ Owed'
  OBVIOUS
<1>1. phone \in PhoneTypes /\ requests \in 0..Requests /\ Requests \in Nat
  BY BleAssumption DEF TypeOK, PhoneTypes
<1>2. CASE UNCHANGED vars
  BY <1>2 DEF vars, asked, TypeOK, Owed
<1>3. CASE Player
  <2>1. UNCHANGED <<phone, requests>>
    BY <1>3 DEF Player, Boot, TooLittle, Enough, Measure, Acquire, SizeLeft,
       NoSizeLeft, GoOn, LoopEnd, ReadPiece, Play, ReadNothing, Ended, Reset,
       DrainTake, DrainReturn, Release, Step, Others, asked
  <2> QED
    BY <1>3, <2>1, PlayerType DEF Owed
<1>4. CASE Connect \/ Announce \/ Frame \/ SpeechRec
  <2>1. phone.owed < Requests \/ ~SpeechRec
    <3>1. SpeechRec => requests < Requests
      BY DEF SpeechRec
    <3> QED
      BY <1>1, <3>1 DEF Owed, PhoneTypes
  <2>2. Owed'
    <3>1. \/ requests' = requests /\ phone'.owed = phone.owed
          \/ requests' = requests /\ phone.owed > 0 /\ phone'.owed = phone.owed - 1
          \/ requests' = requests + 1 /\ phone'.owed = phone.owed + 1
      <4>1. CASE Connect \/ Frame
        BY <1>1, <4>1 DEF Connect, Frame, asked, PhoneTypes
      <4>2. CASE Announce
        <5>1. /\ requests' = requests /\ phone.owed > 0
              /\ \E n \in Totals : phone' = [owed |-> phone.owed - 1, left |-> n]
          BY <4>2 DEF Announce
        <5> QED
          BY <5>1
      <4>3. CASE SpeechRec
        <5>1. requests' = requests + 1 /\ phone' = [phone EXCEPT !.owed = @ + 1]
          BY <4>3 DEF SpeechRec
        <5> QED
          BY <1>1, <5>1 DEF PhoneTypes
      <4> QED
        BY <1>4, <4>1, <4>2, <4>3
    <3> QED
      BY <1>1, <3>1 DEF Owed, PhoneTypes
  <2> QED
    BY <1>4, <2>1, <2>2, PhoneType
<1> QED
  BY <1>2, <1>3, <1>4 DEF Next

\* Every reachable state is well typed.
THEOREM TypeCorrect == Spec => []TypeOK
<1>1. Init => TypeOK /\ Owed
  BY InitType DEF Init, Owed
<1> QED
  BY <1>1, TypesKept, PTL DEF Spec

-----------------------------------------------------------------------------
(* The end of a playback.                                                  *)

\* Where the player plays, and what it has played of the answer under way.
Playing == player.pc \in {"size", "space", "read", "play", "ended"}

Played == IF Playing THEN player.play_bytes ELSE 0

\* The semaphore is out, and a piece of the ring held, only while it is played.
Waiting ==
    /\ sound_player_state = 1 => player.pc \in {"wait", "measure", "acquire"}
    /\ wavRing.held > 0 => player.pc \in {"play", "drainReturn"}

\* The player waits for something, and goes on only when that is there.
Patient ==
    /\ Fair(wav_total_size)
    /\ player.pc # "boot" => player.wating_size > 0
    /\ player.pc = "acquire" => Used > 0

\* An answer that is owed finds the ring empty and the player waiting.
Quiet ==
    /\ phone.owed \in 0..1
    /\ phone.owed = 1 => /\ phone.left = 0 /\ Used = 0
                         /\ player.pc \in {"wait", "measure"}

\* What was played, is held, stored or still to come is no more than the size
\* known; frames may have been lost.
Books == Played + wavRing.held + wavRing.stored + phone.left <= wav_total_size

\* What the player found out about the size still holds when it acts on it, and
\* what is left to play is then less than what a nearly full ring holds.
Decided ==
    /\ player.pc = "space" => player.play_bytes >= wav_total_size - (Piece + 1)
    /\ player.pc # "ended"

\* Silence ended the playback, and there is nothing left of the answer.
Settled ==
    /\ player.pc \in {"reset", "drain"} => Used = 0 /\ phone.left = 0
    /\ player.pc # "drainReturn"

AsItShould == Patient /\ Quiet /\ Books /\ Decided /\ Settled
AnswerInv == ~spoiled => AsItShould
BleInv == TypeOK /\ Waiting /\ AnswerInv

\* The types the arithmetic below needs.
LEMMA Counts ==
  ASSUME TypeOK
  PROVE  /\ MaxWav \in Nat \ {0} /\ Piece \in Nat \ {0}
         /\ wav_total_size \in Int /\ Unknown \in Nat \ {0}
         /\ phone \in PhoneTypes /\ phone.owed \in Nat /\ phone.left \in Nat
         /\ player \in PlayerTypes /\ player.wating_size \in Int
         /\ player.play_bytes \in Nat /\ Played \in Nat
         /\ wavRing \in Rings(MaxWav)
         /\ wavRing.stored \in Nat /\ wavRing.held \in Nat
         /\ Used = wavRing.stored + wavRing.held
BY BleAssumption
DEF TypeOK, PhoneTypes, PlayerTypes, Played, Rings, Used, FreeSize

\* Nothing is announced, owed or played at first.
LEMMA InitBle == Init => Waiting /\ AnswerInv
BY UnknownFair, BleAssumption
DEF Init, Waiting, AnswerInv, AsItShould, Patient, Quiet, Books, Decided,
    Settled, Played, Playing, EmptyRing, Used, FreeSize

\* A request that disturbs nothing finds the player waiting; its answer is
\* announced before anything of it comes, and only what comes is stored.
LEMMA PhoneBle ==
  ASSUME TypeOK, Waiting, AnswerInv, Connect \/ Announce \/ Frame \/ SpeechRec
  PROVE  Waiting' /\ AnswerInv'
<1>1. player' = player /\ sound_player_state' = sound_player_state
  BY DEF Connect, Announce, Frame, SpeechRec
<1> USE <1>1, Counts DEF Waiting, PhoneTypes
<1>2. CASE Connect
  BY <1>2 DEF Connect, AnswerInv, AsItShould, Patient, Fair, Quiet, Books,
     Decided, Settled, Played, Playing, Used, asked
<1>3. CASE Announce
  <2>1. PICK total \in Totals, announced \in Int :
          /\ wav_total_size' = announced
          /\ phone' = [owed |-> phone.owed - 1, left |-> total]
          /\ spoiled' <=> (\/ spoiled \/ announced # total
                           \/ Reserve(Least(MaxWav, total)) = 0)
    BY <1>3, BleAssumption DEF Announce
  <2>2. total \in Nat /\ wavRing' = wavRing /\ phone.owed > 0
    BY <1>3, BleAssumption DEF Announce
  <2>3. Waiting'
    BY <2>2
  <2>4. ASSUME ~spoiled' PROVE AsItShould'
    <3>1. ~spoiled /\ announced = total /\ Reserve(Least(MaxWav, total)) # 0
      BY <2>1, <2>4
    <3>2. /\ phone.owed = 1 /\ player.pc \in {"wait", "measure"}
          /\ wavRing.stored = 0 /\ wavRing.held = 0 /\ player.wating_size > 0
      BY <2>2, <3>1 DEF AnswerInv, AsItShould, Patient, Quiet
    <3>3. Fair(total)
      <4>1. Least(MaxWav, total) \in Nat
        BY <2>2 DEF Least
      <4> QED
        BY <2>2, <3>1, <4>1, ReserveBound DEF Fair
    <3>4. Patient'
      BY <2>1, <3>1, <3>2, <3>3 DEF Patient, Fair
    <3> QED
      BY <2>1, <2>2, <3>1, <3>2, <3>4
      DEF AsItShould, Quiet, Books, Decided, Settled, Played, Playing
  <2> QED
    BY <2>3, <2>4 DEF AnswerInv
<1>4. CASE Frame
  <2>1. PICK size \in FrameSizes :
          LET n == Least(size, phone.left)
          IN  /\ wavRing' = Put(wavRing, n, MaxWav)
              /\ phone' = [phone EXCEPT !.left = @ - n]
    BY <1>4 DEF Frame
  <2> DEFINE n == Least(size, phone.left)
  <2>2. n \in Nat /\ n <= phone.left
    BY BleAssumption DEF Least
  <2>3. wavRing' = Put(wavRing, n, MaxWav) /\ phone' = [phone EXCEPT !.left = @ - n]
    BY <2>1
  <2> HIDE DEF n
  <2>4. /\ wavRing'.held = wavRing.held
        /\ wavRing'.stored \in {wavRing.stored, wavRing.stored + n}
        /\ phone'.owed = phone.owed /\ phone'.left = phone.left - n
        /\ wavRing' \in Rings(MaxWav)
    BY <2>2, <2>3, RingSteps DEF Put, Rings
  <2>5. Used' = wavRing'.stored + wavRing'.held
    BY <2>4 DEF Used, FreeSize, Rings
  <2>6. /\ wav_total_size' = wav_total_size /\ phone.left > 0
        /\ spoiled' <=> spoiled
    BY <1>4 DEF Frame, asked
  <2>7. Waiting'
    BY <2>4
  <2>8. ASSUME ~spoiled PROVE AsItShould'
    <3>1. AsItShould /\ phone.owed = 0 /\ player.pc \notin {"reset", "drain"}
      BY <2>6, <2>8 DEF AnswerInv, AsItShould, Quiet, Settled
    <3>2. Patient'
      BY <2>2, <2>4, <2>5, <2>6, <3>1 DEF AsItShould, Patient, Fair
    <3>3. Books'
      BY <2>2, <2>4, <2>6, <3>1 DEF AsItShould, Books, Played, Playing
    <3> QED
      BY <2>4, <2>6, <3>1, <3>2, <3>3
      DEF AsItShould, Quiet, Decided, Settled
  <2> QED
    BY <2>6, <2>7, <2>8 DEF AnswerInv
<1>5. CASE SpeechRec
  <2>1. /\ phone'.owed = phone.owed + 1 /\ phone'.left = phone.left
        /\ wavRing' = wavRing /\ wav_total_size' = wav_total_size
        /\ sound_player_state = 1
    <3>1. /\ phone' = [phone EXCEPT !.owed = @ + 1]
          /\ wavRing' = wavRing /\ wav_total_size' = wav_total_size
          /\ sound_player_state = 1
      BY <1>5 DEF SpeechRec
    <3> QED
      BY <3>1
  <2>2. ~spoiled' => ~spoiled /\ ~UnderWay
    BY <1>5 DEF SpeechRec
  <2>3. Waiting'
    BY <2>1
  <2>4. ASSUME ~spoiled' PROVE AsItShould'
    <3>1. AsItShould /\ phone.owed = 0 /\ phone.left = 0 /\ Used = 0
      BY <2>2, <2>4 DEF AnswerInv, UnderWay
    <3>2. player.pc \in {"wait", "measure"}
      BY <2>1, <3>1 DEF AsItShould, Patient
    <3>3. Used' = Used
      BY <2>1 DEF Used
    <3>4. Quiet' /\ Patient'
      BY <2>1, <3>1, <3>2, <3>3 DEF AsItShould, Quiet, Patient, Fair
    <3> QED
      BY <2>1, <3>1, <3>2, <3>4
      DEF AsItShould, Books, Decided, Settled, Played, Playing
  <2> QED
    BY <2>3, <2>4 DEF AnswerInv
<1> QED
  BY <1>2, <1>3, <1>4, <1>5

\* The player only starts with something there, so never on an answer that is
\* owed; it is never at the end of its loop, and only silence with nothing left
\* to come brings it to the drain.
LEMMA PlayerBle ==
  ASSUME TypeOK, TypeOK', Waiting, AnswerInv, Player
  PROVE  Waiting' /\ AnswerInv'
<1>1. phone' = phone /\ (~spoiled' => ~spoiled)
  <2>1. CASE ReadNothing
    <3>1. spoiled' <=> (spoiled \/ (PatienceSpent > Patience /\ phone.left > 0))
      BY <2>1 DEF ReadNothing
    <3> QED
      BY <2>1, <3>1 DEF ReadNothing
  <2>2. CASE ~ReadNothing
    <3>1. phone' = phone /\ spoiled' = spoiled
      BY <2>2 DEF Player, Boot, TooLittle, Enough, Measure, Acquire, SizeLeft,
         NoSizeLeft, GoOn, LoopEnd, ReadPiece, Play, Ended, Reset, DrainTake,
         DrainReturn, Release, Step, Others, asked
    <3> QED
      BY <3>1
  <2> QED
    BY <2>1, <2>2
<1> SUFFICES Waiting' /\ (~spoiled' /\ AsItShould => AsItShould')
  BY <1>1 DEF AnswerInv
<1> USE <1>1, Counts DEF PlayerAt, PlayerTypes, Waiting
<1>2. ASSUME wav_total_size' = wav_total_size
      PROVE  Fair(wav_total_size)' <=> Fair(wav_total_size)
  BY <1>2 DEF Fair
<1>3. ASSUME wavRing' = wavRing PROVE Used' = Used
  BY <1>3 DEF Used
<1>4. CASE Boot \/ Measure
  <2>1. /\ player.pc \in {"boot", "measure"} /\ player'.pc = "wait"
        /\ Fair(wav_total_size) => player'.wating_size > 0
        /\ player.pc = "boot" => sound_player_state' = 1
        /\ player.pc = "measure" => sound_player_state' = sound_player_state
        /\ wavRing' = wavRing /\ wav_total_size' = wav_total_size
    <3>1. CASE Boot
      BY <3>1, ShareBound DEF Boot, Fair
    <3>2. CASE Measure
      BY <3>2, ShareBound DEF Measure
    <3> QED
      BY <1>4, <3>1, <3>2
  <2>2. Waiting'
    BY <2>1
  <2>3. AsItShould => AsItShould'
    BY <1>2, <1>3, <2>1
    DEF AsItShould, Patient, Quiet, Books, Decided, Settled, Played, Playing
  <2> QED
    BY <2>2, <2>3
<1>5. CASE TooLittle \/ Enough
  <2>1. /\ player.pc = "wait" /\ player'.wating_size = player.wating_size
        /\ wavRing' = wavRing /\ wav_total_size' = wav_total_size
        /\ sound_player_state' = sound_player_state
        /\ \/ player'.pc = "measure"
           \/ player'.pc = "acquire" /\ Used >= player.wating_size
    BY <1>5 DEF TooLittle, Enough, Step, Reached
  <2>2. Waiting'
    BY <2>1
  <2>3. AsItShould => AsItShould'
    <3>1. Used \in Nat
      OBVIOUS
    <3> QED
      BY <1>2, <1>3, <2>1, <3>1
      DEF AsItShould, Patient, Quiet, Books, Decided, Settled, Played, Playing
  <2> QED
    BY <2>2, <2>3
<1>6. CASE Acquire
  <2>1. /\ player.pc = "acquire" /\ player'.pc = "size" /\ player'.play_bytes = 0
        /\ player'.wating_size = player.wating_size /\ sound_player_state' = 0
        /\ wavRing' = wavRing /\ wav_total_size' = wav_total_size
    BY <1>6 DEF Acquire
  <2>2. Waiting'
    BY <2>1
  <2>3. AsItShould => AsItShould'
    BY <1>2, <1>3, <2>1
    DEF AsItShould, Patient, Quiet, Books, Decided, Settled, Played, Playing
  <2> QED
    BY <2>2, <2>3
<1>7. CASE SizeLeft \/ NoSizeLeft \/ GoOn
  <2>1. /\ player.pc \in {"size", "space"} /\ player'.play_bytes = player.play_bytes
        /\ player'.wating_size = player.wating_size
        /\ wavRing' = wavRing /\ wav_total_size' = wav_total_size
        /\ sound_player_state' = sound_player_state
        /\ \/ player'.pc = "read"
           \/ player'.pc = "space"
              /\ player.play_bytes >= wav_total_size - (Piece + 1)
    BY <1>7 DEF SizeLeft, NoSizeLeft, GoOn, Step
  <2>2. Waiting'
    BY <2>1
  <2>3. AsItShould => AsItShould'
    BY <1>2, <1>3, <2>1
    DEF AsItShould, Patient, Quiet, Books, Decided, Settled, Played, Playing
  <2> QED
    BY <2>2, <2>3
<1>8. CASE LoopEnd
  <2>1. /\ player.pc = "space" /\ player'.pc = "ended" /\ wavRing' = wavRing
        /\ sound_player_state' = sound_player_state
        /\ MaxWav - wavRing.stored - wavRing.held <= Piece
    BY <1>8 DEF LoopEnd, Step, MuchFree, FreeSize, Rings
  <2>2. Waiting'
    BY <2>1
  <2>3. ~AsItShould
    <3> SUFFICES ASSUME Books, Decided PROVE FALSE
      BY DEF AsItShould
    <3>1. /\ player.play_bytes >= wav_total_size - (Piece + 1)
          /\ wavRing.held = 0
          /\ player.play_bytes + wavRing.stored + phone.left <= wav_total_size
      BY <2>1 DEF Books, Decided, Played, Playing
    <3>2. wavRing.stored <= Piece + 1
      BY <3>1
    <3>3. MaxWav > 2 * Piece + 1
      BY BleAssumption
    <3> QED
      BY <2>1, <3>1, <3>2, <3>3
  <2> QED
    BY <2>2, <2>3
<1>9. CASE ReadPiece
  <2> DEFINE n == Least(Piece, Contiguous(wavRing, MaxWav))
  <2>1. n \in Nat /\ n <= wavRing.stored
    BY RingSteps DEF Least
  <2>2. /\ wavRing'.stored = wavRing.stored - n /\ wavRing'.held = n
        /\ wavRing.held = 0
    BY <1>9 DEF ReadPiece, Take, Receivable
  <2>3. /\ player.pc = "read" /\ player'.pc = "play"
        /\ player'.play_bytes = player.play_bytes
        /\ player'.wating_size = player.wating_size
        /\ wav_total_size' = wav_total_size
        /\ sound_player_state' = sound_player_state
    BY <1>9 DEF ReadPiece
  <2> HIDE DEF n
  <2>4. Waiting'
    BY <2>2, <2>3
  <2>5. AsItShould => AsItShould'
    BY <1>2, <2>1, <2>2, <2>3
    DEF AsItShould, Patient, Quiet, Books, Decided, Settled, Played, Playing
  <2> QED
    BY <2>4, <2>5
<1>10. CASE Play
  <2>1. wavRing'.stored = wavRing.stored /\ wavRing'.held = 0
    BY <1>10 DEF Play, Return, Rings
  <2>2. /\ player.pc = "play" /\ player'.pc = "size"
        /\ player'.play_bytes = player.play_bytes + wavRing.held
        /\ player'.wating_size = player.wating_size
        /\ wav_total_size' = wav_total_size
        /\ sound_player_state' = sound_player_state
    BY <1>10 DEF Play
  <2>3. Waiting'
    BY <2>1, <2>2
  <2>4. AsItShould => AsItShould'
    BY <1>2, <2>1, <2>2
    DEF AsItShould, Patient, Quiet, Books, Decided, Settled, Played, Playing
  <2> QED
    BY <2>3, <2>4
<1>11. CASE ReadNothing
  <2>1. /\ player.pc = "read" /\ player'.pc \in {"reset", "size"}
        /\ player'.play_bytes = player.play_bytes
        /\ player'.wating_size = player.wating_size
        /\ wavRing' = wavRing /\ wav_total_size' = wav_total_size
        /\ sound_player_state' = sound_player_state
    BY <1>11 DEF ReadNothing
  <2>2. wavRing.stored = 0 /\ wavRing.held = 0
    BY <1>11, <2>1 DEF ReadNothing, Receivable
  <2>3. ~spoiled' /\ player'.pc = "reset" => phone.left = 0
    <3>1. spoiled' <=> (spoiled \/ (PatienceSpent > Patience /\ phone.left > 0))
      BY <1>11 DEF ReadNothing
    <3>2. player'.pc = "reset" => PatienceSpent > Patience
      <4>1. player' = [player EXCEPT
                         !.pc = IF PatienceSpent > Patience THEN "reset"
                                ELSE "size",
                         !.timeout_cnt = PatienceSpent]
        BY <1>11 DEF ReadNothing
      <4>2. player'.pc = IF PatienceSpent > Patience THEN "reset" ELSE "size"
        BY <4>1
      <4> QED
        BY <4>2
    <3> QED
      BY <3>1, <3>2
  <2>4. Waiting'
    BY <2>1
  <2>5. ~spoiled' /\ AsItShould => AsItShould'
    BY <1>2, <1>3, <2>1, <2>2, <2>3
    DEF AsItShould, Patient, Quiet, Books, Decided, Settled, Played, Playing
  <2> QED
    BY <2>4, <2>5
<1>12. CASE Ended \/ DrainTake \/ DrainReturn
  <2>1. ~AsItShould
    <3>1. \/ player.pc \in {"ended", "drainReturn"}
          \/ player.pc = "drain" /\ wavRing.stored > 0
      BY <1>12 DEF Ended, Step, DrainTake, DrainReturn, Receivable, Rings
    <3> QED
      BY <3>1 DEF AsItShould, Decided, Settled
  <2>2. CASE Ended
    BY <2>1, <2>2 DEF Ended, Step
  <2>3. CASE DrainTake
    BY <2>1, <2>3 DEF DrainTake
  <2>4. CASE DrainReturn
    <3>1. wavRing'.held = 0
      BY <2>4 DEF DrainReturn, Return, Rings
    <3>2. player.pc = "drainReturn" /\ sound_player_state' = sound_player_state
      BY <2>4 DEF DrainReturn
    <3> QED
      BY <2>1, <3>1, <3>2
  <2> QED
    BY <1>12, <2>2, <2>3, <2>4
<1>13. CASE Reset
  <2>1. /\ player.pc = "reset" /\ player'.pc = "drain"
        /\ player'.wating_size = player.wating_size
        /\ wavRing' = wavRing /\ wav_total_size' = Unknown
        /\ sound_player_state' = sound_player_state
    BY <1>13 DEF Reset
  <2>2. Waiting'
    BY <2>1
  <2>3. Fair(wav_total_size)'
    BY <2>1, UnknownFair DEF Fair
  <2>4. ASSUME AsItShould PROVE AsItShould'
    <3>1. Used = 0 /\ phone.left = 0 /\ wavRing.held = 0 /\ wavRing.stored = 0
      BY <2>1, <2>4 DEF AsItShould, Settled
    <3>2. Patient'
      BY <2>1, <2>3, <2>4 DEF AsItShould, Patient
    <3>3. Books'
      BY <2>1, <3>1 DEF Books, Played, Playing
    <3>4. Quiet'
      BY <2>1, <2>4 DEF AsItShould, Quiet
    <3> QED
      BY <1>3, <2>1, <3>1, <3>2, <3>3, <3>4 DEF AsItShould, Decided, Settled
  <2> QED
    BY <2>2, <2>4
<1>14. CASE Release
  <2>1. /\ player.pc = "drain" /\ player'.pc = "wait"
        /\ player'.wating_size = player.wating_size
        /\ wavRing' = wavRing /\ wav_total_size' = wav_total_size
    BY <1>14 DEF Release
  <2>2. Waiting'
    BY <2>1
  <2>3. AsItShould => AsItShould'
    BY <1>2, <1>3, <2>1
    DEF AsItShould, Patient, Quiet, Books, Decided, Settled, Played, Playing
  <2> QED
    BY <2>2, <2>3
<1> QED
  BY <1>4, <1>5, <1>6, <1>7, <1>8, <1>9, <1>10, <1>11, <1>12, <1>13, <1>14
  DEF Player

LEMMA BleStep == BleInv /\ Owed /\ [Next]_vars => BleInv'
<1> SUFFICES ASSUME BleInv, Owed, [Next]_vars PROVE BleInv'
  OBVIOUS
<1>1. TypeOK /\ TypeOK' /\ Waiting /\ AnswerInv
  BY TypesKept DEF BleInv
<1>2. CASE UNCHANGED vars
  BY <1>1, <1>2 DEF vars, asked, BleInv, Waiting, AnswerInv, AsItShould,
     Patient, Fair, Quiet, Books, Decided, Settled, Played, Playing, Used
<1>3. CASE Connect \/ Announce \/ Frame \/ SpeechRec
  BY <1>1, <1>3, PhoneBle DEF BleInv
<1>4. CASE Player
  BY <1>1, <1>4, PlayerBle DEF BleInv
<1> QED
  BY <1>2, <1>3, <1>4 DEF Next

\* No sound that came as announced is thrown away at the end of a playback: what
\* the player then finds in the ring (dialogflow_BLE.cpp:402-416) is no more than
\* the 17 bytes of its loop's condition allow.
THEOREM AnswersKept == Spec => []NothingThrownAway
<1>1. Init => BleInv /\ Owed
  BY InitType, InitBle DEF BleInv, Init, Owed
<1>2. BleInv /\ Owed /\ [Next]_vars => BleInv' /\ Owed'
  BY BleStep, TypesKept DEF BleInv
<1>3. BleInv => NothingThrownAway
  BY BleAssumption DEF BleInv, AnswerInv, AsItShould, Settled, NothingThrownAway
<1> QED
  BY <1>1, <1>2, <1>3, PTL DEF Spec
=============================================================================
