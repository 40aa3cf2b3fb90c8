------------------------- MODULE TimedCalls_proofs -------------------------
(***************************************************************************)
(* The timed calls, for every width of the clock and of an int, every      *)
(* length of notes and moves and wherever in the clock's round a call      *)
(* falls: types, a melody's longest and shortest time, and the motors'.    *)
(***************************************************************************)
EXTENDS TimedCalls, TLAPS

CallTypes == [pc : {"running", "returned"}, sec : Secs \cup {0},
              interval : 0..Word - 1, notes : Nat,
              move : Moves \cup {0}, now : 0..Word - 1]

\* A remainder is less than the divisor.
LEMMA Remainder ==
  ASSUME NEW w \in Nat \ {0}, NEW n \in Int
  PROVE  n % w \in 0..w - 1
OBVIOUS

\* What the constants are, one by one.
LEMMA Times ==
  /\ Word \in Nat \ {0} /\ IntHalf \in Nat \ {0} /\ Second \in Nat \ {0}
  /\ 2 * IntHalf <= Word
  /\ \A d \in Durations : d \in Nat /\ IntHalf + 2 * d < Word
  /\ \A d \in Moves : d \in Nat \ {0} /\ IntHalf + 2 * d < Word
  /\ \A sec \in Secs : sec \in Nat /\ sec * Second \in Nat
  /\ \A sec \in Secs, d \in Moves : sec * Second + 2 * d < Word
  /\ Notes \subseteq Nat /\ Pauses \subseteq Nat /\ \E d \in Durations : TRUE
<1>1. /\ Word \in Nat \ {0} /\ IntHalf \in Nat \ {0} /\ Second \in Nat \ {0}
      /\ Secs \subseteq Nat /\ Durations \subseteq Nat /\ Moves \subseteq Nat \ {0}
      /\ \E d \in Durations : TRUE
  BY TimesAssumption
<1>2. ASSUME NEW sec \in Secs PROVE sec \in Nat /\ sec * Second \in Nat
  BY <1>1
<1> QED
  BY <1>1, <1>2, TimesAssumption

\* A time that fits into an int is the interval waited for; any other is some
\* value of an unsigned long.
LEMMA IntervalIs ==
  ASSUME NEW sec \in Secs \cup {0}
  PROVE  /\ Interval(sec) \in 0..Word - 1
         /\ sec * Second < IntHalf => Interval(sec) = sec * Second
<1> DEFINE m == sec * Second
           n == m % (2 * IntHalf)
<1>1. m \in Nat
  <2>1. sec \in Nat
    BY Times
  <2> QED
    BY <2>1, Times
<1>2. n \in 0..2 * IntHalf - 1 /\ (m < IntHalf => n = m)
  <2> HIDE DEF m
  <2> QED
    BY <1>1, Times
<1>3. (n - 2 * IntHalf) % Word \in 0..Word - 1
  <2> HIDE DEF n
  <2> QED
    BY <1>2, Times
<1> HIDE DEF m, n
<1>4. (IF n < IntHalf THEN n ELSE (n - 2 * IntHalf) % Word) \in 0..Word - 1
  BY <1>2, <1>3, Times
<1>5. Interval(sec) = IF n < IntHalf THEN n ELSE (n - 2 * IntHalf) % Word
  BY DEF Interval, n, m
<1> QED
  BY <1>2, <1>4, <1>5, Times DEF m

\* Time that passes adds to what has elapsed while that is less than a round of
\* the clock, also when the clock wraps on the way.
LEMMA TickAdds ==
  ASSUME TypeOK, NEW n \in Nat, Tick(n), UNCHANGED from
  PROVE  /\ clock' \in 0..Word - 1 /\ since' \in 0..Word
         /\ since' = IF since + n < Word THEN since + n ELSE Word
         /\ Elapsed(clock) \in 0..Word - 1
         /\ Elapsed(clock) + n < Word => Elapsed(clock)' = Elapsed(clock) + n
         /\ Elapsed(call.now) \in 0..Word - 1
<1>1. /\ Word \in Nat \ {0} /\ clock \in 0..Word - 1 /\ from \in 0..Word - 1
      /\ since \in 0..Word /\ call.now \in 0..Word - 1
  BY Times DEF TypeOK
<1>2. /\ clock' = (clock + n) % Word
      /\ since' = IF since + n < Word THEN since + n ELSE Word
      /\ from' = from
  BY DEF Tick, Passed
<1>3. clock' \in 0..Word - 1
  BY <1>1, <1>2
<1>4. /\ Elapsed(clock) = IF clock >= from THEN clock - from ELSE clock - from + Word
      /\ Elapsed(clock) \in 0..Word - 1 /\ Elapsed(call.now) \in 0..Word - 1
  BY <1>1 DEF Elapsed
<1>5. ASSUME Elapsed(clock) + n < Word PROVE Elapsed(clock)' = Elapsed(clock) + n
  <2>1. n < Word
    BY <1>1, <1>4, <1>5
  <2>2. clock' = IF clock + n < Word THEN clock + n ELSE clock + n - Word
    BY <1>1, <1>2, <2>1
  <2>3. PICK e \in 0..Word - 1 : e = Elapsed(clock) + n
    <3>1. Elapsed(clock) + n \in 0..Word - 1
      BY <1>1, <1>4, <1>5
    <3> QED
      BY <3>1
  <2>4. clock' - from = e \/ clock' - from = e - Word
    BY <1>1, <1>4, <2>2, <2>3
  <2>5. (clock' - from) % Word = e
    BY <1>1, <2>4
  <2> QED
    BY <1>2, <2>3, <2>5 DEF Elapsed
<1> QED
  BY <1>1, <1>2, <1>3, <1>4, <1>5

-----------------------------------------------------------------------------
(* Types.                                                                  *)

LEMMA InitType == Init => TypeOK
<1> SUFFICES ASSUME Init PROVE TypeOK
  OBVIOUS
<1>1. call \in CallTypes
  BY Times DEF Init, CallTypes
<1> QED
  BY <1>1, Times DEF Init, TypeOK, CallTypes

LEMMA TypesKept == TypeOK /\ [Next]_vars => TypeOK'
<1> SUFFICES ASSUME TypeOK, [Next]_vars PROVE TypeOK'
  OBVIOUS
<1>1. /\ call \in CallTypes /\ function \in {"animal", "chatbot", "motor"}
      /\ clock \in 0..Word - 1 /\ from \in 0..Word - 1 /\ since \in 0..Word
      /\ Word \in Nat \ {0}
  BY Times DEF TypeOK, CallTypes
<1> SUFFICES /\ call' \in CallTypes /\ function' = function
             /\ clock' \in 0..Word - 1 /\ from' \in 0..Word - 1
             /\ since' \in 0..Word
  BY <1>1 DEF TypeOK, CallTypes
<1>2. CASE UNCHANGED vars
  BY <1>1, <1>2 DEF vars
<1>3. CASE Pause
  <2>1. PICK n \in Pauses : clock' = (clock + n) % Word
    BY <1>3 DEF Pause
  <2>2. n \in Nat
    BY Times
  <2> QED
    BY <1>1, <1>3, <2>1, <2>2 DEF Pause
<1>4. CASE Begin
  <2>1. PICK sec \in Secs, notes \in Notes, move \in Moves :
         call' = [pc |-> "running", sec |-> sec,
                  interval |-> IF function = "motor" THEN sec * Second
                                                     ELSE Interval(sec),
                  notes |-> IF function = "motor" THEN 0 ELSE notes,
                  move |-> IF function = "motor" THEN move ELSE 0,
                  now |-> IF function = "motor" THEN clock ELSE 0]
    BY <1>4 DEF Begin
  <2>2. sec * Second \in 0..Word - 1 /\ notes \in Nat
    BY Times
  <2>3. Interval(sec) \in 0..Word - 1
    BY IntervalIs
  <2>4. call' \in CallTypes
    BY <1>1, <2>1, <2>2, <2>3 DEF CallTypes
  <2> QED
    BY <1>1, <1>4, <2>4 DEF Begin, FromAtStart
<1>5. CASE AnimalNote \/ ChatbotNote
  <2>1. PlayNote /\ UNCHANGED function
    BY <1>5 DEF AnimalNote, ChatbotNote, Running
  <2>2. PICK d \in Durations : Tick(d)
    BY <2>1 DEF PlayNote, PlayTill
  <2>3. clock' \in 0..Word - 1 /\ since' \in 0..Word /\ from' = from
    BY <2>1, <2>2, TickAdds, Times DEF PlayNote, PlayTill
  <2>4. call' \in CallTypes
    BY <1>1, <2>1 DEF PlayNote, PlayTill, CallTypes
  <2> QED
    BY <1>1, <2>1, <2>3, <2>4
<1>6. CASE AnimalCutOff \/ ChatbotCutOff \/ MelodyEnd \/ MotorsOff
  <2>1. /\ UNCHANGED <<function, clock, since>> /\ from' \in {from, clock}
        /\ call' = [call EXCEPT !.pc = "returned"]
    BY <1>6 DEF AnimalCutOff, ChatbotCutOff, MelodyEnd, MotorsOff, Running, Return
  <2>2. call' \in CallTypes
    BY <1>1, <2>1 DEF CallTypes
  <2> QED
    BY <1>1, <2>1, <2>2
<1>7. CASE Move
  <2>1. /\ Tick(call.move) /\ UNCHANGED <<function, from>>
        /\ call' = [call EXCEPT !.now = clock]
    BY <1>7 DEF Move, Running, Now
  <2>2. call.move \in Nat
    BY <1>1, Times DEF CallTypes
  <2>3. clock' \in 0..Word - 1 /\ since' \in 0..Word
    BY <2>1, <2>2, TickAdds
  <2>4. call' \in CallTypes
    BY <1>1, <2>1 DEF CallTypes
  <2> QED
    BY <1>1, <2>1, <2>3, <2>4
<1> QED
  BY <1>2, <1>3, <1>4, <1>5, <1>6, <1>7 DEF Next

\* Every reachable state is well typed.
THEOREM TypeCorrect == Spec => []TypeOK
BY InitType, TypesKept, PTL DEF Spec

-----------------------------------------------------------------------------
(* How long a call takes.  Each invariant relates what is left over of the  *)
(* call, since, with what the code sees of it, the clock and from.          *)

\* A melody that began a time ago sees at least that much elapsed, whatever its
\* library's time is, so its last note began in time.
MelodyInv ==
    function # "motor" =>
        /\ call.interval = Interval(call.sec)
        /\ Fits => /\ call.pc = "running" => since <= Elapsed(clock)
                   /\ \E d \in Durations : since <= call.sec * Second + d

\* jikkochatbot sees exactly the time that passed.
ChatbotInv ==
    function = "chatbot" /\ Fits =>
        /\ call.pc = "running" => Elapsed(clock) = since
        /\ call.pc = "returned" => since >= call.sec * Second \/ call.notes = 0

\* The motors' CurrentTime is one move behind the clock.
MotorInv ==
    function = "motor" =>
        /\ call.interval = call.sec * Second
        /\ since = 0 \/ /\ call.move \in Moves /\ call.interval > 0
                        /\ call.move <= since
                        /\ since < call.interval + 2 * call.move
        /\ call.pc = "running" =>
             /\ Elapsed(clock) = since
             /\ Elapsed(call.now) = IF since = 0 THEN 0 ELSE since - call.move
             /\ call.move \in Moves
        /\ call.pc = "returned" /\ call.interval > 0 =>
             since >= call.interval + call.move

TimedInv == MelodyInv /\ ChatbotInv /\ MotorInv

\* The types the arithmetic below needs.
LEMMA Numbers ==
  ASSUME TypeOK
  PROVE  /\ call \in CallTypes /\ function \in {"animal", "chatbot", "motor"}
         /\ call.pc \in {"running", "returned"}
         /\ call.interval \in Nat /\ call.interval < Word /\ call.notes \in Nat
         /\ call.move \in Nat /\ call.sec * Second \in Nat
         /\ call.sec \in Secs \cup {0} /\ call.move \in Moves \cup {0}
         /\ since \in Nat /\ Elapsed(clock) \in 0..Word - 1
         /\ Elapsed(call.now) \in 0..Word - 1
<1>1. /\ call \in CallTypes /\ clock \in 0..Word - 1 /\ from \in 0..Word - 1
      /\ since \in 0..Word /\ Word \in Nat \ {0}
      /\ function \in {"animal", "chatbot", "motor"}
  BY Times DEF TypeOK, CallTypes
<1>2. Elapsed(clock) \in 0..Word - 1 /\ Elapsed(call.now) \in 0..Word - 1
  BY <1>1 DEF Elapsed, CallTypes
<1>3. call.sec * Second \in Nat
  <2>1. call.sec \in Nat /\ Second \in Nat
    BY <1>1, Times DEF CallTypes
  <2> QED
    BY <2>1
<1> QED
  BY <1>1, <1>2, <1>3, Times DEF CallTypes

LEMMA InitTimed == Init => TimedInv
<1> SUFFICES ASSUME Init PROVE TimedInv
  OBVIOUS
<1>1. /\ call.pc = "returned" /\ call.sec = 0 /\ call.interval = 0
      /\ call.notes = 0 /\ call.move = 0 /\ since = 0
  BY DEF Init
<1>2. 0 * Second = 0 /\ Interval(0) = 0 /\ \E d \in Durations : 0 <= 0 + d
  <2>1. 0 * Second = 0
    BY Times
  <2> QED
    BY <2>1, IntervalIs, Times
<1> QED
  BY <1>1, <1>2 DEF TimedInv, MelodyInv, ChatbotInv, MotorInv

\* A call that begins has taken no time, and sees none elapsed where its library
\* sets the time it compares with.
LEMMA BeginTimed == TypeOK /\ Begin => TimedInv'
<1> SUFFICES ASSUME TypeOK, Begin PROVE TimedInv'
  OBVIOUS
<1>1. PICK sec \in Secs, notes \in Notes, move \in Moves :
         call' = [pc |-> "running", sec |-> sec,
                  interval |-> IF function = "motor" THEN sec * Second
                                                     ELSE Interval(sec),
                  notes |-> IF function = "motor" THEN 0 ELSE notes,
                  move |-> IF function = "motor" THEN move ELSE 0,
                  now |-> IF function = "motor" THEN clock ELSE 0]
  BY DEF Begin
<1>2. /\ call'.pc = "running" /\ call'.sec = sec
      /\ call'.interval = IF function = "motor" THEN sec * Second
                                                ELSE Interval(sec)
      /\ function = "motor" => call'.move = move /\ call'.now = clock
      /\ since' = 0 /\ function' = function
      /\ Interval(sec)' = Interval(sec)
  BY <1>1 DEF Begin, Interval
<1>3. function # "animal" => Elapsed(clock)' = 0
  <2>1. clock \in 0..Word - 1 /\ Word \in Nat \ {0}
    BY Times DEF TypeOK
  <2>2. function # "animal" => from' = clock /\ clock' = clock
    BY DEF Begin, FromAtStart
  <2>3. (clock - clock) % Word = 0
    BY <2>1
  <2> QED
    BY <2>2, <2>3 DEF Elapsed
<1>4. Elapsed(clock)' \in Nat
  BY Times DEF Begin, FromAtStart, Elapsed, TypeOK
<1>5. sec * Second \in Nat /\ \E d \in Durations : 0 <= sec * Second + d
  BY Times
<1>6. MelodyInv'
  BY <1>2, <1>4, <1>5 DEF MelodyInv
<1>7. ChatbotInv'
  BY <1>2, <1>3 DEF ChatbotInv
<1>8. MotorInv'
  <2>1. function = "motor" => Elapsed(call.now)' = 0
    <3>1. clock' = clock
      BY DEF Begin
    <3> QED
      BY <1>2, <1>3, <3>1 DEF Elapsed
  <2> QED
    BY <1>2, <1>3, <2>1 DEF MotorInv
<1> QED
  BY <1>6, <1>7, <1>8 DEF TimedInv

\* A note that begins in time.
LEMMA NoteTimed ==
  ASSUME TypeOK, TimedInv, AnimalNote \/ ChatbotNote
  PROVE  TimedInv'
<1>1. /\ UNCHANGED <<function, from>> /\ function \in {"animal", "chatbot"}
      /\ call.pc = "running" /\ call' = [call EXCEPT !.notes = @ - 1]
      /\ Elapsed(clock) <= call.interval
  <2>1. /\ UNCHANGED function /\ call.pc = "running" /\ PlayNote
        /\ \/ function = "animal" /\ Elapsed(clock) <= call.interval
           \/ function = "chatbot" /\ Elapsed(clock) < call.interval
    BY DEF AnimalNote, ChatbotNote, Running
  <2> QED
    BY <2>1, Numbers DEF PlayNote, PlayTill
<1>2. PICK d \in Durations : Tick(d)
  BY DEF AnimalNote, ChatbotNote, PlayNote, PlayTill
<1>3. /\ call'.pc = "running" /\ call'.sec = call.sec
      /\ call'.interval = call.interval
      /\ Interval(call.sec)' = Interval(call.sec)
  BY <1>1, Numbers DEF CallTypes, Interval
<1>4. ASSUME Fits
      PROVE  /\ call.interval = call.sec * Second
             /\ Elapsed(clock)' = Elapsed(clock) + d
             /\ since' = since + d /\ since <= Elapsed(clock)
             /\ since' <= call.sec * Second + d
  <2>1. call.interval = Interval(call.sec) /\ since <= Elapsed(clock)
    BY <1>1, <1>4 DEF TimedInv, MelodyInv
  <2>2. call.interval = call.sec * Second /\ call.interval < IntHalf
    BY <1>4, <2>1, Numbers, IntervalIs DEF Fits
  <2>3. Elapsed(clock) + d < Word /\ d \in Nat
    BY <1>1, <2>2, Numbers, Times
  <2>4. Elapsed(clock)' = Elapsed(clock) + d
    BY <1>1, <1>2, <2>3, TickAdds
  <2>5. since' = IF since + d < Word THEN since + d ELSE Word
    BY <1>2 DEF Tick, Passed
  <2> QED
    BY <1>1, <2>1, <2>2, <2>3, <2>4, <2>5, Numbers, Times
<1>5. Fits' = Fits
  BY <1>3 DEF Fits
<1>6. MelodyInv'
  <2>1. Fits => since' <= Elapsed(clock)'
    <3> SUFFICES ASSUME Fits PROVE since' <= Elapsed(clock)'
      OBVIOUS
    <3> QED
      BY <1>4, Numbers, Times
  <2> QED
    BY <1>1, <1>3, <1>4, <1>5, <2>1 DEF MelodyInv, TimedInv
<1>7. ChatbotInv'
  <2>1. function = "chatbot" /\ Fits => Elapsed(clock) = since
    BY <1>1 DEF TimedInv, ChatbotInv
  <2> QED
    BY <1>1, <1>3, <1>4, <1>5, <2>1 DEF ChatbotInv
<1>8. MotorInv'
  BY <1>1 DEF MotorInv
<1> QED
  BY <1>6, <1>7, <1>8 DEF TimedInv

\* The end of a call, and the pause after it, leave the time it took.
LEMMA ReturnTimed ==
  ASSUME TypeOK, TimedInv,
         AnimalCutOff \/ ChatbotCutOff \/ MelodyEnd \/ MotorsOff \/ Pause
  PROVE  TimedInv'
<1>1. /\ UNCHANGED <<function, since>> /\ call'.pc = "returned"
      /\ call'.sec = call.sec /\ call'.interval = call.interval
      /\ call'.notes = call.notes /\ call'.move = call.move
      /\ Interval(call.sec)' = Interval(call.sec) /\ Fits' = Fits
  <2>1. /\ UNCHANGED <<function, since>>
        /\ \/ call' = [call EXCEPT !.pc = "returned"]
           \/ call' = call /\ call.pc = "returned"
    BY DEF AnimalCutOff, ChatbotCutOff, MelodyEnd, MotorsOff, Pause, Running, Return
  <2>2. /\ call'.pc = "returned"
        /\ call'.sec = call.sec /\ call'.interval = call.interval
        /\ call'.notes = call.notes /\ call'.move = call.move
    BY <2>1, Numbers DEF CallTypes
  <2> QED
    BY <2>1, <2>2 DEF Interval, Fits
<1>2. MelodyInv'
  BY <1>1 DEF TimedInv, MelodyInv
<1>3. ChatbotInv'
  <2> SUFFICES ASSUME function = "chatbot", Fits
               PROVE  since >= call.sec * Second \/ call.notes = 0
    BY <1>1 DEF ChatbotInv
  <2>1. CASE MelodyEnd
    BY <2>1 DEF MelodyEnd
  <2>2. CASE Pause
    BY <2>2 DEF Pause, TimedInv, ChatbotInv
  <2>3. CASE ChatbotCutOff
    <3>1. Elapsed(clock) >= call.interval /\ call.pc = "running"
      BY <2>3 DEF ChatbotCutOff, Running
    <3>2. Elapsed(clock) = since /\ call.interval = Interval(call.sec)
      BY <3>1 DEF TimedInv, ChatbotInv, MelodyInv
    <3>3. call.interval = call.sec * Second
      BY <3>2, Numbers, IntervalIs DEF Fits
    <3> QED
      BY <3>1, <3>2, <3>3
  <2> QED
    BY <2>1, <2>2, <2>3 DEF AnimalCutOff, MotorsOff, Running
<1>4. MotorInv'
  <2> SUFFICES ASSUME function = "motor", call.interval > 0
               PROVE  since >= call.interval + call.move
    BY <1>1 DEF TimedInv, MotorInv
  <2>1. CASE Pause
    BY <2>1 DEF Pause, TimedInv, MotorInv
  <2>2. CASE MotorsOff
    <3>1. Elapsed(call.now) >= call.interval /\ call.pc = "running"
      BY <2>2 DEF MotorsOff, Running
    <3>2. Elapsed(call.now) = IF since = 0 THEN 0 ELSE since - call.move
      BY <3>1 DEF TimedInv, MotorInv
    <3> QED
      BY <3>1, <3>2, Numbers
  <2> QED
    BY <2>1, <2>2 DEF AnimalCutOff, ChatbotCutOff, MelodyEnd, Running
<1> QED
  BY <1>2, <1>3, <1>4 DEF TimedInv

\* A move that begins while the last CurrentTime was early enough.
LEMMA MoveTimed == TypeOK /\ TimedInv /\ Move => TimedInv'
<1> SUFFICES ASSUME TypeOK, TimedInv, Move PROVE TimedInv'
  OBVIOUS
<1>1. /\ UNCHANGED <<function, from>> /\ function = "motor"
      /\ call.pc = "running" /\ Elapsed(call.now) < call.interval
      /\ Tick(call.move)
  BY DEF Move, Running
<1>2. /\ call'.pc = "running" /\ call'.sec = call.sec /\ call'.now = clock
      /\ call'.interval = call.interval /\ call'.move = call.move
  <2>1. call' = [call EXCEPT !.now = clock]
    BY DEF Move, Now
  <2> QED
    BY <1>1, <2>1, Numbers DEF CallTypes
<1>3. /\ call.interval = call.sec * Second /\ Elapsed(clock) = since
      /\ Elapsed(call.now) = IF since = 0 THEN 0 ELSE since - call.move
      /\ call.move \in Moves
  BY <1>1 DEF TimedInv, MotorInv
<1>4. since < call.interval + call.move /\ call.interval > 0
  BY <1>1, <1>3, Numbers, Times
<1>5. call.interval + 2 * call.move < Word
  <2>1. call.sec \in Secs \/ call.sec * Second = 0
    BY Numbers, Times
  <2> QED
    BY <1>3, <2>1, Numbers, Times
<1>6. Elapsed(clock)' = since + call.move /\ since' = since + call.move
  BY <1>1, <1>3, <1>4, <1>5, Numbers, TickAdds
<1>7. Elapsed(call.now)' = since
  BY <1>1, <1>2, <1>3 DEF Elapsed
<1>8. MotorInv'
  BY <1>1, <1>2, <1>3, <1>4, <1>6, <1>7, Numbers, Times DEF MotorInv
<1> QED
  BY <1>1, <1>8 DEF TimedInv, MelodyInv, ChatbotInv

LEMMA TimedStep == TypeOK /\ TimedInv /\ [Next]_vars => TimedInv'
<1> SUFFICES ASSUME TypeOK, TimedInv, [Next]_vars PROVE TimedInv'
  OBVIOUS
<1>1. CASE UNCHANGED vars
  BY <1>1 DEF vars, TimedInv, MelodyInv, ChatbotInv, MotorInv, Fits, Elapsed,
     Interval
<1> QED
  BY <1>1, BeginTimed, NoteTimed, ReturnTimed, MoveTimed DEF Next

LEMMA TimedAlways == Spec => [](TypeOK /\ TimedInv)
BY InitType, InitTimed, TypesKept, TimedStep, PTL DEF Spec

\* A melody never goes on longer than its time and one note more.
THEOREM MelodyStops == Spec => []StopsInTime
<1>1. TypeOK /\ TimedInv => StopsInTime
  BY DEF TimedInv, MelodyInv, StopsInTime
<1> QED
  BY <1>1, TimedAlways, PTL

\* jikkochatbot's melody returns early only when it was played to its end.
THEOREM MelodyUsesItsTime == Spec => []UsesItsTime
<1>1. TypeOK /\ TimedInv => UsesItsTime
  BY DEF TimedInv, ChatbotInv, UsesItsTime
<1> QED
  BY <1>1, TimedAlways, PTL

\* The motors run at least one move longer than asked, and less than two.
THEOREM MotorStops == Spec => []MotorStopsInTime
<1>1. TypeOK /\ TimedInv => MotorStopsInTime
  <2> SUFFICES ASSUME TypeOK, TimedInv, function = "motor", call.pc = "returned"
               PROVE  IF call.sec * Second = 0 THEN since = 0
                      ELSE /\ call.sec * Second + call.move <= since
                           /\ since < call.sec * Second + 2 * call.move
    BY DEF MotorStopsInTime
  <2> QED
    BY Numbers, Times DEF TimedInv, MotorInv
<1> QED
  BY <1>1, TimedAlways, PTL
=============================================================================
