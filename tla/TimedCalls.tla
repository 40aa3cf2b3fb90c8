----------------------------- MODULE TimedCalls -----------------------------
(***************************************************************************)
(* The calls of the toy libraries that go on for a number of seconds:      *)
(* playMelody of JikkoAnimal, playMelody of jikkochatbot, and jikkochatbot's*)
(* chatbotMotorTime1 and 2.  Each compares millis(), an unsigned counter   *)
(* that wraps, with a time kept in a global of its library and blocks in   *)
(* delay() in between.  The library and the function are chosen in the     *)
(* initial state; a sketch calls the function again and again, with pauses.*)
(***************************************************************************)
EXTENDS Integers

CONSTANTS
    Word,        \* 2^32, of unsigned long
    IntHalf,     \* 2^15 where an int has two bytes, else 2^31
    Second,      \* 1000
    Secs,        \* the argument sec
    Notes,       \* lengths of melodies, in notes
    Durations,   \* of a note; dotted notes last 0 where pgm_read_word_near
                 \* makes their negative divider a large positive one
    Moves,       \* durations of a motor's move (50 to 1000); an act that is
                 \* none of the moves, with which the call only spins till its
                 \* time is over, is left out
    Pauses       \* of the sketch, between two calls

ASSUME TimesAssumption ==
    /\ {Word, IntHalf, Second} \subseteq Nat \ {0} /\ 2 * IntHalf <= Word
    /\ Secs \subseteq Nat /\ Notes \subseteq Nat
    /\ Durations \subseteq Nat /\ Durations # {}
    /\ Moves \subseteq Nat \ {0} /\ Pauses \subseteq Nat
    /\ \A d \in Durations \cup Moves : IntHalf + 2 * d < Word
    \* The motors' interval, a float made a long, is not too large for one.
    /\ \A sec \in Secs, d \in Moves : sec * Second + 2 * d < Word

VARIABLES
    function,    \* "animal", "chatbot" or "motor"
    clock,       \* millis()
    from,        \* previousMillis or previousTime
    call,        \* pc, interval, what is left of the melody, a move's
                 \* duration and CurrentTime
    since        \* auxiliary: how long the call takes or took

vars == <<function, clock, from, call, since>>

Init ==
    /\ function \in {"animal", "chatbot", "motor"}
    /\ clock \in 0..Word - 1 /\ from = 0 /\ since = 0
    /\ call = [pc |-> "returned", sec |-> 0, interval |-> 0, notes |-> 0,
               move |-> 0, now |-> 0]

\* long interval = sec * 1000: an int product, then an unsigned operand.
Interval(sec) ==
    LET n == (sec * Second) % (2 * IntHalf)
    IN  IF n < IntHalf THEN n ELSE (n - 2 * IntHalf) % Word

\* Mutated: compared as signed numbers.
ElapsedSigned(now) == now - from

Elapsed(now) == (now - from) % Word

\* Time that passes in a call, counted up to Word.
Passed(n) == since' = IF since + n < Word THEN since + n ELSE Word

Tick(n) == clock' = (clock + n) % Word /\ Passed(n)

Running(f) == function = f /\ call.pc = "running" /\ UNCHANGED function

Return == call' = [call EXCEPT !.pc = "returned"]

-----------------------------------------------------------------------------
\* Between two calls.
Pause ==
    /\ call.pc = "returned"
    /\ \E n \in Pauses : clock' = (clock + n) % Word
    /\ UNCHANGED <<function, from, call, since>>

\* The call begins; JikkoAnimal leaves its previousMillis as it is.
\* Mutated: jikkochatbot does so too.
FromKept(f) == from

FromAtStart(f) == IF f = "animal" THEN from ELSE clock

Begin ==
    /\ call.pc = "returned"
    /\ \E sec \in Secs, notes \in Notes, move \in Moves :
         call' = [pc |-> "running", sec |-> sec,
                  interval |-> IF function = "motor" THEN sec * Second
                                                     ELSE Interval(sec),
                  notes |-> IF function = "motor" THEN 0 ELSE notes,
                  move |-> IF function = "motor" THEN move ELSE 0,
                  now |-> IF function = "motor" THEN clock ELSE 0]
    /\ from' = FromAtStart(function)
    /\ since' = 0
    /\ UNCHANGED <<function, clock>>

\* A note is begun when time is left, and played to its end.
PlayTill(last) ==
    /\ call.notes > last
    /\ call' = [call EXCEPT !.notes = @ - 1]
    /\ \E d \in Durations : Tick(d)
    /\ UNCHANGED from

\* Mutated: the loop over the melody takes one note too many.
PlayPastEnd == PlayTill(-1)

PlayNote == PlayTill(0)

AnimalNote == Running("animal") /\ Elapsed(clock) <= call.interval /\ PlayNote

ChatbotNote == Running("chatbot") /\ Elapsed(clock) < call.interval /\ PlayNote

\* Only a melody that is cut off sets JikkoAnimal's previousMillis.
AnimalCutOff ==
    /\ Running("animal") /\ call.notes > 0 /\ Elapsed(clock) > call.interval
    /\ from' = clock
    /\ Return /\ UNCHANGED <<clock, since>>

ChatbotCutOff ==
    /\ Running("chatbot") /\ call.notes > 0 /\ Elapsed(clock) >= call.interval
    /\ Return /\ UNCHANGED <<clock, from, since>>

MelodyEnd ==
    /\ Running("animal") \/ Running("chatbot")
    /\ call.notes = 0
    /\ Return /\ UNCHANGED <<clock, from, since>>

\* CurrentTime is read before the move, and compared after it.
\* Mutated: it is read before the loop only.
NowOnce == call.now

Now == clock

Move ==
    /\ Running("motor") /\ Elapsed(call.now) < call.interval
    /\ call' = [call EXCEPT !.now = Now]
    /\ Tick(call.move)
    /\ UNCHANGED from

MotorsOff ==
    /\ Running("motor") /\ Elapsed(call.now) >= call.interval
    /\ Return /\ UNCHANGED <<clock, from, since>>

Next ==
    \/ Pause \/ Begin \/ AnimalNote \/ ChatbotNote \/ AnimalCutOff
    \/ ChatbotCutOff \/ MelodyEnd \/ Move \/ MotorsOff

Spec == Init /\ [][Next]_vars

\* A running call goes on.
FairSpec == Spec /\ WF_vars(call.pc = "running" /\ Next)

-----------------------------------------------------------------------------
(* Properties.  Fits leaves out the seconds whose product overflows an int. *)

Fits == call.sec * Second < IntHalf

\* Every variable keeps its type.
TypeOK ==
    /\ function \in {"animal", "chatbot", "motor"}
    /\ clock \in 0..Word - 1 /\ from \in 0..Word - 1 /\ since \in 0..Word
    /\ call \in [pc : {"running", "returned"}, sec : Secs \cup {0},
                 interval : 0..Word - 1, notes : Nat,
                 move : Moves \cup {0}, now : 0..Word - 1]

\* A melody never goes on longer than its time and one note more, wherever in
\* the clock's round the call falls, and however old the time is that
\* JikkoAnimal compares with.
StopsInTime ==
    function # "motor" /\ Fits =>
        \E d \in Durations : since <= call.sec * Second + d

\* jikkochatbot's melody returns early only when it has been played to its end.
\* (JikkoAnimal's may play nothing at all: its time starts when the last melody
\* was cut off.)
UsesItsTime ==
    function = "chatbot" /\ call.pc = "returned" /\ Fits =>
        since >= call.sec * Second \/ call.notes = 0

\* The motors run at least one move longer than asked, less than two.
MotorStopsInTime ==
    function = "motor" /\ call.pc = "returned" =>
        LET asked == call.sec * Second
        IN  IF asked = 0 THEN since = 0
            ELSE asked + call.move <= since /\ since < asked + 2 * call.move

\* Every call returns, also when the clock wraps under it.
CallReturns == call.pc = "running" ~> call.pc = "returned"
=============================================================================
