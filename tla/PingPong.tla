------------------------------ MODULE PingPong ------------------------------
(***************************************************************************)
(* pingpongGame, which the sketch's loop calls once per frame: the ball    *)
(* moves by one, then the board's paddle and the user's, then the screen   *)
(* is shown and the button is read.  Positions and directions are uint8_t: *)
(* -1 is 255 and every sum wraps.  A frame is one action, since nothing    *)
(* runs beside it.                                                         *)
(***************************************************************************)
EXTENDS Integers

CONSTANTS
    XMax, YMax,           \* 127 and 63, the last column and row
    CPU_X, PLAYER_X,      \* columns of the paddles
    PADDLE_HEIGHT_JIKKO, PADDLE_HEIGHT_USER,
    maxScore,
    StartX, StartY,       \* where a ball may be served
    BallX, BallY, CpuY, PlayerY  \* initial values

Byte == 256

ASSUME CourtAssumption ==
    /\ {XMax, YMax, CPU_X, PLAYER_X} \subseteq 0..Byte - 1
    /\ 2 < CPU_X /\ CPU_X + 4 < PLAYER_X /\ PLAYER_X + 2 < XMax /\ 3 < YMax
    /\ PADDLE_HEIGHT_JIKKO \in 0..Byte - 1 /\ PADDLE_HEIGHT_USER \in 0..Byte - 1
    /\ maxScore \in Nat \ {0}
    /\ StartX \subseteq CPU_X + 1..PLAYER_X - 1 /\ BallX \in StartX
    /\ StartY \subseteq 1..YMax - 1 /\ BallY \in StartY
    /\ CpuY \in 1..YMax - 1 /\ PlayerY \in 1..YMax - 1

VARIABLES
    x, y,                 \* the ball's column and row: where it is at, and dir
    cpu_y, player_y, playerScore, aiScore, resetBall

paddles == <<cpu_y, player_y>>
scores == <<playerScore, aiScore>>
vars == <<x, y, paddles, scores, resetBall>>

Forth == 1
Back == Byte - 1

Init ==
    /\ x = [at |-> BallX, dir |-> Forth] /\ y = [at |-> BallY, dir |-> Forth]
    /\ cpu_y = CpuY /\ player_y = PlayerY
    /\ playerScore = 0 /\ aiScore = 0 /\ resetBall = FALSE

-----------------------------------------------------------------------------
(* The ball.                                                               *)

Advance(p) == [p EXCEPT !.at = (@ + p.dir) % Byte]

\* Turned back from a place just reached, to the other side of where it was.
Bounce(p) ==
    LET back == (Byte - p.dir) % Byte
    IN  [at |-> (p.at + back + back) % Byte, dir |-> back]

\* Mutated: only one of the two walls.
OffFarWall(p, last) == IF p.at = last THEN Bounce(p) ELSE p

OffWall(p, last) == IF p.at \in {0, last} THEN Bounce(p) ELSE p

Covers(top, height, row) == row \in top..top + height

\* Mutated: a paddle also hits what is up to two columns away from it.
OffThickPaddle(p, column, hit) ==
    IF p.at \in column - 2..column + 2 /\ hit THEN Bounce(p) ELSE p

OffPaddle(p, column, hit) == IF p.at = column /\ hit THEN Bounce(p) ELSE p

\* A row or column after one step; the new row decides whether a paddle hits.
NewRow(row) == OffWall(Advance(row), YMax)

NewColumn(column, at) ==
    OffPaddle(OffPaddle(OffWall(Advance(column), XMax),
                        CPU_X, Covers(cpu_y, PADDLE_HEIGHT_JIKKO, at)),
              PLAYER_X, Covers(player_y, PADDLE_HEIGHT_USER, at))

-----------------------------------------------------------------------------
(* The paddles.                                                            *)

\* Mutated: the upper border is forgotten.
ClampBelow(top, height) ==
    IF top + height > YMax THEN (YMax - height) % Byte ELSE top

Clamp(top, height) ==
    LET low == IF top < 1 THEN 1 ELSE top
    IN  IF low + height > YMax THEN (YMax - height) % Byte ELSE low

Up(top) == (top - 1) % Byte
Down(top) == (top + 1) % Byte

\* The board's paddle follows the row the ball has now.
Follow(row) ==
    LET half == PADDLE_HEIGHT_JIKKO \div 2
        up == IF cpu_y + half > row THEN Up(cpu_y) ELSE cpu_y
    IN  IF up + half < row THEN Down(up) ELSE up

\* The joystick is read twice: in the middle both tests hold.
Steer(less, more) ==
    LET up == IF less THEN Up(player_y) ELSE player_y
    IN  IF more THEN Down(up) ELSE up

MovePaddles(row) ==
    /\ cpu_y' = Clamp(Follow(row), PADDLE_HEIGHT_JIKKO)
    /\ \E less, more \in BOOLEAN :
         player_y' = Clamp(Steer(less, more), PADDLE_HEIGHT_USER)

-----------------------------------------------------------------------------
(* A frame.                                                                *)

\* Mutated: the match goes on at maxScore.
WonPast == playerScore > maxScore \/ aiScore > maxScore

Won == playerScore = maxScore \/ aiScore = maxScore

\* gameOver: both scores are cleared and a ball is due.  Mutated: one score.
ClearOneScore == playerScore' = 0 /\ UNCHANGED aiScore /\ resetBall' = TRUE

GameOver == playerScore' = 0 /\ aiScore' = 0 /\ resetBall' = TRUE

\* The columns and rows the ball can have when it is its turn to move.
Served(p, places) ==
    IF resetBall THEN [at : places, dir : {Forth, Back}] ELSE {p}

\* The button ends the match at the end of the frame, whatever was scored.
Button(player, ai, due) ==
    \/ playerScore' = player /\ aiScore' = ai /\ resetBall' = due
    \/ GameOver

\* A ball is due after a point of either side.  Mutated: only of one side.
DueAtLeft(left, right) == left

BallDue(left, right) == left \/ right

\* The ball moves from a column and row, with the scores so far, and scores at a
\* wall; due: another ball is due anyhow.
Fly(column, row, player, ai, due) ==
    LET left == Advance(column).at = 0
        right == Advance(column).at = XMax
    IN  /\ y' = NewRow(row)
        /\ x' = NewColumn(column, y'.at)
        /\ Button(IF left THEN player + 1 ELSE player,
                  IF right THEN ai + 1 ELSE ai,
                  due \/ BallDue(left, right))

\* A won match is announced, and the ball's and the paddles' next times are then
\* later than the time this frame began with: nothing moves.
Announce == resetBall /\ Won /\ GameOver /\ UNCHANGED <<x, y, paddles>>

\* Unless millis() wrapped meanwhile: all moves on, from where the last point
\* was scored.
AnnounceLate ==
    /\ resetBall /\ Won
    /\ Fly(x, y, 0, 0, TRUE) /\ MovePaddles(y'.at)

\* Too early for the ball, and for the paddles, which are due later; or their
\* time is past the wrap of millis() and seems to be over.
Wait ==
    /\ ~(resetBall /\ Won)
    /\ x' \in Served(x, StartX) /\ y' \in Served(y, StartY)
    /\ UNCHANGED paddles \/ MovePaddles(y'.at)
    /\ Button(playerScore, aiScore, FALSE)

\* The ball moves; the paddles may be due as well.
Move ==
    /\ ~(resetBall /\ Won)
    /\ \E column \in Served(x, StartX), row \in Served(y, StartY) :
         Fly(column, row, playerScore, aiScore, FALSE)
    /\ UNCHANGED paddles \/ MovePaddles(y'.at)

Next == Announce \/ AnnounceLate \/ Wait \/ Move

Spec == Init /\ [][Next]_vars

\* The sketch goes on calling pingpongGame.
FairSpec == Spec /\ WF_vars(Next)

-----------------------------------------------------------------------------
(* Properties.                                                             *)

\* Every variable keeps its type; directions are one of the two.
TypeOK ==
    /\ x \in [at : 0..Byte - 1, dir : {Forth, Back}]
    /\ y \in [at : 0..Byte - 1, dir : {Forth, Back}]
    /\ cpu_y \in 0..Byte - 1 /\ player_y \in 0..Byte - 1
    /\ playerScore \in 0..maxScore /\ aiScore \in 0..maxScore
    /\ resetBall \in BOOLEAN

\* The ball never leaves the court and never rests on a wall, where one step
\* more would wrap an 8-bit coordinate that no later test for 0 or the last
\* column or row would catch: not after two bounces in one frame, and not when
\* a reset ball is served.
BallInCourt == x.at \in 1..XMax - 1 /\ y.at \in 1..YMax - 1

\* Paddles that fit the court stay in it, although they move before they are
\* clamped and 1 - 1 - 1 would be 255: what Clamp does not see is the wrap.
PaddlesInCourt ==
    \A paddle \in {<<cpu_y, PADDLE_HEIGHT_JIKKO>>,
                   <<player_y, PADDLE_HEIGHT_USER>>} :
        paddle[2] < YMax =>
            /\ paddle[1] >= 1
            /\ paddle[1] + paddle[2] <= YMax \/ paddle[1] \in {CpuY, PlayerY}

\* A ball that got past a paddle is lost: until the next serve it flies on to
\* the wall behind, so that every pass is a point for one side and the ball
\* cannot be caught between a paddle and a wall.
PassedBallIsLost ==
    /\ x.at <= CPU_X /\ ~resetBall => x.dir = Back
    /\ x.at >= PLAYER_X /\ ~resetBall => x.dir = Forth

\* A match ends at maxScore: the frame that scores the last point asks for a
\* new ball, and the next one, whatever the button did, starts from 0 : 0, so
\* neither score steps over the value gameOver compares it with.
MatchEnds ==
    /\ playerScore <= maxScore /\ aiScore <= maxScore
    /\ Won => resetBall

\* A won match always gives way to a new one, and is not announced for ever.
MatchGivesWay == Won ~> (playerScore = 0 /\ aiScore = 0)
=============================================================================
