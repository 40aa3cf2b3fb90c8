--------------------------- MODULE PingPong_proofs ---------------------------
(***************************************************************************)
(* The court for every size, paddle and score that CourtAssumption allows. *)
(***************************************************************************)
EXTENDS PingPong, TLAPS

-----------------------------------------------------------------------------
(* Bytes.                                                                  *)

\* One step of the ball, when it cannot wrap.
LEMMA StepByte ==
  ASSUME NEW n \in 1..Byte - 2
  PROVE  /\ (n + Forth) % Byte = n + 1
         /\ (n + Back) % Byte = n - 1
BY DEF Byte, Forth, Back

\* The negated direction, and two steps in it, when they cannot wrap.
LEMMA TurnByte ==
  /\ (Byte - Forth) % Byte = Back
  /\ (Byte - Back) % Byte = Forth
  /\ \A n \in 0..Byte - 3 : (n + Forth + Forth) % Byte = n + 2
  /\ \A n \in 2..Byte - 1 : (n + Back + Back) % Byte = n - 2
BY DEF Byte, Forth, Back

-----------------------------------------------------------------------------
(* The ball in a line of the court, from 0 to last.                        *)

Ball == [at : 0..Byte - 1, dir : {Forth, Back}]

Inside(p, last) == p.at \in 1..last - 1

\* A ball inside a line moves to the next place of it.
LEMMA AdvanceInside ==
  ASSUME NEW last \in 3..Byte - 1, NEW p \in Ball, Inside(p, last)
  PROVE  /\ Advance(p) \in Ball
         /\ Advance(p).dir = p.dir
         /\ Advance(p).at = IF p.dir = Forth THEN p.at + 1 ELSE p.at - 1
         /\ Advance(p).at \in 0..last
<1>1. p.at \in 1..Byte - 2
  BY DEF Inside, Byte
<1>2. (p.at + Forth) % Byte = p.at + 1 /\ (p.at + Back) % Byte = p.at - 1
  BY <1>1, StepByte
<1>3. p.dir \in {Forth, Back} /\ Forth # Back
  BY DEF Ball, Forth, Back, Byte
<1>4. Advance(p) = [at |-> (p.at + p.dir) % Byte, dir |-> p.dir]
  BY DEF Advance, Ball
<1>5. Advance(p).at = IF p.dir = Forth THEN p.at + 1 ELSE p.at - 1
  BY <1>2, <1>3, <1>4
<1> QED
  BY <1>1, <1>3, <1>4, <1>5 DEF Inside, Ball, Byte

\* A bounce away from a place with room for it.
LEMMA BounceTurns ==
  ASSUME NEW p \in Ball
  PROVE  /\ p.dir = Back /\ p.at <= Byte - 3 =>
              Bounce(p) = [at |-> p.at + 2, dir |-> Forth]
         /\ p.dir = Forth /\ p.at >= 2 =>
              Bounce(p) = [at |-> p.at - 2, dir |-> Back]
<1>1. p.at \in 0..Byte - 1 /\ Byte \in Nat
  BY DEF Ball, Byte
<1>2. p.dir = Back /\ p.at <= Byte - 3 =>
        Bounce(p) = [at |-> p.at + 2, dir |-> Forth]
  BY <1>1, TurnByte DEF Bounce
<1>3. p.dir = Forth /\ p.at >= 2 =>
        Bounce(p) = [at |-> p.at - 2, dir |-> Back]
  BY <1>1, TurnByte DEF Bounce
<1> QED
  BY <1>2, <1>3

\* A ball that reached a wall in the direction of that wall is inside again.
LEMMA OffWallInside ==
  ASSUME NEW last \in 3..Byte - 1, NEW p \in Ball, p.at \in 0..last,
         p.at = 0 => p.dir = Back, p.at = last => p.dir = Forth
  PROVE  /\ OffWall(p, last) \in Ball
         /\ Inside(OffWall(p, last), last)
         /\ p.at = 0 => OffWall(p, last) = [at |-> 2, dir |-> Forth]
         /\ p.at = last => OffWall(p, last) = [at |-> last - 2, dir |-> Back]
         /\ p.at \notin {0, last} => OffWall(p, last) = p
<1>1. CASE p.at = 0
  <2>1. Bounce(p) = [at |-> 2, dir |-> Forth]
    BY <1>1, BounceTurns DEF Byte
  <2> QED
    BY <1>1, <2>1 DEF OffWall, Inside, Ball, Byte
<1>2. CASE p.at = last
  <2>1. Bounce(p) = [at |-> last - 2, dir |-> Back]
    BY <1>2, BounceTurns DEF Byte
  <2> QED
    BY <1>2, <2>1 DEF OffWall, Inside, Ball, Byte
<1>3. CASE p.at \notin {0, last}
  BY <1>3 DEF OffWall, Inside, Ball
<1> QED
  BY <1>1, <1>2, <1>3

\* A paddle leaves the ball alone or sends it back to where it came from.
LEMMA OffPaddleTurns ==
  ASSUME NEW column \in 3..Byte - 3, NEW hit \in BOOLEAN, NEW p \in Ball
  PROVE  /\ OffPaddle(p, column, hit) \in Ball
         /\ \/ OffPaddle(p, column, hit) = p
            \/ /\ p = [at |-> column, dir |-> Back]
               /\ OffPaddle(p, column, hit) = [at |-> column + 2, dir |-> Forth]
            \/ /\ p = [at |-> column, dir |-> Forth]
               /\ OffPaddle(p, column, hit) = [at |-> column - 2, dir |-> Back]
<1>1. CASE p.at = column /\ hit
  <2>1. OffPaddle(p, column, hit) = Bounce(p)
    BY <1>1 DEF OffPaddle
  <2>2. p = [at |-> column, dir |-> p.dir] /\ p.dir \in {Forth, Back}
    BY <1>1 DEF Ball
  <2>3. CASE p.dir = Back
    <3>1. Bounce(p) = [at |-> column + 2, dir |-> Forth]
      BY <1>1, <2>3, BounceTurns DEF Byte
    <3> QED
      BY <2>1, <2>2, <2>3, <3>1 DEF Ball, Byte
  <2>4. CASE p.dir = Forth
    <3>1. Bounce(p) = [at |-> column - 2, dir |-> Back]
      BY <1>1, <2>4, BounceTurns DEF Byte
    <3> QED
      BY <2>1, <2>2, <2>4, <3>1 DEF Ball, Byte
  <2> QED
    BY <2>2, <2>3, <2>4
<1>2. CASE ~(p.at = column /\ hit)
  BY <1>2 DEF OffPaddle
<1> QED
  BY <1>1, <1>2

-----------------------------------------------------------------------------
(* A frame moves the ball.                                                 *)

\* Beyond the paddles a ball flies to the wall behind.
Lost(p) == (p.at <= CPU_X => p.dir = Back) /\ (p.at >= PLAYER_X => p.dir = Forth)

CourtInv == TypeOK /\ BallInCourt /\ PassedBallIsLost /\ MatchEnds

\* The row stays in the court.
LEMMA RowStays ==
  ASSUME NEW row \in Ball, Inside(row, YMax)
  PROVE  NewRow(row) \in Ball /\ Inside(NewRow(row), YMax)
<1>1. YMax \in 3..Byte - 1
  BY CourtAssumption DEF Byte
<1> DEFINE next == Advance(row)
<1>2. /\ next \in Ball /\ next.dir = row.dir /\ next.at \in 0..YMax
      /\ next.at = IF row.dir = Forth THEN row.at + 1 ELSE row.at - 1
  BY <1>1, AdvanceInside
<1>3. (next.at = 0 => next.dir = Back) /\ (next.at = YMax => next.dir = Forth)
  BY <1>1, <1>2 DEF Inside, Ball, Byte
<1> HIDE DEF next
<1>4. OffWall(next, YMax) \in Ball /\ Inside(OffWall(next, YMax), YMax)
  BY <1>1, <1>2, <1>3, OffWallInside
<1> QED
  BY <1>4 DEF NewRow, next

\* The column stays in the court, whichever of walls and paddles turn it, and
\* a ball that has not reached a wall is still lost beyond a paddle.
LEMMA ColumnStays ==
  ASSUME NEW column \in Ball, Inside(column, XMax), NEW at \in 0..Byte - 1,
         cpu_y \in 0..Byte - 1, player_y \in 0..Byte - 1
  PROVE  /\ NewColumn(column, at) \in Ball
         /\ Inside(NewColumn(column, at), XMax)
         /\ Lost(column) /\ Advance(column).at \notin {0, XMax} =>
              Lost(NewColumn(column, at))
<1> DEFINE cpuHit == Covers(cpu_y, PADDLE_HEIGHT_JIKKO, at)
           userHit == Covers(player_y, PADDLE_HEIGHT_USER, at)
           next == Advance(column)
           off == OffWall(next, XMax)
           left == OffPaddle(off, CPU_X, cpuHit)
           right == OffPaddle(left, PLAYER_X, userHit)
<1>1. /\ XMax \in 3..Byte - 1 /\ CPU_X \in 3..Byte - 3 /\ PLAYER_X \in 3..Byte - 3
      /\ CPU_X + 4 < PLAYER_X /\ PLAYER_X + 2 < XMax
      /\ Byte \in Nat /\ Forth # Back
  BY CourtAssumption DEF Byte, Forth, Back
<1>2. cpuHit \in BOOLEAN /\ userHit \in BOOLEAN
  BY DEF Covers
<1>3. /\ next \in Ball /\ next.dir = column.dir /\ next.at \in 0..XMax
      /\ next.at = IF column.dir = Forth THEN column.at + 1 ELSE column.at - 1
  BY <1>1, AdvanceInside
<1>4. (next.at = 0 => next.dir = Back) /\ (next.at = XMax => next.dir = Forth)
  BY <1>1, <1>3 DEF Inside, Ball
<1>5. NewColumn(column, at) = right
  BY DEF NewColumn
<1> HIDE DEF next, cpuHit, userHit
<1>6. /\ off \in Ball /\ Inside(off, XMax)
      /\ next.at \notin {0, XMax} => off = next
  BY <1>1, <1>3, <1>4, OffWallInside
<1> HIDE DEF off
<1>7. /\ left \in Ball
      /\ \/ left = off
         \/ off = [at |-> CPU_X, dir |-> Back] /\ left = [at |-> CPU_X + 2, dir |-> Forth]
         \/ off = [at |-> CPU_X, dir |-> Forth] /\ left = [at |-> CPU_X - 2, dir |-> Back]
  BY <1>1, <1>2, <1>6, OffPaddleTurns
<1> HIDE DEF left
<1>8. /\ right \in Ball
      /\ \/ right = left
         \/ /\ left = [at |-> PLAYER_X, dir |-> Back]
            /\ right = [at |-> PLAYER_X + 2, dir |-> Forth]
         \/ /\ left = [at |-> PLAYER_X, dir |-> Forth]
            /\ right = [at |-> PLAYER_X - 2, dir |-> Back]
  BY <1>1, <1>2, <1>7, OffPaddleTurns
<1> HIDE DEF right
<1>9. Inside(left, XMax)
  BY <1>1, <1>6, <1>7 DEF Inside
<1>10. Inside(right, XMax)
  BY <1>1, <1>8, <1>9 DEF Inside
<1>11. ASSUME Lost(column), next.at \notin {0, XMax}
       PROVE  Lost(right)
  <2>1. Lost(next)
    BY <1>1, <1>3, <1>11 DEF Lost, Ball, Inside
  <2>2. Lost(left)
    BY <1>1, <1>6, <1>7, <1>11, <2>1 DEF Lost
  <2> QED
    BY <1>1, <1>8, <2>2 DEF Lost
<1> QED
  BY <1>5, <1>8, <1>10, <1>11 DEF next

-----------------------------------------------------------------------------
(* A frame moves the paddles.                                              *)

\* A byte whatever wraps.
LEMMA Wrapped == \A n \in Int : n % Byte \in 0..Byte - 1
BY DEF Byte

\* What Clamp makes of a paddle that fits the court is in the court.
LEMMA ClampFits ==
  ASSUME NEW top \in 0..Byte - 1, NEW height \in 0..Byte - 1
  PROVE  /\ Clamp(top, height) \in 0..Byte - 1
         /\ height < YMax =>
              Clamp(top, height) >= 1 /\ Clamp(top, height) + height <= YMax
<1>1. YMax \in 4..Byte - 1
  BY CourtAssumption DEF Byte
<1>2. (YMax - height) % Byte \in 0..Byte - 1
  BY <1>1, Wrapped DEF Byte
<1>3. height < YMax => (YMax - height) % Byte = YMax - height
  BY <1>1 DEF Byte
<1> QED
  BY <1>1, <1>2, <1>3 DEF Clamp, Byte

PaddleTypes == cpu_y \in 0..Byte - 1 /\ player_y \in 0..Byte - 1

\* Both paddles are where Clamp leaves them.
LEMMA PaddlesMove ==
  ASSUME PaddleTypes, NEW row \in 0..Byte - 1, MovePaddles(row)
  PROVE  /\ PaddleTypes'
         /\ PADDLE_HEIGHT_JIKKO < YMax =>
              cpu_y' >= 1 /\ cpu_y' + PADDLE_HEIGHT_JIKKO <= YMax
         /\ PADDLE_HEIGHT_USER < YMax =>
              player_y' >= 1 /\ player_y' + PADDLE_HEIGHT_USER <= YMax
<1>1. PADDLE_HEIGHT_JIKKO \in 0..Byte - 1 /\ PADDLE_HEIGHT_USER \in 0..Byte - 1
  BY CourtAssumption
<1>2. \A n \in 0..Byte - 1 : Up(n) \in 0..Byte - 1 /\ Down(n) \in 0..Byte - 1
  BY DEF Up, Down, Byte
<1>3. Follow(row) \in 0..Byte - 1
  BY <1>2 DEF PaddleTypes, Follow
<1>4. \A less, more \in BOOLEAN : Steer(less, more) \in 0..Byte - 1
  BY <1>2 DEF PaddleTypes, Steer
<1>5. cpu_y' = Clamp(Follow(row), PADDLE_HEIGHT_JIKKO)
  BY DEF MovePaddles
<1>6. PICK less, more \in BOOLEAN :
        player_y' = Clamp(Steer(less, more), PADDLE_HEIGHT_USER)
  BY DEF MovePaddles
<1> QED
  BY <1>1, <1>3, <1>4, <1>5, <1>6, ClampFits DEF PaddleTypes

-----------------------------------------------------------------------------
(* The invariant.                                                          *)

LEMMA CourtInit == Init => CourtInv /\ PaddlesInCourt
<1> SUFFICES ASSUME Init PROVE CourtInv /\ PaddlesInCourt
  OBVIOUS
<1>0. /\ BallX \in CPU_X + 1..PLAYER_X - 1 /\ BallY \in 1..YMax - 1
      /\ CPU_X \in 3..255 /\ PLAYER_X \in 0..255 /\ PLAYER_X + 2 < XMax
      /\ XMax \in 0..255 /\ YMax \in 0..255
      /\ CpuY \in 1..YMax - 1 /\ PlayerY \in 1..YMax - 1
  BY CourtAssumption DEF Byte
<1>1. TypeOK
  <2>1. x \in [at : 0..Byte - 1, dir : {Forth, Back}]
        /\ y \in [at : 0..Byte - 1, dir : {Forth, Back}]
    BY <1>0 DEF Init, Byte
  <2>2. cpu_y \in 0..Byte - 1 /\ player_y \in 0..Byte - 1
    BY <1>0 DEF Init, Byte
  <2>3. playerScore \in 0..maxScore /\ aiScore \in 0..maxScore
    BY CourtAssumption DEF Init
  <2>4. resetBall \in BOOLEAN
    BY DEF Init
  <2> QED
    BY <2>1, <2>2, <2>3, <2>4 DEF TypeOK
<1>2. BallInCourt /\ PassedBallIsLost
  BY <1>0 DEF Init, BallInCourt, PassedBallIsLost
<1>3. MatchEnds
  BY CourtAssumption DEF Init, MatchEnds, Won
<1>4. PaddlesInCourt
  BY CourtAssumption DEF Init, PaddlesInCourt
<1> QED
  BY <1>1, <1>2, <1>3, <1>4 DEF CourtInv

\* What the button leaves of the scores.
LEMMA ButtonScores ==
  ASSUME NEW player \in 0..maxScore, NEW ai \in 0..maxScore, NEW due \in BOOLEAN,
         player = maxScore \/ ai = maxScore => due,
         Button(player, ai, due)
  PROVE  /\ playerScore' \in 0..maxScore /\ aiScore' \in 0..maxScore
         /\ resetBall' \in BOOLEAN /\ (due => resetBall')
         /\ MatchEnds'
<1>1. maxScore \in Nat \ {0}
  BY CourtAssumption
<1>2. CASE playerScore' = player /\ aiScore' = ai /\ resetBall' = due
  BY <1>1, <1>2 DEF MatchEnds, Won
<1>3. CASE GameOver
  BY <1>1, <1>3 DEF GameOver, MatchEnds, Won
<1> QED
  BY <1>2, <1>3 DEF Button

\* A ball before it moves: one just served, or the one there was.
LEMMA ServedBall ==
  ASSUME CourtInv, NEW column \in Served(x, StartX), NEW row \in Served(y, StartY)
  PROVE  /\ column \in Ball /\ Inside(column, XMax) /\ Lost(column)
         /\ row \in Ball /\ Inside(row, YMax)
<1>1. CASE resetBall
  <2>1. column \in [at : StartX, dir : {Forth, Back}]
        /\ row \in [at : StartY, dir : {Forth, Back}]
    BY <1>1 DEF Served
  <2>2. column.at \in StartX /\ column.dir \in {Forth, Back}
        /\ row.at \in StartY /\ row.dir \in {Forth, Back}
        /\ column = [at |-> column.at, dir |-> column.dir]
        /\ row = [at |-> row.at, dir |-> row.dir]
    BY <2>1
  <2>3. /\ column.at \in CPU_X + 1..PLAYER_X - 1 /\ row.at \in 1..YMax - 1
        /\ CPU_X \in 3..Byte - 1 /\ PLAYER_X \in 0..Byte - 1
        /\ XMax \in 0..Byte - 1 /\ YMax \in 0..Byte - 1 /\ PLAYER_X + 2 < XMax
    BY <2>2, CourtAssumption DEF Byte
  <2>4. column.at \in 1..XMax - 1 /\ column.at > CPU_X /\ column.at < PLAYER_X
    BY <2>3 DEF Byte
  <2>5. column.at \in 0..Byte - 1 /\ row.at \in 0..Byte - 1
    BY <2>3, <2>4 DEF Byte
  <2>6. column \in Ball /\ row \in Ball
    BY <2>2, <2>5 DEF Ball
  <2>7. Lost(column)
    BY <2>3, <2>4 DEF Lost, Byte
  <2> QED
    BY <2>3, <2>4, <2>6, <2>7 DEF Inside
<1>2. CASE ~resetBall
  BY <1>2 DEF Served, CourtInv, TypeOK, BallInCourt, PassedBallIsLost,
              Ball, Inside, Lost
<1> QED
  BY <1>1, <1>2

\* A ball that flies stays in the court, and one that scores asks for another.
LEMMA BallFlies ==
  ASSUME CourtInv, NEW column \in Ball, Inside(column, XMax),
         NEW row \in Ball, Inside(row, YMax),
         NEW player \in 0..maxScore - 1, NEW ai \in 0..maxScore - 1,
         NEW due \in BOOLEAN, Lost(column) \/ due,
         Fly(column, row, player, ai, due),
         UNCHANGED paddles \/ MovePaddles(y'.at)
  PROVE  CourtInv'
<1> DEFINE left == Advance(column).at = 0
           right == Advance(column).at = XMax
           newPlayer == IF left THEN player + 1 ELSE player
           newAi == IF right THEN ai + 1 ELSE ai
           newDue == due \/ BallDue(left, right)
<1>1. /\ y' = NewRow(row) /\ x' = NewColumn(column, y'.at)
      /\ Button(newPlayer, newAi, newDue)
  BY DEF Fly
<1>2. y' \in Ball /\ Inside(y', YMax)
  BY <1>1, RowStays
<1>3. y'.at \in 0..Byte - 1 /\ cpu_y \in 0..Byte - 1 /\ player_y \in 0..Byte - 1
  BY <1>2 DEF Ball, CourtInv, TypeOK
<1>4. /\ x' \in Ball /\ Inside(x', XMax)
      /\ Lost(column) /\ Advance(column).at \notin {0, XMax} => Lost(x')
  BY <1>1, <1>3, ColumnStays
<1>5. cpu_y' \in 0..Byte - 1 /\ player_y' \in 0..Byte - 1
  <2>1. CASE UNCHANGED paddles
    BY <1>3, <2>1 DEF paddles
  <2>2. CASE MovePaddles(y'.at)
    BY <1>3, <2>2, PaddlesMove DEF PaddleTypes
  <2> QED
    BY <2>1, <2>2
<1>6. /\ newPlayer \in 0..maxScore /\ newAi \in 0..maxScore /\ newDue \in BOOLEAN
      /\ newPlayer = maxScore \/ newAi = maxScore => newDue
  BY CourtAssumption DEF BallDue
<1>7. ~newDue => Lost(column) /\ Advance(column).at \notin {0, XMax}
  BY DEF BallDue
<1> HIDE DEF newPlayer, newAi, newDue
<1>8. /\ playerScore' \in 0..maxScore /\ aiScore' \in 0..maxScore
      /\ resetBall' \in BOOLEAN /\ (newDue => resetBall')
      /\ MatchEnds'
  BY <1>1, <1>6, ButtonScores
<1>9. ~resetBall' => Lost(x')
  BY <1>4, <1>7, <1>8
<1>10. TypeOK'
  BY <1>2, <1>4, <1>5, <1>8 DEF TypeOK, Ball
<1>11. BallInCourt' /\ PassedBallIsLost'
  BY <1>2, <1>4, <1>9 DEF Inside, BallInCourt, PassedBallIsLost, Lost
<1> QED
  BY <1>8, <1>10, <1>11 DEF CourtInv

LEMMA CourtMove == CourtInv /\ Move => CourtInv'
<1> SUFFICES ASSUME CourtInv, Move PROVE CourtInv'
  OBVIOUS
<1>1. PICK column \in Served(x, StartX), row \in Served(y, StartY) :
        Fly(column, row, playerScore, aiScore, FALSE)
  BY DEF Move
<1>2. /\ column \in Ball /\ Inside(column, XMax) /\ Lost(column)
      /\ row \in Ball /\ Inside(row, YMax)
  BY ServedBall
<1>3. playerScore \in 0..maxScore - 1 /\ aiScore \in 0..maxScore - 1
  BY CourtAssumption DEF CourtInv, TypeOK, MatchEnds, Move, Won
<1>4. UNCHANGED paddles \/ MovePaddles(y'.at)
  BY DEF Move
<1> QED
  BY <1>1, <1>2, <1>3, <1>4, BallFlies

\* A served ball that does not move yet is where the serve put it.
LEMMA CourtWait == CourtInv /\ Wait => CourtInv'
<1> SUFFICES ASSUME CourtInv, Wait PROVE CourtInv'
  OBVIOUS
<1>1. /\ x' \in Ball /\ Inside(x', XMax) /\ Lost(x')
      /\ y' \in Ball /\ Inside(y', YMax)
  BY ServedBall DEF Wait
<1>2. cpu_y' \in 0..Byte - 1 /\ player_y' \in 0..Byte - 1
  <2>1. cpu_y \in 0..Byte - 1 /\ player_y \in 0..Byte - 1 /\ y'.at \in 0..Byte - 1
    BY <1>1 DEF CourtInv, TypeOK, Ball
  <2>2. CASE UNCHANGED paddles
    BY <2>1, <2>2 DEF paddles
  <2>3. CASE MovePaddles(y'.at)
    BY <2>1, <2>3, PaddlesMove DEF PaddleTypes
  <2> QED
    BY <2>2, <2>3 DEF Wait
<1>3. /\ playerScore \in 0..maxScore /\ aiScore \in 0..maxScore
      /\ ~(playerScore = maxScore \/ aiScore = maxScore)
  BY DEF CourtInv, TypeOK, MatchEnds, Wait, Won
<1>4. /\ playerScore' \in 0..maxScore /\ aiScore' \in 0..maxScore
      /\ resetBall' \in BOOLEAN /\ MatchEnds'
  BY <1>3, ButtonScores DEF Wait
<1>5. TypeOK'
  BY <1>1, <1>2, <1>4 DEF TypeOK, Ball
<1>6. BallInCourt' /\ PassedBallIsLost'
  BY <1>1 DEF Inside, BallInCourt, PassedBallIsLost, Lost
<1> QED
  BY <1>4, <1>5, <1>6 DEF CourtInv

\* A won match leaves the ball where it is and clears the scores.
LEMMA CourtAnnounce == CourtInv /\ Announce => CourtInv'
<1> SUFFICES ASSUME CourtInv, Announce PROVE CourtInv'
  OBVIOUS
<1>1. x' = x /\ y' = y /\ cpu_y' = cpu_y /\ player_y' = player_y
  BY DEF Announce, paddles
<1>2. playerScore' = 0 /\ aiScore' = 0 /\ resetBall'
  BY DEF Announce, GameOver
<1>3. TypeOK' /\ BallInCourt' /\ PassedBallIsLost'
  BY <1>1, <1>2, CourtAssumption DEF CourtInv, TypeOK, BallInCourt, PassedBallIsLost
<1>4. MatchEnds'
  BY <1>2, CourtAssumption DEF MatchEnds, Won
<1> QED
  BY <1>3, <1>4 DEF CourtInv

\* A ball that flies on after a won match stays in the court as well.
LEMMA CourtLate == CourtInv /\ AnnounceLate => CourtInv'
<1> SUFFICES ASSUME CourtInv, AnnounceLate PROVE CourtInv'
  OBVIOUS
<1>1. /\ x \in Ball /\ Inside(x, XMax) /\ y \in Ball /\ Inside(y, YMax)
      /\ 0 \in 0..maxScore - 1
  BY CourtAssumption DEF CourtInv, TypeOK, BallInCourt, Ball, Inside
<1>2. Fly(x, y, 0, 0, TRUE) /\ MovePaddles(y'.at)
  BY DEF AnnounceLate
<1> QED
  BY <1>1, <1>2, BallFlies

\* The ball, the types and the scores: for every court, for ever.
LEMMA CourtKept == Spec => []CourtInv
<1>1. CourtInv /\ UNCHANGED vars => CourtInv'
  BY DEF vars, paddles, scores, CourtInv, TypeOK, BallInCourt, PassedBallIsLost,
         MatchEnds, Won
<1>2. CourtInv /\ [Next]_vars => CourtInv'
  BY <1>1, CourtMove, CourtWait, CourtAnnounce, CourtLate DEF Next
<1> QED
  BY <1>2, CourtInit, PTL DEF Spec

\* Paddles that fit stay in the court: a frame leaves them where they are or
\* where Clamp puts them.
LEMMA PaddlesKept == CourtInv /\ PaddlesInCourt /\ [Next]_vars => PaddlesInCourt'
<1> SUFFICES ASSUME CourtInv, PaddlesInCourt, [Next]_vars PROVE PaddlesInCourt'
  OBVIOUS
<1>1. CASE UNCHANGED paddles
  BY <1>1 DEF paddles, PaddlesInCourt
<1>2. CASE \E row \in 0..Byte - 1 : MovePaddles(row)
  BY <1>2, PaddlesMove DEF PaddleTypes, CourtInv, TypeOK, PaddlesInCourt
<1>3. UNCHANGED paddles \/ \E row \in 0..Byte - 1 : MovePaddles(row)
  <2>1. CASE Move \/ Wait \/ AnnounceLate
    <3>1. CourtInv'
      BY <2>1, CourtMove, CourtWait, CourtLate
    <3>2. y'.at \in 0..Byte - 1
      BY <3>1 DEF CourtInv, TypeOK
    <3> QED
      BY <2>1, <3>2 DEF Move, Wait, AnnounceLate
  <2>2. CASE ~(Move \/ Wait \/ AnnounceLate)
    BY <2>2 DEF Next, Announce, vars, paddles
  <2> QED
    BY <2>1, <2>2
<1> QED
  BY <1>1, <1>2, <1>3

-----------------------------------------------------------------------------
(* Theorems.                                                               *)

\* pingpongGame keeps every variable a byte, a score or a flag.
THEOREM TypeCorrect == Spec => []TypeOK
<1>1. CourtInv => TypeOK
  BY DEF CourtInv
<1> QED
  BY <1>1, CourtKept, PTL

\* The ball never wraps and never rests on a wall, in any court that has room
\* for two bounces beside and between its paddles.
THEOREM BallStays == Spec => []BallInCourt
<1>1. CourtInv => BallInCourt
  BY DEF CourtInv
<1> QED
  BY <1>1, CourtKept, PTL

\* A ball that passed a paddle is a point for the other side.
THEOREM PassedIsLost == Spec => []PassedBallIsLost
<1>1. CourtInv => PassedBallIsLost
  BY DEF CourtInv
<1> QED
  BY <1>1, CourtKept, PTL

\* No score steps over maxScore, and a won match asks for a new ball.
THEOREM ScoreStops == Spec => []MatchEnds
<1>1. CourtInv => MatchEnds
  BY DEF CourtInv
<1> QED
  BY <1>1, CourtKept, PTL

\* Paddles that fit the court stay in it, whatever wraps before the clamping.
THEOREM PaddlesStay == Spec => []PaddlesInCourt
  BY CourtInit, CourtKept, PaddlesKept, PTL DEF Spec
=============================================================================
