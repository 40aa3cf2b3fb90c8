-------------------------- MODULE ShootGame_proofs --------------------------
(***************************************************************************)
(* The shooting game, for every size of its arrays, screen and figures and *)
(* every speed and step: types, the level the score calls for, the         *)
(* collisions a shown frame has settled, no bullet that jumps over an      *)
(* enemy, and no shot that overwrites a bullet still in flight.            *)
(***************************************************************************)
EXTENDS ShootGame, TLAPS

-----------------------------------------------------------------------------
(* Quotients and remainders.                                               *)

LEMMA Divided ==
  ASSUME NEW w \in Nat \ {0}, NEW n \in Int
  PROVE  n % w \in 0..w - 1 /\ n \div w \in Int /\ n = w * (n \div w) + (n % w)
OBVIOUS

LEMMA Division ==
  ASSUME NEW w \in Nat \ {0}, NEW q \in Int, NEW r \in 0..w - 1
  PROVE  (w * q + r) % w = r /\ (w * q + r) \div w = q
OBVIOUS

\* A remainder taken on the way changes no remainder at the end.
LEMMA RemainderOnce ==
  ASSUME NEW w \in Nat \ {0}, NEW a \in Int, NEW b \in Int
  PROVE  ((a % w) - b) % w = (a - b) % w
<1> DEFINE p == a \div w
           r == a % w
<1>1. r \in Int /\ p \in Int /\ a = w * p + r
  BY Divided
<1> HIDE DEF p, r
<1> DEFINE q == (r - b) \div w
           s == (r - b) % w
<1>2. s \in 0..w - 1 /\ q \in Int /\ r - b = w * q + s
  <2>1. r - b \in Int
    BY <1>1
  <2> QED
    BY <2>1, Divided, Zenon
<1> HIDE DEF q
<1>3. p + q \in Int /\ a - b = w * (p + q) + s
  <2>1. w * (p + q) = w * p + w * q /\ w * p \in Int /\ w * q \in Int
    BY <1>1, <1>2
  <2> QED
    BY <1>1, <1>2, <2>1
<1> HIDE DEF s
<1>4. (a - b) % w = s
  BY <1>2, <1>3, Division
<1> QED
  BY <1>4 DEF r, s

\* Of two multiples one that is smaller is smaller by a whole step.
LEMMA WholeStep ==
  ASSUME NEW p \in Nat \ {0}, NEW j \in Int, NEW k \in Int, p * j < p * k
  PROVE  p * j + p <= p * k /\ j < k
<1>1. j < k
  <2> SUFFICES ASSUME k <= j PROVE p * k <= p * j
    OBVIOUS
  <2>1. j - k \in Nat /\ p * (j - k) \in Nat /\ p * j = p * k + p * (j - k)
    OBVIOUS
  <2> QED
    BY <2>1
<1>2. k - j - 1 \in Nat /\ p * (k - j - 1) \in Nat
  BY <1>1
<1>3. p * k = p * j + p + p * (k - j - 1)
  OBVIOUS
<1> QED
  BY <1>1, <1>2, <1>3

\* A smaller number has no larger multiple.
LEMMA Monotone ==
  ASSUME NEW c \in Nat, NEW a \in Int, NEW b \in Int, a <= b
  PROVE  c * a <= c * b /\ c * a \in Int /\ c * b \in Int
<1>1. b - a \in Nat /\ c * (b - a) \in Nat /\ c * b = c * a + c * (b - a)
  OBVIOUS
<1> QED
  BY <1>1

\* Quotients grow with what is divided.
LEMMA QuotientGrows ==
  ASSUME NEW w \in Nat \ {0}, NEW a \in Int, NEW b \in Int, a <= b
  PROVE  a \div w <= b \div w
<1> DEFINE p == a \div w
           r == a % w
           q == b \div w
           s == b % w
<1>1. /\ p \in Int /\ r \in 0..w - 1 /\ a = w * p + r
      /\ q \in Int /\ s \in 0..w - 1 /\ b = w * q + s
  BY Divided
<1> HIDE DEF p, q, r, s
<1>2. w * p < w * (q + 1)
  <2>1. w * (q + 1) = w * q + w /\ w * p \in Int /\ w * q \in Int
    BY <1>1
  <2> QED
    BY <1>1, <2>1
<1>3. p < q + 1
  BY <1>1, <1>2, WholeStep
<1> QED
  BY <1>1, <1>3 DEF p, q

\* A quotient that is rounded up: what it grows with, and when m reaches it.
LEMMA RoundedUp ==
  ASSUME NEW w \in Nat \ {0}, NEW d \in Nat, NEW e \in Nat, e <= d
  PROVE  /\ (d + w - 1) \div w \in Nat
         /\ (e + w - 1) \div w <= (d + w - 1) \div w
         /\ \A m \in Int : w * m >= d => m >= (d + w - 1) \div w
         /\ \A m \in Int : w * m <= d + w - 1 => m <= (d + w - 1) \div w
<1> DEFINE q == (d + w - 1) \div w
           r == (d + w - 1) % w
           p == (e + w - 1) \div w
           s == (e + w - 1) % w
<1>1. /\ q \in Int /\ r \in 0..w - 1 /\ d + w - 1 = w * q + r
      /\ p \in Int /\ s \in 0..w - 1 /\ e + w - 1 = w * p + s
  <2>1. d + w - 1 \in Int /\ e + w - 1 \in Int
    OBVIOUS
  <2> QED
    BY <2>1, Divided, Zenon
<1> HIDE DEF p, q, r, s
<1>2. ASSUME NEW m \in Int, w * m <= d + w - 1 PROVE m <= q
  <2>1. w * m < w * (q + 1)
    <3>1. w * (q + 1) = w * q + w /\ w * q \in Int /\ w * m \in Int
      BY <1>1
    <3> QED
      BY <1>1, <1>2, <3>1
  <2>2. m < q + 1
    BY <1>1, <2>1, WholeStep
  <2> QED
    BY <1>1, <2>2
<1>3. ASSUME NEW m \in Int, w * m >= d PROVE m >= q
  <2>1. w * q < w * (m + 1)
    <3>1. w * (m + 1) = w * m + w /\ w * q \in Int /\ w * m \in Int
      BY <1>1
    <3> QED
      BY <1>1, <1>3, <3>1
  <2>2. q < m + 1
    BY <1>1, <2>1, WholeStep
  <2> QED
    BY <1>1, <2>2
<1>4. p <= q
  <2>1. e + w - 1 \in Int /\ d + w - 1 \in Int /\ e + w - 1 <= d + w - 1
    OBVIOUS
  <2> QED
    BY <2>1, QuotientGrows DEF p, q
<1>5. q >= 0
  <2>1. w * 0 <= d + w - 1
    OBVIOUS
  <2> QED
    BY <1>2, <2>1
<1> QED
  BY <1>1, <1>2, <1>3, <1>4, <1>5 DEF p, q

-----------------------------------------------------------------------------
(* Types.                                                                  *)

PlayerTypes == [x : 0..MAX_X, y : MIN_Y..MAX_Y, lives : 0..MY_LIVES, score : Nat]
BulletTypes == [x : Nat, y : Nat, live : BOOLEAN]
EnemyTypes == [x : 0..Width - 1, y : Nat, speed : Nat]
LevelTypes == [speed : Nat, chance : Int, delay : 0..Word - 1]

\* What the constants are, one by one.
LEMMA Sizes ==
  /\ maxBullets \in Nat \ {0} /\ maxEnemies \in Nat \ {0} /\ Width \in Nat \ {0}
  /\ Ship \in Nat \ {0} /\ Size \in Nat \ {0} /\ MY_SPEED \in Nat \ {0}
  /\ BulletSpeed \in Nat \ {0} /\ Points \in Nat \ {0}
  /\ LevelEvery \in Nat \ {0} /\ Word \in Nat \ {0}
  /\ MIN_Y \in Nat /\ MAX_Y \in Nat /\ MAX_X \in Nat /\ HomeY \in MIN_Y..MAX_Y
  /\ MY_LIVES \in Nat /\ InitialSpeed \in Nat /\ InitialChance \in Nat
  /\ InitialDelay \in Nat /\ InitialDelay < Word /\ ChanceStep \in Nat
  /\ DelayStep \in Nat /\ TopScore \in Nat /\ MAX_X + Ship <= Width
  /\ MIN_Y < MAX_Y /\ LevelEvery % Points = 0 /\ FrameTimes \subseteq Nat \ {0}
BY GameAssumption

\* The empty slots and the first positions.
LEMMA Fresh ==
  /\ NoBullet \in BulletTypes /\ ~NoBullet.live
  /\ NoEnemy \in EnemyTypes /\ NoEnemy.x = 0
  /\ NewPlayer \in PlayerTypes /\ NewPlayer.score = 0
  /\ NewLevel \in LevelTypes
  /\ 0 \in Bullets /\ 0 \in Enemies
  /\ Bullets \subseteq Nat /\ Enemies \subseteq Nat
BY Sizes DEF NoBullet, NoEnemy, NewPlayer, NewLevel, BulletTypes, EnemyTypes,
   PlayerTypes, LevelTypes, Bullets, Enemies

\* The slot whose turn is next is a slot.
LEMMA FollowingSlot ==
  ASSUME NEW size \in Nat \ {0}, NEW n \in 0..size - 1
  PROVE  Following(n, size) \in 0..size - 1
BY DEF Following

LEMMA InitType == Init => TypeOK
BY Fresh, Sizes
DEF Init, TypeOK, PlayerTypes, BulletTypes, EnemyTypes, LevelTypes, NewLevel, Stages

\* What the collision loop does next.
LEMMA NextEnemyType ==
  ASSUME i \in Enemies, NextEnemy
  PROVE  stage' \in {"collide", "show"} /\ i' \in Enemies
BY Sizes DEF NextEnemy, Enemies

\* A step of the frame before the collisions keeps the types.
LEMMA FrameType ==
  ASSUME TypeOK, Spawn \/ NoSpawn \/ Steer \/ Fire \/ HoldFire \/ Advance \/ Show
  PROVE  TypeOK'
<1>1. /\ player \in PlayerTypes /\ bullets \in [Bullets -> BulletTypes]
      /\ bulletCount \in Bullets /\ enemies \in [Enemies -> EnemyTypes]
      /\ enemyCount \in Enemies /\ level \in LevelTypes
      /\ wait \in Nat /\ stage \in Stages /\ i \in Enemies
  BY DEF TypeOK, PlayerTypes, BulletTypes, EnemyTypes, LevelTypes
<1> SUFFICES /\ player' \in PlayerTypes /\ bullets' \in [Bullets -> BulletTypes]
             /\ bulletCount' \in Bullets /\ enemies' \in [Enemies -> EnemyTypes]
             /\ enemyCount' \in Enemies /\ level' \in LevelTypes
             /\ wait' \in Nat /\ stage' \in Stages /\ i' \in Enemies
  BY DEF TypeOK, PlayerTypes, BulletTypes, EnemyTypes, LevelTypes
<1> USE <1>1 DEF StageAt, Stages, field
<1>2. CASE Spawn
  <2>1. PICK y \in MIN_Y..MAX_Y - 1 :
          enemies' = [enemies EXCEPT ![enemyCount] =
                        [x |-> Width - 1, y |-> y, speed |-> level.speed]]
    BY <1>2 DEF Spawn
  <2>2. [x |-> Width - 1, y |-> y, speed |-> level.speed] \in EnemyTypes
    BY Sizes DEF EnemyTypes, LevelTypes
  <2>3. enemies' \in [Enemies -> EnemyTypes]
    BY <2>1, <2>2
  <2>4. enemyCount' \in Enemies
    BY <1>2, Sizes, FollowingSlot DEF Spawn, Enemies
  <2> QED
    BY <1>2, <2>3, <2>4 DEF Spawn
<1>3. CASE NoSpawn \/ HoldFire
  BY <1>3 DEF NoSpawn, HoldFire
<1>4. CASE Steer
  <2>1. PICK dirX \in {-MY_SPEED, 0, MY_SPEED}, dirY \in {-MY_SPEED, 0, MY_SPEED} :
          player' = [player EXCEPT !.x = Constrain(@ + dirX, 0, MAX_X),
                                   !.y = Constrain(@ + dirY, MIN_Y, MAX_Y)]
    BY <1>4 DEF Steer
  <2>2. /\ Constrain(player.x + dirX, 0, MAX_X) \in 0..MAX_X
        /\ Constrain(player.y + dirY, MIN_Y, MAX_Y) \in MIN_Y..MAX_Y
    BY Sizes DEF Constrain, PlayerTypes
  <2>3. player' \in PlayerTypes
    BY <2>1, <2>2 DEF PlayerTypes
  <2> QED
    BY <1>4, <2>3 DEF Steer
<1>5. CASE Fire
  <2>1. [x |-> player.x + Ship, y |-> player.y + Ship \div 2, live |-> TRUE]
          \in BulletTypes
    <3>1. Ship \div 2 \in Nat /\ player.x \in Nat /\ player.y \in Nat
      BY Sizes DEF PlayerTypes
    <3> QED
      BY <3>1, Sizes DEF BulletTypes
  <2>2. bullets' \in [Bullets -> BulletTypes]
    BY <1>5, <2>1 DEF Fire
  <2>3. bulletCount' \in Bullets
    BY <1>5, Sizes, FollowingSlot DEF Fire, Bullets
  <2>4. wait' \in Nat
    BY <1>5, Sizes DEF Fire, ShotDelay, LevelTypes
  <2> QED
    BY <1>5, <2>2, <2>3, <2>4 DEF Fire
<1>6. CASE Advance
  <2>1. ASSUME NEW b \in BulletTypes PROVE BulletMoved(b) \in BulletTypes
    BY Fresh, Sizes DEF BulletMoved, BulletTypes
  <2>2. ASSUME NEW e \in EnemyTypes PROVE EnemyMoved(e) \in EnemyTypes
    BY Fresh, Sizes DEF EnemyMoved, EnemyTypes
  <2>3. bullets' \in [Bullets -> BulletTypes] /\ enemies' \in [Enemies -> EnemyTypes]
    BY <1>6, <2>1, <2>2 DEF Advance
  <2> QED
    BY <1>6, <2>3, Fresh DEF Advance
<1>7. CASE Show
  <2>1. wait' \in Nat
    BY <1>7, Sizes DEF Show
  <2> QED
    BY <1>7, <2>1 DEF Show
<1> QED
  BY <1>2, <1>3, <1>4, <1>5, <1>6, <1>7

\* A pass of the collision loop keeps the types.
LEMMA CollideType ==
  ASSUME TypeOK, Lose \/ Defeat \/ Strike \/ Miss
  PROVE  TypeOK'
<1>1. /\ player \in PlayerTypes /\ bullets \in [Bullets -> BulletTypes]
      /\ bulletCount \in Bullets /\ enemies \in [Enemies -> EnemyTypes]
      /\ enemyCount \in Enemies /\ level \in LevelTypes
      /\ wait \in Nat /\ stage \in Stages /\ i \in Enemies
  BY DEF TypeOK, PlayerTypes, BulletTypes, EnemyTypes, LevelTypes
<1> SUFFICES /\ player' \in PlayerTypes /\ bullets' \in [Bullets -> BulletTypes]
             /\ bulletCount' \in Bullets /\ enemies' \in [Enemies -> EnemyTypes]
             /\ enemyCount' \in Enemies /\ level' \in LevelTypes
             /\ wait' \in Nat /\ stage' \in Stages /\ i' \in Enemies
  BY DEF TypeOK, PlayerTypes, BulletTypes, EnemyTypes, LevelTypes
<1> USE <1>1 DEF Stages, field
<1>2. CASE Lose
  <2>1. player' \in PlayerTypes
    BY <1>2, Sizes DEF Lose, PlayerTypes
  <2>2. enemies' \in [Enemies -> EnemyTypes]
    BY <1>2, Fresh DEF Lose
  <2>3. stage' \in {"collide", "show"} /\ i' \in Enemies
    BY <1>2, NextEnemyType DEF Lose
  <2> QED
    BY <1>2, <2>1, <2>2, <2>3 DEF Lose
<1>3. CASE Defeat
  BY <1>3, Fresh DEF Defeat, StageAt
<1>4. CASE Strike
  <2>1. PICK b \in Bullets : bullets' = [bullets EXCEPT ![b] = NoBullet]
    BY <1>4 DEF Strike
  <2>2. bullets' \in [Bullets -> BulletTypes]
    BY <2>1, Fresh
  <2>3. enemies' \in [Enemies -> EnemyTypes]
    BY <1>4, Fresh DEF Strike
  <2>4. player' \in PlayerTypes
    BY <1>4, Sizes DEF Strike, PlayerTypes
  <2>5. level' \in LevelTypes
    <3>1. (level.delay - DelayStep) % Word \in 0..Word - 1
      BY Sizes, Divided DEF LevelTypes
    <3>2. Harder \in LevelTypes
      BY <3>1, Sizes DEF Harder, LevelTypes
    <3> QED
      BY <1>4, <3>2 DEF Strike
  <2>6. stage' \in {"collide", "show"} /\ i' \in Enemies
    BY <1>4, NextEnemyType DEF Strike
  <2> QED
    BY <1>4, <2>2, <2>3, <2>4, <2>5, <2>6 DEF Strike
<1>5. CASE Miss
  BY <1>5, NextEnemyType DEF Miss
<1> QED
  BY <1>2, <1>3, <1>4, <1>5

LEMMA TypesKept == TypeOK /\ [Next]_vars => TypeOK'
<1>1. TypeOK /\ UNCHANGED vars => TypeOK'
  BY DEF TypeOK, vars, field
<1> QED
  BY <1>1, FrameType, CollideType DEF Next

\* Every reachable state is well typed; no enemy is left behind column 0.
THEOREM TypeCorrect == Spec => []TypeOK
BY InitType, TypesKept, PTL DEF Spec

-----------------------------------------------------------------------------
(* The level.                                                              *)

\* Points come in steps that LevelEvery is a multiple of, so the score never
\* jumps over the multiple of LevelEvery at which the level is looked at.
LevelInv == LevelMatchesScore /\ player.score % Points = 0

\* One more hit reaches the next level, or stays below it.
LEMMA HitCounts ==
  ASSUME NEW n \in Nat, n % Points = 0
  PROVE  /\ (n + Points) % Points = 0
         /\ (n + Points) % LevelEvery = 0 =>
                (n + Points) \div LevelEvery = n \div LevelEvery + 1
         /\ (n + Points) % LevelEvery # 0 =>
                (n + Points) \div LevelEvery = n \div LevelEvery
<1> DEFINE m == n \div Points
           k == LevelEvery \div Points
           q == n \div LevelEvery
           r == n % LevelEvery
<1>1. /\ Points \in Nat \ {0} /\ LevelEvery \in Nat \ {0}
      /\ m \in Int /\ n = Points * m /\ k \in Int /\ LevelEvery = Points * k
      /\ q \in Int /\ r \in 0..LevelEvery - 1 /\ n = LevelEvery * q + r
  <2>1. /\ Points \in Nat \ {0} /\ LevelEvery \in Nat \ {0}
        /\ LevelEvery % Points = 0 /\ n \in Int /\ LevelEvery \in Int
    BY Sizes
  <2>2. m \in Int /\ n = Points * m + (n % Points)
    BY <2>1, Divided
  <2>3. k \in Int /\ LevelEvery = Points * k + (LevelEvery % Points)
    BY <2>1, Divided
  <2>4. q \in Int /\ r \in 0..LevelEvery - 1 /\ n = LevelEvery * q + r
    BY <2>1, Divided
  <2>5. Points * m \in Int /\ Points * k \in Int
    BY <2>1, <2>2, <2>3
  <2> HIDE DEF m, k, q, r
  <2> QED
    BY <2>1, <2>2, <2>3, <2>4, <2>5
<1> HIDE DEF m, k, q, r
<1>2. (n + Points) % Points = 0
  <2>1. n + Points = Points * (m + 1) + 0 /\ m + 1 \in Int
    BY <1>1
  <2> QED
    BY <1>1, <2>1, Division
<1>3. r + Points <= LevelEvery
  <2> DEFINE j == m - k * q
  <2>1. j \in Int /\ Points * j = r
    <3>1. Points * (m - k * q) = Points * m - Points * (k * q)
      BY <1>1
    <3>2. Points * (k * q) = (Points * k) * q
      BY <1>1
    <3> QED
      BY <1>1, <3>1, <3>2
  <2>2. Points * j < Points * k
    BY <1>1, <2>1
  <2> HIDE DEF j
  <2> QED
    BY <1>1, <2>1, <2>2, WholeStep
<1>4. CASE r + Points = LevelEvery
  <2>1. n + Points = LevelEvery * (q + 1) + 0 /\ q + 1 \in Int
    BY <1>1, <1>4
  <2>2. (n + Points) % LevelEvery = 0 /\ (n + Points) \div LevelEvery = q + 1
    BY <1>1, <2>1, Division
  <2> QED
    BY <1>2, <2>2 DEF q
<1>5. CASE r + Points < LevelEvery
  <2>1. /\ n + Points = LevelEvery * q + (r + Points)
        /\ r + Points \in 0..LevelEvery - 1 /\ r + Points # 0
    BY <1>1, <1>5
  <2>2. /\ (n + Points) % LevelEvery = r + Points
        /\ (n + Points) \div LevelEvery = q
    BY <1>1, <2>1, Division
  <2> QED
    BY <1>2, <2>1, <2>2 DEF q
<1> QED
  BY <1>1, <1>3, <1>4, <1>5

LevelAt(n) == [speed |-> InitialSpeed + n,
               chance |-> InitialChance - ChanceStep * n,
               delay |-> (InitialDelay - DelayStep * n) % Word]

\* A new game is at level 0.
LEMMA LevelAtStart == LevelAt(0) = NewLevel /\ 0 \div LevelEvery = 0 /\ 0 % Points = 0
<1>1. /\ ChanceStep * 0 = 0 /\ DelayStep * 0 = 0
      /\ InitialDelay % Word = InitialDelay
      /\ 0 \div LevelEvery = 0 /\ 0 % Points = 0
  BY Sizes
<1> QED
  BY <1>1, Sizes DEF LevelAt, NewLevel

\* One level harder is the level after it.
LEMMA LevelAfter ==
  ASSUME NEW n \in Int, level = LevelAt(n)
  PROVE  Harder = LevelAt(n + 1)
<1>1. /\ ChanceStep * (n + 1) = ChanceStep * n + ChanceStep
      /\ DelayStep * (n + 1) = DelayStep * n + DelayStep
      /\ ChanceStep * n \in Int /\ DelayStep * n \in Int
  BY Sizes
<1>2. PICK a \in Int : a = InitialDelay - DelayStep * n
  <2>1. InitialDelay - DelayStep * n \in Int
    BY <1>1, Sizes
  <2> QED
    BY <2>1
<1>3. ((a % Word) - DelayStep) % Word = (a - DelayStep) % Word
  <2>1. DelayStep \in Int /\ Word \in Nat \ {0}
    BY Sizes
  <2> QED
    BY <2>1, RemainderOnce
<1>4. a - DelayStep = InitialDelay - DelayStep * (n + 1)
  BY <1>1, <1>2, Sizes
<1>5. level.delay = (InitialDelay - DelayStep * n) % Word
      /\ level.speed = InitialSpeed + n /\ level.chance = InitialChance - ChanceStep * n
  BY DEF LevelAt
<1>6. (level.delay - DelayStep) % Word = (InitialDelay - DelayStep * (n + 1)) % Word
  BY <1>2, <1>3, <1>4, <1>5
<1>7. /\ level.speed + 1 = InitialSpeed + (n + 1)
      /\ level.chance - ChanceStep = InitialChance - ChanceStep * (n + 1)
  BY <1>1, <1>5, Sizes
<1> QED
  BY <1>6, <1>7 DEF Harder, LevelAt

LEMMA LevelIs == LevelMatchesScore <=> level = LevelAt(player.score \div LevelEvery)
BY DEF LevelMatchesScore, LevelAt

LEMMA LevelStep == TypeOK /\ LevelInv /\ [Next]_vars => LevelInv'
<1> SUFFICES ASSUME TypeOK, LevelInv, [Next]_vars PROVE LevelInv'
  OBVIOUS
<1>1. player \in PlayerTypes
  BY DEF TypeOK, PlayerTypes
<1>2. ASSUME player'.score = player.score, level' = level PROVE LevelInv'
  BY <1>2 DEF LevelInv, LevelMatchesScore
<1>3. CASE UNCHANGED vars
  BY <1>2, <1>3 DEF vars
<1>4. CASE Spawn \/ NoSpawn \/ Fire \/ HoldFire \/ Advance \/ Miss \/ Show
  BY <1>2, <1>4 DEF Spawn, NoSpawn, Fire, HoldFire, Advance, Miss, Show
<1>5. CASE Steer \/ Lose
  <2>1. level' = level /\ player'.score = player.score
    BY <1>1, <1>5 DEF Steer, Lose, PlayerTypes
  <2> QED
    BY <1>2, <2>1
<1>6. CASE Defeat
  <2>1. player'.score = 0 /\ level' = LevelAt(0)
    BY <1>6, Fresh, LevelAtStart DEF Defeat
  <2> QED
    BY <2>1, LevelAtStart DEF LevelInv, LevelMatchesScore, LevelAt
<1>7. CASE Strike
  <2> DEFINE n == player.score
             q == n \div LevelEvery
  <2>1. /\ n \in Nat /\ n % Points = 0 /\ q \in Int /\ level = LevelAt(q)
    <3>1. n \in Nat /\ n \in Int /\ LevelEvery \in Nat \ {0}
      BY <1>1, Sizes DEF PlayerTypes
    <3> QED
      BY <3>1, Divided, LevelIs DEF LevelInv
  <2>2. /\ player'.score = n + Points
        /\ level' = IF player'.score % LevelEvery = 0 THEN Harder ELSE level
    BY <1>1, <1>7 DEF Strike, PlayerTypes
  <2>3. Harder = LevelAt(q + 1)
    BY <2>1, LevelAfter
  <2>4. level' = LevelAt((n + Points) \div LevelEvery)
    <3>1. CASE (n + Points) % LevelEvery = 0
      BY <2>1, <2>2, <2>3, <3>1, HitCounts
    <3>2. CASE (n + Points) % LevelEvery # 0
      BY <2>1, <2>2, <3>2, HitCounts
    <3> QED
      BY <3>1, <3>2
  <2>5. player'.score % Points = 0
    BY <2>1, <2>2, HitCounts
  <2> HIDE DEF n
  <2> QED
    BY <2>2, <2>4, <2>5 DEF LevelInv, LevelMatchesScore, LevelAt
<1> QED
  BY <1>3, <1>4, <1>5, <1>6, <1>7 DEF Next

\* Speed, chance and delay are at any time what the score says.
THEOREM LevelFollowsScore == Spec => []LevelMatchesScore
<1>1. Init => LevelInv
  BY LevelAtStart, Fresh
  DEF Init, LevelInv, LevelMatchesScore, LevelAt, NewPlayer, NewLevel
<1>2. Init => TypeOK
  BY InitType
<1>3. LevelInv => LevelMatchesScore
  BY DEF LevelInv
<1> QED
  BY <1>1, <1>2, <1>3, TypesKept, LevelStep, PTL DEF Spec

-----------------------------------------------------------------------------
(* The collisions.                                                         *)

Settled(e) ==
    /\ \A b \in Bullets : ~Hits(b, e)
    /\ enemies[e].x > 0 => ~HasCollided(enemies[e], Size, player, Ship)

\* The loop leaves behind it only enemies that collide with nothing, although
\* its later passes take bullets and enemies away and change the score.
SettledInv ==
    /\ stage = "collide" => \A e \in Enemies : e < i => Settled(e)
    /\ stage = "show" => \A e \in Enemies : Settled(e)

\* A pass that settles its own enemy and unsettles none before it.
LEMMA PassSettles ==
  ASSUME TypeOK, SettledInv, stage = "collide", NextEnemy,
         NEW at \in Enemies, i = at, Settled(at)',
         \A e \in Enemies : e # at /\ Settled(e) => Settled(e)'
  PROVE  SettledInv'
<1>1. Enemies \subseteq Nat /\ maxEnemies \in Nat \ {0}
  BY Fresh, Sizes
<1>2. ASSUME NEW e \in Enemies, e <= at PROVE Settled(e)'
  <2>1. CASE e = at
    BY <2>1
  <2>2. CASE e < at
    BY <2>2, <1>1 DEF SettledInv
  <2> QED
    BY <1>1, <1>2, <2>1, <2>2
<1>3. CASE at = maxEnemies - 1
  <2>1. stage' = "show" /\ \A e \in Enemies : e <= at
    BY <1>1, <1>3 DEF NextEnemy, Enemies
  <2> QED
    BY <1>2, <2>1 DEF SettledInv
<1>4. CASE at # maxEnemies - 1
  <2>1. stage' = "collide" /\ i' = at + 1
    BY <1>4 DEF NextEnemy
  <2>2. \A e \in Enemies : e < i' => e <= at
    BY <1>1, <2>1
  <2> QED
    BY <1>2, <2>1, <2>2 DEF SettledInv
<1> QED
  BY <1>3, <1>4

LEMMA SettledStep == TypeOK /\ SettledInv /\ [Next]_vars => SettledInv'
<1> SUFFICES ASSUME TypeOK, SettledInv, [Next]_vars PROVE SettledInv'
  OBVIOUS
<1>1. /\ player \in PlayerTypes /\ bullets \in [Bullets -> BulletTypes]
      /\ enemies \in [Enemies -> EnemyTypes] /\ i \in Enemies
  BY DEF TypeOK, PlayerTypes, BulletTypes, EnemyTypes
<1> PICK at \in Enemies : i = at
  BY <1>1
<1>2. CASE UNCHANGED vars
  BY <1>2 DEF vars, field, SettledInv, Settled, Hits
<1>3. CASE Spawn \/ NoSpawn \/ Steer \/ Fire \/ HoldFire \/ Show
  <2>1. stage' \notin {"collide", "show"}
    BY <1>3 DEF Spawn, NoSpawn, Steer, Fire, HoldFire, Show, StageAt
  <2> QED
    BY <2>1 DEF SettledInv
<1>4. CASE Advance
  <2>1. stage' = "collide" /\ i' = 0
    BY <1>4 DEF Advance, StageAt
  <2> QED
    BY <2>1, Fresh DEF SettledInv
<1>5. CASE Lose
  <2>1. /\ enemies' = [enemies EXCEPT ![at] = NoEnemy] /\ bullets' = bullets
        /\ player' = [player EXCEPT !.lives = @ - 1]
    BY <1>5 DEF Lose
  <2>2. /\ player'.x = player.x /\ player'.y = player.y
        /\ enemies'[at].x = 0 /\ \A e \in Enemies : e # at => enemies'[e] = enemies[e]
    BY <1>1, <2>1, Fresh DEF PlayerTypes
  <2>3. \A e \in Enemies : e # at /\ Settled(e) => Settled(e)'
    BY <2>1, <2>2 DEF Settled, Hits, HasCollided
  <2>4. Settled(at)'
    BY <2>2 DEF Settled, Hits
  <2> QED
    BY <1>5, <2>3, <2>4, PassSettles DEF Lose
<1>6. CASE Defeat
  <2>1. stage' = "show" /\ \A e \in Enemies : enemies'[e].x = 0
    BY <1>6, Fresh DEF Defeat, StageAt
  <2> QED
    BY <2>1 DEF SettledInv, Settled, Hits
<1>7. CASE Strike
  <2>1. PICK b \in Bullets : bullets' = [bullets EXCEPT ![b] = NoBullet]
    BY <1>7 DEF Strike
  <2>2. /\ enemies' = [enemies EXCEPT ![at] = NoEnemy]
        /\ player' = [player EXCEPT !.score = @ + Points]
    BY <1>7 DEF Strike
  <2>3. /\ player'.x = player.x /\ player'.y = player.y
        /\ enemies'[at].x = 0 /\ \A e \in Enemies : e # at => enemies'[e] = enemies[e]
        /\ ~bullets'[b].live /\ \A c \in Bullets : c # b => bullets'[c] = bullets[c]
    BY <1>1, <2>1, <2>2, Fresh DEF PlayerTypes
  <2>4. \A e \in Enemies : e # at /\ Settled(e) => Settled(e)'
    BY <2>3 DEF Settled, Hits, HasCollided
  <2>5. Settled(at)'
    BY <2>3 DEF Settled, Hits
  <2> QED
    BY <1>7, <2>4, <2>5, PassSettles DEF Strike
<1>8. CASE Miss
  <2>1. /\ UNCHANGED <<player, bullets, enemies>> /\ Settled(at)
    BY <1>8 DEF Miss, field, Settled, Rammed
  <2>2. \A e \in Enemies : Settled(e)' <=> Settled(e)
    BY <2>1 DEF Settled, Hits
  <2> QED
    BY <1>8, <2>1, <2>2, PassSettles DEF Miss
<1> QED
  BY <1>2, <1>3, <1>4, <1>5, <1>6, <1>7, <1>8 DEF Next

\* When a frame is shown, nothing that should have collided is left.
THEOREM FrameSettled == Spec => []CollisionsSettled
<1>1. Init => TypeOK /\ SettledInv
  BY InitType DEF Init, SettledInv
<1>2. SettledInv => CollisionsSettled
  BY DEF SettledInv, Settled, CollisionsSettled
<1> QED
  BY <1>1, <1>2, TypesKept, SettledStep, PTL DEF Spec

\* What the frame's move does to one bullet and one enemy.
LEMMA MovesApart ==
  ASSUME TypeOK, [Next]_vars, stage = "advance",
         NEW b \in Bullets, NEW e \in Enemies,
         bullets[b].live, enemies[e].x > 0, bullets'[b].live,
         bullets[b].x + Size <= enemies[e].x,
         BulletSpeed + enemies[e].speed < 2 * Size
  PROVE  bullets'[b].x < enemies'[e].x + Size \/ enemies'[e].x = 0
<1>1. /\ bullets[b] \in BulletTypes /\ enemies[e] \in EnemyTypes
  BY DEF TypeOK, BulletTypes, EnemyTypes
<1>2. CASE UNCHANGED vars
  BY <1>1, <1>2, Sizes DEF vars, field, BulletTypes, EnemyTypes
<1>3. CASE Advance
  <2>1. bullets'[b] = BulletMoved(bullets[b]) /\ enemies'[e] = EnemyMoved(enemies[e])
    BY <1>3 DEF Advance
  <2>2. bullets'[b].x = bullets[b].x + BulletSpeed
    BY <1>1, <2>1, Fresh DEF BulletMoved, BulletTypes
  <2>3. enemies'[e].x = 0 \/ enemies'[e].x = enemies[e].x - enemies[e].speed
    BY <1>1, <2>1, Fresh DEF EnemyMoved, EnemyTypes
  <2> QED
    BY <1>1, <2>2, <2>3, Sizes DEF BulletTypes, EnemyTypes
<1> QED
  BY <1>2, <1>3 DEF Next, Spawn, NoSpawn, Steer, Fire, HoldFire, Lose, Defeat,
     Strike, Miss, Show, StageAt

\* No bullet jumps over an enemy in its way while the two approach slowly enough.
THEOREM NoBulletJumps == Spec => NoneSlipsThrough
<1>1. TypeOK /\ [Next]_vars =>
        [ stage = "advance" =>
            \A b \in Bullets, e \in Enemies :
              /\ bullets[b].live /\ enemies[e].x > 0 /\ bullets'[b].live
              /\ bullets[b].x + Size <= enemies[e].x
              /\ BulletSpeed + enemies[e].speed < 2 * Size
              => bullets'[b].x < enemies'[e].x + Size \/ enemies'[e].x = 0 ]_vars
  BY MovesApart
<1> QED
  BY <1>1, TypeCorrect, PTL DEF Spec, NoneSlipsThrough

-----------------------------------------------------------------------------
(* The shots.                                                              *)

\* A longest frame exists, and the delay does not come all the way round
\* below zero before TopScore.  In shootGame's numbers: scores to 2^31.
Paced ==
    /\ \E t \in FrameTimes : \A u \in FrameTimes : u <= t
    /\ InitialDelay <= Word \div 2
    /\ DelayStep * (TopScore \div LevelEvery) < Word \div 2

\* shotDelay as a signed number.
Due == InitialDelay - DelayStep * (player.score \div LevelEvery)

\* How many shots were fired after the one in slot b.
Later(b) == IF b < bulletCount THEN bulletCount - 1 - b
                               ELSE bulletCount - 1 - b + maxBullets

\* A bullet at column x, with k shots after it, has been moved in so many
\* frames that each of these shots could wait for due, and the last one for
\* what is past of it when rest is left.
Aged(x, k, due, rest) ==
    \E f \in Nat :
        /\ Ship + BulletSpeed * f <= x
        /\ LongestFrame * (f - k * FramesApart(due)) + rest >= due

\* The bullets are moved before the frame is over.
Rest == IF stage \in {"collide", "show"} THEN wait - LongestFrame ELSE wait

FlightInv ==
    /\ \A b \in Bullets : bullets[b].live => bullets[b].x < Width + BulletSpeed
    /\ player.score < TopScore /\ Due >= 0 =>
         \A b \in Bullets :
            bullets[b].live => Aged(bullets[b].x, Later(b), Due, Rest)

\* The longest frame is one of FrameTimes.
LEMMA Longest ==
  ASSUME Paced
  PROVE  LongestFrame \in Nat \ {0} /\ \A u \in FrameTimes : u <= LongestFrame
<1>1. LongestFrame \in FrameTimes /\ \A u \in FrameTimes : u <= LongestFrame
  BY DEF Paced, LongestFrame
<1> QED
  BY <1>1, Sizes

\* Shots that wait longer are more frames apart, and time that suffices for a
\* wait is as many frames at least.
LEMMA Apart ==
  ASSUME Paced, NEW d \in Nat, NEW e \in Nat, e <= d
  PROVE  /\ FramesApart(d) \in Nat /\ FramesApart(e) \in Nat
         /\ FramesApart(e) <= FramesApart(d)
         /\ \A m \in Int : LongestFrame * m >= d => m >= FramesApart(d)
<1>1. LongestFrame \in Nat \ {0} /\ e <= e
  BY Longest
<1>2. /\ (d + LongestFrame - 1) \div LongestFrame \in Nat
      /\ (e + LongestFrame - 1) \div LongestFrame <= (d + LongestFrame - 1) \div LongestFrame
      /\ \A m \in Int : LongestFrame * m >= d => m >= (d + LongestFrame - 1) \div LongestFrame
  BY <1>1, RoundedUp
<1>3. (e + LongestFrame - 1) \div LongestFrame \in Nat
  BY <1>1, RoundedUp
<1> QED
  BY <1>2, <1>3 DEF FramesApart

\* A shot that has just been fired.
LEMMA AgedFresh ==
  ASSUME Paced, NEW x \in Nat, Ship <= x, NEW due \in Nat
  PROVE  Aged(x, 0, due, due)
<1>1. FramesApart(due) \in Nat /\ LongestFrame \in Nat
  BY Apart, Longest
<1>2. /\ BulletSpeed * 0 = 0 /\ 0 * FramesApart(due) = 0
      /\ LongestFrame * (0 - 0) = 0
  BY <1>1, Sizes
<1>3. Ship + BulletSpeed * 0 <= x
  BY <1>2, Sizes
<1>4. LongestFrame * (0 - 0 * FramesApart(due)) + due >= due
  BY <1>2
<1> QED
  BY <1>3, <1>4 DEF Aged

\* A bullet that is moved is a frame older.
LEMMA AgedMove ==
  ASSUME Paced, NEW x \in Nat, NEW k \in Nat, NEW due \in Nat, NEW rest \in Int,
         Aged(x, k, due, rest)
  PROVE  Aged(x + BulletSpeed, k, due, rest - LongestFrame)
<1>1. PICK f \in Nat : /\ Ship + BulletSpeed * f <= x
                       /\ LongestFrame * (f - k * FramesApart(due)) + rest >= due
  BY DEF Aged
<1>2. PICK a \in Int : a = k * FramesApart(due)
  <2>1. FramesApart(due) \in Nat
    BY Apart
  <2> QED
    BY <2>1
<1>3. /\ LongestFrame * ((f + 1) - a) = LongestFrame * (f - a) + LongestFrame
      /\ LongestFrame * (f - a) \in Int /\ LongestFrame \in Nat
      /\ BulletSpeed * (f + 1) = BulletSpeed * f + BulletSpeed
      /\ BulletSpeed * f \in Nat
  BY <1>2, Longest, Sizes
<1>4. /\ Ship + BulletSpeed * (f + 1) <= x + BulletSpeed
      /\ LongestFrame * ((f + 1) - k * FramesApart(due)) + (rest - LongestFrame) >= due
  BY <1>1, <1>2, <1>3, Sizes
<1> QED
  BY <1>4 DEF Aged

\* Less may be left to wait.
LEMMA AgedRest ==
  ASSUME Paced, NEW x \in Nat, NEW k \in Nat, NEW due \in Nat,
         NEW rest \in Int, NEW more \in Int, rest <= more, Aged(x, k, due, rest)
  PROVE  Aged(x, k, due, more)
<1>1. PICK f \in Nat : /\ Ship + BulletSpeed * f <= x
                       /\ LongestFrame * (f - k * FramesApart(due)) + rest >= due
  BY DEF Aged
<1>2. LongestFrame * (f - k * FramesApart(due)) \in Int
  <2>1. k * FramesApart(due) \in Int /\ LongestFrame \in Nat
    BY Apart, Longest
  <2> QED
    BY <2>1
<1>3. LongestFrame * (f - k * FramesApart(due)) + more >= due
  BY <1>1, <1>2
<1> QED
  BY <1>1, <1>3 DEF Aged

\* When nothing is left to wait, one more shot can be fired.
LEMMA AgedFire ==
  ASSUME Paced, NEW x \in Nat, NEW k \in Nat, NEW due \in Nat, Aged(x, k, due, 0)
  PROVE  /\ Aged(x, k + 1, due, due)
         /\ \E f \in Nat : /\ Ship + BulletSpeed * f <= x
                           /\ (k + 1) * FramesApart(due) <= f
<1>1. PICK f \in Nat : /\ Ship + BulletSpeed * f <= x
                       /\ LongestFrame * (f - k * FramesApart(due)) + 0 >= due
  BY DEF Aged
<1>2. PICK a \in Nat : a = FramesApart(due)
  BY Apart
<1>3. k * a \in Nat /\ (k + 1) * a = k * a + a /\ LongestFrame \in Nat \ {0}
  BY Longest
<1>4. f - k * a >= a
  <2>1. f - k * a \in Int /\ LongestFrame * (f - k * a) \in Int
    BY <1>3
  <2>2. LongestFrame * (f - k * a) >= due
    BY <1>1, <1>2, <2>1
  <2> QED
    BY <1>2, <2>1, <2>2, Apart
<1>5. f - (k + 1) * a \in Nat
  BY <1>3, <1>4
<1>6. LongestFrame * (f - (k + 1) * a) + due >= due
  <2>1. LongestFrame * (f - (k + 1) * a) \in Nat
    BY <1>3, <1>5
  <2> QED
    BY <2>1
<1> QED
  BY <1>1, <1>2, <1>3, <1>5, <1>6 DEF Aged

\* At a harder level shots wait less.
LEMMA AgedLevel ==
  ASSUME Paced, NEW x \in Nat, NEW k \in Nat, NEW due \in Nat, NEW less \in Nat,
         less <= due, NEW rest \in Int, Aged(x, k, due, rest)
  PROVE  Aged(x, k, less, rest)
<1>1. PICK f \in Nat : /\ Ship + BulletSpeed * f <= x
                       /\ LongestFrame * (f - k * FramesApart(due)) + rest >= due
  BY DEF Aged
<1>2. PICK a \in Nat : a = FramesApart(due)
  BY Apart
<1>3. PICK c \in Nat : c = FramesApart(less)
  BY Apart
<1>4. c <= a /\ LongestFrame \in Nat
  BY <1>2, <1>3, Apart, Longest
<1>5. k * c <= k * a /\ k * c \in Int /\ k * a \in Int
  BY <1>4, Monotone
<1>6. f - k * a <= f - k * c /\ f - k * a \in Int /\ f - k * c \in Int
  BY <1>5
<1>7. /\ LongestFrame * (f - k * a) <= LongestFrame * (f - k * c)
      /\ LongestFrame * (f - k * a) \in Int /\ LongestFrame * (f - k * c) \in Int
  BY <1>4, <1>6, Monotone
<1>8. LongestFrame * (f - k * c) + rest >= less
  BY <1>1, <1>2, <1>7
<1> QED
  BY <1>1, <1>3, <1>8 DEF Aged

\* A bullet that has been moved for a whole flight is gone.
LEMMA FlightEnds ==
  ASSUME NEW x \in Nat, x < Width + BulletSpeed, NEW f \in Nat,
         Ship + BulletSpeed * f <= x
  PROVE  f < Flight
<1>1. PICK d \in Nat : d = Width - Ship
  BY Sizes
<1>2. BulletSpeed * f \in Int /\ BulletSpeed * f <= d + BulletSpeed - 1
  BY <1>1, Sizes
<1>3. BulletSpeed \in Nat \ {0} /\ d <= d
  BY Sizes
<1>4. f <= (d + BulletSpeed - 1) \div BulletSpeed
      /\ (d + BulletSpeed - 1) \div BulletSpeed \in Nat
  BY <1>2, <1>3, RoundedUp
<1> QED
  BY <1>1, <1>4 DEF Flight

\* The slots in the order of their shots; firing puts the next slot last.
LEMMA LaterSlots ==
  ASSUME TypeOK
  PROVE  /\ \A b \in Bullets : Later(b) \in 0..maxBullets - 1
         /\ Later(bulletCount) + 1 = maxBullets
         /\ bulletCount' = Following(bulletCount, maxBullets) =>
              \A b \in Bullets :
                 Later(b)' = IF b = bulletCount THEN 0 ELSE Later(b) + 1
<1>1. bulletCount \in 0..maxBullets - 1 /\ maxBullets \in Nat \ {0}
  BY Sizes DEF TypeOK, Bullets
<1>2. ASSUME NEW b \in Bullets PROVE Later(b) \in 0..maxBullets - 1
  BY <1>1 DEF Bullets, Later
<1>3. Later(bulletCount) + 1 = maxBullets
  BY <1>1 DEF Later
<1>4. ASSUME bulletCount' = Following(bulletCount, maxBullets), NEW b \in Bullets
      PROVE  Later(b)' = IF b = bulletCount THEN 0 ELSE Later(b) + 1
  <2>1. b \in 0..maxBullets - 1
    BY DEF Bullets
  <2>2. CASE bulletCount = maxBullets - 1
    <3>1. bulletCount' = 0
      BY <1>4, <2>2 DEF Following
    <3> QED
      BY <1>1, <2>1, <2>2, <3>1 DEF Later
  <2>3. CASE bulletCount # maxBullets - 1
    <3>1. bulletCount' = bulletCount + 1
      BY <1>4, <2>3 DEF Following
    <3> QED
      BY <1>1, <2>1, <2>3, <3>1 DEF Later
  <2> QED
    BY <2>2, <2>3
<1> QED
  BY <1>2, <1>3, <1>4

\* The types the arithmetic below needs.
LEMMA Flights ==
  ASSUME TypeOK
  PROVE  /\ Due \in Int /\ Due <= InitialDelay /\ (Paced => Rest \in Int)
         /\ player.score \in Nat /\ player.x \in Nat /\ wait \in Nat
         /\ bullets \in [Bullets -> BulletTypes] /\ player \in PlayerTypes
         /\ enemies \in [Enemies -> EnemyTypes]
<1>1. /\ player \in PlayerTypes /\ bullets \in [Bullets -> BulletTypes]
      /\ enemies \in [Enemies -> EnemyTypes] /\ wait \in Nat
  BY DEF TypeOK, PlayerTypes, BulletTypes, EnemyTypes
<1>2. player.score \in Nat /\ player.x \in Nat
  BY <1>1, Sizes DEF PlayerTypes
<1>3. player.score \div LevelEvery \in Nat
  BY <1>2, Sizes
<1>4. DelayStep * (player.score \div LevelEvery) \in Nat
  BY <1>3, Sizes
<1>5. Due \in Int /\ Due <= InitialDelay
  BY <1>4, Sizes DEF Due
<1>6. Paced => Rest \in Int
  BY <1>1, Longest DEF Rest
<1> QED
  BY <1>1, <1>2, <1>5, <1>6

\* The signed number is what shotDelay stands for while the score is below
\* TopScore: above half the word it is negative.
LEMMA DueIsDelay ==
  ASSUME Paced, TypeOK, LevelInv, player.score < TopScore
  PROVE  IF Due >= 0 THEN level.delay = Due ELSE level.delay > Word \div 2
<1>1. player.score \in Nat /\ TopScore \in Nat /\ Word \in Nat \ {0}
  BY Flights, Sizes
<1>2. PICK n \in Int : n = player.score \div LevelEvery
  BY <1>1, Sizes
<1>3. PICK top \in Int : top = TopScore \div LevelEvery
  BY <1>1, Sizes
<1>4. n <= top
  BY <1>1, <1>2, <1>3, QuotientGrows, Sizes
<1>5. DelayStep * n <= DelayStep * top /\ DelayStep * n \in Int
      /\ DelayStep * top \in Int
  BY <1>4, Monotone, Sizes
<1>6. Due = InitialDelay - DelayStep * n /\ level.delay = Due % Word
  BY <1>2 DEF Due, LevelInv, LevelMatchesScore
<1>7. 0 < Due + Word \div 2 /\ Due \in Int /\ Due < Word
  <2>1. PICK h \in Nat : h = Word \div 2
    BY <1>1
  <2>2. DelayStep * top < h
    BY <1>3, <2>1 DEF Paced
  <2>3. Due = InitialDelay - DelayStep * n /\ Due <= InitialDelay
    BY <1>6, Flights
  <2>4. 0 < Due + h /\ Due \in Int /\ Due < Word
    BY <1>5, <2>2, <2>3, Sizes
  <2> QED
    BY <2>1, <2>4
<1>8. level.delay = IF Due >= 0 THEN Due ELSE Due + Word
  BY <1>1, <1>6, <1>7
<1>9. Word - Word \div 2 >= Word \div 2 /\ Word \div 2 \in Nat
  BY <1>1
<1> QED
  BY <1>1, <1>7, <1>8, <1>9

\* A step that moves no bullet and keeps the score and the clock.
LEMMA StillFlight ==
  ASSUME FlightInv, player'.score = player.score,
         UNCHANGED <<bullets, bulletCount, wait>>,
         stage' \in {"collide", "show"} <=> stage \in {"collide", "show"}
  PROVE  FlightInv'
<1>1. Due' = Due /\ Rest' = Rest
  BY DEF Due, Rest
<1>2. \A b \in Bullets : Later(b)' = Later(b)
  BY DEF Later
<1> QED
  BY <1>1, <1>2 DEF FlightInv

\* A shot takes the place of the oldest, which is gone unless shots follow each
\* other too quickly, and makes all others one shot older.
LEMMA FireFlight ==
  ASSUME Paced, TypeOK, LevelInv, FlightInv, Fire
  PROVE  FlightInv'
<1>1. /\ wait = 0 /\ player.score < TopScore /\ wait' = ShotDelay
      /\ stage = "shoot" /\ stage' = "advance"
      /\ bulletCount' = Following(bulletCount, maxBullets)
      /\ player' = player
  BY DEF Fire, StageAt
<1>2. /\ bullets' = [bullets EXCEPT ![bulletCount] =
                        [x |-> player.x + Ship, y |-> player.y + Ship \div 2,
                         live |-> TRUE]]
      /\ bulletCount \in Bullets /\ bullets \in [Bullets -> BulletTypes]
      /\ player.x \in Nat /\ player.x + Ship <= Width
  BY Flights, Sizes DEF Fire, TypeOK
<1>3. /\ bullets'[bulletCount].x = player.x + Ship
      /\ \A b \in Bullets : b # bulletCount => bullets'[b] = bullets[b]
  BY <1>2
<1>4. /\ \A b \in Bullets :
            Later(b)' = IF b = bulletCount THEN 0 ELSE Later(b) + 1
      /\ \A b \in Bullets : Later(b) \in Nat
  BY <1>1, LaterSlots, Sizes
<1>5. ASSUME NEW b \in Bullets, bullets'[b].live
      PROVE  bullets'[b].x < Width + BulletSpeed
  BY <1>2, <1>3, <1>5, Sizes DEF FlightInv
<1>6. Due' = Due /\ Rest = 0 /\ Rest' = wait'
  BY <1>1 DEF Due, Rest
<1>7. ASSUME Due >= 0, NEW b \in Bullets, bullets'[b].live
      PROVE  Aged(bullets'[b].x, Later(b)', Due, Rest')
  <2>1. Due \in Nat /\ wait' = Due
    <3>1. level.delay = Due /\ Due \in Int /\ Due <= InitialDelay
      BY <1>1, <1>7, DueIsDelay, Flights
    <3>2. Due <= Word \div 2 /\ Word \div 2 \in Nat
      BY <3>1, Sizes DEF Paced
    <3> QED
      BY <1>1, <1>7, <3>1, <3>2 DEF ShotDelay
  <2>2. CASE b = bulletCount
    <3>1. player.x + Ship \in Nat /\ Ship <= player.x + Ship
      BY <1>2, Sizes
    <3>2. Aged(player.x + Ship, 0, Due, Due)
      BY <2>1, <3>1, AgedFresh
    <3> QED
      BY <1>3, <1>4, <1>6, <2>1, <2>2, <3>2
  <2>3. CASE b # bulletCount
    <3>1. bullets[b].live /\ bullets[b].x \in Nat
      BY <1>2, <1>3, <1>7, <2>3 DEF BulletTypes
    <3>2. Aged(bullets[b].x, Later(b), Due, 0)
      BY <1>1, <1>6, <1>7, <3>1 DEF FlightInv
    <3>3. Aged(bullets[b].x, Later(b) + 1, Due, Due)
      BY <1>4, <2>1, <3>1, <3>2, AgedFire
    <3> QED
      BY <1>3, <1>4, <1>6, <2>1, <2>3, <3>3
  <2> QED
    BY <2>2, <2>3
<1> QED
  BY <1>5, <1>6, <1>7 DEF FlightInv

LEMMA AdvanceFlight ==
  ASSUME Paced, TypeOK, FlightInv, Advance
  PROVE  FlightInv'
<1>1. /\ UNCHANGED <<player, bulletCount, wait>> /\ stage = "advance"
      /\ stage' = "collide"
      /\ \A b \in Bullets : bullets'[b] = BulletMoved(bullets[b])
  BY DEF Advance, StageAt
<1>2. /\ Due' = Due /\ Rest = wait /\ Rest' = wait - LongestFrame
      /\ \A b \in Bullets : Later(b)' = Later(b)
  BY <1>1 DEF Due, Rest, Later
<1>3. ASSUME NEW b \in Bullets, bullets'[b].live
      PROVE  /\ bullets[b].live /\ bullets[b].x \in Nat /\ bullets[b].x < Width
             /\ bullets'[b].x = bullets[b].x + BulletSpeed
  <2>1. bullets[b] \in BulletTypes /\ bullets'[b] # NoBullet
    BY <1>3, Fresh, Flights
  <2>2. /\ bullets[b].live /\ ~(bullets[b].x >= Width)
        /\ bullets'[b] = [bullets[b] EXCEPT !.x = @ + BulletSpeed]
    BY <1>1, <2>1 DEF BulletMoved, BulletTypes
  <2>3. bullets'[b].x = bullets[b].x + BulletSpeed /\ bullets[b].x \in Nat
    BY <2>1, <2>2 DEF BulletTypes
  <2> QED
    BY <2>2, <2>3, Sizes
<1>4. ASSUME player.score < TopScore, Due >= 0, NEW b \in Bullets, bullets'[b].live
      PROVE  Aged(bullets'[b].x, Later(b), Due, wait - LongestFrame)
  <2>1. Aged(bullets[b].x, Later(b), Due, wait)
    BY <1>2, <1>3, <1>4 DEF FlightInv
  <2>2. Later(b) \in Nat /\ Due \in Nat /\ wait \in Int
    BY <1>4, LaterSlots, Flights
  <2> QED
    BY <1>3, <1>4, <2>1, <2>2, AgedMove
<1>5. ASSUME NEW b \in Bullets, bullets'[b].live
      PROVE  bullets'[b].x < Width + BulletSpeed
  BY <1>3, <1>5, Sizes
<1> QED
  BY <1>1, <1>2, <1>4, <1>5 DEF FlightInv

LEMMA ShowFlight ==
  ASSUME Paced, TypeOK, FlightInv, Show
  PROVE  FlightInv'
<1>1. /\ UNCHANGED <<player, bullets, bulletCount>> /\ stage = "show"
      /\ stage' = "spawn"
  BY DEF Show, StageAt, field
<1>2. /\ Due' = Due /\ Rest = wait - LongestFrame /\ Rest' = wait'
      /\ \A b \in Bullets : Later(b)' = Later(b)
  BY <1>1 DEF Due, Rest, Later
<1>3. /\ wait - LongestFrame <= wait' /\ wait - LongestFrame \in Int
      /\ wait' \in Int
  <2>1. PICK t \in FrameTimes : wait' = IF wait > t THEN wait - t ELSE 0
    BY DEF Show
  <2>2. t \in Nat /\ t <= LongestFrame /\ wait \in Nat /\ LongestFrame \in Nat
    BY Longest, Flights, Sizes
  <2> QED
    BY <2>1, <2>2
<1>4. ASSUME player.score < TopScore, Due >= 0, NEW b \in Bullets, bullets[b].live
      PROVE  Aged(bullets[b].x, Later(b), Due, wait')
  <2>1. Aged(bullets[b].x, Later(b), Due, wait - LongestFrame)
    BY <1>2, <1>4 DEF FlightInv
  <2>2. Later(b) \in Nat /\ Due \in Nat /\ bullets[b].x \in Nat
    BY <1>4, LaterSlots, Flights DEF BulletTypes
  <2> QED
    BY <1>3, <2>1, <2>2, AgedRest
<1> QED
  BY <1>1, <1>2, <1>4 DEF FlightInv

\* A hit takes one bullet away and may make the game harder.
LEMMA StrikeFlight ==
  ASSUME Paced, TypeOK, FlightInv, Strike
  PROVE  FlightInv'
<1>1. /\ UNCHANGED <<bulletCount, wait>> /\ stage = "collide"
      /\ stage' \in {"collide", "show"}
      /\ player' = [player EXCEPT !.score = @ + Points]
  BY DEF Strike, NextEnemy
<1>2. PICK hit \in Bullets : bullets' = [bullets EXCEPT ![hit] = NoBullet]
  BY DEF Strike
<1>3. player'.score = player.score + Points /\ player.score \in Nat
  BY <1>1, Flights DEF PlayerTypes
<1>4. Due' <= Due /\ Due' \in Int /\ Due \in Int
  <2>1. player.score \div LevelEvery <= player'.score \div LevelEvery
    BY <1>3, QuotientGrows, Sizes
  <2>2. /\ player.score \div LevelEvery \in Int
        /\ player'.score \div LevelEvery \in Int
    BY <1>3, Sizes
  <2>3. /\ DelayStep * (player.score \div LevelEvery)
             <= DelayStep * (player'.score \div LevelEvery)
        /\ DelayStep * (player.score \div LevelEvery) \in Int
        /\ DelayStep * (player'.score \div LevelEvery) \in Int
    BY <2>1, <2>2, Monotone, Sizes
  <2> QED
    BY <2>3, Sizes DEF Due
<1>5. Rest' = Rest /\ Rest \in Int /\ \A b \in Bullets : Later(b)' = Later(b)
  BY <1>1, Flights DEF Rest, Later
<1>6. ASSUME NEW b \in Bullets, bullets'[b].live
      PROVE  bullets'[b] = bullets[b] /\ bullets[b].live /\ bullets[b].x \in Nat
  BY <1>2, <1>6, Fresh, Flights DEF BulletTypes
<1>7. ASSUME player'.score < TopScore, Due' >= 0, NEW b \in Bullets,
             bullets'[b].live
      PROVE  Aged(bullets[b].x, Later(b), Due', Rest)
  <2>1. player.score < TopScore /\ Due \in Nat /\ Due' \in Nat
    BY <1>3, <1>4, <1>7, Sizes
  <2>2. Aged(bullets[b].x, Later(b), Due, Rest)
    BY <1>6, <1>7, <2>1 DEF FlightInv
  <2>3. Later(b) \in Nat
    BY LaterSlots
  <2> QED
    BY <1>4, <1>5, <1>6, <1>7, <2>1, <2>2, <2>3, AgedLevel
<1> QED
  BY <1>5, <1>6, <1>7 DEF FlightInv

LEMMA FlightStep ==
  Paced /\ TypeOK /\ LevelInv /\ FlightInv /\ [Next]_vars => FlightInv'
<1> SUFFICES ASSUME Paced, TypeOK, LevelInv, FlightInv, [Next]_vars
             PROVE  FlightInv'
  OBVIOUS
<1>1. CASE UNCHANGED vars
  BY <1>1, StillFlight DEF vars, field
<1>2. CASE Spawn \/ NoSpawn \/ HoldFire
  <2>1. /\ UNCHANGED <<player, bullets, bulletCount, wait>>
        /\ stage \notin {"collide", "show"} /\ stage' \notin {"collide", "show"}
    BY <1>2 DEF Spawn, NoSpawn, HoldFire, StageAt, field
  <2> QED
    BY <2>1, StillFlight
<1>3. CASE Steer
  <2>1. /\ UNCHANGED <<bullets, bulletCount, wait>>
        /\ stage \notin {"collide", "show"} /\ stage' \notin {"collide", "show"}
    BY <1>3 DEF Steer, StageAt, field
  <2>2. player'.score = player.score
    BY <1>3, Flights DEF Steer, PlayerTypes
  <2> QED
    BY <2>1, <2>2, StillFlight
<1>4. CASE Lose \/ Miss
  <2>1. /\ UNCHANGED <<bullets, bulletCount, wait>>
        /\ stage \in {"collide", "show"} /\ stage' \in {"collide", "show"}
    BY <1>4 DEF Lose, Miss, NextEnemy, field
  <2>2. player'.score = player.score
    BY <1>4, Flights DEF Lose, Miss, PlayerTypes
  <2> QED
    BY <2>1, <2>2, StillFlight
<1>5. CASE Defeat
  <2>1. \A b \in Bullets : ~bullets'[b].live
    BY <1>5, Fresh DEF Defeat
  <2> QED
    BY <2>1 DEF FlightInv
<1> QED
  BY <1>1, <1>2, <1>3, <1>4, <1>5, FireFlight, AdvanceFlight, ShowFlight,
     StrikeFlight DEF Next

\* What a shot may overwrite.
LEMMA ShotOverwrites ==
  ASSUME Paced, TypeOK, LevelInv, FlightInv, [Next]_vars, stage = "shoot",
         NEW b \in Bullets, bullets[b].live, bullets'[b] # bullets[b]
  PROVE  \/ level.delay > Word \div 2
         \/ maxBullets * FramesApart(level.delay) < Flight
<1>1. Fire
  BY DEF Next, vars, field, Spawn, NoSpawn, Steer, HoldFire, Advance, Lose,
     Defeat, Strike, Miss, Show, StageAt
<1>2. wait = 0 /\ player.score < TopScore /\ b = bulletCount
  BY <1>1, Flights DEF Fire
<1>3. CASE Due < 0
  BY <1>2, <1>3, DueIsDelay, Flights
<1>4. CASE Due >= 0
  <2>1. Due \in Nat /\ level.delay = Due /\ bullets[b].x \in Nat
        /\ Later(b) \in Nat /\ Later(b) + 1 = maxBullets
    BY <1>2, <1>4, DueIsDelay, Flights, LaterSlots DEF BulletTypes
  <2>2. Aged(bullets[b].x, Later(b), Due, 0) /\ bullets[b].x < Width + BulletSpeed
    BY <1>2, <1>4 DEF FlightInv, Rest
  <2>3. PICK f \in Nat : /\ Ship + BulletSpeed * f <= bullets[b].x
                         /\ (Later(b) + 1) * FramesApart(Due) <= f
    BY <2>1, <2>2, AgedFire
  <2>4. f < Flight /\ maxBullets * FramesApart(Due) <= f
    BY <2>1, <2>2, <2>3, FlightEnds
  <2>5. Flight \in Int /\ maxBullets * FramesApart(Due) \in Int
    <3>1. (Width - Ship + BulletSpeed - 1) \div BulletSpeed \in Int
      BY Sizes
    <3>2. FramesApart(Due) \in Nat /\ maxBullets \in Nat
      BY <2>1, Apart, Sizes
    <3> QED
      BY <3>1, <3>2 DEF Flight
  <2> QED
    BY <2>1, <2>4, <2>5
<1> QED
  BY <1>3, <1>4, Flights

\* A shot never overwrites a bullet in flight as long as the shots that go
\* round the array take longer than a flight.
THEOREM FlyingBulletsStay == ASSUME Paced PROVE Spec => FlyingBulletKept
<1>1. Init => TypeOK /\ LevelInv /\ FlightInv
  <2>1. Init => FlightInv
    BY Fresh DEF Init, FlightInv
  <2>2. Init => LevelInv
    BY LevelAtStart, Fresh
    DEF Init, LevelInv, LevelMatchesScore, LevelAt, NewPlayer, NewLevel
  <2> QED
    BY <2>1, <2>2, InitType
<1>2. TypeOK /\ LevelInv /\ FlightInv /\ [Next]_vars
        => TypeOK' /\ LevelInv' /\ FlightInv'
  BY TypesKept, LevelStep, FlightStep
<1>3. TypeOK /\ LevelInv /\ FlightInv /\ [Next]_vars =>
        [ \A b \in Bullets :
            /\ bullets[b].live /\ bullets'[b] # bullets[b] /\ stage = "shoot"
            => level.delay > Word \div 2
               \/ maxBullets * FramesApart(level.delay) < Flight ]_vars
  BY ShotOverwrites
<1> QED
  BY <1>1, <1>2, <1>3, PTL DEF Spec, FlyingBulletKept
=============================================================================
