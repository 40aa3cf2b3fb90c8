----------------------------- MODULE ShootGame -----------------------------
(***************************************************************************)
(* shootGame: a ship, the bullets it fires and the enemies that come       *)
(* towards it, in arrays whose slots are used in turn.  The loop's body is *)
(* one frame; each action is one stretch of it, and each pass of the       *)
(* collision loop one more, since what an earlier pass did decides what a  *)
(* later one sees.  Nothing runs beside it but the clock.                  *)
(***************************************************************************)
EXTENDS Integers

CONSTANTS
    maxBullets, maxEnemies,
    Width,          \* 128: columns of the screen
    MIN_Y, MAX_Y, MAX_X,
    Ship, Size,     \* side of the ship (16), of an enemy and a bullet (8)
    HomeY,          \* the ship's first row (32)
    MY_SPEED, MY_LIVES,
    BulletSpeed, InitialSpeed, InitialChance, InitialDelay, \* 5, 1, 92, 600
    ChanceStep, DelayStep,  \* 3 and 50
    Points, LevelEvery,     \* 5 and 50
    Word,           \* 2^32, of the unsigned long shotDelay
    FrameTimes,     \* milliseconds a frame may take
    TopScore        \* bound: with this score the instance's player fires no more

ASSUME GameAssumption ==
    /\ {maxBullets, maxEnemies, Width, Ship, Size, MY_SPEED, BulletSpeed,
        Points, LevelEvery, Word} \subseteq Nat \ {0}
    /\ {MIN_Y, MAX_Y, MAX_X, HomeY, MY_LIVES, InitialSpeed, InitialChance,
        InitialDelay, ChanceStep, DelayStep, TopScore} \subseteq Nat
    /\ MIN_Y < MAX_Y /\ HomeY \in MIN_Y..MAX_Y /\ MAX_X + Ship <= Width
    /\ LevelEvery % Points = 0 /\ InitialDelay < Word
    /\ FrameTimes \subseteq Nat \ {0}

VARIABLES
    player,        \* column, row, lives and score
    bullets, bulletCount, enemies, enemyCount,
    level,         \* enemySpeed, enemySpawnChance and shotDelay
    wait,          \* what the clock lacks to lastShot, 0 when it is past
    stage, i       \* where in the frame, and the enemy the loop is at

field == <<bullets, bulletCount, enemies, enemyCount>>
vars == <<player, field, level, wait, stage, i>>

Bullets == 0..maxBullets - 1
Enemies == 0..maxEnemies - 1
Stages == {"spawn", "steer", "shoot", "advance", "collide", "show"}

\* A bullet not alive and an enemy at a column of at most 0 are looked at no
\* more until their slot is used again; what else they hold is left out.
NoBullet == [x |-> 0, y |-> 0, live |-> FALSE]
NoEnemy == [x |-> 0, y |-> 0, speed |-> 0]

\* initialSetup.  Mutated: the speed is not set back.
NewLevelAtSpeed == [speed |-> level.speed, chance |-> InitialChance,
                    delay |-> InitialDelay]

NewLevel == [speed |-> InitialSpeed, chance |-> InitialChance,
             delay |-> InitialDelay]

NewPlayer == [x |-> 0, y |-> HomeY, lives |-> MY_LIVES, score |-> 0]

Init ==
    /\ player = NewPlayer
    /\ bullets = [b \in Bullets |-> NoBullet] /\ bulletCount = 0
    /\ enemies = [e \in Enemies |-> NoEnemy] /\ enemyCount = 0
    /\ level = [speed |-> InitialSpeed, chance |-> InitialChance,
                delay |-> InitialDelay]
    /\ wait = 0 /\ stage = "spawn" /\ i = 0

\* Slots are used in turn.
Following(n, size) == IF n = size - 1 THEN 0 ELSE n + 1

StageAt(at, next) == stage = at /\ stage' = next

-----------------------------------------------------------------------------
(* Spawning, steering and firing.                                          *)

\* random(100) > enemySpawnChance, and the slot whose turn it is is free.
Spawn ==
    /\ StageAt("spawn", "steer")
    /\ level.chance < 99 /\ enemies[enemyCount].x = 0
    /\ \E y \in MIN_Y..MAX_Y - 1 :
         enemies' = [enemies EXCEPT ![enemyCount] =
                        [x |-> Width - 1, y |-> y, speed |-> level.speed]]
    /\ enemyCount' = Following(enemyCount, maxEnemies)
    /\ UNCHANGED <<player, bullets, bulletCount, level, wait, i>>

NoSpawn ==
    /\ StageAt("spawn", "steer")
    /\ level.chance >= 0 \/ enemies[enemyCount].x > 0
    /\ UNCHANGED <<player, field, level, wait, i>>

\* Mutated: the border is forgotten.
Unconstrained(n, low, high) == n

Constrain(n, low, high) ==
    IF n < low THEN low ELSE IF n > high THEN high ELSE n

Steer ==
    /\ StageAt("steer", "shoot")
    /\ \E dirX, dirY \in {-MY_SPEED, 0, MY_SPEED} :
         player' = [player EXCEPT !.x = Constrain(@ + dirX, 0, MAX_X),
                                  !.y = Constrain(@ + dirY, MIN_Y, MAX_Y)]
    /\ UNCHANGED <<field, level, wait, i>>

\* lastShot = millis() + shotDelay.  A delay that went below zero is so large
\* that the sum wraps to a time already past.  (Not modelled: a sum that wraps
\* because the clock itself is about to, once in 49 days, is past as well.)
\* Mutated: the delay is left out.
NoDelay == 0

ShotDelay == IF level.delay > Word \div 2 THEN 0 ELSE level.delay

Fire ==
    /\ StageAt("shoot", "advance") /\ wait = 0 /\ player.score < TopScore
    /\ wait' = ShotDelay
    /\ bullets' = [bullets EXCEPT ![bulletCount] =
                      [x |-> player.x + Ship, y |-> player.y + Ship \div 2,
                       live |-> TRUE]]
    /\ bulletCount' = Following(bulletCount, maxBullets)
    /\ UNCHANGED <<player, enemies, enemyCount, level, i>>

HoldFire ==
    /\ StageAt("shoot", "advance")
    /\ UNCHANGED <<player, field, level, wait, i>>

-----------------------------------------------------------------------------
(* moveBullets and moveEnemies                                             *)

BulletMoved(b) ==
    IF ~b.live \/ b.x >= Width THEN NoBullet
    ELSE [b EXCEPT !.x = @ + BulletSpeed]

\* Mutated: an enemy is moved twice a frame.
EnemyMovedTwice(e) ==
    IF e.x <= 2 * e.speed THEN NoEnemy ELSE [e EXCEPT !.x = @ - 2 * e.speed]

\* Mutated: an enemy is kept on the screen, as the ship is.
EnemyConstrained(e) ==
    IF e.x = 0 THEN e ELSE [e EXCEPT !.x = Constrain(@ - e.speed, 1, Width)]

EnemyMoved(e) ==
    IF e.x <= e.speed THEN NoEnemy ELSE [e EXCEPT !.x = @ - e.speed]

Advance ==
    /\ StageAt("advance", "collide")
    /\ bullets' = [b \in Bullets |-> BulletMoved(bullets[b])]
    /\ enemies' = [e \in Enemies |-> EnemyMoved(enemies[e])]
    /\ i' = 0
    /\ UNCHANGED <<player, bulletCount, enemyCount, level, wait>>

-----------------------------------------------------------------------------
(* Collisions                                                              *)

\* Two squares overlap; touching is not enough.
HasCollided(one, sizeOne, two, sizeTwo) ==
    /\ one.x < two.x + sizeTwo /\ two.x < one.x + sizeOne
    /\ one.y < two.y + sizeTwo /\ two.y < one.y + sizeOne

Rammed == enemies[i].x > 0 /\ HasCollided(enemies[i], Size, player, Ship)

Hits(b, e) ==
    /\ bullets[b].live /\ enemies[e].x > 0
    /\ HasCollided(bullets[b], Size, enemies[e], Size)

\* The loop goes on with the next enemy, or the frame is shown.
NextEnemy ==
    IF i = maxEnemies - 1 THEN stage' = "show" /\ i' = 0
                          ELSE stage' = "collide" /\ i' = i + 1

Lose ==
    /\ stage = "collide" /\ Rammed /\ player.lives > 0
    /\ enemies' = [enemies EXCEPT ![i] = NoEnemy]
    /\ player' = [player EXCEPT !.lives = @ - 1]
    /\ NextEnemy
    /\ UNCHANGED <<bullets, bulletCount, enemyCount, level, wait>>

\* defeatScreen, reset and initialSetup, which leaves the shared i behind the
\* last enemy, so that the loop ends.
Defeat ==
    /\ StageAt("collide", "show") /\ Rammed /\ player.lives = 0
    /\ player' = NewPlayer /\ level' = NewLevel /\ wait' = 0
    /\ bullets' = [b \in Bullets |-> NoBullet] /\ bulletCount' = 0
    /\ enemies' = [e \in Enemies |-> NoEnemy] /\ enemyCount' = 0
    /\ i' = 0

\* Each LevelEvery points.
Harder ==
    [speed |-> level.speed + 1, chance |-> level.chance - ChanceStep,
     delay |-> (level.delay - DelayStep) % Word]

\* The first bullet that hits the enemy takes it along.
Strike ==
    /\ stage = "collide" /\ ~Rammed
    /\ \E b \in Bullets :
         /\ Hits(b, i) /\ \A c \in 0..b - 1 : ~Hits(c, i)
         /\ bullets' = [bullets EXCEPT ![b] = NoBullet]
    /\ enemies' = [enemies EXCEPT ![i] = NoEnemy]
    /\ player' = [player EXCEPT !.score = @ + Points]
    /\ level' = IF player'.score % LevelEvery = 0 THEN Harder ELSE level
    /\ NextEnemy
    /\ UNCHANGED <<bulletCount, enemyCount, wait>>

\* Mutated: the last bullet is not tested.
MissUntested ==
    /\ stage = "collide" /\ ~Rammed
    /\ \A b \in Bullets \ {maxBullets - 1} : ~Hits(b, i)
    /\ NextEnemy
    /\ UNCHANGED <<player, field, level, wait>>

Miss ==
    /\ stage = "collide" /\ ~Rammed /\ \A b \in Bullets : ~Hits(b, i)
    /\ NextEnemy
    /\ UNCHANGED <<player, field, level, wait>>

-----------------------------------------------------------------------------
\* The frame is shown and the clock goes on.
Show ==
    /\ StageAt("show", "spawn")
    /\ \E t \in FrameTimes : wait' = IF wait > t THEN wait - t ELSE 0
    /\ UNCHANGED <<player, field, level, i>>

Next ==
    \/ Spawn \/ NoSpawn \/ Steer \/ Fire \/ HoldFire \/ Advance
    \/ Lose \/ Defeat \/ Strike \/ Miss \/ Show

Spec == Init /\ [][Next]_vars

\* The loop never stops.
FairSpec == Spec /\ WF_vars(Next)

-----------------------------------------------------------------------------
(* Properties.                                                             *)

\* Every variable keeps its type; no enemy is left at or behind column 0.
TypeOK ==
    /\ player \in [x : 0..MAX_X, y : MIN_Y..MAX_Y, lives : 0..MY_LIVES,
                   score : Nat]
    /\ bullets \in [Bullets -> [x : Nat, y : Nat, live : BOOLEAN]]
    /\ bulletCount \in Bullets
    /\ enemies \in [Enemies -> [x : 0..Width - 1, y : Nat, speed : Nat]]
    /\ enemyCount \in Enemies
    /\ level \in [speed : Nat, chance : Int, delay : 0..Word - 1]
    /\ wait \in Nat /\ stage \in Stages /\ i \in Enemies

\* The three quantities that make the game harder are at any time what the
\* score says, across defeats in the middle of the collision loop: points come
\* five at a time from any of the enemies, and the level is only looked at when
\* the score is a multiple of fifty.
LevelMatchesScore ==
    LET n == player.score \div LevelEvery
    IN  level = [speed |-> InitialSpeed + n,
                 chance |-> InitialChance - ChanceStep * n,
                 delay |-> (InitialDelay - DelayStep * n) % Word]

\* Frames a bullet fired from the left border lives, and frames at least from
\* one shot to the next.
Flight == (Width - Ship + BulletSpeed - 1) \div BulletSpeed + 1
LongestFrame == CHOOSE t \in FrameTimes : \A u \in FrameTimes : u <= t
FramesApart(delay) == (delay + LongestFrame - 1) \div LongestFrame

\* Firing takes the slots in turn without looking: it never overwrites a bullet
\* still in flight as long as the shots that go round the array take longer than
\* a flight, which shotDelay alone sees to.
FlyingBulletKept ==
    [][ \A b \in Bullets :
          /\ bullets[b].live /\ bullets'[b] # bullets[b] /\ stage = "shoot"
          => level.delay > Word \div 2
             \/ maxBullets * FramesApart(level.delay) < Flight ]_vars

\* When a frame is shown, nothing that should have collided is left: no enemy
\* overlaps a bullet or the ship, although a hit in one pass of the loop changes
\* what the next passes see.
CollisionsSettled ==
    stage = "show" =>
        \A e \in Enemies :
            /\ \A b \in Bullets : ~Hits(b, e)
            /\ enemies[e].x > 0 => ~HasCollided(enemies[e], Size, player, Ship)

\* Between two frames no bullet jumps over an enemy in its rows, as long as
\* the two approach by less than twice their size, that is up to enemySpeed 10:
\* collisions are looked for only where things are, never on their way.
NoneSlipsThrough ==
    [][ stage = "advance" =>
          \A b \in Bullets, e \in Enemies :
            /\ bullets[b].live /\ enemies[e].x > 0 /\ bullets'[b].live
            /\ bullets[b].x + Size <= enemies[e].x
            /\ BulletSpeed + enemies[e].speed < 2 * Size
            => bullets'[b].x < enemies'[e].x + Size \/ enemies'[e].x = 0 ]_vars

\* Every enemy leaves its slot, so that the one slot createNewEnemy looks at
\* cannot keep all others from appearing for ever.
EnemyLeaves == \A e \in Enemies : enemies[e].x > 0 ~> enemies[e].x = 0
=============================================================================
