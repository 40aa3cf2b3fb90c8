# JikkoLAB-tools in TLA+

This directory keeps the TLA+ specifications of JikkoLAB-tools beside the code:
what its concurrent parts do, which properties make them correct, TLC runs that
check them on small instances and TLAPS proofs that hold for every size.

## 1. The system

JikkoLAB-tools is a set of Arduino libraries for ESP32 classroom boards. Almost
all of `Library/` is third-party code kept unmodified (TFT_eSPI, WiFi, BLE,
Blynk, IRremote, Adafruit drivers, ...). The project's own code is this:

| Component | Files | State | Operations | What is hard |
|---|---|---|---|---|
| Dialogflow voice uplink | `Library/dialogflow/dialogflow.cpp` 298-563 | ring `ws_buf`, `total_send_bytes`, semaphores `rx_done`, `tx_done`, `ws_task_done`, LED | `SpeechRec` (recorder), `WS_Sender` (a task per call) | two or more tasks, no lock, timeouts at every wait, a sender that outlives its call |
| Dialogflow answer player | same, 24-91 and 566-674 | ring `wav_play`, `wav_play_size`, `wav_rcv_done`, `sound_player_state` | `websocket_event_handler`, `SoundPlayTask` | three tasks on two cores, decisions taken from counters that are not the ring |
| Dialogflow mailboxes | same, 52-69 and 676-692 | three text buffers and their flags | the handler's I, R, S; `get_intent`, `get_response`, `get_cmd` | buffer and flag written and read in two steps each |
| Dialogflow start-up | same, 96-292 | `inited`, `ws_state`, `ws_client` | constructor, `init`, `WS_reset` | retries while the network is down |
| Dialogflow over BLE | `Library/dialogflow_BLE` | as the player, with an announced `wav_total_size` | BLE callbacks, `SoundPlayTask`, `SpeechRec` | a reset at the end of a playback that can overwrite the next announcement |
| ESP-NOW broadcast | `Library/esp32_broadcast` | one packet, one flag | `OnDataRecv`, `esp_available`, `esp_read`, `esp_send` | the WiFi task overwrites what the sketch is reading |
| Ping-pong game | `Jikko/Jikko.cpp` 12-45, 147-351 | 8-bit ball and paddles, scores, `resetBall` | `pingpongGame` | wrap-around, a game's end spread over frames |
| Shooting game | `Jikko/Shootgame.cpp` | bullets, enemies, score, speeds | `shootGame` | slots reused round robin, unsigned delays, shared indices |
| Bluetooth and dust helpers | `Jikko/Jikko.cpp` 49-145, 353-384, `Library/Jikko` | `prevVal` | `getMultiBTData1..3`, `getDust`, `wifiInit` | conversions with gaps |
| JikkoAnimal, jikkochatbot | `Library/JikkoAnimal`, `Library/jikkochatbot` | `previousMillis` | `playMelody`, motor moves, drawings | time limits kept across calls |
| Jikko_tft | `Library/Jikko_tft` | none | drawing of JPEG files | pure I/O |

How they interact. The sketch calls `SpeechRec` from the Arduino loop task.
`SpeechRec` refuses while `sound_player_state` is 0, creates a `WS_Sender`, and
records I2S chunks into `ws_buf`; `WS_Sender` moves them to the websocket and
clears the player's two counters. The server answers over the same websocket:
the client library's task runs the event handler, which fills `wav_play`, and
`SoundPlayTask` empties it. The ESP32 has two cores and every one of these
tasks may run on either, so the specifications interleave single accesses to
the shared variables.

What makes each part correct, and where it can go wrong, is listed line by line
under `hazards` in `PROJECT.json`. In short:

* uplink: the recorder is never locked out, every byte counted is a byte sent,
  in hand or in the ring, a chunk always fits, a recording does not stop before
  its minimum, `SpeechRec` returns, and the LED goes out unless its sender is
  stranded;
* players: what came is played, the websocket player reads only what is there,
  and both always come back;
* mailboxes and ESP-NOW: no notification is lost, no message is half another;
* games: the ball stays in the court, a game ends at its score, slots are not
  overwritten while in use;
* melodies and motors: a call ends in its time, wherever the clock wraps.

## 2. The modules

`ByteRing` is the FreeRTOS byte ring buffer as the code uses it: `stored` bytes,
`held` bytes (received and not yet returned) and the position `rd`, which
decides how much can be received in one piece. One item is held at a time and
a receive while one is held brings nothing. The buffer is not in `src/`; the
module is external and pure operators.

`VoiceUplink` is `SpeechRec` and `WS_Sender`. `rpc` is where `SpeechRec` stands
and `sender[s].pc` where the sender created by call `s` stands; a step is one
access to the ring, a semaphore, a counter or the LED, with one exception: a
write of the LED is taken together with the access beside it (`Receive`,
`ReceiveNothing` with 356-360, `StopRecording`, `LastRx` with 428-429). The
correspondence:

| Code | Specification |
|---|---|
| 446-462 refuse | `Refuse` |
| 469 semaphore created | `Enter` |
| 473-486 reconnection | `Connected`, `ResetFails` |
| 491, 495, 498, 499 | `CreateSender`, `ClearTotal`, `FirstRx`, `FirstTx` (the sender may run between any two) |
| 504-519 | `ReadChunk`, `NothingRead`, `TakeRx`, `DropChunk`, `Push`, `Count`, `Signal` |
| 502, 521-527 | `RecordMore`, `StopRecording` |
| 530-562 | `DrainTake`, `DrainReturn`, `DrainEnd`, `Settle`, `Leave` |
| 301-332 | `Start` |
| 343-346 | `ReadSize`, `SentAll` |
| 350, 421 | `TakeTx`, `MissTx`, `GiveAnyway` |
| 356-360 | `Receive`, `ReceiveNothing` |
| 374, 375 | `ReturnItem`, `GiveRx` |
| 384-415 | `Transmit`, `Finished` |
| 428-432 | `LastRx`, `SenderDone` |

The statics live on between calls: a sender whose call has returned goes on,
and `SenderDone` gives whatever semaphore the handle names by then. A timeout
is taken whenever the semaphore is not there, at any moment, which covers every
length of the real ten ticks. Volume is abstracted to the choice between quiet
and loud at each chunk; the quiet count stops at the value that ends the loop.

`BytePipe` is what one recording promises: bytes are written until enough are or
the writer stops, what is written is sent once, and nothing is thrown away
before the stop. `VoiceUplink` instantiates it for its first call (`Pipe`): what
is on its way is in the ring or in the sender's hands (`InTransit`). `Push` is
`Write`, `Transmit` is `Send`, `StopRecording` and the third `ResetFails` are
`Stop`, `DrainTake` is `Discard`, and all else stutters.

`SoundPlayer` is the websocket handler's W, binary and E, `SoundPlayTask`, and
what `SpeechRec` and its sender do to the shared counters (`Record`,
`ClearSize`, `ClearDone`, `ReturnToSketch`). `wav_play_size += n` is a load
and a store (`LoadSize`, `StoreSize`). The three conditions of the player's loop
name `wav_play_size` and `wav_rcv_done`, which are not volatile: the build loads
each once an iteration, the size first (`LookSize`, which keeps it in
`player.seen`) and the end mark where it decides (`WaitForBuffer`,
`WaitForMore`, `PlayedAll`, `MoreToPlay`), and the handler may run between the
two. An answer may be announced before the end of the one before it.
`abandoned` is an auxiliary variable: a playback has ended by its timeout.

`Mailbox` is one of the three text buffers of `DialogflowBlock` with its flag;
the three share nothing, so one module stands for each. The handler's copy goes
cell by cell, in any order (`Receive`, `Copy`, `Terminate`, `Announce`, lines
37-69), and the sketch reads cell by cell what `get_...` hands out (`Notice`,
`Clear`, `Read`, `Use`, 676-692). A cell holds the number of the message it was
written for and whether it is the NUL. `last` and `seen` are auxiliary: the
last message complete in the buffer and the last one read whole. Nothing is
assumed of the lengths of frames. The code does not check that a frame is as
long as its tag: of a frame of one byte, minus one bytes are to be copied, which
is undefined. `Overrun` models what the build does with it, a copy that faults
where the memory ends, and a board that starts again. (The BLE class drops what
is shorter than three bytes, `dialogflow_BLE.cpp:46`.)

`LatestValue` is what such a mailbox promises: values are put in one after the
other, the reader never goes back to an older one, and when they stop coming it
gets the last; a restart of the board begins anew. `Mailbox` instantiates it
(`Promise`) with `newest <- last` and `got <- seen`: `Terminate` is `Put`, the
`Read` of the NUL of an unmixed string is `Get`, `Overrun` is `Restart`, and all
else stutters.

`BleDialogflow` is the class for a phone over BLE: the callbacks (`Connect`,
`Announce`, `Frame`), `SpeechRec` as far as it is compiled, and `SoundPlayTask`
(333-420) with the test `MuchFree` as it is written and the reset of
`wav_total_size` at line 402 (`Reset`). The phone may stall, overlap two answers
or go. The announced size is what `atoi` makes of the message: that of the
answer or one of `Garbled`, negative and zero included (line 57).
`wav_total_size` is not volatile either, and `Measure` loads it once. `spoiled`
is auxiliary: an answer was asked for with another under way, announced with a
size that is not its own or whose share of 60% is nothing, or not sent for ten
seconds in the middle; what becomes of such sound the code leaves open. Line 366
compares the free size of the ring where the used one seems to be meant, so no
playback ends but by ten seconds of silence. No property asks for that: the
three about playing hold with the line repaired as well as without.

`EspNow` is `esp32_broadcast.h`: the radio task copies the packet word by word
over the one the sketch reads (`Receive`, `CopyId`, `CopyNumber`, `Announce`);
`esp_available` looks at the flag, at the id and clears the flag (`Ask`,
`Match`, `Clear`); `esp_read` loads a number and zeroes its field (`Load`,
`Zero`). A number of packet n is the value n. `got` and `wiped` are auxiliary:
the last packet a field was read of, and the fields zeroed unread.

`PingPong` is `pingpongGame`: a frame is one action, `Announce` (the match is
won), `Wait` (too early for the ball) or `Move`, with sums modulo 256 as
`uint8_t` has them. The clock only decides whether ball and paddles are due.
That includes its wrap: a paddle may then be due before the ball (`Wait` with
moving paddles), and the ball may fly on in the frame that announces the end
(`AnnounceLate`).

`ShootGame` is the loop of `shootGame`, each stretch of a frame an action and
each pass of the collision loop one more (`Lose`, `Defeat`, `Strike`, `Miss`).
`wait` is what the clock lacks to `lastShot`.

`TimedCalls` is `playMelody` of JikkoAnimal, `playMelody` of jikkochatbot and
the latter's motor moves, against a `millis()` that wraps. The three differ in
when they set the time they compare with (`FromAtStart`, `AnimalCutOff`) and in
when they look at the clock (`Now`).

`MCVoiceUplink` gives the read sizes for the one-call runs, `MCBleDialogflow`
what `atoi` returns. Each `..._proofs`
module extends the module it is named after.

Definitions whose comment says "Mutated" (`ResetFailsLate`, `DropChunkCounted`,
...) are the same step with a plausible mistake; no action uses them. Putting
one in the place of the step it alters must break the property that guards
against that mistake, so they show what each property depends on.

## 3. The runs

| Run | Instance | Shows |
|---|---|---|
| `uplink_one` | one call, chunks of 2 units read as 1 or 2, ring of 7, 6 to record, minimum 2 | `TypeOK`, `RecorderNeverLockedOut`, `StopsAfterMinimum`, `RecordingReturns`, `LedGoesOut` hold |
| `uplink_long` | one call, the same chunks, ring of 15, 30 to record | `EveryByteAccounted`, `EveryChunkFits` hold; `ImplementsPipe`, the refinement |
| `uplink_two_minimum` | two calls, chunks of 1, ring of 3 | `StopsAfterMinimum` is violated (finding) |
| `uplink_one_waits` | one call | `WaitsForSender` is violated (finding) |
| `player` | two requests, up to three frames of 2 or 3 each, ring of 7, pieces of 2 | `TypeOK`, `FirstAnswerPlayed`, `WholePieceThere`, `PlayerComesBack` hold |
| `player_two_tail` | two requests, answers shorter than the start threshold | `AlmostAllPlayed` is violated (finding) |
| `mailbox` | four messages, frames of 0 to 8 bytes with a tag of 2, longer than 6 cut, buffer of 5 | `TypeOK`, `MixtureIsReplaced` hold; `ImplementsLatestValue`, the refinement with its liveness |
| `espnow` | four packets of two boards, one or two numbers each | `TypeOK`, `EachNumberOnce`, `LastPacketRead`, `MixtureIsReplaced` hold |
| `ble` | two requests, answers of 0, 2, 3, 7 or 12, announced so or as -5, 0 or 20, ring of 10, 2 standing for "unknown" | `TypeOK`, `NothingThrownAway`, `PlayerComesBack`, `AnswerIsPlayed` hold |
| `pingpong` | court of 12 by 10, 8-bit arithmetic, every serve, paddle move and button | `TypeOK`, `BallInCourt`, `PaddlesInCourt`, `PassedBallIsLost`, `MatchEnds`, `MatchGivesWay` hold |
| `shoot` | two bullets, two enemies, screen of 8 columns, levels up to and past the wrap of `shotDelay` | `TypeOK`, `LevelMatchesScore`, `CollisionsSettled`, `FlyingBulletKept`, `NoneSlipsThrough`, `EnemyLeaves` hold |
| `timed` | a clock of 32 ticks, `int` of 16, melodies of up to six notes | `TypeOK`, `StopsInTime`, `UsesItsTime`, `MotorStopsInTime`, `CallReturns` hold |

Bounds. All sizes are in units of the instance's choice, so what matters is
their order and whether pieces divide evenly.

* Uplink. In `uplink_one` a chunk may be read short (1 of 2), the minimum and
  the LED threshold lie strictly inside a recording, and a silence takes two
  quiet chunks; the sender can miss its turn, time out, find nothing and be
  overtaken at every step. Whether a chunk fits depends on how far the sender
  can lag, which takes a recording much longer than the ring: `uplink_long`
  records 30 units and goes round its ring of 15, eight chunks but one unit,
  which is the ring the theorem `ChunksFit` asks for; with a ring of 14 TLC
  finds a chunk that does not fit (and with 26 to record it does not yet find
  one). The lag is made of stale sizes, timeouts and a piece left over where the
  ring wraps; the code's ring holds sixteen chunks. That the recorder is not
  locked out with any number of calls is a theorem and has no run of its own.
  `LedGoesOut` leaves one case out by name: a sender that is `Stranded`, waiting
  after the ring was emptied for a `tx_done` that nobody will give, keeps the
  LED as it is (finding 1).
* Player. The ring is smaller than what two answers may bring, so frames are
  lost; odd frames against pieces of two leave partial pieces; `Patience` 2 with
  an empty ring costing 2 allows a playback to be abandoned from each of the
  three waits. The second recording may begin while the first answer arrives or
  plays.
* Mailbox. The longest message is cut and fills the buffer to its last cell, the
  shortest is empty, and frames shorter than the tag restart the board; four
  messages let the reader be overtaken twice within one string and once more
  after it.
* ESP-NOW. Two fields are enough for a mixture, four packets for a round of
  three different ones and a further one.
* BLE. Answers are nothing, a piece (which is also the number that stands for
  "unknown"), smaller than the ring, or larger; what is announced instead is
  negative, nothing, or more than comes; frames and pieces do not divide evenly.
* Ping-pong. The court is small but the arithmetic is that of a byte, so that a
  position that left the court would wrap where the code's would.
* Shooting. A level takes two hits (`LevelEvery` 2), so that the test for a
  multiple is false as often as true. `InitialDelay` 12, `DelayStep` 8 and
  `TopScore` 5 take `shotDelay` below zero; one life makes defeats frequent.
* Timed calls. The clock wraps within a call. The seconds' product overflows
  `int` for 4 seconds: of such a call `CallReturns` says that it returns, and
  `StopsInTime` and `UsesItsTime` say nothing (`Fits`).

`Sessions`, `Requests`, `Frames` (of the player), `Messages`, `Packets` and
`TopScore` only bound the runs; they have no counterpart in the code.

Fairness. In the uplink (`FairSpec`) every task keeps being scheduled (FreeRTOS
time slicing; every wait in the code has a timeout, so a task is never blocked
for ever: the websocket send is assumed to return, as line 384 gives it a
timeout and line 430 does not), and strong fairness on `ReadChunk` says the I2S
DMA goes on delivering: a poll that finds no event is repeated until one does.
In the players, websocket and BLE, only the player's own task is fair. Nothing
is assumed of the server or the phone: it may stall in the middle of an answer,
which is why `PlayerComesBack` needs the code's timeout. In the mailbox the
handler finishes what it began, and the sketch keeps looking; no message need
ever come, nor a restart. The games' loops keep being called, and a running
timed call goes on; a sketch need not make another. `EspNow` has safety
properties only: nothing says that a sketch asks.

Deadlock checking is off where the system may stop: the sketch may make no
further call, and the server, phone or other board may never send. It is on for
the games and the timed calls, whose loops always have a next step.

## 4. What is proved

Each theorem rests only on the named assumption about the constants of its
module, and holds for all sizes, for any number of calls, messages or packets
unless it says otherwise. None of the safety properties but the types is
inductive by itself; what had to be added says what the code relies on.

The modules that use a ring begin with `RingSteps`: every ring operation keeps a
well-formed ring well formed, and what can be received in one piece is at most
what is stored.

In `VoiceUplink_proofs`, from `SizesAssumption`:

* `TypeCorrect`: `Spec => []TypeOK`. One step per action in `RecorderType` and
  `SenderType`.
* `NeverLockedOut`: `Spec => []RecorderNeverLockedOut`. After `Push` the
  recorder has no permission left, so the ring must hold something a sender will
  give it back for. That needs `ChunkRead` (what is pushed is not empty) and,
  should the chunk not fit, that what fills the ring is either stored or in a
  sender's hands (`HeldHasReader`); that in turn must survive the creation of a
  sender, whose record is overwritten, hence `NotYetCreated`. `LockInv` is their
  conjunction; `RecorderLock` and `SenderLock` are its preservation.
* `LedOwned`: `Spec => []LedHasOwner`: a lit LED has a sender that is still
  before line 428. Inductive with `TypeOK`. It says where a lit LED comes from,
  not that it goes out; that is `LedGoesOut`, a liveness property, and not
  proved.
* `FirstMinimum`: `Spec => [](session = 1 => StopsAfterMinimum)`. The recorder
  stops before `MinWav` only when `ws_task_done` was given, which the sender
  does having sent more than `MinSend` (`EndedWithEnough`). That bounds what was
  recorded only because a sender never sends what was not counted
  (`NothingInvented`: the size it goes by is at most the total it looked at, and
  it takes no more than that size) and because the total is cleared while it is
  still zero (`ClearedEmpty`), although the sender may run before the clearing
  at line 495. `FirstInv` claims all this up to the second call only; in the
  second, the total is cleared under a sender of the first, and
  `uplink_two_minimum` shows the property fail.
* `BytesAccountedIfFit`: as long as every chunk fits, every byte is accounted
  for. `Balanced` follows what was sent, is in the sender's hands or in the ring
  against what was written: equal until the recorder empties the ring, at most
  as much after.

Of these, with `Room` (the ring holds eight chunks but one unit; the code's
holds sixteen) as hypothesis:

* `ChunksFit`: `Spec => []EveryChunkFits`, and `BytesAccounted`:
  `Spec => []EveryByteAccounted`. The argument bounds a potential: what is in
  the ring, a chunk for each write the recorder may still make (`Permits`), and
  a chunk for each `rx_done` the sender may still give without having received
  anything (`Misses`, which the handshake keeps to three). A receive takes
  what was asked for unless it meets the end of the buffer, and then the next
  one starts at its beginning (`Within`); what was asked for is at most two
  chunks less than what is there by then (`Blind`). `Lag` gives the bound for
  each place the sender can be at. `EveryChunkFits` follows from the bound and
  is itself used to preserve it, so all are proved together (`CallInv`). The
  bound is tight: with a ring one unit smaller TLC finds a counterexample.
* `PipeImplemented`: `Spec /\ [](session <= 1) => ImplementsPipe`, the
  refinement of `BytePipe` until a second call begins. `CallInv` is the
  inductive invariant again: `Write` needs the chunk to fit, not to be empty and
  to come before enough was written; the clearing of the total is a stutter
  only because it is zero; and the creation of a sender is one because there was
  none. `RecorderPipe` and `SenderPipe` say of each action which abstract step
  it is. A second call clears the total, which no pipe does.

In `SoundPlayer_proofs`, from `PlayerAssumption`:

* `TypeCorrect`. Types alone are not inductive: that no more answers are owed
  than were asked for (`Owed`) is part of it.
* `FirstPlayed`: `Spec => []FirstAnswerPlayed`, and `PiecesThere`: `Spec =>
  []WholePieceThere`. The player decides by `wav_play_size` and `play_bytes`,
  and `Books` says why that is good enough for the first answer: what was
  played, is held or is in the ring equals what was counted or is about to be (a
  frame is stored before it is counted). `Fresh` says the sender's resets come
  before there is anything to reset, `InOrder` that nobody writes between the
  handler's load and store, and `Decided` that the size the player saw is no
  more than it is now, and that what it decided by it still holds when it acts
  on it. Since the end mark is looked at after the size, the last frames may be
  overtaken: `FirstAnswerPlayed` says that less than a piece is left, plus what
  was counted since the player looked, and nothing smaller is true.

In `Mailbox_proofs`, from `MailboxAssumption`:

* `TypeCorrect`: a message that is stored and its NUL fit the buffer, for frames
  of any length, because what is kept of a frame, its tag taken off, is shorter
  than the buffer, and a frame shorter than its tag is never stored: it restarts
  the board (`Overrun`). `MailboxAssumption` asks nothing of frames.
* `MixtureReplaced` and `ImplementsSafely`: `Spec => Promise!SafeSpec`, the
  refinement without its liveness, restarts included. `Copied` says what each
  cell holds at each place of the handler, `UpToDate` that with nothing
  announced the reader has only cells of the last message, and `Forward` that a
  string begins with a cell no older than the last message read whole, which is
  what makes a later `Get` go forward.

In `EspNow_proofs`, from `PacketAssumption`: `TypeCorrect`, `NumbersOnce`,
`LastRead` and `MixtureReplaced`. `Written` says what the fields hold while and
after a packet is copied, `Unread` that what can still be read is newer than
what was, `Traced` where each number of the last packet is, and `Pending` that
without a flag the present round is about to read it.

In `PingPong_proofs`, from `CourtAssumption`: `TypeCorrect`, `BallStays`,
`PaddlesStay`, `PassedIsLost` and `ScoreStops`. The types and the three
properties of ball and match are one invariant (`CourtInv`), none inductive
alone: the ball stays off the walls since a bounce takes it two steps back,
which needs to know it was not between a paddle and a wall with the wrong
direction, and a score cannot pass `maxScore` since the frame after it starts a
new match.

In `BleDialogflow_proofs`, from `BleAssumption`:

* `TypeCorrect`. As for `SoundPlayer`, with `Owed`.
* `AnswersKept`: `Spec => []NothingThrownAway`. As long as nothing is `spoiled`,
  `Books` says that what was played, is held, is stored or still to come is at
  most what was announced; `Quiet` that an answer still owed finds the ring
  empty and the player waiting; `Patient` that the player starts only with
  something in the ring, for which no share may be nothing; `Decided` that, once
  the played bytes come within 17 of the size, what remains is too little to
  fill the ring, so that the loop goes on by its second condition; and `Settled`
  that the silence which ends the playback finds nothing left. Of the constants
  it takes that the ring is longer than two pieces and that the share of the
  ring and of "unknown" is not nothing; both are in `BleAssumption`, and the
  code's are.

In `TimedCalls_proofs`, from `TimesAssumption`: `TypeCorrect`, `MelodyStops`,
`MelodyUsesItsTime` and `MotorStops`. `TimedInv` relates the time a call has
taken with what the code sees of it, `(clock - from) % Word`: JikkoAnimal sees
at least what passed (its time may be old), jikkochatbot exactly, and the motors
one move less. The lemmas before it (`Remainder`, `TickAdds`) say when the
difference of two wrapped clocks is the time between them, which is where
`TimesAssumption` comes in: twice a note or move on top of the longest interval
stays below 2^32 ms, that is, below 49 days. For the motors it also excludes
seconds whose `float` product no `long` holds, which the language leaves
undefined.

In `ShootGame_proofs`, from `GameAssumption`, after lemmas on quotients and
remainders by a variable:

* `TypeCorrect`. That no enemy is left at or behind column 0 is part of the
  type, and needs the order of moving and looking.
* `LevelFollowsScore`: inductive once the score is known to be a multiple of the
  points of a hit, so that no multiple of fifty is stepped over (`LevelInv`).
* `FrameSettled`: the collision loop settles its enemies one by one, and no
  later pass unsettles one (`SettledInv`, `PassSettles`).
* `NoBulletJumps`: an action property, from the types and the order of moving.
* `FlyingBulletsStay`: `Paced` implies `Spec => FlyingBulletKept`. A live bullet
  with k later shots has been moved in at least k times the frames a delay takes
  (`FlightInv`, by `Aged`), so when its slot comes round again it has left the
  screen, unless the delay is too short for that, which is what the property
  says. A higher level shortens the delay, and `Aged` must survive it. `Paced`
  asks for a longest frame and for a delay that has not come all the way round
  below zero, which takes a score of 2^31.

Only model-checked is what the prover does not handle, liveness under fairness:
`RecordingReturns`, `LedGoesOut`, both `PlayerComesBack`, `AnswerIsPlayed`, the
liveness of `LatestValue` (in `ImplementsLatestValue`), `MatchGivesWay`,
`EnemyLeaves` and `CallReturns`. Every safety property of a passing run is
stated by a theorem; `StopsAfterMinimum`, `EveryByteAccounted`, `EveryChunkFits`
and `ImplementsPipe` by theorems about the first call, which the properties
themselves or the runs are about.

## 5. Findings

Three comments of the source say what the code does not do; each has a run.

1. `dialogflow.cpp:442`: `SpeechRec` is said to wait for the end of the
   transmission. It returns while its sender runs (`uplink_one_waits`), and
   having emptied the ring may leave the sender in its loop for good; there it
   may have lit the LED again after line 525 put it out, and does not put it
   out.
2. `config.h:9`: a recording is said to last at least its share of six seconds.
   A sender left over from one call ends the next call's recording early
   (`uplink_two_minimum`).
3. `dialogflow.cpp:595`: a playback is said to end with all but 16 bytes played.
   An answer too short to start the player stays in the ring and shifts the
   next answer, whose end is thrown away (`player_two_tail`).

## 6. Not modelled, and why

The vendored libraries are most of the repository: of some 726,000 lines of C
and C++ only about 4,650 are this project's own, and many of those are tables of
drawings and melodies. The share of all lines that is modelled is therefore
very small and will stay so; what the vendored code does is modelled where the
project's code relies on it (ring buffer, semaphores, websocket, radio).

Of the project's own code these parts are left out:

* wording, logging and sample values (no property is about them); the WAV
  header; heap exhaustion; the microphone's and the speaker's hardware. What a
  give to the deleted semaphore does to the heap is not modelled: the step
  leaves the state of the module as it is;
* `init`, the destructors and the WiFi join, which run once and alone; of
  `WS_reset` only whether it succeeds;
* `VoiceSender` and the recording half of `SpeechRec` in the BLE class, which
  are commented out or never started; its I, R and S messages, which are those
  of `Mailbox` copied with `strncpy`;
* near the wrap of `millis()` itself, 49 days after the start, the sum `millis()
  + shotDelay` of the shooting game also wraps and a shot may come early; only
  the wrap by a negative `shotDelay` is modelled;
* an `act` that is none of jikkochatbot's moves, with which the call spins
  without a move till its time is over;
* `esp_read_id` and the debug output of `esp32_broadcast.h`, which only look;
* the Bluetooth and dust helpers: stateless conversions and formulas in floating
  point, which a unit test reaches;
* `Jikko_tft` and the drawings of the games and toys: pure output.

## 7. Plan

What is left, in this order:

1. `Dialogflow`: uplink and player composed through `wav_play_size`,
   `wav_rcv_done` and `sound_player_state`, and what the player's theorems say
   of that composition.
2. What a second call still guarantees where a sender of the first is left:
   the theorems about bytes stop at the first call, but bounds on what is lost
   may be stated.

## 8. Running it

    tlc -workers 2 -config uplink_one.cfg MCVoiceUplink
    tlc -workers 2 -config uplink_long.cfg MCVoiceUplink
    tlc -workers 2 -config player.cfg SoundPlayer
    tlc -workers 2 -config mailbox.cfg Mailbox
    tlc -workers 2 -config espnow.cfg EspNow
    tlc -workers 2 -config ble.cfg MCBleDialogflow
    tlc -workers 2 -config pingpong.cfg PingPong
    tlc -workers 2 -config shoot.cfg ShootGame
    tlc -workers 2 -config timed.cfg TimedCalls
    tlapm VoiceUplink_proofs.tla

The runs `uplink_two_minimum` (module `VoiceUplink` through `MCVoiceUplink`),
`uplink_one_waits` and `player_two_tail` end with the counterexamples of
section 5. The other `..._proofs` modules are checked like the last line. Each
run takes less than a minute, and every proof module a few minutes at most.
