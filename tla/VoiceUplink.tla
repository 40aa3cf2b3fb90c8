---------------------------- MODULE VoiceUplink ----------------------------
(***************************************************************************)
(* How DialogflowBlock sends a spoken command: SpeechRec, called again and *)
(* again by the sketch's loop task, records I2S chunks into the ring       *)
(* ws_buf, and the task WS_Sender it creates for each call moves them to   *)
(* the websocket.  Both run on any core and share, without a lock, the     *)
(* ring, the byte count total_send_bytes, the binary semaphores rx_done    *)
(* ("the ring was read") and tx_done ("the ring was written"), and the     *)
(* counting semaphore ws_task_done ("the sender ended"), which SpeechRec   *)
(* creates and deletes.  A step is one access to that shared state; a      *)
(* write of the LED goes with the access beside it.                        *)
(*                                                                         *)
(* Sizes are in a unit of the instance's choice (an I2S DMA buffer of 256  *)
(* bytes: CHUNKSIZE is 2, the ring 32, MINWAVSIZE 1500).                   *)
(***************************************************************************)
EXTENDS Integers, ByteRing

CONSTANTS
    Chunk,       \* CHUNKSIZE
    ReadSizes,   \* the sizes i2s_read may return, 0 (nothing read) excepted
    MinWav,      \* MINWAVSIZE
    BufSize,     \* size of ws_buf
    DrainPiece,  \* what the emptying loop of SpeechRec takes at a time
    MinSend,     \* MINWAVSIZE * MIN_SEND_RATIO
    QuietMax,    \* LOW_VOL_CNT_TH
    LedOn,       \* the LED goes on when more than this has been sent
    Sessions     \* bound: how many times the sketch calls SpeechRec

ASSUME SizesAssumption ==
    /\ {Chunk, MinWav, BufSize, DrainPiece, Sessions} \subseteq Nat \ {0}
    /\ {MinSend, QuietMax, LedOn} \subseteq Nat
    /\ ReadSizes \subseteq 1..Chunk
    /\ Chunk <= BufSize /\ MinSend < MinWav

Session == 1..Sessions

VARIABLES
    rpc, session, resets, bytesRead, result,  \* SpeechRec, in the loop task
    total_send_bytes, ring, sem, led,         \* shared
    sender                                    \* the WS_Sender of each session

recLocals == <<session, resets, bytesRead, result>>
recVars == <<rpc, recLocals>>
vars == <<recVars, total_send_bytes, ring, sem, led, sender>>

\* ws_task_done is a count, or Gone while no semaphore exists.
Gone == -1

RecPCs == {"idle", "connect", "create", "clear", "giveRx", "giveTx", "poll",
           "takeRx", "push", "count", "signal", "check", "drain",
           "drainReturn", "settle", "delete"}

SenderPCs == {"none", "start", "size", "take", "giveUp", "receive", "held",
              "returned", "transmit", "end", "bye", "gone"}

Init ==
    /\ rpc = "idle" /\ session = 0 /\ resets = 0 /\ bytesRead = 0
    /\ result = "none"
    /\ total_send_bytes = 0 /\ ring = EmptyRing /\ led = "low"
    /\ sem = [rx_done |-> 0, tx_done |-> 0, ws_task_done |-> Gone]
    /\ sender = [s \in Session |-> [pc |-> "none", send_bytes |-> 0,
                    send_size |-> 0, rcv_bytes |-> 0, record_exit_cnt |-> 0]]

-----------------------------------------------------------------------------
(* SpeechRec, the recorder.                                                *)

At(pc, next) == rpc = pc /\ rpc' = next

\* Without init, or with the player still running after ten seconds, the call
\* is refused before anything is allocated.
Refuse ==
    /\ rpc = "idle" /\ session < Sessions
    /\ result' = "false"
    /\ UNCHANGED <<rpc, session, resets, bytesRead, total_send_bytes, ring,
                   sem, led, sender>>

\* Otherwise a fresh semaphore replaces the old handle.
Enter ==
    /\ At("idle", "connect") /\ session < Sessions
    /\ session' = session + 1 /\ resets' = 0 /\ result' = "none"
    /\ sem' = [sem EXCEPT !.ws_task_done = 0]
    /\ UNCHANGED <<bytesRead, total_send_bytes, ring, led, sender>>

\* The websocket is connected, or WS_reset connected it.
Connected ==
    /\ At("connect", "create")
    /\ UNCHANGED <<recLocals, total_send_bytes, ring, sem, led, sender>>

\* WS_reset failed; the third failure ends the call, which leaves
\* ws_task_done behind.  Mutated: the fourth.
ResetFailure(limit) ==
    /\ rpc = "connect"
    /\ resets' = resets + 1
    /\ IF resets + 1 = limit THEN rpc' = "idle" /\ result' = "false"
                             ELSE UNCHANGED <<rpc, result>>
    /\ UNCHANGED <<session, bytesRead, total_send_bytes, ring, sem, led,
                   sender>>

ResetFailsLate == ResetFailure(4)

ResetFails == ResetFailure(3)

\* xTaskCreate.  The sender has the higher priority: it may run at once.
CreateSender ==
    /\ At("create", "clear")
    /\ sender' = [sender EXCEPT ![session].pc = "start"]
    /\ UNCHANGED <<recLocals, total_send_bytes, ring, sem, led>>

ClearTotal ==
    /\ At("clear", "giveRx")
    /\ total_send_bytes' = 0
    /\ UNCHANGED <<recLocals, ring, sem, led, sender>>

FirstRx ==
    /\ At("giveRx", "giveTx")
    /\ sem' = [sem EXCEPT !.rx_done = 1]
    /\ UNCHANGED <<recLocals, total_send_bytes, ring, led, sender>>

FirstTx ==
    /\ At("giveTx", "poll")
    /\ sem' = [sem EXCEPT !.tx_done = 1]
    /\ UNCHANGED <<recLocals, total_send_bytes, ring, led, sender>>

\* The I2S event queue has an event and i2s_read returns n bytes.
ReadChunk ==
    /\ At("poll", "takeRx")
    /\ bytesRead' \in ReadSizes
    /\ UNCHANGED <<session, resets, result, total_send_bytes, ring, sem, led,
                   sender>>

\* No event, or nothing read.
NothingRead ==
    /\ At("poll", "check")
    /\ UNCHANGED <<recLocals, total_send_bytes, ring, sem, led, sender>>

TakeRx ==
    /\ At("takeRx", "push") /\ sem.rx_done = 1
    /\ sem' = [sem EXCEPT !.rx_done = 0]
    /\ UNCHANGED <<recLocals, total_send_bytes, ring, led, sender>>

\* rx_done did not come within ten ticks: the chunk just read is dropped.
\* Mutated: the count, or the write too, is outside the if that takes it.
NoRx(next) ==
    /\ At("takeRx", next) /\ sem.rx_done = 0
    /\ UNCHANGED <<recLocals, total_send_bytes, ring, sem, led, sender>>

DropChunkCounted == NoRx("count")
DropChunkWritten == NoRx("push")

DropChunk == NoRx("signal")

\* xRingbufferSend, whose result is ignored.
Push ==
    /\ At("push", "count")
    /\ ring' = Put(ring, bytesRead, BufSize)
    /\ UNCHANGED <<recLocals, total_send_bytes, sem, led, sender>>

Count ==
    /\ At("count", "signal")
    /\ total_send_bytes' = total_send_bytes + bytesRead
    /\ UNCHANGED <<recLocals, ring, sem, led, sender>>

Signal ==
    /\ At("signal", "check")
    /\ sem' = [sem EXCEPT !.tx_done = 1]
    /\ UNCHANGED <<recLocals, total_send_bytes, ring, led, sender>>

\* The end of an iteration: a sender has ended, or enough was recorded.
\* Mutated: the recorder goes on when just enough was.
RecordMoreLate ==
    /\ At("check", "poll")
    /\ sem.ws_task_done = 0 /\ total_send_bytes <= MinWav
    /\ UNCHANGED <<recLocals, total_send_bytes, ring, sem, led, sender>>

RecordMore ==
    /\ At("check", "poll")
    /\ sem.ws_task_done = 0 /\ total_send_bytes < MinWav
    /\ UNCHANGED <<recLocals, total_send_bytes, ring, sem, led, sender>>

StopRecording ==
    /\ At("check", "drain")
    /\ sem.ws_task_done > 0 \/ total_send_bytes >= MinWav
    /\ led' = "low"
    /\ UNCHANGED <<recLocals, total_send_bytes, ring, sem, sender>>

\* Empty the ring piece by piece ...
DrainTake ==
    /\ At("drain", "drainReturn") /\ Receivable(ring)
    /\ ring' = Take(ring, Least(DrainPiece, Contiguous(ring, BufSize)), BufSize)
    /\ UNCHANGED <<recLocals, total_send_bytes, sem, led, sender>>

DrainReturn ==
    /\ At("drainReturn", "drain")
    /\ ring' = Return(ring)
    /\ UNCHANGED <<recLocals, total_send_bytes, sem, led, sender>>

\* ... until a millisecond brings no item: the ring is empty, or a sender
\* holds its item.
DrainEnd ==
    /\ At("drain", "settle") /\ ~Receivable(ring)
    /\ UNCHANGED <<recLocals, total_send_bytes, ring, sem, led, sender>>

\* Three seconds, then at most ten more while the player plays.
Settle ==
    /\ At("settle", "delete")
    /\ UNCHANGED <<recLocals, total_send_bytes, ring, sem, led, sender>>

Leave ==
    /\ At("delete", "idle")
    /\ sem' = [sem EXCEPT !.ws_task_done = Gone]
    /\ result' = "true"
    /\ UNCHANGED <<session, resets, bytesRead, total_send_bytes, ring, led,
                   sender>>

Recorder ==
    \/ Refuse \/ Enter \/ Connected \/ ResetFails \/ CreateSender
    \/ ClearTotal \/ FirstRx \/ FirstTx
    \/ ReadChunk \/ NothingRead \/ TakeRx \/ DropChunk \/ Push \/ Count
    \/ Signal \/ RecordMore \/ StopRecording
    \/ DrainTake \/ DrainReturn \/ DrainEnd \/ Settle \/ Leave

-----------------------------------------------------------------------------
(* WS_Sender, one task s for each session that got as far as creating it.  *)

Goto(s, pc) == sender' = [sender EXCEPT ![s].pc = pc]

\* "S" and the WAV header are sent.
Start(s) ==
    /\ sender[s].pc = "start" /\ Goto(s, "size")
    /\ UNCHANGED <<recVars, total_send_bytes, ring, sem, led>>

\* The head of the loop: how much was recorded and is not sent yet, read
\* before tx_done is waited for and used after.
ReadSize(s) ==
    /\ sender[s].pc = "size" /\ sender[s].send_bytes < MinWav
    /\ sender' = [sender EXCEPT ![s].pc = "take",
                    ![s].send_size = total_send_bytes - sender[s].send_bytes]
    /\ UNCHANGED <<recVars, total_send_bytes, ring, sem, led>>

SentAll(s) ==
    /\ sender[s].pc = "size" /\ sender[s].send_bytes >= MinWav
    /\ Goto(s, "end")
    /\ UNCHANGED <<recVars, total_send_bytes, ring, sem, led>>

TakeTx(s) ==
    /\ sender[s].pc = "take" /\ sem.tx_done = 1 /\ Goto(s, "receive")
    /\ sem' = [sem EXCEPT !.tx_done = 0]
    /\ UNCHANGED <<recVars, total_send_bytes, ring, led>>

\* tx_done did not come within ten ticks ...
MissTx(s) ==
    /\ sender[s].pc = "take" /\ sem.tx_done = 0 /\ Goto(s, "giveUp")
    /\ UNCHANGED <<recVars, total_send_bytes, ring, sem, led>>

\* ... so the recorder is let in anyway.
GiveAnyway(s) ==
    /\ sender[s].pc = "giveUp" /\ Goto(s, "size")
    /\ sem' = [sem EXCEPT !.rx_done = 1]
    /\ UNCHANGED <<recVars, total_send_bytes, ring, led>>

\* send_size is handed over as an unsigned size: a negative one is no limit.
Wanted(s) ==
    IF sender[s].send_size < 0 THEN Contiguous(ring, BufSize)
    ELSE Least(sender[s].send_size, Contiguous(ring, BufSize))

Lit(s) == IF sender[s].send_bytes > LedOn THEN "high" ELSE led

Receive(s) ==
    /\ sender[s].pc = "receive" /\ sender[s].send_size # 0 /\ Receivable(ring)
    /\ sender' = [sender EXCEPT ![s].pc = "held", ![s].rcv_bytes = Wanted(s)]
    /\ ring' = Take(ring, Wanted(s), BufSize)
    /\ led' = Lit(s)
    /\ UNCHANGED <<recVars, total_send_bytes, sem>>

\* The sender's own reasons to stop, after a receive that got an item or not:
\* a long enough silence, or (never, inside this loop) all sent.  Mutated:
\* silence ends the sender however little was sent.
FinishedAnytime(sent, quiet, empty) == quiet > QuietMax

Finished(sent, quiet, empty) ==
    \/ quiet > QuietMax /\ sent > MinSend
    \/ sent > MinWav /\ empty

\* Asked for nothing, or nothing came within 50 ms.
ReceiveNothing(s) ==
    /\ sender[s].pc = "receive"
    /\ sender[s].send_size = 0 \/ ~Receivable(ring)
    /\ LET me == sender[s]
       IN  Goto(s, IF Finished(me.send_bytes, me.record_exit_cnt, TRUE)
                   THEN "end" ELSE "size")
    /\ led' = Lit(s)
    /\ UNCHANGED <<recVars, total_send_bytes, ring, sem>>

\* The converted samples are copied out ...
ReturnItem(s) ==
    /\ sender[s].pc = "held" /\ Goto(s, "returned")
    /\ ring' = Return(ring)
    /\ UNCHANGED <<recVars, total_send_bytes, sem, led>>

\* ... and the recorder may write again.  Mutated: rx_done is forgotten.
LetWrite(s, rx) ==
    /\ sender[s].pc = "returned" /\ Goto(s, "transmit")
    /\ sem' = [sem EXCEPT !.rx_done = rx]
    /\ UNCHANGED <<recVars, total_send_bytes, ring, led>>

GiveNoRx(s) == LetWrite(s, sem.rx_done)

GiveRx(s) == LetWrite(s, 1)

\* The blocking websocket send (its failure is ignored) and the count of
\* quiet chunks, which is not followed past the value that ends the loop.
Transmit(s) ==
    /\ sender[s].pc = "transmit"
    /\ \E quiet \in {0, Least(sender[s].record_exit_cnt + 1, QuietMax + 1)} :
         LET sent == sender[s].send_bytes + sender[s].rcv_bytes
         IN  sender' = [sender EXCEPT
                 ![s].pc = IF Finished(sent, quiet, FALSE) THEN "end"
                           ELSE "size",
                 ![s].send_bytes = sent, ![s].record_exit_cnt = quiet]
    /\ UNCHANGED <<recVars, total_send_bytes, ring, sem, led>>

\* The loop has ended.  Mutated: the LED is left as it is.
LastGive(s, light) ==
    /\ sender[s].pc = "end" /\ Goto(s, "bye")
    /\ led' = light
    /\ sem' = [sem EXCEPT !.rx_done = 1]
    /\ UNCHANGED <<recVars, total_send_bytes, ring>>

LastRxLit(s) == LastGive(s, led)

LastRx(s) == LastGive(s, "low")

\* "D" is sent and the semaphore that ws_task_done names by now, of capacity
\* 2, is given.  If SpeechRec has deleted it the give writes to freed memory,
\* which reaches none of this module's state.  Mutated: no give.
LastStep(s, count) ==
    /\ sender[s].pc = "bye" /\ Goto(s, "gone")
    /\ sem' = [sem EXCEPT !.ws_task_done = count]
    /\ UNCHANGED <<recVars, total_send_bytes, ring, led>>

SenderDoneSilently(s) == LastStep(s, sem.ws_task_done)

SenderDone(s) ==
    LastStep(s, IF sem.ws_task_done = Gone THEN Gone
                ELSE Least(sem.ws_task_done + 1, 2))

Sender(s) ==
    \/ Start(s) \/ ReadSize(s) \/ SentAll(s) \/ TakeTx(s) \/ MissTx(s)
    \/ GiveAnyway(s) \/ Receive(s) \/ ReceiveNothing(s) \/ ReturnItem(s)
    \/ GiveRx(s) \/ Transmit(s) \/ LastRx(s) \/ SenderDone(s)

Next == Recorder \/ \E s \in Session : Sender(s)

Spec == Init /\ [][Next]_vars

\* Every task is scheduled, every websocket send returns, the microphone goes
\* on filling its DMA buffers and the sketch goes on calling SpeechRec.
Fairness ==
    /\ WF_vars(Recorder) /\ SF_vars(ReadChunk)
    /\ \A s \in Session : WF_vars(Sender(s))

FairSpec == Spec /\ Fairness

-----------------------------------------------------------------------------
(* Properties.                                                             *)

\* Every variable keeps its type.
TypeOK ==
    /\ rpc \in RecPCs /\ session \in 0..Sessions
    /\ resets \in 0..3 /\ (rpc = "connect" => resets < 3)
    /\ bytesRead \in 0..Chunk /\ result \in {"none", "true", "false"}
    /\ total_send_bytes \in Nat /\ ring \in Rings(BufSize)
    /\ led \in {"low", "high"}
    /\ sem \in [rx_done : 0..1, tx_done : 0..1, ws_task_done : Gone..2]
    /\ sender \in [Session ->
          [pc : SenderPCs, send_bytes : Nat, send_size : Int,
           rcv_bytes : 0..BufSize, record_exit_cnt : 0..QuietMax + 1]]

Recording == rpc \in {"giveTx", "poll", "takeRx", "push", "count", "signal",
                      "check"}

\* While SpeechRec records, its permission to write is never lost: rx_done can
\* be taken, or the recorder just took it, or there is something in the ring
\* that a sender gives it back for.  WS_Sender takes tx_done without giving
\* rx_done whenever its stale send_size is 0, so this hangs on no chunk being
\* taken out of the ring without a give.
RecorderNeverLockedOut ==
    Recording =>
        \/ sem.rx_done = 1
        \/ rpc = "push"
        \/ ring.stored > 0
        \/ \E s \in Session : sender[s].pc \in {"held", "returned"}

InHand(s) ==
    IF sender[s].pc \in {"held", "returned", "transmit"} THEN sender[s].rcv_bytes
    ELSE 0

Written == total_send_bytes + IF rpc = "count" THEN bytesRead ELSE 0

\* The recorder does not record: the ring is being emptied, or was.
Emptied == rpc \in {"drain", "drainReturn", "settle", "delete", "idle"}

\* In the first session total_send_bytes, which the sender reads without
\* synchronisation to compute what is left, never disagrees with what was
\* written to the ring: each byte counted is sent, in the sender's hands or
\* still in the ring, until the recorder empties the ring at the end.  So
\* send_size, passed on as an unsigned number, is never negative.
EveryByteAccounted ==
    session = 1 =>
        LET followed == sender[1].send_bytes + InHand(1) + ring.stored
        IN  /\ followed <= Written
            /\ ~Emptied => followed = Written
            /\ sender[1].send_size >= 0

\* The first session is a pipe from the recorder to the websocket: what is in
\* the ring or in the sender's hands is on its way.  The writes stop in time,
\* every byte written is sent once, in a piece with those beside it, and the
\* emptying loop takes none before the recorder has stopped.
InTransit == InHand(1) + ring.stored

Open == session = 0 \/ ~Emptied

Pipe == INSTANCE BytePipe
    WITH Most <- Chunk, Enough <- MinWav, written <- Written,
         transit <- InTransit, sent <- sender[1].send_bytes, open <- Open

ImplementsPipe == Pipe!Spec

\* In the first session a chunk always fits into ws_buf, however the sender
\* lags: the result of xRingbufferSend, which SpeechRec ignores while it
\* counts the bytes as written, is always success.
EveryChunkFits ==
    session = 1 /\ rpc = "push" => bytesRead <= FreeSize(ring, BufSize)

\* A recording stops only after more than MINWAVSIZE * MIN_SEND_RATIO bytes,
\* the least share of the six seconds config.h sets for a command.
StopsAfterMinimum ==
    rpc \in {"drain", "drainReturn", "settle"} => total_send_bytes > MinSend

\* After its call has ended a sender is left over: the ring was emptied before
\* it had sent all, and no write gives tx_done any more.
Stranded ==
    /\ Emptied /\ sem.tx_done = 0
    /\ \E s \in Session : /\ sender[s].pc \in {"size", "take", "giveUp"}
                          /\ sender[s].send_bytes < MinWav

\* The LED always goes out again, although recorder and senders write it in any
\* order: a sender that lights it after the recorder turned it off turns it off
\* itself, unless it is left over for ever.
LedGoesOut == []<>(led = "low") \/ <>[]Stranded

\* SpeechRec always returns: neither semaphore handshake nor the early end of
\* the sender leaves the recorder in its loop.
RecordingReturns == rpc # "idle" ~> rpc = "idle"

\* The third step announced at the head of SpeechRec: when it returns true the
\* transmission has ended.
WaitsForSender ==
    rpc = "idle" /\ result = "true" => sender[session].pc = "gone"
=============================================================================
