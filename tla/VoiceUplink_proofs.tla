------------------------ MODULE VoiceUplink_proofs ------------------------
(***************************************************************************)
(* The safety of the voice uplink for every size, every bound and any      *)
(* number of sessions, senders left over from earlier sessions included.   *)
(***************************************************************************)
EXTENDS VoiceUplink, TLAPS

\* What one item of the ring can cover; and every operation leaves a ring.
LEMMA RingSteps ==
  ASSUME ring \in Rings(BufSize), BufSize \in Nat \ {0}
  PROVE  /\ Contiguous(ring, BufSize) \in 0..BufSize
         /\ Contiguous(ring, BufSize) <= ring.stored
         /\ Contiguous(ring, BufSize) <= BufSize - ring.rd
         /\ ring.stored > 0 => Contiguous(ring, BufSize) > 0
         /\ \A n \in Nat : Put(ring, n, BufSize) \in Rings(BufSize)
         /\ \A n \in 0..Contiguous(ring, BufSize) :
               Take(ring, n, BufSize) \in Rings(BufSize)
         /\ Return(ring) \in Rings(BufSize) /\ Return(ring).stored = ring.stored
<1>1. /\ Contiguous(ring, BufSize) \in 0..BufSize
      /\ Contiguous(ring, BufSize) <= ring.stored
      /\ Contiguous(ring, BufSize) <= BufSize - ring.rd
      /\ ring.stored > 0 => Contiguous(ring, BufSize) > 0
  BY DEF Contiguous, Least, Rings
<1>2. ASSUME NEW n \in Nat PROVE Put(ring, n, BufSize) \in Rings(BufSize)
  BY DEF Put, FreeSize, Rings
<1>3. ASSUME NEW n \in 0..Contiguous(ring, BufSize)
      PROVE  Take(ring, n, BufSize) \in Rings(BufSize)
  BY <1>1 DEF Take, Rings
<1>4. Return(ring) \in Rings(BufSize) /\ Return(ring).stored = ring.stored
  BY DEF Return, Rings
<1> QED
  BY <1>1, <1>2, <1>3, <1>4

\* The initial state is well typed.
LEMMA InitType == Init => TypeOK
BY SizesAssumption DEF EmptyRing, Rings,
       Init, TypeOK, Session, RecPCs, SenderPCs, Gone

\* A step of the recorder keeps the types.
LEMMA RecorderType == TypeOK /\ Recorder => TypeOK'
<1> SUFFICES ASSUME TypeOK, Recorder PROVE TypeOK'
  OBVIOUS
<1> USE SizesAssumption DEF TypeOK, recLocals, At
<1>1. CASE Refuse
  BY <1>1 DEF Refuse, RecPCs
<1>2. CASE Enter
  BY <1>2 DEF Enter, RecPCs, Gone
<1>3. CASE Connected
  BY <1>3 DEF Connected, RecPCs
<1>4. CASE ResetFails
  BY <1>4 DEF ResetFails, ResetFailure, RecPCs
<1>5. CASE CreateSender
  BY <1>5 DEF CreateSender, RecPCs, SenderPCs
<1>6. CASE ClearTotal
  BY <1>6 DEF ClearTotal, RecPCs
<1>7. CASE FirstRx
  BY <1>7 DEF FirstRx, RecPCs
<1>8. CASE FirstTx
  BY <1>8 DEF FirstTx, RecPCs
<1>9. CASE ReadChunk
  BY <1>9 DEF ReadChunk, RecPCs
<1>10. CASE NothingRead
  BY <1>10 DEF NothingRead, RecPCs
<1>11. CASE TakeRx
  BY <1>11 DEF TakeRx, RecPCs
<1>12. CASE DropChunk
  BY <1>12 DEF DropChunk, NoRx, RecPCs
<1>13. CASE Push
  <2>1. ring' \in Rings(BufSize)
    BY <1>13, RingSteps DEF Push
  <2> QED
    BY <1>13, <2>1 DEF Push, RecPCs
<1>14. CASE Count
  BY <1>14 DEF Count, RecPCs
<1>15. CASE Signal
  BY <1>15 DEF Signal, RecPCs
<1>16. CASE RecordMore
  BY <1>16 DEF RecordMore, RecPCs
<1>17. CASE StopRecording
  BY <1>17 DEF StopRecording, RecPCs
<1>18. CASE DrainTake
  <2> DEFINE n == Least(DrainPiece, Contiguous(ring, BufSize))
  <2>1. n \in 0..Contiguous(ring, BufSize)
    BY RingSteps DEF Least
  <2>2. Take(ring, n, BufSize) \in Rings(BufSize)
    BY <2>1, RingSteps
  <2> HIDE DEF n
  <2>3. ring' \in Rings(BufSize)
    BY <1>18, <2>2 DEF DrainTake, n
  <2> QED
    BY <1>18, <2>3 DEF DrainTake, RecPCs
<1>19. CASE DrainReturn
  <2>1. ring' \in Rings(BufSize)
    BY <1>19, RingSteps DEF DrainReturn
  <2> QED
    BY <1>19, <2>1 DEF DrainReturn, RecPCs
<1>20. CASE DrainEnd
  BY <1>20 DEF DrainEnd, RecPCs
<1>21. CASE Settle
  BY <1>21 DEF Settle, RecPCs
<1>22. CASE Leave
  BY <1>22 DEF Leave, RecPCs, Gone
<1> QED
  BY <1>1, <1>2, <1>3, <1>4, <1>5, <1>6, <1>7, <1>8, <1>9, <1>10, <1>11,
     <1>12, <1>13, <1>14, <1>15, <1>16, <1>17, <1>18, <1>19, <1>20, <1>21,
     <1>22 DEF Recorder

\* The local variables of one sender, as TypeOK has them.
Locals == [pc : SenderPCs, send_bytes : Nat, send_size : Int,
           rcv_bytes : 0..BufSize, record_exit_cnt : 0..QuietMax + 1]

\* So does a step of a sender.
LEMMA SenderType ==
    ASSUME TypeOK, NEW s \in Session, Sender(s)
    PROVE  TypeOK'
<1> USE SizesAssumption DEF TypeOK, recVars, recLocals, Goto
<1>1. CASE Start(s)
  BY <1>1 DEF Start, SenderPCs
<1>2. CASE ReadSize(s)
  <2> DEFINE left == total_send_bytes - sender[s].send_bytes
             new == [sender[s] EXCEPT !.pc = "take", !.send_size = left]
  <2>1. left \in Int
    OBVIOUS
  <2>2. new \in Locals
    BY <2>1 DEF Locals, SenderPCs
  <2>3. sender' = [sender EXCEPT ![s] = new]
    BY <1>2 DEF ReadSize
  <2> HIDE DEF new
  <2>4. sender' \in [Session -> Locals]
    BY <2>2, <2>3 DEF Locals
  <2> QED
    BY <1>2, <2>4 DEF ReadSize, Locals
<1>3. CASE SentAll(s)
  BY <1>3 DEF SentAll, SenderPCs
<1>4. CASE TakeTx(s)
  BY <1>4 DEF TakeTx, SenderPCs
<1>5. CASE MissTx(s)
  BY <1>5 DEF MissTx, SenderPCs
<1>6. CASE GiveAnyway(s)
  BY <1>6 DEF GiveAnyway, SenderPCs
<1>7. CASE Receive(s)
  <2>1. Wanted(s) \in 0..Contiguous(ring, BufSize)
    BY RingSteps DEF Wanted, Least
  <2>2. Take(ring, Wanted(s), BufSize) \in Rings(BufSize)
    BY <2>1, RingSteps
  <2>3. Wanted(s) \in 0..BufSize
    BY <2>1, RingSteps
  <2> QED
    BY <1>7, <2>2, <2>3 DEF Receive, SenderPCs, Lit
<1>8. CASE ReceiveNothing(s)
  BY <1>8 DEF ReceiveNothing, SenderPCs, Lit
<1>9. CASE ReturnItem(s)
  <2>1. ring' \in Rings(BufSize)
    BY <1>9, RingSteps DEF ReturnItem
  <2> QED
    BY <1>9, <2>1 DEF ReturnItem, SenderPCs
<1>13. CASE GiveRx(s)
  BY <1>13 DEF GiveRx, LetWrite, SenderPCs
<1>10. CASE Transmit(s)
  <2>1. PICK quiet \in {0, Least(sender[s].record_exit_cnt + 1, QuietMax + 1)},
             pc \in {"end", "size"} :
          sender' = [sender EXCEPT
              ![s].pc = pc,
              ![s].send_bytes = sender[s].send_bytes + sender[s].rcv_bytes,
              ![s].record_exit_cnt = quiet]
    BY <1>10 DEF Transmit
  <2> DEFINE sent == sender[s].send_bytes + sender[s].rcv_bytes
             new == [sender[s] EXCEPT !.pc = pc, !.send_bytes = sent,
                                      !.record_exit_cnt = quiet]
  <2>2. quiet \in 0..QuietMax + 1 /\ sent \in Nat
    BY DEF Least
  <2>3. new \in Locals
    BY <2>2 DEF Locals, SenderPCs
  <2>4. sender' = [sender EXCEPT ![s] = new]
    BY <2>1
  <2> HIDE DEF new
  <2>5. sender' \in [Session -> Locals]
    BY <2>3, <2>4 DEF Locals
  <2> QED
    BY <1>10, <2>5 DEF Transmit, Locals
<1>11. CASE LastRx(s)
  BY <1>11 DEF LastRx, LastGive, SenderPCs
<1>12. CASE SenderDone(s)
  BY <1>12 DEF SenderDone, LastStep, SenderPCs, Least, Gone
<1> QED
  BY <1>1, <1>2, <1>3, <1>4, <1>5, <1>6, <1>7, <1>8, <1>9, <1>10, <1>11, <1>12,
     <1>13 DEF Sender

\* Every reachable state is well typed, whatever the sizes and the number of
\* calls of SpeechRec.
THEOREM TypeCorrect == Spec => []TypeOK
<1>1. TypeOK /\ [Next]_vars => TypeOK'
  <2> SUFFICES ASSUME TypeOK, [Next]_vars PROVE TypeOK'
    OBVIOUS
  <2>1. CASE UNCHANGED vars
    BY <2>1 DEF TypeOK, vars, recVars, recLocals
  <2> QED
    BY <2>1, RecorderType, SenderType DEF Next
<1> QED
  BY InitType, <1>1, PTL DEF Spec

-----------------------------------------------------------------------------
(* RecorderNeverLockedOut is not inductive alone: that a chunk written      *)
(* leaves the ring non-empty needs the chunk not to be empty and, should it *)
(* not fit, that what fills the ring is stored or in a sender's hands, which *)
(* the creation of a sender must not disturb.                               *)

ChunkRead == rpc \in {"takeRx", "push"} => bytesRead > 0

HeldHasReader ==
    ring.held > 0 =>
        rpc = "drainReturn" \/ \E s \in Session : sender[s].pc = "held"

NotYetCreated ==
    \A s \in Session :
        s > session \/ (s = session /\ rpc \in {"connect", "create"})
            => sender[s].pc = "none"

\* Sender s has an item, or owes rx_done for one.
Holds(s) == sender[s].pc \in {"held", "returned"}

LockInv ==
    /\ TypeOK /\ ChunkRead /\ HeldHasReader /\ NotYetCreated
    /\ RecorderNeverLockedOut

\* Nothing is recorded, held or created at first.
LEMMA InitLock == Init => LockInv
<1> SUFFICES ASSUME Init PROVE LockInv
  OBVIOUS
<1>1. TypeOK
  BY InitType
<1> QED
  BY <1>1 DEF Init, LockInv, ChunkRead, HeldHasReader, NotYetCreated,
              RecorderNeverLockedOut, Recording, EmptyRing

\* Only TakeRx takes the permission away, and goes on to write; the steps of
\* the recorder that write or empty the ring are the others to look at.
LEMMA RecorderLock == LockInv /\ Recorder => LockInv'
<1> SUFFICES ASSUME LockInv, Recorder PROVE LockInv'
  OBVIOUS
<1>1. TypeOK /\ TypeOK'
  BY RecorderType DEF LockInv
<1> SUFFICES /\ ChunkRead' /\ HeldHasReader' /\ NotYetCreated'
             /\ RecorderNeverLockedOut'
  BY <1>1 DEF LockInv
<1> USE DEF LockInv, ChunkRead, HeldHasReader, NotYetCreated,
            RecorderNeverLockedOut, Recording, recLocals, At
<1>2. CASE Refuse
  BY <1>2 DEF Refuse
<1>3. CASE Enter
  BY <1>3 DEF Enter, TypeOK, Session
<1>4. CASE Connected
  BY <1>4 DEF Connected
<1>5. CASE ResetFails
  BY <1>5 DEF ResetFails, ResetFailure
<1>6. CASE CreateSender
  BY <1>6 DEF CreateSender, TypeOK
<1>7. CASE ClearTotal
  BY <1>7 DEF ClearTotal
<1>8. CASE FirstRx
  BY <1>8 DEF FirstRx, TypeOK
<1>9. CASE FirstTx
  BY <1>9 DEF FirstTx, TypeOK
<1>10. CASE ReadChunk
  BY <1>10, SizesAssumption DEF ReadChunk
<1>11. CASE NothingRead
  BY <1>11 DEF NothingRead
<1>12. CASE TakeRx
  BY <1>12 DEF TakeRx, TypeOK
<1>13. CASE DropChunk
  BY <1>13 DEF DropChunk, NoRx
<1>14. CASE Push
  <2>1. ring \in Rings(BufSize) /\ bytesRead \in 1..Chunk
    BY <1>14 DEF Push, TypeOK
  <2>2. Put(ring, bytesRead, BufSize).held = ring.held
    BY <2>1 DEF Put, Rings
  <2>3. \/ Put(ring, bytesRead, BufSize).stored > 0
        \/ ring.held > 0
    BY <2>1, SizesAssumption DEF Put, Rings, FreeSize
  <2> QED
    BY <1>14, <2>2, <2>3 DEF Push
<1>15. CASE Count
  BY <1>15 DEF Count
<1>16. CASE Signal
  BY <1>16 DEF Signal, TypeOK
<1>17. CASE RecordMore
  BY <1>17 DEF RecordMore
<1>18. CASE StopRecording
  BY <1>18 DEF StopRecording
<1>19. CASE DrainTake
  BY <1>19 DEF DrainTake
<1>20. CASE DrainReturn
  BY <1>20 DEF DrainReturn, Return, TypeOK, Rings
<1>21. CASE DrainEnd
  BY <1>21 DEF DrainEnd
<1>22. CASE Settle
  BY <1>22 DEF Settle
<1>23. CASE Leave
  BY <1>23 DEF Leave, TypeOK
<1> QED
  BY <1>2, <1>3, <1>4, <1>5, <1>6, <1>7, <1>8, <1>9, <1>10, <1>11, <1>12,
     <1>13, <1>14, <1>15, <1>16, <1>17, <1>18, <1>19, <1>20, <1>21, <1>22,
     <1>23 DEF Recorder

\* A sender that empties the ring holds its item until it gives rx_done; no
\* step of one sender moves another.
LEMMA SenderLock ==
    ASSUME LockInv, NEW s \in Session, Sender(s)
    PROVE  LockInv'
<1>1. TypeOK /\ TypeOK'
  BY SenderType DEF LockInv
<1> SUFFICES /\ ChunkRead' /\ HeldHasReader' /\ NotYetCreated'
             /\ RecorderNeverLockedOut'
  BY <1>1 DEF LockInv
<1>2. sender[s].pc # "none"
  BY DEF Sender, Start, ReadSize, SentAll, TakeTx, MissTx, GiveAnyway,
         Receive, ReceiveNothing, ReturnItem, GiveRx, LetWrite,
         Transmit, LastRx,
         LastGive, SenderDone, LastStep
<1> USE DEF LockInv, ChunkRead, HeldHasReader, NotYetCreated,
            RecorderNeverLockedOut, Recording, Holds, recVars, recLocals, Goto
<1>3. CASE Start(s)
  <2>1. \A t \in Session : Holds(t) => sender'[t].pc = sender[t].pc
    BY <1>1, <1>3 DEF Start, TypeOK
  <2>2. \A t \in Session : sender[t].pc = "none" => sender'[t].pc = "none"
    BY <1>1, <1>3 DEF Start, TypeOK
  <2>3. sem'.rx_done = sem.rx_done \/ sem'.rx_done = 1
    BY <1>1, <1>3 DEF Start, TypeOK
  <2> QED
    BY <1>1, <1>3, <2>1, <2>2, <2>3 DEF Start
<1>4. CASE ReadSize(s)
  <2>1. \A t \in Session : Holds(t) => sender'[t].pc = sender[t].pc
    BY <1>1, <1>4 DEF ReadSize, TypeOK
  <2>2. \A t \in Session : sender[t].pc = "none" => sender'[t].pc = "none"
    BY <1>1, <1>4 DEF ReadSize, TypeOK
  <2>3. sem'.rx_done = sem.rx_done \/ sem'.rx_done = 1
    BY <1>1, <1>4 DEF ReadSize, TypeOK
  <2> QED
    BY <1>1, <1>4, <2>1, <2>2, <2>3 DEF ReadSize
<1>5. CASE SentAll(s)
  <2>1. \A t \in Session : Holds(t) => sender'[t].pc = sender[t].pc
    BY <1>1, <1>5 DEF SentAll, TypeOK
  <2>2. \A t \in Session : sender[t].pc = "none" => sender'[t].pc = "none"
    BY <1>1, <1>5 DEF SentAll, TypeOK
  <2>3. sem'.rx_done = sem.rx_done \/ sem'.rx_done = 1
    BY <1>1, <1>5 DEF SentAll, TypeOK
  <2> QED
    BY <1>1, <1>5, <2>1, <2>2, <2>3 DEF SentAll
<1>6. CASE TakeTx(s)
  <2>1. \A t \in Session : Holds(t) => sender'[t].pc = sender[t].pc
    BY <1>1, <1>6 DEF TakeTx, TypeOK
  <2>2. \A t \in Session : sender[t].pc = "none" => sender'[t].pc = "none"
    BY <1>1, <1>6 DEF TakeTx, TypeOK
  <2>3. sem'.rx_done = sem.rx_done \/ sem'.rx_done = 1
    BY <1>1, <1>6 DEF TakeTx, TypeOK
  <2> QED
    BY <1>1, <1>6, <2>1, <2>2, <2>3 DEF TakeTx
<1>7. CASE MissTx(s)
  <2>1. \A t \in Session : Holds(t) => sender'[t].pc = sender[t].pc
    BY <1>1, <1>7 DEF MissTx, TypeOK
  <2>2. \A t \in Session : sender[t].pc = "none" => sender'[t].pc = "none"
    BY <1>1, <1>7 DEF MissTx, TypeOK
  <2>3. sem'.rx_done = sem.rx_done \/ sem'.rx_done = 1
    BY <1>1, <1>7 DEF MissTx, TypeOK
  <2> QED
    BY <1>1, <1>7, <2>1, <2>2, <2>3 DEF MissTx
<1>8. CASE GiveAnyway(s)
  <2>1. \A t \in Session : Holds(t) => sender'[t].pc = sender[t].pc
    BY <1>1, <1>8 DEF GiveAnyway, TypeOK
  <2>2. \A t \in Session : sender[t].pc = "none" => sender'[t].pc = "none"
    BY <1>1, <1>8 DEF GiveAnyway, TypeOK
  <2>3. sem'.rx_done = sem.rx_done \/ sem'.rx_done = 1
    BY <1>1, <1>8 DEF GiveAnyway, TypeOK
  <2> QED
    BY <1>1, <1>8, <2>1, <2>2, <2>3 DEF GiveAnyway
<1>9. CASE Receive(s)
  <2>1. sender'[s].pc = "held"
    BY <1>1, <1>9 DEF Receive, TypeOK
  <2> QED
    BY <1>1, <1>2, <1>9, <2>1 DEF Receive, TypeOK
<1>10. CASE ReceiveNothing(s)
  <2>1. \A t \in Session : Holds(t) => sender'[t].pc = sender[t].pc
    BY <1>1, <1>10 DEF ReceiveNothing, TypeOK
  <2>2. \A t \in Session : sender[t].pc = "none" => sender'[t].pc = "none"
    BY <1>1, <1>10 DEF ReceiveNothing, TypeOK
  <2>3. sem'.rx_done = sem.rx_done \/ sem'.rx_done = 1
    BY <1>1, <1>10 DEF ReceiveNothing, TypeOK
  <2> QED
    BY <1>1, <1>10, <2>1, <2>2, <2>3 DEF ReceiveNothing
<1>11. CASE ReturnItem(s)
  <2>1. sender'[s].pc = "returned" /\ ring'.held = 0
    BY <1>1, <1>11 DEF ReturnItem, Return, Rings, TypeOK
  <2>2. \A t \in Session : sender[t].pc = "none" => sender'[t].pc = "none"
    BY <1>1, <1>11 DEF ReturnItem, TypeOK
  <2> QED
    BY <1>1, <1>11, <2>1, <2>2 DEF ReturnItem
<1>15. CASE GiveRx(s)
  <2>1. \A t \in Session : sender[t].pc = "held" => sender'[t].pc = "held"
    BY <1>1, <1>15 DEF GiveRx, LetWrite, TypeOK
  <2>2. \A t \in Session : sender[t].pc = "none" => sender'[t].pc = "none"
    BY <1>1, <1>15 DEF GiveRx, LetWrite, TypeOK
  <2>3. sem'.rx_done = 1
    BY <1>1, <1>15 DEF GiveRx, LetWrite, TypeOK
  <2> QED
    BY <1>1, <1>15, <2>1, <2>2, <2>3 DEF GiveRx, LetWrite
<1>12. CASE Transmit(s)
  <2>1. \A t \in Session : Holds(t) => sender'[t].pc = sender[t].pc
    BY <1>1, <1>12 DEF Transmit, TypeOK
  <2>2. \A t \in Session : sender[t].pc = "none" => sender'[t].pc = "none"
    BY <1>1, <1>12 DEF Transmit, TypeOK
  <2>3. sem'.rx_done = sem.rx_done \/ sem'.rx_done = 1
    BY <1>1, <1>12 DEF Transmit, TypeOK
  <2> QED
    BY <1>1, <1>12, <2>1, <2>2, <2>3 DEF Transmit
<1>13. CASE LastRx(s)
  <2>1. \A t \in Session : Holds(t) => sender'[t].pc = sender[t].pc
    BY <1>1, <1>13 DEF LastRx, LastGive, TypeOK
  <2>2. \A t \in Session : sender[t].pc = "none" => sender'[t].pc = "none"
    BY <1>1, <1>13 DEF LastRx, LastGive, TypeOK
  <2>3. sem'.rx_done = sem.rx_done \/ sem'.rx_done = 1
    BY <1>1, <1>13 DEF LastRx, LastGive, TypeOK
  <2> QED
    BY <1>1, <1>13, <2>1, <2>2, <2>3 DEF LastRx, LastGive
<1>14. CASE SenderDone(s)
  <2>1. \A t \in Session : Holds(t) => sender'[t].pc = sender[t].pc
    BY <1>1, <1>14 DEF SenderDone, LastStep, TypeOK
  <2>2. \A t \in Session : sender[t].pc = "none" => sender'[t].pc = "none"
    BY <1>1, <1>14 DEF SenderDone, LastStep, TypeOK
  <2>3. sem'.rx_done = sem.rx_done \/ sem'.rx_done = 1
    BY <1>1, <1>14 DEF SenderDone, LastStep, TypeOK
  <2> QED
    BY <1>1, <1>14, <2>1, <2>2, <2>3 DEF SenderDone, LastStep
<1> QED
  BY <1>3, <1>4, <1>5, <1>6, <1>7, <1>8, <1>9, <1>10, <1>11, <1>12, <1>13,
     <1>14, <1>15 DEF Sender

\* The invariant that carries RecorderNeverLockedOut.
LEMMA LockInvariant == Spec => []LockInv
<1>1. LockInv /\ [Next]_vars => LockInv'
  <2> SUFFICES ASSUME LockInv, [Next]_vars PROVE LockInv'
    OBVIOUS
  <2>1. CASE UNCHANGED vars
    BY <2>1 DEF LockInv, TypeOK, ChunkRead, HeldHasReader, NotYetCreated,
                RecorderNeverLockedOut, Recording, vars, recVars, recLocals
  <2> QED
    BY <2>1, RecorderLock, SenderLock DEF Next
<1> QED
  BY InitLock, <1>1, PTL DEF Spec

\* The recorder keeps, or gets back, its permission to write, whatever number
\* of senders are at work on the ring.
THEOREM NeverLockedOut == Spec => []RecorderNeverLockedOut
<1>1. LockInv => RecorderNeverLockedOut
  BY DEF LockInv
<1> QED
  BY LockInvariant, <1>1, PTL

-----------------------------------------------------------------------------
(* The LED.                                                                *)

\* Sender s runs and has not ended its loop: it has not turned the LED off yet,
\* and will if it is not left over.
Due(s) == sender[s].pc \notin {"none", "bye", "gone"}

LedHasOwner == led = "high" => \E s \in Session : Due(s)

\* The recorder creates senders, turns the LED off, and ends no sender.
LEMMA RecorderLed == TypeOK /\ LedHasOwner /\ Recorder => LedHasOwner'
<1> SUFFICES ASSUME TypeOK, LedHasOwner, Recorder PROVE LedHasOwner'
  OBVIOUS
<1>1. CASE CreateSender
  <2>1. \A t \in Session : Due(t) => Due(t)'
    BY <1>1 DEF CreateSender, TypeOK, Due
  <2> QED
    BY <1>1, <2>1 DEF CreateSender, LedHasOwner
<1>2. CASE StopRecording
  BY <1>2 DEF StopRecording, LedHasOwner
<1>3. ASSUME ~CreateSender, ~StopRecording
      PROVE  led' = led /\ sender' = sender
  BY <1>3 DEF Recorder, Refuse, Enter, Connected, ResetFails, ResetFailure,
     ClearTotal, FirstRx, FirstTx, ReadChunk, NothingRead, TakeRx, DropChunk,
     NoRx, Push, Count, Signal, RecordMore, DrainTake, DrainReturn, DrainEnd,
     Settle, Leave
<1> QED
  BY <1>1, <1>2, <1>3 DEF LedHasOwner, Due

\* Whichever sender lights the LED goes on running; the two steps that end one
\* come after it has turned the LED off.
LEMMA SenderLed ==
    ASSUME TypeOK, LedHasOwner, NEW s \in Session, Sender(s)
    PROVE  LedHasOwner'
<1>1. CASE LastRx(s)
  BY <1>1 DEF LastRx, LastGive, LedHasOwner
<1>2. CASE SenderDone(s)
  <2>1. \A t \in Session : Due(t) => Due(t)'
    BY <1>2 DEF SenderDone, LastStep, Goto, TypeOK, Due
  <2> QED
    BY <1>2, <2>1 DEF SenderDone, LastStep, LedHasOwner
<1>3. ASSUME ~LastRx(s), ~SenderDone(s)
      PROVE  sender'[s].pc \notin {"none", "bye", "gone"}
  <2> USE DEF Goto, TypeOK
  <2>1. CASE Start(s) \/ SentAll(s) \/ TakeTx(s) \/ MissTx(s) \/ GiveAnyway(s)
    BY <2>1 DEF Start, SentAll, TakeTx, MissTx, GiveAnyway
  <2>2. CASE ReadSize(s)
    BY <2>2 DEF ReadSize
  <2>3. CASE Receive(s)
    BY <2>3 DEF Receive
  <2>4. CASE ReceiveNothing(s)
    BY <2>4 DEF ReceiveNothing
  <2>5. CASE ReturnItem(s) \/ GiveRx(s)
    BY <2>5 DEF ReturnItem, GiveRx, LetWrite
  <2>6. CASE Transmit(s)
    BY <2>6 DEF Transmit
  <2> QED
    BY <1>3, <2>1, <2>2, <2>3, <2>4, <2>5, <2>6 DEF Sender
<1> QED
  BY <1>1, <1>2, <1>3 DEF LedHasOwner, Due

\* In every reachable state a lit LED has a sender that is still before the step
\* that turns it off, however recorder and senders wrote it.  That the sender
\* gets there is another matter: one that is left over never does.
THEOREM LedOwned == Spec => []LedHasOwner
<1>1. Init => LedHasOwner
  BY DEF Init, LedHasOwner
<1>2. TypeOK /\ LedHasOwner /\ [Next]_vars => LedHasOwner'
  <2> SUFFICES ASSUME TypeOK, LedHasOwner, [Next]_vars PROVE LedHasOwner'
    OBVIOUS
  <2>1. CASE UNCHANGED vars
    BY <2>1 DEF LedHasOwner, Due, vars
  <2> QED
    BY <2>1, RecorderLed, SenderLed DEF Next
<1> QED
  BY <1>1, <1>2, TypeCorrect, PTL DEF Spec

-----------------------------------------------------------------------------
(* The first call of SpeechRec, which meets no sender of an earlier one,   *)
(* records at least its minimum, whatever the sizes, even where the ring   *)
(* is too small for a chunk; and where no chunk is too large for the ring, *)
(* it miscounts no byte.                                                   *)

\* The sender never sends what was not counted, its size is never negative.
NothingInvented ==
    /\ sender[1].send_bytes + InHand(1) <= total_send_bytes
    /\ sender[1].send_size >= 0
    /\ sender[1].pc \in {"take", "giveUp", "receive"} =>
           sender[1].send_bytes + sender[1].send_size <= total_send_bytes

\* The total is cleared while it is still zero.
ClearedEmpty ==
    /\ session = 0 => rpc = "idle"
    /\ session = 0 \/ rpc \in {"connect", "create", "clear"} =>
           total_send_bytes = 0

\* The sender says it has ended only when it has, with enough sent.
EndedWithEnough ==
    /\ sem.ws_task_done > 0 => sender[1].pc = "gone"
    /\ sender[1].pc \in {"end", "bye", "gone"} => sender[1].send_bytes > MinSend

\* What holds as long as there has been no second call.
FirstInv ==
    session <= 1 =>
        NothingInvented /\ ClearedEmpty /\ EndedWithEnough /\ StopsAfterMinimum

\* There is a first call, since Sessions is at least 1.
LEMMA OneIsSession == 1 \in Session
BY SizesAssumption DEF Session

\* Before the first call nothing was counted, sent or ended.
LEMMA InitFirst == Init => FirstInv
BY SizesAssumption, OneIsSession
   DEF Init, FirstInv, NothingInvented, ClearedEmpty, EndedWithEnough,
       StopsAfterMinimum, InHand, Gone

\* Only Count adds to the total; the recorder stops for the sender's end or
\* for MinWav bytes.
LEMMA RecorderFirst == LockInv /\ FirstInv /\ Recorder => FirstInv'
<1> SUFFICES ASSUME LockInv, FirstInv, Recorder, session' <= 1
             PROVE  /\ NothingInvented' /\ ClearedEmpty'
                    /\ EndedWithEnough' /\ StopsAfterMinimum'
  BY DEF FirstInv
<1>1. TypeOK /\ TypeOK' /\ NotYetCreated /\ 1 \in Session
  BY RecorderType, OneIsSession DEF LockInv
<1>2. /\ total_send_bytes \in Nat /\ session \in Nat /\ MinSend \in Nat
      /\ MinWav \in Nat /\ MinSend < MinWav /\ bytesRead \in Nat
      /\ sender[1].send_bytes \in Nat /\ sender[1].send_size \in Int
      /\ sender[1].rcv_bytes \in Nat
  BY <1>1, SizesAssumption DEF TypeOK
<1>3. session <= 1
  BY <1>1 DEF Recorder, Refuse, Enter, Connected, ResetFails, ResetFailure,
     CreateSender, ClearTotal, FirstRx, FirstTx, ReadChunk, NothingRead, TakeRx,
     DropChunk, NoRx, Push, Count, Signal, RecordMore, StopRecording, DrainTake,
     DrainReturn, DrainEnd, Settle, Leave, recLocals, TypeOK
<1> USE <1>1, <1>2, <1>3 DEF FirstInv, NothingInvented, ClearedEmpty,
        EndedWithEnough, StopsAfterMinimum, InHand, recLocals, At
<1>4. CASE Refuse
  BY <1>4 DEF Refuse
<1>5. CASE Enter
  BY <1>5 DEF Enter, TypeOK
<1>6. CASE Connected
  BY <1>6 DEF Connected
<1>7. CASE ResetFails
  BY <1>7 DEF ResetFails, ResetFailure
<1>8. CASE CreateSender
  BY <1>8 DEF CreateSender, TypeOK, NotYetCreated
<1>9. CASE ClearTotal
  BY <1>9 DEF ClearTotal
<1>10. CASE FirstRx
  BY <1>10 DEF FirstRx, TypeOK
<1>11. CASE FirstTx
  BY <1>11 DEF FirstTx, TypeOK
<1>12. CASE ReadChunk
  BY <1>12 DEF ReadChunk
<1>13. CASE NothingRead
  BY <1>13 DEF NothingRead
<1>14. CASE TakeRx
  BY <1>14 DEF TakeRx, TypeOK
<1>15. CASE DropChunk
  BY <1>15 DEF DropChunk, NoRx
<1>16. CASE Push
  BY <1>16 DEF Push
<1>17. CASE Count
  BY <1>17 DEF Count
<1>18. CASE Signal
  BY <1>18 DEF Signal, TypeOK
<1>19. CASE RecordMore
  BY <1>19 DEF RecordMore
<1>20. CASE StopRecording
  BY <1>20 DEF StopRecording
<1>21. CASE DrainTake
  BY <1>21 DEF DrainTake
<1>22. CASE DrainReturn
  BY <1>22 DEF DrainReturn
<1>23. CASE DrainEnd
  BY <1>23 DEF DrainEnd
<1>24. CASE Settle
  BY <1>24 DEF Settle
<1>25. CASE Leave
  BY <1>25 DEF Leave, TypeOK, Gone
<1> QED
  BY <1>4, <1>5, <1>6, <1>7, <1>8, <1>9, <1>10, <1>11, <1>12, <1>13, <1>14,
     <1>15, <1>16, <1>17, <1>18, <1>19, <1>20, <1>21, <1>22, <1>23,
     <1>24, <1>25 DEF Recorder

\* The size a sender goes by is never more than what was counted when it looked,
\* and it takes no more than that.
LEMMA SenderFirst ==
    ASSUME LockInv, FirstInv, NEW s \in Session, Sender(s)
    PROVE  FirstInv'
<1> SUFFICES ASSUME session' <= 1
             PROVE  /\ NothingInvented' /\ ClearedEmpty'
                    /\ EndedWithEnough' /\ StopsAfterMinimum'
  BY DEF FirstInv
<1>1. TypeOK /\ TypeOK' /\ NotYetCreated /\ 1 \in Session
  BY SenderType, OneIsSession DEF LockInv
<1>2. sender[s].pc # "none"
  BY DEF Sender, Start, ReadSize, SentAll, TakeTx, MissTx, GiveAnyway,
         Receive, ReceiveNothing, ReturnItem, GiveRx, LetWrite,
         Transmit, LastRx,
         LastGive, SenderDone, LastStep
<1>3. session' = session /\ rpc' = rpc /\ total_send_bytes' = total_send_bytes
  BY DEF Sender, Start, ReadSize, SentAll, TakeTx, MissTx, GiveAnyway,
         Receive, ReceiveNothing, ReturnItem, GiveRx, LetWrite,
         Transmit, LastRx,
         LastGive, SenderDone, LastStep, recVars, recLocals
<1>4. s = 1
  BY <1>1, <1>2, <1>3 DEF NotYetCreated, TypeOK, Session
<1>5. /\ total_send_bytes \in Nat /\ MinSend \in Nat
      /\ MinWav \in Nat /\ MinSend < MinWav
      /\ sender[1].send_bytes \in Nat /\ sender[1].send_size \in Int
      /\ sender[1].rcv_bytes \in Nat /\ sender \in [Session -> Locals]
  BY <1>1, SizesAssumption DEF TypeOK, Locals
<1>6. NothingInvented /\ ClearedEmpty /\ EndedWithEnough /\ StopsAfterMinimum
  BY <1>3 DEF FirstInv
<1>7. ClearedEmpty' /\ StopsAfterMinimum'
  BY <1>3, <1>6 DEF ClearedEmpty, StopsAfterMinimum
<1>8. NothingInvented' /\ EndedWithEnough'
  <2> USE <1>1, <1>3, <1>4, <1>5, <1>6
      DEF NothingInvented, EndedWithEnough, InHand, Goto, Locals
  <2>1. CASE Start(s)
    BY <2>1 DEF Start
  <2>2. CASE ReadSize(s)
    BY <2>2 DEF ReadSize
  <2>3. CASE SentAll(s)
    BY <2>3 DEF SentAll
  <2>4. CASE TakeTx(s)
    BY <2>4 DEF TakeTx, TypeOK
  <2>5. CASE MissTx(s)
    BY <2>5 DEF MissTx
  <2>6. CASE GiveAnyway(s)
    BY <2>6 DEF GiveAnyway, TypeOK
  <2>7. CASE Receive(s)
    <3>1. Wanted(1) <= sender[1].send_size /\ Wanted(1) \in Nat
      BY RingSteps, SizesAssumption DEF Wanted, Least, TypeOK
    <3>2. sender[1].send_bytes + sender[1].send_size <= total_send_bytes
      BY <2>7 DEF Receive
    <3> QED
      BY <2>7, <3>1, <3>2 DEF Receive
  <2>8. CASE ReceiveNothing(s)
    BY <2>8 DEF ReceiveNothing, Finished
  <2>9. CASE ReturnItem(s) \/ GiveRx(s)
    BY <2>9 DEF ReturnItem, GiveRx, LetWrite, TypeOK
  <2>10. CASE Transmit(s)
    <3> DEFINE sent == sender[s].send_bytes + sender[s].rcv_bytes
    <3>1. PICK quiet \in {0, Least(sender[s].record_exit_cnt + 1,
                                   QuietMax + 1)},
               pc \in {"end", "size"} :
             /\ sender' = [sender EXCEPT
                    ![s].pc = pc, ![s].send_bytes = sent,
                    ![s].record_exit_cnt = quiet]
             /\ pc = "end" => Finished(sent, quiet, FALSE)
      BY <2>10 DEF Transmit
    <3>2. pc = "end" => sent > MinSend
      BY <3>1 DEF Finished
    <3>3. /\ sender'[1].send_bytes = sent /\ sender'[1].pc = pc
          /\ sender'[1].send_size = sender[1].send_size
      BY <3>1
    <3>4. sent \in Nat /\ sent <= total_send_bytes /\ sem' = sem
      BY <2>10 DEF Transmit
    <3>5. ~(sem.ws_task_done > 0)
      BY <2>10 DEF Transmit, TypeOK
    <3> HIDE DEF sent
    <3>6. NothingInvented'
      BY <3>2, <3>3, <3>4
    <3>7. EndedWithEnough'
      BY <3>2, <3>3, <3>4, <3>5
    <3> QED
      BY <3>6, <3>7
  <2>11. CASE LastRx(s)
    BY <2>11 DEF LastRx, LastGive, TypeOK
  <2>12. CASE SenderDone(s)
    BY <2>12 DEF SenderDone, LastStep, TypeOK, Least, Gone
  <2> QED
    BY <2>1, <2>2, <2>3, <2>4, <2>5, <2>6, <2>7, <2>8, <2>9, <2>10, <2>11,
       <2>12 DEF Sender
<1> QED
  BY <1>7, <1>8

\* The invariant of the first call.
LEMMA FirstInvariant == Spec => []FirstInv
<1>1. LockInv /\ FirstInv /\ [Next]_vars => FirstInv'
  <2> SUFFICES ASSUME LockInv, FirstInv, [Next]_vars PROVE FirstInv'
    OBVIOUS
  <2>1. CASE UNCHANGED vars
    BY <2>1 DEF FirstInv, NothingInvented, ClearedEmpty, EndedWithEnough,
                StopsAfterMinimum, InHand, vars, recVars, recLocals
  <2> QED
    BY <2>1, RecorderFirst, SenderFirst DEF Next
<1> QED
  BY InitFirst, LockInvariant, <1>1, PTL DEF Spec

\* The first recording never stops before its minimum; a later one can.
THEOREM FirstMinimum == Spec => [](session = 1 => StopsAfterMinimum)
<1>1. TypeOK /\ FirstInv => (session = 1 => StopsAfterMinimum)
  BY DEF FirstInv
<1> QED
  BY FirstInvariant, TypeCorrect, <1>1, PTL

-----------------------------------------------------------------------------
(* The bytes of the first call.  What is ahead of the sender never exceeds *)
(* what was written, and is equal to it as long as every chunk fits and    *)
(* the recorder has not begun to empty the ring.                           *)

Followed == sender[1].send_bytes + InHand(1) + ring.stored

Balanced == Followed <= Written /\ (~Emptied => Followed = Written)

BytesInv == session <= 1 => Balanced

\* Nothing is written or sent at first.
LEMMA InitBytes == Init => BytesInv
BY OneIsSession
   DEF Init, BytesInv, Balanced, Followed, Emptied, InHand, Written, EmptyRing

\* A recorder that writes counts what it wrote, if it fits; what it takes out
\* of the ring only lessens what is ahead of the sender.
LEMMA RecorderBytes ==
  LockInv /\ FirstInv /\ EveryChunkFits /\ BytesInv /\ Recorder => BytesInv'
<1> SUFFICES ASSUME LockInv, FirstInv, EveryChunkFits, BytesInv, Recorder,
                    session' <= 1
             PROVE  Balanced'
  BY DEF BytesInv
<1>1. TypeOK /\ TypeOK' /\ NotYetCreated /\ 1 \in Session
  BY RecorderType, OneIsSession DEF LockInv
<1>2. /\ total_send_bytes \in Nat /\ session \in Nat /\ bytesRead \in Nat
      /\ ring \in Rings(BufSize) /\ ring.stored \in Nat
      /\ sender[1].send_bytes \in Nat /\ sender[1].rcv_bytes \in Nat
      /\ BufSize \in Nat \ {0} /\ DrainPiece \in Nat
  BY <1>1, SizesAssumption DEF TypeOK, Rings
<1>3. session <= 1
  BY <1>1 DEF Recorder, Refuse, Enter, Connected, ResetFails, ResetFailure,
     CreateSender, ClearTotal, FirstRx, FirstTx, ReadChunk, NothingRead, TakeRx,
     DropChunk, NoRx, Push, Count, Signal, RecordMore, StopRecording, DrainTake,
     DrainReturn, DrainEnd, Settle, Leave, recLocals, TypeOK
<1>4. Balanced /\ ClearedEmpty
  BY <1>3 DEF BytesInv, FirstInv
<1> USE <1>1, <1>2, <1>3, <1>4 DEF Balanced, Followed, Emptied, Written, InHand,
        recLocals, At
<1>5. CASE Refuse
  BY <1>5 DEF Refuse
<1>6. CASE Enter
  BY <1>6 DEF Enter, ClearedEmpty
<1>7. CASE Connected
  BY <1>7 DEF Connected
<1>8. CASE ResetFails
  BY <1>8 DEF ResetFails, ResetFailure
<1>9. CASE CreateSender
  BY <1>9 DEF CreateSender, TypeOK, NotYetCreated
<1>10. CASE ClearTotal
  BY <1>10 DEF ClearTotal, ClearedEmpty
<1>11. CASE FirstRx
  BY <1>11 DEF FirstRx
<1>12. CASE FirstTx
  BY <1>12 DEF FirstTx
<1>13. CASE ReadChunk
  BY <1>13 DEF ReadChunk
<1>14. CASE NothingRead
  BY <1>14 DEF NothingRead
<1>15. CASE TakeRx
  BY <1>15 DEF TakeRx
<1>16. CASE DropChunk
  BY <1>16 DEF DropChunk, NoRx
<1>17. CASE Push
  <2>1. session = 1
    BY <1>17 DEF Push, ClearedEmpty
  <2>2. bytesRead <= FreeSize(ring, BufSize)
    BY <1>17, <2>1 DEF Push, EveryChunkFits
  <2>3. Put(ring, bytesRead, BufSize).stored = ring.stored + bytesRead
    BY <2>2 DEF Put, Rings
  <2> QED
    BY <1>17, <2>3 DEF Push
<1>18. CASE Count
  BY <1>18 DEF Count
<1>19. CASE Signal
  BY <1>19 DEF Signal
<1>20. CASE RecordMore
  BY <1>20 DEF RecordMore
<1>21. CASE StopRecording
  BY <1>21 DEF StopRecording
<1>22. CASE DrainTake
  <2> DEFINE n == Least(DrainPiece, Contiguous(ring, BufSize))
  <2>1. n \in Nat
    BY RingSteps DEF Least
  <2>2. ring'.stored = ring.stored - n
    BY <1>22 DEF DrainTake, Take
  <2> HIDE DEF n
  <2> QED
    BY <1>22, <2>1, <2>2 DEF DrainTake
<1>23. CASE DrainReturn
  BY <1>23, RingSteps DEF DrainReturn
<1>24. CASE DrainEnd
  BY <1>24 DEF DrainEnd
<1>25. CASE Settle
  BY <1>25 DEF Settle
<1>26. CASE Leave
  BY <1>26 DEF Leave
<1> QED
  BY <1>5, <1>6, <1>7, <1>8, <1>9, <1>10, <1>11, <1>12, <1>13, <1>14, <1>15,
     <1>16, <1>17, <1>18, <1>19, <1>20, <1>21, <1>22, <1>23, <1>24, <1>25,
     <1>26 DEF Recorder

\* The sender only moves bytes from the ring to its hands and from there to the
\* websocket.
LEMMA SenderBytes ==
    ASSUME LockInv, FirstInv, BytesInv, NEW s \in Session, Sender(s)
    PROVE  BytesInv'
<1> SUFFICES ASSUME session' <= 1 PROVE Balanced'
  BY DEF BytesInv
<1>1. TypeOK /\ NotYetCreated /\ 1 \in Session
  BY OneIsSession DEF LockInv
<1>2. sender[s].pc # "none"
  BY DEF Sender, Start, ReadSize, SentAll, TakeTx, MissTx, GiveAnyway,
         Receive, ReceiveNothing, ReturnItem, GiveRx, LetWrite,
         Transmit, LastRx,
         LastGive, SenderDone, LastStep
<1>3. /\ session' = session /\ rpc' = rpc /\ bytesRead' = bytesRead
      /\ total_send_bytes' = total_send_bytes
  BY DEF Sender, Start, ReadSize, SentAll, TakeTx, MissTx, GiveAnyway,
         Receive, ReceiveNothing, ReturnItem, GiveRx, LetWrite,
         Transmit, LastRx,
         LastGive, SenderDone, LastStep, recVars, recLocals
<1>4. s = 1
  BY <1>1, <1>2, <1>3 DEF NotYetCreated, TypeOK, Session
<1>5. Balanced /\ Written' = Written /\ Emptied' = Emptied
  BY <1>3 DEF BytesInv, Written, Emptied
<1>6. /\ sender[1].send_bytes \in Nat /\ sender[1].rcv_bytes \in Nat
      /\ ring \in Rings(BufSize) /\ ring.stored \in Nat /\ BufSize \in Nat \ {0}
      /\ sender \in [Session -> Locals]
  BY <1>1, SizesAssumption DEF TypeOK, Rings, Locals
<1> SUFFICES Followed' = Followed
  BY <1>5 DEF Balanced
<1> USE <1>1, <1>4, <1>6 DEF Followed, InHand, Goto, Locals
<1>7. CASE Start(s)
  BY <1>7 DEF Start
<1>8. CASE ReadSize(s)
  BY <1>8 DEF ReadSize
<1>9. CASE SentAll(s)
  BY <1>9 DEF SentAll
<1>10. CASE TakeTx(s)
  BY <1>10 DEF TakeTx
<1>11. CASE MissTx(s)
  BY <1>11 DEF MissTx
<1>12. CASE GiveAnyway(s)
  BY <1>12 DEF GiveAnyway
<1>13. CASE Receive(s)
  <2>1. Wanted(1) \in Nat
    BY RingSteps DEF Wanted, Least, TypeOK
  <2>2. ring'.stored = ring.stored - Wanted(1)
    BY <1>13 DEF Receive, Take
  <2>3. /\ sender'[1].rcv_bytes = Wanted(1) /\ sender'[1].pc = "held"
        /\ sender'[1].send_bytes = sender[1].send_bytes
        /\ sender[1].pc = "receive"
    BY <1>13 DEF Receive
  <2> QED
    BY <2>1, <2>2, <2>3
<1>14. CASE ReceiveNothing(s)
  BY <1>14 DEF ReceiveNothing
<1>15. CASE ReturnItem(s) \/ GiveRx(s)
  BY <1>15, RingSteps DEF ReturnItem, GiveRx, LetWrite
<1>16. CASE Transmit(s)
  <2>1. PICK quiet \in {0, Least(sender[s].record_exit_cnt + 1, QuietMax + 1)},
             pc \in {"end", "size"} :
          /\ sender' = [sender EXCEPT
                 ![s].pc = pc,
                 ![s].send_bytes = sender[s].send_bytes + sender[s].rcv_bytes,
                 ![s].record_exit_cnt = quiet]
          /\ sender[1].pc = "transmit" /\ ring' = ring
    BY <1>16 DEF Transmit
  <2> QED
    BY <2>1
<1>17. CASE LastRx(s)
  BY <1>17 DEF LastRx, LastGive
<1>18. CASE SenderDone(s)
  BY <1>18 DEF SenderDone, LastStep
<1> QED
  BY <1>7, <1>8, <1>9, <1>10, <1>11, <1>12, <1>13, <1>14, <1>15, <1>16, <1>17,
     <1>18 DEF Sender

\* Where every chunk of the first call fits into the ring, every byte it counts
\* is sent, in the sender's hands or in the ring until the ring is emptied.
THEOREM BytesAccountedIfFit == Spec /\ []EveryChunkFits => []EveryByteAccounted
<1>1. LockInv /\ FirstInv /\ EveryChunkFits /\ BytesInv /\ [Next]_vars => BytesInv'
  <2> SUFFICES ASSUME LockInv, FirstInv, EveryChunkFits, BytesInv, [Next]_vars
               PROVE  BytesInv'
    OBVIOUS
  <2>1. CASE UNCHANGED vars
    BY <2>1 DEF BytesInv, Balanced, Followed, Emptied, Written, InHand, vars,
                recVars, recLocals
  <2> QED
    BY <2>1, RecorderBytes, SenderBytes DEF Next
<1>2. FirstInv /\ BytesInv => EveryByteAccounted
  BY DEF FirstInv, NothingInvented, BytesInv, Balanced, Followed, Emptied,
         EveryByteAccounted
<1> QED
  BY InitBytes, LockInvariant, FirstInvariant, <1>1, <1>2, PTL DEF Spec

-----------------------------------------------------------------------------
(* How far the sender of the first call can lag behind the recorder: less  *)
(* than eight chunks.  A ring of eight chunks but one unit therefore takes *)
(* every chunk, whatever the sizes, and every byte is accounted for.       *)

\* config.h's ring has room for sixteen chunks.
Room == BufSize >= 8 * Chunk - 1

\* What the recorder may still write before the sender next gives rx_done.
Permits ==
    (IF rpc = "push" THEN Chunk ELSE 0) + (IF sem.rx_done = 1 THEN Chunk ELSE 0)

Ahead == ring.stored + Permits

\* What rx_done given without a receive (GiveAnyway) can add to that before
\* tx_done makes the sender receive: every such give needs tx_done missing, and
\* the recorder gives it after each write.
Writing == rpc \in {"push", "count", "signal"}

Misses ==
    IF sem.tx_done = 1
    THEN IF sender[1].pc = "giveUp" THEN Chunk ELSE 0
    ELSE Chunk + (IF Writing THEN 0 ELSE Chunk)
               + (IF sem.rx_done = 1 THEN 0 ELSE Chunk)

\* An item that ends with the buffer may leave more behind; what is left starts
\* at the beginning, and the next item takes all that was asked for.
Within(n, few, many) == n <= few \/ (ring.rd = 0 /\ n <= many)

\* What a stale send_size does not know of.
Blind ==
    sender[1].pc \in {"take", "giveUp", "receive"} =>
        Ahead - sender[1].send_size <= 2 * Chunk

Stopped == total_send_bytes >= MinWav

Lag ==
    /\ sender[1].pc \in {"none", "start", "size", "take", "giveUp", "transmit"} =>
           Within(Ahead + Misses, 5 * Chunk, 8 * Chunk - 1)
    /\ sender[1].pc = "receive" => Within(Ahead, 5 * Chunk, 8 * Chunk - 1)
    /\ sender[1].pc \in {"held", "returned"} =>
           /\ Within(Ahead, 2 * Chunk, 5 * Chunk - 1)
           /\ Ahead + ring.held <= 8 * Chunk - 1
    /\ sender[1].pc = "transmit" => Ahead <= 6 * Chunk - 1
    /\ sender[1].pc = "end" => Stopped \/ Ahead <= 6 * Chunk - 1
    /\ sender[1].pc \in {"bye", "gone"} => Stopped \/ Ahead <= 7 * Chunk - 1

\* A recorder that may still write has not recorded enough; until it may, there
\* is nothing to hold.
Unstopped ==
    /\ rpc \in {"giveRx", "giveTx", "poll", "takeRx", "push", "count"} => ~Stopped
    /\ rpc \in {"connect", "create", "clear", "giveRx"} =>
           total_send_bytes = 0 /\ ring.held = 0

LagInv == session <= 1 /\ ~Emptied => Blind /\ Lag /\ Unstopped

\* All that the first call relies on.
CallInv == LockInv /\ FirstInv /\ BytesInv /\ LagInv

-----------------------------------------------------------------------------
\* The types the arithmetic below needs.
LEMMA LagTypes ==
  ASSUME TypeOK
  PROVE  /\ 1 \in Session /\ Chunk \in Nat \ {0} /\ BufSize \in Nat \ {0}
         /\ MinWav \in Nat \ {0} /\ bytesRead \in 0..Chunk
         /\ total_send_bytes \in Nat /\ session \in Nat
         /\ ring \in Rings(BufSize) /\ ring.stored \in Nat /\ ring.held \in Nat
         /\ sem.rx_done \in {0, 1} /\ sem.tx_done \in {0, 1}
         /\ sem \in [rx_done : 0..1, tx_done : 0..1, ws_task_done : Gone..2]
         /\ sender \in [Session -> Locals] /\ sender[1] \in Locals
         /\ sender[1].send_size \in Int /\ sender[1].send_bytes \in Nat
         /\ Permits \in Nat /\ Ahead \in Nat /\ Misses \in Nat
<1>1. /\ 1 \in Session /\ Chunk \in Nat \ {0} /\ BufSize \in Nat \ {0}
      /\ MinWav \in Nat \ {0}
  BY SizesAssumption, OneIsSession
<1>2. /\ bytesRead \in 0..Chunk /\ total_send_bytes \in Nat /\ session \in Nat
      /\ ring \in Rings(BufSize) /\ ring.stored \in Nat /\ ring.held \in Nat
      /\ sem \in [rx_done : 0..1, tx_done : 0..1, ws_task_done : Gone..2]
  BY <1>1, SizesAssumption DEF TypeOK, Rings
<1>3. sem.rx_done \in {0, 1} /\ sem.tx_done \in {0, 1}
  BY <1>2
<1>4. /\ sender \in [Session -> Locals] /\ sender[1] \in Locals
      /\ sender[1].send_size \in Int /\ sender[1].send_bytes \in Nat
  BY <1>1 DEF TypeOK, Locals
<1>5. Permits \in Nat /\ Ahead \in Nat /\ Misses \in Nat
  BY <1>1, <1>2, <1>3 DEF Permits, Ahead, Misses
<1> QED
  BY <1>1, <1>2, <1>3, <1>4, <1>5

\* A chunk about to be written fits into a ring with that room.
LEMMA LagFits == Room /\ LockInv /\ LagInv => EveryChunkFits
<1> SUFFICES ASSUME Room, LockInv, LagInv, session = 1, rpc = "push"
             PROVE  bytesRead <= FreeSize(ring, BufSize)
  BY DEF EveryChunkFits
<1>1. TypeOK /\ HeldHasReader /\ NotYetCreated
  BY DEF LockInv
<1> USE LagTypes, <1>1
<1>2. Lag /\ ~Stopped
  BY DEF LagInv, Emptied, Unstopped
<1>3. Ahead >= ring.stored + Chunk
  BY DEF Ahead, Permits
<1>4. ring.held > 0 => sender[1].pc = "held"
  BY DEF HeldHasReader, NotYetCreated, Session
<1>5. Ahead + ring.held <= 8 * Chunk - 1
  <2>1. sender[1].pc \in SenderPCs
    BY DEF Locals
  <2> QED
    BY <1>2, <1>4, <2>1 DEF Lag, Within, SenderPCs
<1> QED
  BY <1>3, <1>5 DEF Room, FreeSize, Rings

\* A step of the recorder that adds nothing to what is ahead, nor to the misses
\* to come, keeps the bounds.
LEMMA Lessened ==
  ASSUME TypeOK, TypeOK', Blind, Lag, ring'.rd = ring.rd, ring'.held = ring.held,
         Ahead' <= Ahead, Ahead' + Misses' <= Ahead + Misses, Stopped => Stopped',
         sender'[1].send_size = sender[1].send_size,
         \/ sender'[1].pc = sender[1].pc
         \/ sender[1].pc = "none" /\ sender'[1].pc = "start"
  PROVE  Blind' /\ Lag'
<1>1. /\ Ahead \in Nat /\ Ahead' \in Nat /\ Misses \in Nat /\ Misses' \in Nat
      /\ Chunk \in Nat \ {0} /\ ring.held \in Nat /\ sender[1].send_size \in Int
  <2>1. Ahead' \in Nat /\ Misses' \in Nat
    <3>1. Chunk \in Nat /\ ring'.stored \in Nat
      BY LagTypes DEF TypeOK, Rings
    <3> QED
      BY <3>1 DEF Ahead, Permits, Misses
  <2> QED
    BY <2>1, LagTypes
<1>2. Blind'
  BY <1>1 DEF Blind
<1>3. \A few, many \in Int :
        /\ Within(Ahead, few, many) => Within(Ahead, few, many)'
        /\ Within(Ahead + Misses, few, many) => Within(Ahead + Misses, few, many)'
  <2> SUFFICES ASSUME NEW few \in Int, NEW many \in Int
               PROVE  /\ Within(Ahead, few, many) => Within(Ahead, few, many)'
                      /\ Within(Ahead + Misses, few, many)
                           => Within(Ahead + Misses, few, many)'
    OBVIOUS
  <2>1. ASSUME NEW m \in Int PROVE Ahead <= m => Ahead' <= m
    BY <1>1
  <2>2. ASSUME NEW m \in Int PROVE Ahead + Misses <= m => Ahead' + Misses' <= m
    <3>1. \A a, b, c, d \in Nat : a + b <= c + d /\ c + d <= m => a + b <= m
      OBVIOUS
    <3> QED
      BY <1>1, <3>1
  <2> QED
    BY <2>1, <2>2, Zenon DEF Within
<1>4. Ahead + ring.held <= 8 * Chunk - 1 => (Ahead + ring.held <= 8 * Chunk - 1)'
  BY <1>1
<1>5. Lag'
  <2>1. CASE sender'[1].pc = sender[1].pc
    <3>1. /\ 5 * Chunk \in Int /\ 8 * Chunk - 1 \in Int /\ 2 * Chunk \in Int
          /\ 5 * Chunk - 1 \in Int
      BY <1>1
    <3>2. /\ Ahead <= 6 * Chunk - 1 => Ahead' <= 6 * Chunk - 1
          /\ Ahead <= 7 * Chunk - 1 => Ahead' <= 7 * Chunk - 1
      BY <1>1
    <3> QED
      BY <1>3, <1>4, <2>1, <3>1, <3>2 DEF Lag
  <2>2. CASE sender[1].pc = "none" /\ sender'[1].pc = "start"
    <3>1. 5 * Chunk \in Int /\ 8 * Chunk - 1 \in Int
      BY <1>1
    <3> QED
      BY <1>3, <2>2, <3>1 DEF Lag
  <2> QED
    BY <2>1, <2>2
<1> QED
  BY <1>2, <1>5

\* Nor does one that leaves the ring and the senders alone and gives nothing.
Kept == ring' = ring /\ sender' = sender

Lighter ==
    /\ Permits' <= Permits /\ Permits' + Misses' <= Permits + Misses
    /\ Stopped => Stopped'

LEMMA Unmoved ==
  ASSUME TypeOK, TypeOK', Blind, Lag, Kept, Lighter
  PROVE  Blind' /\ Lag'
<1>1. /\ Permits \in Nat /\ Misses \in Nat /\ ring.stored \in Nat
      /\ Permits' \in Nat /\ Misses' \in Nat
  <2>1. Chunk \in Nat
    BY LagTypes
  <2> QED
    BY <2>1, LagTypes DEF Permits, Misses
<1>2. Ahead = ring.stored + Permits /\ Ahead' = ring.stored + Permits'
  BY DEF Ahead, Kept
<1>3. Permits' <= Permits /\ Permits' + Misses' <= Permits + Misses
  BY DEF Lighter
<1>4. Ahead' <= Ahead /\ Ahead' + Misses' <= Ahead + Misses
  <2>1. \A s, p, m, p2, m2 \in Nat :
          p2 <= p /\ p2 + m2 <= p + m =>
              s + p2 <= s + p /\ (s + p2) + m2 <= (s + p) + m
    OBVIOUS
  <2> QED
    BY <1>1, <1>2, <1>3, <2>1
<1> QED
  BY <1>4, Lessened DEF Kept, Lighter

-----------------------------------------------------------------------------
\* Before the first call nothing is stored, held, counted or created.
LEMMA NothingYet ==
  ASSUME LockInv, FirstInv, BytesInv, session = 0
  PROVE  /\ ring.stored = 0 /\ ring.held = 0 /\ sender[1].pc = "none"
         /\ rpc = "idle" /\ total_send_bytes = 0
<1>1. TypeOK /\ HeldHasReader /\ NotYetCreated
  BY DEF LockInv
<1>2. rpc = "idle" /\ total_send_bytes = 0
  BY DEF FirstInv, ClearedEmpty
<1>3. \A s \in Session : sender[s].pc = "none"
  BY <1>1 DEF NotYetCreated, Session
<1>4. ring.held = 0
  BY <1>1, <1>2, <1>3, LagTypes DEF HeldHasReader
<1>5. Followed <= 0
  BY <1>2 DEF BytesInv, Balanced, Written
<1> QED
  BY <1>1, <1>2, <1>3, <1>4, <1>5, LagTypes DEF Followed, InHand

\* Only FirstRx, with an empty ring, adds a permit without taking a miss away;
\* a write turns its permit into what is stored.
LEMMA RecorderLag == CallInv /\ EveryChunkFits /\ Recorder => LagInv'
<1> SUFFICES ASSUME CallInv, EveryChunkFits, Recorder, session' <= 1, ~Emptied'
             PROVE  Blind' /\ Lag' /\ Unstopped'
  BY DEF LagInv
<1>1. /\ LockInv /\ FirstInv /\ BytesInv /\ LagInv
      /\ TypeOK /\ TypeOK' /\ NotYetCreated
  BY RecorderType DEF CallInv, LockInv
<1>2. session <= 1
  BY <1>1 DEF Recorder, Refuse, Enter, Connected, ResetFails, ResetFailure,
     CreateSender, ClearTotal, FirstRx, FirstTx, ReadChunk, NothingRead, TakeRx,
     DropChunk, NoRx, Push, Count, Signal, RecordMore, StopRecording, DrainTake,
     DrainReturn, DrainEnd, Settle, Leave, recLocals, TypeOK
<1>3. ClearedEmpty
  BY <1>1, <1>2 DEF FirstInv
<1>4. ~Emptied => Blind /\ Lag /\ Unstopped
  BY <1>1, <1>2 DEF LagInv
<1> USE LagTypes, <1>1, <1>4 DEF recLocals, At, Emptied, Kept, Lighter
<1>5. ASSUME Kept, Lighter, ~Emptied PROVE Blind' /\ Lag'
  BY <1>5, Unmoved
<1>6. CASE Refuse
  <2>1. Kept /\ Lighter /\ ~Emptied /\ Unstopped'
    BY <1>6 DEF Refuse
  <2> QED
    BY <1>5, <2>1
<1>7. CASE Enter
  <2>1. session = 0
    BY <1>2, <1>7 DEF Enter
  <2>2. /\ ring.stored = 0 /\ ring.held = 0 /\ sender[1].pc = "none"
        /\ total_send_bytes = 0
    BY <2>1, NothingYet
  <2>3. rpc' = "connect" /\ Kept /\ total_send_bytes' = total_send_bytes
        /\ sem'.rx_done = sem.rx_done /\ sem'.tx_done = sem.tx_done
    BY <1>7 DEF Enter
  <2>4. Ahead' + Misses' <= 5 * Chunk
    BY <2>2, <2>3 DEF Ahead, Permits, Misses, Writing
  <2> QED
    BY <2>2, <2>3, <2>4 DEF Blind, Lag, Within, Unstopped
<1>8. CASE Connected
  <2>1. Kept /\ Lighter /\ ~Emptied /\ Unstopped'
    BY <1>8 DEF Connected, Permits, Misses, Writing, Stopped, Unstopped
  <2> QED
    BY <1>5, <2>1
<1>9. CASE ResetFails
  <2>1. Kept /\ Lighter /\ ~Emptied /\ Unstopped'
    BY <1>9 DEF ResetFails, ResetFailure, Permits, Misses, Writing, Stopped, Unstopped
  <2> QED
    BY <1>5, <2>1
<1>10. CASE CreateSender
  <2>1. session = 1
    BY <1>2, <1>3, <1>10 DEF CreateSender, ClearedEmpty
  <2>2. /\ sender[1].pc = "none" /\ sender'[1].pc = "start"
        /\ sender'[1].send_size = sender[1].send_size
    BY <1>10, <2>1 DEF CreateSender, NotYetCreated, Locals
  <2>3. /\ ring' = ring /\ sem' = sem /\ total_send_bytes' = total_send_bytes
        /\ rpc = "create" /\ rpc' = "clear"
    BY <1>10 DEF CreateSender
  <2>4. Ahead' = Ahead /\ Misses' = Misses /\ Stopped' = Stopped
    BY <2>2, <2>3 DEF Ahead, Permits, Misses, Writing, Stopped
  <2>5. Blind' /\ Lag'
    BY <2>2, <2>3, <2>4, Lessened
  <2> QED
    BY <2>3, <2>5 DEF Unstopped
<1>11. CASE ClearTotal
  <2>1. Kept /\ Lighter /\ ~Emptied
    BY <1>3, <1>11 DEF ClearTotal, Permits, Misses, Writing, Stopped, ClearedEmpty
  <2>2. Unstopped'
    BY <1>11 DEF ClearTotal, Unstopped, Stopped
  <2> QED
    BY <1>5, <2>1, <2>2
<1>12. CASE FirstRx
  <2>1. /\ total_send_bytes = 0 /\ rpc = "giveRx" /\ rpc' = "giveTx" /\ Kept
        /\ ring.held = 0
        /\ total_send_bytes' = total_send_bytes
        /\ sem'.rx_done = 1 /\ sem'.tx_done = sem.tx_done
    BY <1>12 DEF FirstRx, Unstopped
  <2>2. Balanced /\ NothingInvented
    BY <1>2 DEF BytesInv, FirstInv
  <2>3. InHand(1) \in Nat
    BY DEF InHand, Locals
  <2>4. ring.stored = 0
    BY <2>1, <2>2, <2>3 DEF Balanced, Followed, Written
  <2>5. InHand(1) = 0 /\ sender[1].send_size >= 0
    BY <2>1, <2>2, <2>3, <2>4 DEF Balanced, Followed, Written, NothingInvented
  <2>6. Ahead' = Chunk /\ Ahead' + Misses' <= 5 * Chunk
    BY <2>1, <2>4 DEF Ahead, Permits, Misses, Writing
  <2> QED
    BY <2>1, <2>4, <2>5, <2>6 DEF Blind, Lag, Within, Unstopped, Stopped
<1>13. CASE FirstTx
  <2>1. Kept /\ Lighter /\ ~Emptied /\ Unstopped'
    BY <1>13 DEF FirstTx, Permits, Misses, Writing, Stopped, Unstopped
  <2> QED
    BY <1>5, <2>1
<1>14. CASE ReadChunk
  <2>1. Kept /\ Lighter /\ ~Emptied /\ Unstopped'
    BY <1>14 DEF ReadChunk, Permits, Misses, Writing, Stopped, Unstopped
  <2> QED
    BY <1>5, <2>1
<1>15. CASE NothingRead
  <2>1. Kept /\ Lighter /\ ~Emptied /\ Unstopped'
    BY <1>15 DEF NothingRead, Permits, Misses, Writing, Stopped, Unstopped
  <2> QED
    BY <1>5, <2>1
<1>16. CASE TakeRx
  <2>1. Kept /\ Lighter /\ ~Emptied /\ Unstopped'
    BY <1>16 DEF TakeRx, Permits, Misses, Writing, Stopped, Unstopped
  <2> QED
    BY <1>5, <2>1
<1>17. CASE DropChunk
  <2>1. Kept /\ Lighter /\ ~Emptied /\ Unstopped'
    BY <1>17 DEF DropChunk, NoRx, Permits, Misses, Writing, Stopped, Unstopped
  <2> QED
    BY <1>5, <2>1
<1>18. CASE Push
  <2>1. /\ rpc = "push" /\ rpc' = "count" /\ sem' = sem /\ sender' = sender
        /\ total_send_bytes' = total_send_bytes
        /\ ring' = Put(ring, bytesRead, BufSize)
    BY <1>18 DEF Push
  <2>2. /\ ring'.held = ring.held /\ ring'.rd = ring.rd
        /\ ring'.stored <= ring.stored + Chunk
        /\ ring'.stored \in Nat
    BY <2>1 DEF Put, Rings
  <2>3. Ahead' <= Ahead /\ Misses' = Misses
    BY <2>1, <2>2 DEF Ahead, Permits, Misses, Writing
  <2>4. Ahead' \in Nat
    BY <2>1, <2>2 DEF Ahead, Permits
  <2>5. Ahead' + Misses' <= Ahead + Misses /\ (Stopped => Stopped')
    BY <2>1, <2>3, <2>4 DEF Stopped
  <2>6. Blind' /\ Lag'
    BY <2>1, <2>2, <2>3, <2>5, Lessened
  <2> QED
    BY <2>1, <2>6 DEF Unstopped, Stopped
<1>19. CASE Count
  <2>1. Kept /\ Lighter /\ ~Emptied /\ Unstopped'
    BY <1>19 DEF Count, Permits, Misses, Writing, Stopped, Unstopped
  <2> QED
    BY <1>5, <2>1
<1>20. CASE Signal
  <2>1. Kept /\ Lighter /\ ~Emptied /\ Unstopped'
    BY <1>20 DEF Signal, Permits, Misses, Writing, Stopped, Unstopped
  <2> QED
    BY <1>5, <2>1
<1>21. CASE RecordMore
  <2>1. Kept /\ Lighter /\ ~Emptied /\ Unstopped'
    BY <1>21 DEF RecordMore, Permits, Misses, Writing, Stopped, Unstopped
  <2> QED
    BY <1>5, <2>1
<1>22. CASE StopRecording \/ DrainTake \/ DrainReturn \/ DrainEnd \/ Settle \/ Leave
  BY <1>22 DEF StopRecording, DrainTake, DrainReturn, DrainEnd, Settle, Leave
<1> QED
  BY <1>6, <1>7, <1>8, <1>9, <1>10, <1>11, <1>12, <1>13, <1>14, <1>15, <1>16,
     <1>17, <1>18, <1>19, <1>20, <1>21, <1>22 DEF Recorder

-----------------------------------------------------------------------------
\* What the first call's sender knows: it takes no more than was counted, and
\* only it holds an item.
LEMMA SenderKnows ==
  ASSUME CallInv, session <= 1, ~Emptied
  PROVE  /\ TypeOK /\ Blind /\ Lag /\ Unstopped
         /\ sender[1].send_size >= 0
         /\ sender[1].send_bytes + InHand(1) <= total_send_bytes
         /\ sender[1].send_bytes + InHand(1) + ring.stored = Written
         /\ ring.held > 0 => sender[1].pc = "held"
<1>1. TypeOK /\ Blind /\ Lag /\ Unstopped
  BY DEF CallInv, LockInv, LagInv
<1>2. /\ sender[1].send_size >= 0
      /\ sender[1].send_bytes + InHand(1) <= total_send_bytes
      /\ sender[1].send_bytes + InHand(1) + ring.stored = Written
  BY DEF CallInv, FirstInv, NothingInvented, BytesInv, Balanced, Followed
<1>3. ring.held > 0 => sender[1].pc = "held"
  <2>1. HeldHasReader /\ NotYetCreated /\ session \in Nat
    BY <1>1, LagTypes DEF CallInv, LockInv
  <2>2. ASSUME NEW s \in Session, sender[s].pc = "held" PROVE s = 1
    BY <2>1, <2>2 DEF NotYetCreated, Session
  <2> QED
    BY <2>1, <2>2 DEF HeldHasReader, Emptied
<1> QED
  BY <1>1, <1>2, <1>3

\* An item leaves behind what the sender did not know of or, should it end
\* with the buffer, what starts at the beginning.
LEMMA ReceiveLag ==
  ASSUME CallInv, session <= 1, ~Emptied, Receive(1), 1 \in Session
  PROVE  Blind' /\ Lag' /\ Unstopped'
<1>1. /\ TypeOK /\ Blind /\ Lag /\ Unstopped /\ sender[1].send_size >= 0
      /\ sender[1].send_bytes + InHand(1) + ring.stored = Written
  BY SenderKnows
<1>2. /\ sender[1].pc = "receive" /\ ring.stored > 0 /\ ring.held = 0
      /\ ring' = Take(ring, Wanted(1), BufSize)
      /\ sem' = sem /\ rpc' = rpc /\ total_send_bytes' = total_send_bytes
      /\ sender'[1].pc = "held"
  BY <1>1, LagTypes DEF Receive, Receivable, recVars, recLocals
<1> DEFINE n == Wanted(1)
           contig == Contiguous(ring, BufSize)
<1>3. /\ contig \in Nat /\ contig > 0 /\ contig <= ring.stored
      /\ contig = ring.stored \/ contig = BufSize - ring.rd
  BY <1>1, <1>2, LagTypes, RingSteps DEF Contiguous, Least
<1>4. /\ n \in Nat /\ n <= ring.stored
      /\ n = sender[1].send_size \/ n = contig
  BY <1>1, <1>3, LagTypes DEF Wanted, Least
<1>5. /\ ring'.stored = ring.stored - n /\ ring'.held = n
      /\ ring.rd + n = BufSize => ring'.rd = 0
  BY <1>2 DEF Take
<1> HIDE DEF n, contig
<1>6. /\ Permits' = Permits /\ Permits \in Nat /\ Permits <= 2 * Chunk
      /\ Chunk \in Nat \ {0} /\ ring.stored \in Nat /\ sender[1].send_size \in Int
      /\ ring.rd \in Nat /\ ring.rd < BufSize /\ BufSize \in Nat
      /\ ring.stored <= BufSize
  BY <1>1, <1>2, LagTypes DEF Permits, Rings
<1>7. Ahead = ring.stored + Permits /\ Ahead' = (ring.stored - n) + Permits
  BY <1>5, <1>6 DEF Ahead
<1>8. ring.stored + Permits - sender[1].send_size <= 2 * Chunk
  BY <1>1, <1>2, <1>6, <1>7 DEF Blind
<1>9. \/ ring.stored + Permits <= 5 * Chunk
      \/ ring.rd = 0 /\ ring.stored + Permits <= 8 * Chunk - 1
  BY <1>1, <1>2, <1>7 DEF Lag, Within
<1>10. Ahead' + ring'.held <= 8 * Chunk - 1
  <2>1. Ahead' + ring'.held = ring.stored + Permits
    BY <1>4, <1>5, <1>6, <1>7
  <2> QED
    BY <1>6, <1>9, <2>1
<1>11. Ahead' <= 2 * Chunk \/ (ring'.rd = 0 /\ Ahead' <= 5 * Chunk - 1)
  <2>1. CASE n = sender[1].send_size
    BY <1>4, <1>6, <1>7, <1>8, <2>1
  <2>2. CASE n = ring.stored
    BY <1>4, <1>6, <1>7, <2>2
  <2>3. CASE n = BufSize - ring.rd /\ n # ring.stored /\ n = contig
    <3>1. ring.rd # 0
      BY <1>4, <1>6, <2>3
    <3>2. ring'.rd = 0
      BY <1>5, <1>6, <2>3
    <3>3. n > 0
      BY <1>3, <2>3
    <3> QED
      BY <1>4, <1>6, <1>7, <1>9, <3>1, <3>2, <3>3
  <2> QED
    BY <1>3, <1>4, <2>1, <2>2, <2>3
<1>12. Unstopped'
  <2>1. rpc \notin {"connect", "create", "clear", "giveRx"}
    BY <1>1, <1>2, LagTypes DEF Unstopped, Written, InHand, Locals
  <2> QED
    BY <1>1, <1>2, <2>1 DEF Unstopped, Stopped
<1> QED
  BY <1>2, <1>10, <1>11, <1>12 DEF Blind, Lag, Within

\* Every other step of the sender.
LEMMA SenderLag ==
  ASSUME CallInv, NEW s \in Session, Sender(s)
  PROVE  LagInv'
<1> SUFFICES ASSUME session' <= 1, ~Emptied' PROVE Blind' /\ Lag' /\ Unstopped'
  BY DEF LagInv
<1>1. TypeOK /\ NotYetCreated
  BY DEF CallInv, LockInv
<1>2. sender[s].pc # "none"
  BY DEF Sender, Start, ReadSize, SentAll, TakeTx, MissTx, GiveAnyway,
         Receive, ReceiveNothing, ReturnItem, GiveRx, LetWrite,
         Transmit, LastRx,
         LastGive, SenderDone, LastStep
<1>3. /\ session' = session /\ rpc' = rpc
      /\ total_send_bytes' = total_send_bytes
  BY DEF Sender, Start, ReadSize, SentAll, TakeTx, MissTx, GiveAnyway,
         Receive, ReceiveNothing, ReturnItem, GiveRx, LetWrite,
         Transmit, LastRx,
         LastGive, SenderDone, LastStep, recVars, recLocals
<1>4. s = 1 /\ session <= 1 /\ ~Emptied
  BY <1>1, <1>2, <1>3 DEF NotYetCreated, TypeOK, Session, Emptied
<1>5. /\ Blind /\ Lag /\ Unstopped
      /\ sender[1].send_bytes + InHand(1) <= total_send_bytes
      /\ sender[1].send_bytes + InHand(1) + ring.stored = Written
      /\ ring.held > 0 => sender[1].pc = "held"
  BY <1>4, SenderKnows
<1> USE <1>1, <1>3, <1>4, <1>5, LagTypes DEF Goto, Locals
<1>6. ASSUME ring'.held = ring.held PROVE Unstopped'
  BY <1>6 DEF Unstopped, Stopped
<1>7. CASE Start(s)
  <2>1. /\ ring' = ring /\ sem' = sem
        /\ sender[1].pc = "start" /\ sender'[1].pc = "size"
    BY <1>7 DEF Start
  <2>2. Ahead' = Ahead /\ Misses' = Misses
    BY <2>1 DEF Ahead, Permits, Misses, Writing
  <2> QED
    BY <1>6, <2>1, <2>2 DEF Blind, Lag, Within
<1>8. CASE ReadSize(s)
  <2>1. /\ ring' = ring /\ sem' = sem
        /\ sender[1].pc = "size" /\ sender'[1].pc = "take"
        /\ sender'[1].send_size = total_send_bytes - sender[1].send_bytes
    BY <1>8 DEF ReadSize
  <2>2. Ahead' = Ahead /\ Misses' = Misses
    BY <2>1 DEF Ahead, Permits, Misses, Writing
  <2>3. ring.stored - sender'[1].send_size =
          IF rpc = "count" THEN bytesRead ELSE 0
    BY <2>1 DEF InHand, Written
  <2>4. Ahead - sender'[1].send_size <= 2 * Chunk
    BY <2>1, <2>3 DEF Ahead, Permits
  <2> QED
    BY <1>6, <2>1, <2>2, <2>4 DEF Blind, Lag, Within
<1>9. CASE SentAll(s)
  <2>1. ring' = ring /\ sender'[1].pc = "end" /\ sender[1].pc = "size"
    BY <1>9 DEF SentAll
  <2>2. Stopped'
    BY <1>9, <2>1 DEF SentAll, Stopped, InHand
  <2> QED
    BY <1>6, <2>1, <2>2 DEF Blind, Lag
<1>10. CASE TakeTx(s)
  <2>1. /\ ring' = ring /\ sem'.rx_done = sem.rx_done /\ sem.tx_done = 1
        /\ sender[1].pc = "take" /\ sender'[1].pc = "receive"
        /\ sender'[1].send_size = sender[1].send_size
    BY <1>10 DEF TakeTx
  <2>2. Ahead' = Ahead /\ Misses = 0
    BY <2>1 DEF Ahead, Permits, Misses
  <2> QED
    BY <1>6, <2>1, <2>2 DEF Blind, Lag, Within
<1>11. CASE MissTx(s)
  <2>1. /\ ring' = ring /\ sem' = sem /\ sem.tx_done = 0
        /\ sender[1].pc = "take" /\ sender'[1].pc = "giveUp"
        /\ sender'[1].send_size = sender[1].send_size
    BY <1>11 DEF MissTx
  <2>2. Ahead' = Ahead /\ Misses' = Misses
    BY <2>1 DEF Ahead, Permits, Misses, Writing
  <2> QED
    BY <1>6, <2>1, <2>2 DEF Blind, Lag, Within
<1>12. CASE GiveAnyway(s)
  <2>1. /\ ring' = ring /\ sem'.rx_done = 1 /\ sem'.tx_done = sem.tx_done
        /\ sender[1].pc = "giveUp" /\ sender'[1].pc = "size"
    BY <1>12 DEF GiveAnyway
  <2>2. Ahead' + Misses' <= Ahead + Misses
    BY <2>1 DEF Ahead, Permits, Misses, Writing
  <2>3. Ahead' + Misses' \in Int
    BY <2>1 DEF Ahead, Permits, Misses
  <2> QED
    BY <1>6, <2>1, <2>2, <2>3 DEF Blind, Lag, Within
<1>13. CASE Receive(s)
  BY <1>13, ReceiveLag
<1>14. CASE ReceiveNothing(s)
  <2>1. /\ ring' = ring /\ sem' = sem /\ ring.held = 0
        /\ sender[1].pc = "receive" /\ sender'[1].pc \in {"size", "end"}
        /\ sender[1].send_size = 0 \/ ring.stored = 0
    BY <1>14 DEF ReceiveNothing, Receivable
  <2>2. Ahead' = Ahead /\ Ahead <= 2 * Chunk
    BY <2>1 DEF Ahead, Permits, Blind
  <2>3. Misses' \in Int /\ Misses' <= 3 * Chunk
    BY <2>1 DEF Misses
  <2> QED
    BY <1>6, <2>1, <2>2, <2>3 DEF Blind, Lag, Within
<1>15. CASE ReturnItem(s)
  <2>1. /\ ring'.stored = ring.stored /\ ring'.rd = ring.rd /\ ring'.held = 0
        /\ sem' = sem /\ sender[1].pc = "held" /\ sender'[1].pc = "returned"
    BY <1>15 DEF ReturnItem, Return, Rings
  <2>2. Ahead' = Ahead
    BY <2>1 DEF Ahead, Permits
  <2>3. Unstopped'
    BY <2>1 DEF Unstopped, Stopped
  <2> QED
    BY <2>1, <2>2, <2>3 DEF Blind, Lag, Within
<1>19. CASE GiveRx(s)
  <2>1. /\ ring' = ring
        /\ sem'.rx_done = 1 /\ sem'.tx_done = sem.tx_done
        /\ sender[1].pc = "returned" /\ sender'[1].pc = "transmit"
    BY <1>19 DEF GiveRx, LetWrite
  <2>2. /\ Ahead' \in Int /\ Ahead' <= Ahead + Chunk
        /\ Ahead' + Misses' <= Ahead + 3 * Chunk /\ Misses' \in Int
    BY <2>1 DEF Ahead, Permits, Misses
  <2> QED
    BY <1>6, <2>1, <2>2 DEF Blind, Lag, Within
<1>16. CASE Transmit(s)
  <2>1. PICK quiet \in {0, Least(sender[s].record_exit_cnt + 1, QuietMax + 1)},
             pc \in {"end", "size"} :
          /\ sender' = [sender EXCEPT
                 ![s].pc = pc,
                 ![s].send_bytes = sender[s].send_bytes + sender[s].rcv_bytes,
                 ![s].record_exit_cnt = quiet]
          /\ sender[1].pc = "transmit" /\ ring' = ring /\ sem' = sem
    BY <1>16 DEF Transmit
  <2>2. sender'[1].pc \in {"end", "size"}
    BY <2>1
  <2>3. Ahead' = Ahead /\ Misses' = Misses
    BY <2>1, <2>2 DEF Ahead, Permits, Misses, Writing
  <2> QED
    BY <1>6, <2>1, <2>2, <2>3 DEF Blind, Lag, Within
<1>17. CASE LastRx(s)
  <2>1. /\ ring' = ring /\ sem'.rx_done = 1
        /\ sender[1].pc = "end" /\ sender'[1].pc = "bye"
    BY <1>17 DEF LastRx, LastGive
  <2>2. Ahead' \in Int /\ Ahead' <= Ahead + Chunk
    BY <2>1 DEF Ahead, Permits
  <2> QED
    BY <1>6, <2>1, <2>2 DEF Blind, Lag, Stopped
<1>18. CASE SenderDone(s)
  <2>1. /\ ring' = ring /\ sem'.rx_done = sem.rx_done
        /\ sender[1].pc = "bye" /\ sender'[1].pc = "gone"
    BY <1>18 DEF SenderDone, LastStep
  <2>2. Ahead' = Ahead
    BY <2>1 DEF Ahead, Permits
  <2> QED
    BY <1>6, <2>1, <2>2 DEF Blind, Lag, Stopped
<1> QED
  BY <1>7, <1>8, <1>9, <1>10, <1>11, <1>12, <1>13, <1>14, <1>15, <1>16, <1>17,
     <1>18, <1>19 DEF Sender

-----------------------------------------------------------------------------
(* Theorems.                                                               *)

\* There is nothing before the first call.
LEMMA InitLag == Init => LagInv
BY DEF Init, LagInv, Emptied

\* In a ring with that room all of it is kept: the bounds make every chunk fit,
\* and that makes the bounds.
LEMMA CallKept == Room /\ CallInv /\ [Next]_vars => CallInv'
<1> SUFFICES ASSUME Room, CallInv, [Next]_vars PROVE CallInv'
  OBVIOUS
<1>1. LockInv /\ FirstInv /\ BytesInv /\ LagInv
  BY DEF CallInv
<1>2. EveryChunkFits
  BY <1>1, LagFits
<1>3. CASE Recorder
  BY <1>1, <1>2, <1>3, RecorderLock, RecorderFirst, RecorderBytes, RecorderLag
  DEF CallInv
<1>4. CASE \E s \in Session : Sender(s)
  BY <1>1, <1>4, SenderLock, SenderFirst, SenderBytes, SenderLag DEF CallInv
<1>5. CASE UNCHANGED vars
  <2> USE <1>5 DEF vars, recVars, recLocals
  <2>1. LockInv'
    BY <1>1 DEF LockInv, TypeOK, ChunkRead, HeldHasReader, NotYetCreated,
                RecorderNeverLockedOut, Recording
  <2>2. FirstInv'
    BY <1>1 DEF FirstInv, NothingInvented, ClearedEmpty, EndedWithEnough,
                StopsAfterMinimum, InHand
  <2>3. BytesInv'
    BY <1>1 DEF BytesInv, Balanced, Followed, Emptied, Written, InHand
  <2>4. LagInv'
    BY <1>1 DEF LagInv, Emptied, Blind, Lag, Within, Ahead, Permits, Misses,
                Writing, Unstopped, Stopped
  <2> QED
    BY <2>1, <2>2, <2>3, <2>4 DEF CallInv
<1> QED
  BY <1>3, <1>4, <1>5 DEF Next

\* A ring of eight chunks but one unit takes every chunk of the first call,
\* whatever the sizes and however the sender is delayed.
THEOREM ChunksFit == ASSUME Room PROVE Spec => []EveryChunkFits
<1>1. Init => CallInv
  BY InitLock, InitFirst, InitBytes, InitLag DEF CallInv
<1>2. CallInv /\ [Next]_vars => CallInv'
  BY CallKept
<1>3. CallInv => EveryChunkFits
  BY LagFits DEF CallInv
<1> QED
  BY <1>1, <1>2, <1>3, PTL DEF Spec

\* In such a ring every byte of the first call that is counted is sent, in the
\* sender's hands or still in the ring, until the recorder empties it.
THEOREM BytesAccounted == ASSUME Room PROVE Spec => []EveryByteAccounted
  BY ChunksFit, BytesAccountedIfFit, PTL

-----------------------------------------------------------------------------
(* The first call as a pipe.  Each step of the code is a step of BytePipe, *)
(* or leaves what is written, on its way and sent as it is.                *)

\* A chunk that fits is written ...
PipeWritten ==
    /\ Open /\ Written < MinWav
    /\ \E n \in 1..Chunk : Written' = Written + n /\ InTransit' = InTransit + n
    /\ sender'[1].send_bytes = sender[1].send_bytes /\ (Open' <=> Open)

\* ... what the sender holds is sent ...
PipeSent ==
    /\ \E n \in 1..InTransit :
          /\ InTransit' = InTransit - n
          /\ sender'[1].send_bytes = sender[1].send_bytes + n
    /\ Written' = Written /\ (Open' <=> Open)

\* ... the recorder stops ...
PipeStopped ==
    /\ Open /\ ~Open'
    /\ Written' = Written /\ InTransit' = InTransit
    /\ sender'[1].send_bytes = sender[1].send_bytes

\* ... and what the ring still holds is thrown away.
PipeDiscarded ==
    /\ ~Open /\ (Open' <=> Open)
    /\ \E n \in 1..InTransit : InTransit' = InTransit - n
    /\ Written' = Written
    /\ sender'[1].send_bytes = sender[1].send_bytes

PipeUnmoved ==
    /\ Written' = Written /\ InTransit' = InTransit
    /\ sender'[1].send_bytes = sender[1].send_bytes /\ (Open' <=> Open)

PipeStep ==
    PipeWritten \/ PipeSent \/ PipeStopped \/ PipeDiscarded \/ PipeUnmoved

\* These are the steps of the abstract pipe.
LEMMA PipeSteps == PipeStep => [Pipe!Next]_(Pipe!vars)
<1>1. PipeWritten => Pipe!Write
  BY DEF PipeWritten, Pipe!Write, Open
<1>2. PipeSent => Pipe!Send
  BY DEF PipeSent, Pipe!Send, Open
<1>3. PipeStopped => Pipe!Stop
  BY DEF PipeStopped, Pipe!Stop, Open
<1>4. PipeDiscarded => Pipe!Discard
  BY DEF PipeDiscarded, Pipe!Discard, Open
<1>5. PipeUnmoved => UNCHANGED Pipe!vars
  BY DEF PipeUnmoved, Pipe!vars, Open
<1> QED
  BY <1>1, <1>2, <1>3, <1>4, <1>5 DEF PipeStep, Pipe!Next

\* The recorder writes at Push, stops at StopRecording or with the third failed
\* reconnection, and throws away at DrainTake.
LEMMA RecorderPipe ==
  CallInv /\ EveryChunkFits /\ Recorder /\ session' <= 1 => PipeStep
<1> SUFFICES ASSUME CallInv, EveryChunkFits, Recorder, session' <= 1
             PROVE  PipeStep
  OBVIOUS
<1>1. TypeOK /\ NotYetCreated /\ ChunkRead /\ 1 \in Session
  BY OneIsSession DEF CallInv, LockInv
<1>2. /\ total_send_bytes \in Nat /\ session \in Nat /\ bytesRead \in 0..Chunk
      /\ ring \in Rings(BufSize) /\ ring.stored \in Nat /\ Chunk \in Nat
      /\ sender[1].send_bytes \in Nat /\ sender[1].rcv_bytes \in Nat
      /\ BufSize \in Nat \ {0} /\ DrainPiece \in Nat \ {0}
  BY <1>1, SizesAssumption DEF TypeOK, Rings
<1>3. session <= 1
  BY <1>1 DEF Recorder, Refuse, Enter, Connected, ResetFails, ResetFailure,
     CreateSender, ClearTotal, FirstRx, FirstTx, ReadChunk, NothingRead, TakeRx,
     DropChunk, NoRx, Push, Count, Signal, RecordMore, StopRecording, DrainTake,
     DrainReturn, DrainEnd, Settle, Leave, recLocals, TypeOK
<1>4. ClearedEmpty /\ (~Emptied => Unstopped)
  BY <1>3 DEF CallInv, FirstInv, LagInv
<1>5. InHand(1) \in Nat /\ InTransit \in Nat /\ InTransit >= ring.stored
  BY <1>2 DEF InHand, InTransit
<1> USE <1>1, <1>2, <1>3, <1>4 DEF recLocals, At
<1>6. CASE Push
  <2>1. rpc = "push" /\ session = 1 /\ Open /\ Open' /\ ~Emptied
    BY <1>6 DEF Push, ClearedEmpty, Open, Emptied
  <2>2. bytesRead <= FreeSize(ring, BufSize)
    BY <2>1 DEF EveryChunkFits
  <2>3. ring'.stored = ring.stored + bytesRead
    BY <1>6, <2>2 DEF Push, Put, Rings
  <2>4. bytesRead \in 1..Chunk
    BY <2>1 DEF ChunkRead
  <2>5. Written < MinWav
    BY <2>1, SizesAssumption DEF Unstopped, Stopped, Written
  <2>6. InTransit' = InTransit + bytesRead
    BY <1>6, <2>3, <1>5 DEF Push, InTransit, InHand
  <2>7. Written' = Written + bytesRead
    BY <1>6 DEF Push, Written
  <2> QED
    BY <1>6, <2>1, <2>4, <2>5, <2>6, <2>7 DEF PipeStep, PipeWritten, Push
<1>7. CASE DrainTake
  <2> DEFINE n == Least(DrainPiece, Contiguous(ring, BufSize))
  <2>1. n \in Nat /\ n > 0 /\ n <= ring.stored
    BY <1>7, RingSteps DEF Least, DrainTake, Receivable
  <2>2. ring'.stored = ring.stored - n
    BY <1>7 DEF DrainTake, Take
  <2> HIDE DEF n
  <2>3. ~Open /\ ~Open'
    BY <1>7 DEF DrainTake, Open, Emptied, ClearedEmpty
  <2>4. InTransit' = InTransit - n /\ n \in 1..InTransit
    BY <1>7, <1>5, <2>1, <2>2 DEF DrainTake, InTransit, InHand
  <2> QED
    BY <1>7, <2>3, <2>4 DEF PipeStep, PipeDiscarded, DrainTake, Written
<1>8. CASE StopRecording
  BY <1>8 DEF StopRecording, PipeStep, PipeStopped, Open, Emptied, ClearedEmpty,
     Written, InTransit, InHand
<1>9. CASE ResetFails
  BY <1>9 DEF ResetFails, ResetFailure, PipeStep, PipeStopped, PipeUnmoved, Open,
     Emptied, ClearedEmpty, Written, InTransit, InHand
<1>10. CASE CreateSender
  <2>1. session = 1 /\ rpc = "create"
    BY <1>10 DEF CreateSender, ClearedEmpty
  <2>2. sender[1].pc = "none" /\ sender'[1].pc = "start"
        /\ sender'[1].send_bytes = sender[1].send_bytes
    BY <1>10, <2>1 DEF CreateSender, NotYetCreated, TypeOK
  <2> QED
    BY <1>10, <2>1, <2>2 DEF CreateSender, PipeStep, PipeUnmoved, Open, Emptied,
       Written, InTransit, InHand
<1>11. CASE Enter \/ ClearTotal \/ Count \/ DrainReturn
  <2>1. ring'.stored = ring.stored /\ sender' = sender
    BY <1>11, RingSteps DEF Enter, ClearTotal, Count, DrainReturn
  <2>2. Open' <=> Open
    BY <1>11 DEF Enter, ClearTotal, Count, DrainReturn, Open, Emptied,
       ClearedEmpty
  <2>3. Written' = Written
    BY <1>11 DEF Enter, ClearTotal, Count, DrainReturn, Written, ClearedEmpty
  <2> QED
    BY <2>1, <2>2, <2>3 DEF PipeStep, PipeUnmoved, InTransit, InHand
<1>12. CASE \/ Refuse \/ Connected \/ FirstRx \/ FirstTx \/ ReadChunk
             \/ NothingRead \/ TakeRx \/ DropChunk \/ Signal \/ RecordMore
             \/ DrainEnd \/ Settle \/ Leave
  <2> USE DEF Refuse, Connected, FirstRx, FirstTx, ReadChunk, NothingRead,
          TakeRx, DropChunk, NoRx, Signal, RecordMore, DrainEnd, Settle, Leave
  <2>1. /\ ring' = ring /\ sender' = sender /\ session' = session
        /\ total_send_bytes' = total_send_bytes
    BY <1>12
  <2>2. rpc # "count" /\ rpc' # "count" /\ (Emptied' <=> Emptied)
    BY <1>12 DEF Emptied
  <2> QED
    BY <2>1, <2>2 DEF PipeStep, PipeUnmoved, Open, Written, InTransit, InHand
<1> QED
  BY <1>6, <1>7, <1>8, <1>9, <1>10, <1>11, <1>12 DEF Recorder

\* The sender sends at Transmit; what it received is on its way before and after.
LEMMA SenderPipe ==
  ASSUME CallInv, NEW s \in Session, Sender(s), session' <= 1
  PROVE  PipeStep
<1>1. TypeOK /\ NotYetCreated /\ 1 \in Session
  BY OneIsSession DEF CallInv, LockInv
<1>2. sender[s].pc # "none"
  BY DEF Sender, Start, ReadSize, SentAll, TakeTx, MissTx, GiveAnyway,
         Receive, ReceiveNothing, ReturnItem, GiveRx, LetWrite,
         Transmit, LastRx,
         LastGive, SenderDone, LastStep
<1>3. /\ session' = session /\ rpc' = rpc /\ bytesRead' = bytesRead
      /\ total_send_bytes' = total_send_bytes
  BY DEF Sender, Start, ReadSize, SentAll, TakeTx, MissTx, GiveAnyway,
         Receive, ReceiveNothing, ReturnItem, GiveRx, LetWrite,
         Transmit, LastRx,
         LastGive, SenderDone, LastStep, recVars, recLocals
<1>4. s = 1
  BY <1>1, <1>2, <1>3 DEF NotYetCreated, TypeOK, Session
<1>5. Written' = Written /\ (Open' <=> Open)
  BY <1>3 DEF Written, Open, Emptied
<1>6. /\ sender[1].send_bytes \in Nat /\ sender[1].rcv_bytes \in Nat
      /\ ring \in Rings(BufSize) /\ ring.stored \in Nat /\ BufSize \in Nat \ {0}
      /\ sender \in [Session -> Locals]
  BY <1>1, SizesAssumption DEF TypeOK, Rings, Locals
<1> SUFFICES \/ /\ InTransit' = InTransit
                /\ sender'[1].send_bytes = sender[1].send_bytes
             \/ \E n \in 1..InTransit :
                   /\ InTransit' = InTransit - n
                   /\ sender'[1].send_bytes = sender[1].send_bytes + n
  BY <1>5 DEF PipeStep, PipeUnmoved, PipeSent
<1> USE <1>1, <1>4, <1>6 DEF InTransit, InHand, Goto, Locals
<1>7. CASE Start(s) \/ SentAll(s) \/ TakeTx(s) \/ MissTx(s) \/ GiveAnyway(s)
  BY <1>7 DEF Start, SentAll, TakeTx, MissTx, GiveAnyway
<1>8. CASE ReadSize(s)
  BY <1>8 DEF ReadSize
<1>9. CASE Receive(s)
  <2>1. Wanted(1) \in Nat
    BY RingSteps DEF Wanted, Least, TypeOK
  <2>2. ring'.stored = ring.stored - Wanted(1)
    BY <1>9 DEF Receive, Take
  <2>3. /\ sender'[1].rcv_bytes = Wanted(1) /\ sender'[1].pc = "held"
        /\ sender'[1].send_bytes = sender[1].send_bytes
        /\ sender[1].pc = "receive"
    BY <1>9 DEF Receive
  <2> QED
    BY <2>1, <2>2, <2>3
<1>10. CASE ReceiveNothing(s)
  BY <1>10 DEF ReceiveNothing
<1>11. CASE ReturnItem(s) \/ GiveRx(s)
  BY <1>11, RingSteps DEF ReturnItem, GiveRx, LetWrite
<1>12. CASE Transmit(s)
  <2>1. PICK quiet \in {0, Least(sender[s].record_exit_cnt + 1, QuietMax + 1)},
             pc \in {"end", "size"} :
          /\ sender' = [sender EXCEPT
                 ![s].pc = pc,
                 ![s].send_bytes = sender[s].send_bytes + sender[s].rcv_bytes,
                 ![s].record_exit_cnt = quiet]
          /\ sender[1].pc = "transmit" /\ ring' = ring
    BY <1>12 DEF Transmit
  <2>2. /\ InTransit' = InTransit - sender[1].rcv_bytes
        /\ sender'[1].send_bytes = sender[1].send_bytes + sender[1].rcv_bytes
        /\ sender[1].rcv_bytes <= InTransit /\ InTransit \in Nat
    BY <2>1
  <2>3. CASE sender[1].rcv_bytes = 0
    BY <2>2, <2>3
  <2>4. CASE sender[1].rcv_bytes \in 1..InTransit
    BY <2>2, <2>4
  <2> QED
    BY <2>2, <2>3, <2>4
<1>13. CASE LastRx(s) \/ SenderDone(s)
  BY <1>13 DEF LastRx, LastGive, SenderDone, LastStep
<1> QED
  BY <1>7, <1>8, <1>9, <1>10, <1>11, <1>12, <1>13 DEF Sender

\* Until a second call begins, recorder and sender implement the pipe: every
\* byte written is sent once or, after the recorder stopped, thrown away, and
\* nothing is written once enough was.
THEOREM PipeImplemented ==
  ASSUME Room PROVE Spec /\ [](session <= 1) => ImplementsPipe
<1>1. Init => CallInv /\ Pipe!Init
  <2>1. Init => CallInv
    BY InitLock, InitFirst, InitBytes, InitLag DEF CallInv
  <2>2. Init => Pipe!Init
    BY OneIsSession DEF Init, Pipe!Init, Written, InTransit, InHand, Open,
       EmptyRing
  <2> QED
    BY <2>1, <2>2
<1>2. CallInv /\ [Next]_vars => CallInv'
  BY CallKept
<1>3. CallInv /\ (session <= 1)' /\ [Next]_vars => [Pipe!Next]_(Pipe!vars)
  <2> SUFFICES ASSUME CallInv, session' <= 1, [Next]_vars PROVE PipeStep
    BY PipeSteps
  <2>1. CASE UNCHANGED vars
    BY <2>1 DEF vars, recVars, recLocals, PipeStep, PipeUnmoved, Written,
       InTransit, InHand, Open, Emptied
  <2>2. EveryChunkFits
    BY LagFits DEF CallInv
  <2> QED
    BY <2>1, <2>2, RecorderPipe, SenderPipe DEF Next
<1> QED
  BY <1>1, <1>2, <1>3, PTL DEF Spec, ImplementsPipe, Pipe!Spec
=============================================================================
