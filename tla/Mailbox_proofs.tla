--------------------------- MODULE Mailbox_proofs ---------------------------
(***************************************************************************)
(* The mailbox for every buffer, every set of lengths and any number of    *)
(* messages: its types (no message leaves the buffer), what becomes of a   *)
(* mixture, and that every step is one of LatestValue or leaves it alone.  *)
(***************************************************************************)
EXTENDS Mailbox, TLAPS

\* What a frame leaves of itself, without its tag, and its NUL fit the buffer,
\* when the frame is not shorter than its tag.
LEMMA KeptFits ==
    ASSUME NEW frame \in Frames, Kept(frame) - Tag >= 0
    PROVE  Kept(frame) - Tag \in 0..Size - 1
BY MailboxAssumption DEF Kept

\* The values everything starts with, and returns to with a restart, are well
\* typed.
LEMMA StartType ==
    /\ Blank \in [Cells -> [of : 0..Messages, nul : BOOLEAN]]
    /\ Listening \in [pc : HandlerPCs, n : 0..Messages, left : SUBSET Cells,
                      length : 0..Size - 1]
    /\ Looking \in [pc : SketchPCs, at : Cells, of : SUBSET (0..Messages)]
    /\ 0 \in 0..Messages
<1>1. 0 \in 0..Messages
  BY MailboxAssumption
<1>2. ASSUME NEW c \in Cells
      PROVE  [of |-> 0, nul |-> c = 1] \in [of : 0..Messages, nul : BOOLEAN]
  <2>1. (c = 1) \in BOOLEAN
    OBVIOUS
  <2> QED
    BY <1>1, <2>1
<1>3. Blank \in [Cells -> [of : 0..Messages, nul : BOOLEAN]]
  BY <1>2 DEF Blank
<1>4. Listening \in [pc : HandlerPCs, n : 0..Messages, left : SUBSET Cells,
                     length : 0..Size - 1]
  BY MailboxAssumption DEF Listening, HandlerPCs
<1>5. Looking \in [pc : SketchPCs, at : Cells, of : SUBSET (0..Messages)]
  BY MailboxAssumption DEF Looking, SketchPCs, Cells
<1> QED
  BY <1>1, <1>3, <1>4, <1>5

\* The initial state is well typed.
LEMMA InitType == Init => TypeOK
BY StartType DEF Init, TypeOK

\* A step of the handler keeps the types: what is left to copy lies in front
\* of the place of the NUL, and that in the buffer.
LEMMA HandlerType ==
    ASSUME TypeOK, Handler
    PROVE  TypeOK'
<1> USE MailboxAssumption DEF TypeOK
<1>1. CASE Receive
  <2>1. PICK frame \in Frames :
            /\ Kept(frame) - Tag >= 0
            /\ handler' = [pc |-> "copy", n |-> handler.n + 1,
                           left |-> 1..Kept(frame) - Tag,
                           length |-> Kept(frame) - Tag]
    BY <1>1 DEF Receive
  <2>2. Kept(frame) - Tag \in 0..Size - 1
    BY <2>1, KeptFits
  <2>3. 1..Kept(frame) - Tag \subseteq Cells
    BY <2>2 DEF Cells
  <2>4. handler.n + 1 \in 0..Messages
    BY <1>1 DEF Receive
  <2> QED
    BY <1>1, <2>1, <2>2, <2>3, <2>4 DEF Receive, HandlerPCs
<1>2. CASE Copy
  BY <1>2 DEF Copy, Write
<1>3. CASE Terminate
  BY <1>3 DEF Terminate, Write, HandlerStep, HandlerPCs, Cells
<1>4. CASE Announce
  BY <1>4 DEF Announce, HandlerStep, HandlerPCs
<1>5. CASE Overrun
  BY <1>5, StartType DEF Overrun
<1> QED
  BY <1>1, <1>2, <1>3, <1>4, <1>5 DEF Handler

\* A step of the sketch keeps the types.
LEMMA SketchType == TypeOK /\ Sketch => TypeOK'
<1> SUFFICES ASSUME TypeOK, Sketch PROVE TypeOK'
  OBVIOUS
<1> USE MailboxAssumption DEF TypeOK
<1>1. CASE Notice
  BY <1>1 DEF Notice, SketchPCs
<1>2. CASE Clear
  <2>1. sketch' \in [pc : SketchPCs, at : Cells, of : SUBSET (0..Messages)]
    BY <1>2 DEF Clear, SketchPCs, Cells
  <2> QED
    BY <1>2, <2>1 DEF Clear
<1>3. CASE Read
  <2> DEFINE cell == buffer[sketch.at]
             of == sketch.of \cup {cell.of}
             ended == cell.nul \/ sketch.at = Size
  <2>1. /\ sketch' = [pc |-> IF ended THEN "use" ELSE "read",
                      at |-> IF ended THEN 1 ELSE sketch.at + 1,
                      of |-> of]
        /\ seen' = IF ended /\ cell.nul /\ of = {cell.of} THEN cell.of ELSE seen
        /\ UNCHANGED <<buffer, is_rcv_new, handler, last>>
    BY <1>3 DEF Read
  <2>2. cell.of \in 0..Messages /\ of \in SUBSET (0..Messages)
    OBVIOUS
  <2>3. ~ended => sketch.at + 1 \in Cells
    BY DEF Cells
  <2>4. 1 \in Cells
    BY DEF Cells
  <2> HIDE DEF cell, of, ended
  <2>5. seen' \in 0..Messages
    BY <2>1, <2>2
  <2>6. sketch' \in [pc : SketchPCs, at : Cells, of : SUBSET (0..Messages)]
    BY <2>1, <2>2, <2>3, <2>4 DEF SketchPCs
  <2> QED
    BY <2>1, <2>5, <2>6
<1>4. CASE Use
  BY <1>4 DEF Use, SketchPCs
<1> QED
  BY <1>1, <1>2, <1>3, <1>4 DEF Sketch

\* Every variable keeps its type, so no message that is stored, however long
\* its frame, is written past the buffer.
THEOREM TypeCorrect == Spec => []TypeOK
<1>1. TypeOK /\ [Next]_vars => TypeOK'
  <2> SUFFICES ASSUME TypeOK, [Next]_vars PROVE TypeOK'
    OBVIOUS
  <2>1. CASE UNCHANGED vars
    BY <2>1 DEF TypeOK, vars
  <2> QED
    BY <2>1, HandlerType, SketchType DEF Next
<1> QED
  BY InitType, <1>1, PTL DEF Spec

-----------------------------------------------------------------------------
(* What the buffer holds, and what the sketch has of it.                   *)

\* While a message is copied the part copied is its own; afterwards the string
\* in the buffer is the message, and its NUL is the first.  A NUL further on is
\* left from an older message.
Copied ==
    /\ \A c \in Cells : /\ buffer[c].of <= handler.n
                        /\ buffer[c].nul => buffer[c].of <= last
    /\ handler.pc = "copy" =>
          /\ handler.n = last + 1 /\ handler.left \subseteq 1..handler.length
          /\ \A c \in 1..handler.length \ handler.left :
                buffer[c].of = handler.n /\ ~buffer[c].nul
    /\ handler.pc # "copy" =>
          /\ handler.n = last
          /\ \A c \in 1..handler.length + 1 :
                buffer[c].of = last /\ (buffer[c].nul <=> c = handler.length + 1)

\* With nothing on its way and nothing announced, what has been read is of the
\* last message, and reading has not passed its NUL.
UpToDate ==
    handler.pc = "ready" /\ ~is_rcv_new =>
        /\ sketch.of \subseteq {last}
        /\ sketch.pc = "read" => sketch.at <= handler.length + 1

\* A string begins with what was last written to the first cell, and that is
\* never older than a message read whole before.
Forward ==
    /\ seen <= buffer[1].of /\ seen <= last
    /\ sketch.pc = "read" =>
          sketch.at = 1 \/ \E n \in sketch.of : seen <= n /\ n <= buffer[1].of

MailInv == TypeOK /\ Copied /\ UpToDate /\ Forward

\* What is compared are numbers.
LEMMA MailNumbers ==
    ASSUME TypeOK
    PROVE  /\ handler.n \in Nat /\ handler.length \in 0..Size - 1
           /\ last \in Nat /\ seen \in Nat /\ Size \in Nat \ {0}
           /\ 1 \in Cells /\ sketch.at \in Cells
           /\ \A c \in Cells : buffer[c].of \in Nat
<1>1. Size \in Nat \ {0} /\ Messages \in Nat
  BY MailboxAssumption
<1>2. \A c \in Cells : buffer[c] \in [of : 0..Messages, nul : BOOLEAN]
  BY DEF TypeOK
<1>3. \A c \in Cells : buffer[c].of \in Nat
  BY <1>1, <1>2
<1>4. /\ handler.n \in Nat /\ handler.length \in 0..Size - 1
      /\ last \in Nat /\ seen \in Nat /\ sketch.at \in Cells
  BY <1>1 DEF TypeOK
<1> QED
  BY <1>1, <1>3, <1>4 DEF Cells

\* Nothing was received or read yet: the buffer holds the empty string.
LEMMA InitMail == Init => MailInv
<1> SUFFICES ASSUME Init PROVE MailInv
  OBVIOUS
<1>1. TypeOK /\ 1 \in Cells
  BY InitType, MailboxAssumption DEF Cells
<1>2. \A c \in Cells : buffer[c].of = 0 /\ (buffer[c].nul <=> c = 1)
  BY DEF Init, Blank
<1>3. /\ handler.pc = "ready" /\ handler.n = 0 /\ handler.length = 0
      /\ sketch.pc = "look" /\ sketch.of = {} /\ last = 0 /\ seen = 0
  BY DEF Init, Listening, Looking
<1>4. Copied
  BY <1>1, <1>2, <1>3 DEF Copied
<1>5. UpToDate /\ Forward
  BY <1>1, <1>2, <1>3 DEF UpToDate, Forward
<1> QED
  BY <1>1, <1>4, <1>5 DEF MailInv

\* Nor after a restart.
LEMMA OverrunMail == MailInv /\ Overrun => MailInv'
<1> SUFFICES ASSUME MailInv, Overrun PROVE MailInv'
  OBVIOUS
<1>1. TypeOK' /\ 1 \in Cells
  BY HandlerType, MailboxAssumption DEF MailInv, Handler, Cells
<1>2. \A c \in Cells : buffer'[c].of = 0 /\ (buffer'[c].nul <=> c = 1)
  BY DEF Overrun, Blank
<1>3. /\ handler'.pc = "ready" /\ handler'.n = 0 /\ handler'.length = 0
      /\ sketch'.pc = "look" /\ sketch'.of = {} /\ last' = 0 /\ seen' = 0
  BY DEF Overrun, Listening, Looking
<1>4. Copied'
  BY <1>1, <1>2, <1>3 DEF Copied
<1>5. UpToDate' /\ Forward'
  BY <1>1, <1>2, <1>3 DEF UpToDate, Forward
<1> QED
  BY <1>1, <1>4, <1>5 DEF MailInv

\* The handler writes its own message only, in front of the place of the NUL.
LEMMA HandlerMail == MailInv /\ Handler => MailInv'
<1> SUFFICES ASSUME MailInv, Handler PROVE MailInv'
  OBVIOUS
<1>1. TypeOK /\ TypeOK' /\ Copied /\ UpToDate /\ Forward
  BY HandlerType DEF MailInv
<1>2. /\ handler.n \in Nat /\ handler.length \in 0..Size - 1 /\ last \in Nat
      /\ seen \in Nat /\ Size \in Nat \ {0} /\ 1 \in Cells
      /\ \A c \in Cells : buffer[c].of \in Nat
  BY <1>1, MailNumbers
<1>3. CASE Receive
  <2>1. PICK frame \in Frames :
            /\ Kept(frame) - Tag >= 0
            /\ handler' = [pc |-> "copy", n |-> handler.n + 1,
                           left |-> 1..Kept(frame) - Tag,
                           length |-> Kept(frame) - Tag]
    BY <1>3 DEF Receive
  <2>2. UNCHANGED <<buffer, is_rcv_new, sketch, last, seen>>
        /\ handler.pc = "ready"
    BY <1>3 DEF Receive
  <2>3. Copied'
    BY <1>1, <1>2, <2>1, <2>2 DEF Copied
  <2> QED
    BY <1>1, <2>1, <2>2, <2>3 DEF UpToDate, Forward, MailInv
<1>4. CASE Copy
  <2>1. PICK c \in handler.left :
            /\ buffer' = [buffer EXCEPT ![c] = [of |-> handler.n, nul |-> FALSE]]
            /\ handler' = [handler EXCEPT !.left = @ \ {c}]
    BY <1>4 DEF Copy, Write
  <2>2. /\ UNCHANGED <<is_rcv_new, sketch, last, seen>> /\ handler.pc = "copy"
        /\ handler'.pc = "copy" /\ handler'.n = handler.n
        /\ handler'.length = handler.length /\ handler'.left = handler.left \ {c}
    BY <1>1, <1>4, <2>1 DEF Copy, TypeOK
  <2>3. c \in Cells /\ buffer'[c].of = handler.n /\ ~buffer'[c].nul
    BY <1>1, <2>1 DEF TypeOK
  <2>4. \A d \in Cells \ {c} : buffer'[d] = buffer[d]
    BY <1>1, <2>1 DEF TypeOK
  <2>5. 1..handler.length \subseteq Cells
    BY <1>2 DEF Cells
  <2>6. Copied'
    BY <1>1, <1>2, <2>2, <2>3, <2>4, <2>5 DEF Copied
  <2>7. buffer[1].of <= buffer'[1].of
    BY <1>1, <1>2, <2>3, <2>4 DEF Copied
  <2>8. buffer'[1].of \in Nat /\ sketch.of \subseteq Nat
    BY <1>1, <1>2, <2>3, <2>4 DEF TypeOK
  <2>9. Forward'
    BY <1>1, <1>2, <2>2, <2>7, <2>8 DEF Forward
  <2>10. UpToDate'
    BY <2>2 DEF UpToDate
  <2> QED
    BY <1>1, <2>6, <2>9, <2>10 DEF MailInv
<1>5. CASE Terminate
  <2> DEFINE c == handler.length + 1
  <2>1. /\ buffer' = [buffer EXCEPT ![c] = [of |-> handler.n, nul |-> TRUE]]
        /\ last' = handler.n /\ UNCHANGED <<is_rcv_new, sketch, seen>>
        /\ handler.pc = "copy" /\ handler.left = {}
    BY <1>5 DEF Terminate, Write
  <2>2. /\ handler'.pc = "announce" /\ handler'.n = handler.n
        /\ handler'.length = handler.length
    BY <1>1, <1>5 DEF Terminate, HandlerStep, TypeOK
  <2>3. c \in Cells /\ c \in Nat
    BY <1>2 DEF Cells
  <2>4. buffer'[c].of = handler.n /\ buffer'[c].nul
    BY <1>1, <2>1, <2>3 DEF TypeOK
  <2>5. \A d \in Cells \ {c} : buffer'[d] = buffer[d]
    BY <1>1, <2>1, <2>3 DEF TypeOK
  <2>6. \A d \in 1..c : d \in Cells /\ (d = c \/ d \in 1..handler.length)
    BY <1>2 DEF Cells
  <2>7. handler.n = last + 1
    BY <1>1, <2>1 DEF Copied
  <2> HIDE DEF c
  <2>8. \A d \in Cells : /\ buffer'[d].of <= handler.n
                         /\ buffer'[d].nul => buffer'[d].of <= handler.n
    BY <1>1, <1>2, <2>4, <2>5 DEF Copied
  <2>9. \A d \in 1..c : buffer'[d].of = handler.n /\ (buffer'[d].nul <=> d = c)
    <3> SUFFICES ASSUME NEW d \in 1..c
                 PROVE  buffer'[d].of = handler.n /\ (buffer'[d].nul <=> d = c)
      OBVIOUS
    <3>1. CASE d = c
      BY <2>4, <3>1
    <3>2. CASE d # c
      BY <1>1, <2>1, <2>5, <2>6, <3>2 DEF Copied
    <3> QED
      BY <3>1, <3>2
  <2>10. Copied'
    BY <2>1, <2>2, <2>8, <2>9 DEF Copied, c
  <2>11. buffer[1].of <= buffer'[1].of /\ buffer'[1].of \in Nat
    BY <1>1, <1>2, <2>4, <2>5 DEF Copied
  <2>12. sketch.of \subseteq Nat
    BY <1>1 DEF TypeOK
  <2>13. Forward'
    BY <1>1, <1>2, <2>1, <2>7, <2>11, <2>12 DEF Forward
  <2>14. UpToDate'
    BY <2>2 DEF UpToDate
  <2> QED
    BY <1>1, <2>10, <2>13, <2>14 DEF MailInv
<1>6. CASE Announce
  <2>1. /\ UNCHANGED <<buffer, sketch, last, seen>> /\ handler.pc = "announce"
        /\ is_rcv_new' /\ handler'.pc = "ready" /\ handler'.n = handler.n
        /\ handler'.length = handler.length
    BY <1>1, <1>6 DEF Announce, HandlerStep, TypeOK
  <2>2. Copied'
    BY <1>1, <2>1 DEF Copied
  <2> QED
    BY <1>1, <2>1, <2>2 DEF UpToDate, Forward, MailInv
<1> QED
  BY <1>3, <1>4, <1>5, <1>6, OverrunMail DEF Handler

\* Reading never takes seen back, nor past the first cell or the last message.
LEMMA ReadForward ==
    ASSUME MailInv, Read
    PROVE  /\ seen <= seen' /\ seen' <= buffer[1].of /\ seen' <= last
           /\ sketch'.pc = "read" => seen' = seen
           /\ \E n \in sketch'.of : seen <= n /\ n <= buffer[1].of
<1> DEFINE cell == buffer[sketch.at]
           of == sketch.of \cup {cell.of}
           ended == cell.nul \/ sketch.at = Size
<1>1. TypeOK /\ Copied /\ Forward
  BY DEF MailInv
<1>2. /\ last \in Nat /\ seen \in Nat /\ 1 \in Cells /\ sketch.at \in Cells
      /\ \A c \in Cells : buffer[c].of \in Nat
  BY <1>1, MailNumbers
<1>3. /\ sketch' = [pc |-> IF ended THEN "use" ELSE "read",
                    at |-> IF ended THEN 1 ELSE sketch.at + 1,
                    of |-> of]
      /\ seen' = IF ended /\ cell.nul /\ of = {cell.of} THEN cell.of ELSE seen
      /\ sketch.pc = "read"
  BY DEF Read
<1>4. cell.of \in Nat /\ (cell.nul => cell.of <= last)
  BY <1>1, <1>2 DEF Copied
<1>5. \E n \in of : seen <= n /\ n <= buffer[1].of
  BY <1>1, <1>2, <1>3 DEF Forward
<1> HIDE DEF cell, of, ended
<1>6. seen <= seen' /\ seen' <= buffer[1].of /\ seen' <= last
  BY <1>1, <1>2, <1>3, <1>4, <1>5 DEF Forward
<1>7. sketch'.pc = "read" => seen' = seen
  BY <1>3
<1> QED
  BY <1>3, <1>5, <1>6, <1>7

\* What a step of the sketch reads is judged by what the buffer holds.
LEMMA SketchMail == MailInv /\ Sketch => MailInv'
<1> SUFFICES ASSUME MailInv, Sketch PROVE MailInv'
  OBVIOUS
<1>1. TypeOK /\ TypeOK' /\ Copied /\ UpToDate /\ Forward
  BY SketchType DEF MailInv
<1>2. /\ handler.n \in Nat /\ handler.length \in 0..Size - 1 /\ last \in Nat
      /\ seen \in Nat /\ Size \in Nat \ {0} /\ 1 \in Cells
      /\ \A c \in Cells : buffer[c].of \in Nat
      /\ sketch.at \in Cells
  BY <1>1, MailNumbers
<1>3. buffer' = buffer /\ handler' = handler /\ last' = last
  BY DEF Sketch, Notice, Clear, Read, Use
<1>4. Copied'
  BY <1>1, <1>3 DEF Copied
<1>5. CASE Notice
  BY <1>1, <1>3, <1>4, <1>5 DEF Notice, UpToDate, Forward, MailInv, TypeOK
<1>6. CASE Clear
  BY <1>1, <1>2, <1>3, <1>4, <1>6 DEF Clear, UpToDate, Forward, MailInv
<1>7. CASE Read
  <2> DEFINE cell == buffer[sketch.at]
             of == sketch.of \cup {cell.of}
             ended == cell.nul \/ sketch.at = Size
  <2>1. /\ sketch' = [pc |-> IF ended THEN "use" ELSE "read",
                      at |-> IF ended THEN 1 ELSE sketch.at + 1,
                      of |-> of]
        /\ seen' = IF ended /\ cell.nul /\ of = {cell.of} THEN cell.of ELSE seen
        /\ is_rcv_new' = is_rcv_new /\ sketch.pc = "read"
    BY <1>7 DEF Read
  <2>2. UpToDate'
    <3> SUFFICES ASSUME handler.pc = "ready", ~is_rcv_new
                 PROVE  /\ of \subseteq {last}
                        /\ ~ended => sketch.at + 1 <= handler.length + 1
      BY <1>3, <2>1 DEF UpToDate
    <3>1. sketch.at \in 1..handler.length + 1 /\ sketch.of \subseteq {last}
      BY <1>1, <1>2, <2>1 DEF UpToDate, Cells
    <3>2. cell.of = last /\ (cell.nul <=> sketch.at = handler.length + 1)
      BY <1>1, <3>1 DEF Copied
    <3> QED
      BY <1>2, <3>1, <3>2
  <2>3. Forward'
    BY <1>3, <1>7, ReadForward DEF Forward
  <2> QED
    BY <1>1, <1>4, <2>2, <2>3 DEF MailInv
<1>8. CASE Use
  BY <1>1, <1>3, <1>4, <1>8 DEF Use, UpToDate, Forward, MailInv, TypeOK
<1> QED
  BY <1>5, <1>6, <1>7, <1>8 DEF Sketch

\* The strengthened invariant holds in every behaviour.
LEMMA MailInvariant == Spec => []MailInv
<1>1. MailInv /\ [Next]_vars => MailInv'
  <2> SUFFICES ASSUME MailInv, [Next]_vars PROVE MailInv'
    OBVIOUS
  <2>1. CASE UNCHANGED vars
    BY <2>1 DEF MailInv, TypeOK, Copied, UpToDate, Forward, vars
  <2> QED
    BY <2>1, HandlerMail, SketchMail DEF Next
<1> QED
  BY InitMail, <1>1, PTL DEF Spec

\* A mixture or an old message is never the last word.
THEOREM MixtureReplaced == Spec => []MixtureIsReplaced
<1>1. MailInv => MixtureIsReplaced
  <2> SUFFICES ASSUME UpToDate, sketch.of # {}, ~is_rcv_new,
                      handler.pc = "ready"
               PROVE  sketch.of = {last}
    BY DEF MailInv, MixtureIsReplaced
  <2> QED
    BY DEF UpToDate
<1> QED
  BY MailInvariant, <1>1, PTL

\* Every step of the mailbox is a step of LatestValue or leaves its state as
\* it is: values come one by one, and what is read whole never gets older,
\* restarts by frames that are too short aside.
THEOREM ImplementsSafely == Spec => Promise!SafeSpec
<1>1. Init => Promise!Init
  BY DEF Init, Promise!Init
<1>2. MailInv /\ [Next]_vars => [Promise!Next]_(Promise!vars)
  <2> SUFFICES ASSUME MailInv, [Next]_vars
               PROVE  \/ last < Messages /\ last' = last + 1 /\ seen' = seen
                      \/ \E n \in seen + 1..last : seen' = n /\ last' = last
                      \/ last' = 0 /\ seen' = 0
                      \/ last' = last /\ seen' = seen
    BY DEF Promise!Next, Promise!Put, Promise!Get, Promise!Restart,
           Promise!vars
  <2>1. /\ last \in Nat /\ seen \in Nat /\ seen' \in Nat
        /\ handler.n \in 0..Messages /\ Messages \in Nat
    <3>1. TypeOK /\ TypeOK'
      BY HandlerMail, SketchMail DEF MailInv, Next, vars, TypeOK
    <3> QED
      BY <3>1, MailboxAssumption DEF TypeOK
  <2>2. CASE Terminate
    <3>1. handler.n = last + 1 /\ last' = handler.n /\ seen' = seen
      BY <2>2 DEF Terminate, MailInv, Copied
    <3> QED
      BY <2>1, <3>1
  <2>3. CASE Read
    <3>1. last' = last /\ seen <= seen' /\ seen' <= last
      BY <2>3, ReadForward DEF Read
    <3> QED
      BY <2>1, <3>1
  <2>4. CASE Overrun
    BY <2>4 DEF Overrun
  <2>5. CASE ~Terminate /\ ~Read /\ ~Overrun
    BY <2>5 DEF Next, Handler, Sketch, Receive, Copy, Announce, Notice, Clear,
                Use, vars
  <2> QED
    BY <2>2, <2>3, <2>4, <2>5
<1> QED
  BY <1>1, <1>2, MailInvariant, PTL DEF Spec, Promise!SafeSpec
=============================================================================
