------------------------------ MODULE Mailbox ------------------------------
(***************************************************************************)
(* One of the three text mailboxes of DialogflowBlock (rcv_intent,         *)
(* rcv_response, rcv_cmd, each with its flag is_rcv_new_...).  The         *)
(* websocket client's task copies a message into the buffer, ends it with  *)
(* NUL and sets the flag; the sketch, on the other core, looks at the      *)
(* flag, and get_... clears it and hands out the buffer itself, which the  *)
(* sketch then reads as a string.  Nothing keeps the two apart.  A cell    *)
(* holds the number of the message it was written for, and whether it is   *)
(* the NUL.  The BLE variant copies with strncpy and drops what is too     *)
(* short to hold a text; it is otherwise the same.                         *)
(***************************************************************************)
EXTENDS Integers, FiniteSets

CONSTANTS
    Size,      \* 256: bytes of the buffer
    Longest,   \* 256: more of a text frame is cut off
    Tag,       \* 2: bytes in front of the text
    Frames,    \* lengths of text frames, of which nothing is known
    Messages   \* bound: messages received

ASSUME MailboxAssumption ==
    /\ {Size, Tag, Longest} \subseteq Nat \ {0} /\ Messages \in Nat
    /\ Tag <= Longest /\ Longest - Tag < Size
    /\ Frames \subseteq Nat

VARIABLES
    buffer, is_rcv_new,
    handler,   \* pc, the message it copies, and the cells still to write
    sketch,    \* pc, the cell it reads next, the messages it read cells of
    last,      \* auxiliary: the last message complete in the buffer
    seen       \* auxiliary: the last message read whole

vars == <<buffer, is_rcv_new, handler, sketch, last, seen>>

Cells == 1..Size
HandlerPCs == {"ready", "copy", "announce"}
SketchPCs == {"look", "clear", "read", "use"}

\* The constructor ends the empty string; the rest of the buffer is whatever
\* the heap held, here never a NUL.
Blank == [c \in Cells |-> [of |-> 0, nul |-> c = 1]]

Listening == [pc |-> "ready", n |-> 0, left |-> {}, length |-> 0]

Looking == [pc |-> "look", at |-> 1, of |-> {}]

Init ==
    /\ buffer = Blank /\ is_rcv_new = FALSE
    /\ handler = Listening /\ sketch = Looking
    /\ last = 0 /\ seen = 0

-----------------------------------------------------------------------------
(* websocket_event_handler: I, R or S                                      *)

HandlerStep(next) == handler' = [handler EXCEPT !.pc = next]

\* Mutated: long frames are not cut.
KeptWhole(length) == length

Kept(length) == IF length < Longest THEN length ELSE Longest

Receive ==
    /\ handler.pc = "ready" /\ handler.n < Messages
    /\ \E frame \in Frames :
         LET length == Kept(frame) - Tag
         IN  /\ length >= 0
             /\ handler' = [pc |-> "copy", n |-> handler.n + 1,
                            left |-> 1..length, length |-> length]
    /\ UNCHANGED <<buffer, is_rcv_new, sketch, last, seen>>

\* No lower bound is checked: of a frame shorter than its tag a negative number
\* of bytes is to be copied, which memcpy takes for nearly all of the address
\* space.  It faults where the memory ends, and the board starts again.
Overrun ==
    /\ handler.pc = "ready" /\ handler.n < Messages
    /\ \E frame \in Frames : Kept(frame) < Tag
    /\ buffer' = Blank /\ is_rcv_new' = FALSE
    /\ handler' = Listening /\ sketch' = Looking
    /\ last' = 0 /\ seen' = 0

Write(c, nul) ==
    buffer' = [buffer EXCEPT ![c] = [of |-> handler.n, nul |-> nul]]

\* memcpy, in any order.
Copy ==
    /\ handler.pc = "copy"
    /\ \E c \in handler.left :
         /\ Write(c, FALSE)
         /\ handler' = [handler EXCEPT !.left = @ \ {c}]
    /\ UNCHANGED <<is_rcv_new, sketch, last, seen>>

Terminate ==
    /\ handler.pc = "copy" /\ handler.left = {}
    /\ Write(handler.length + 1, TRUE) /\ last' = handler.n
    /\ HandlerStep("announce")
    /\ UNCHANGED <<is_rcv_new, sketch, seen>>

Announce ==
    /\ handler.pc = "announce"
    /\ is_rcv_new' = TRUE
    /\ HandlerStep("ready")
    /\ UNCHANGED <<buffer, sketch, last, seen>>

Handler == Receive \/ Overrun \/ Copy \/ Terminate \/ Announce

-----------------------------------------------------------------------------
(* The sketch                                                              *)

\* if (is_rcv_new_...)
Notice ==
    /\ sketch.pc = "look" /\ is_rcv_new
    /\ sketch' = [sketch EXCEPT !.pc = "clear"]
    /\ UNCHANGED <<buffer, is_rcv_new, handler, last, seen>>

\* get_...: the flag is cleared before anything is read.
Clear ==
    /\ sketch.pc = "clear"
    /\ is_rcv_new' = FALSE
    /\ sketch' = [pc |-> "read", at |-> 1, of |-> {}]
    /\ UNCHANGED <<buffer, handler, last, seen>>

\* The returned string is read until its NUL (here not past the buffer).
Read ==
    /\ sketch.pc = "read"
    /\ LET cell == buffer[sketch.at]
           of == sketch.of \cup {cell.of}
           ended == cell.nul \/ sketch.at = Size
       IN  /\ sketch' = [pc |-> IF ended THEN "use" ELSE "read",
                         at |-> IF ended THEN 1 ELSE sketch.at + 1,
                         of |-> of]
           /\ seen' = IF ended /\ cell.nul /\ of = {cell.of} THEN cell.of
                                                             ELSE seen
    /\ UNCHANGED <<buffer, is_rcv_new, handler, last>>

\* Mutated: the flag is cleared once the string has been used.
UseAndClear ==
    /\ sketch.pc = "use"
    /\ is_rcv_new' = FALSE
    /\ sketch' = [sketch EXCEPT !.pc = "look"]
    /\ UNCHANGED <<buffer, handler, last, seen>>

Use ==
    /\ sketch.pc = "use"
    /\ sketch' = [sketch EXCEPT !.pc = "look"]
    /\ UNCHANGED <<buffer, is_rcv_new, handler, last, seen>>

Sketch == Notice \/ Clear \/ Read \/ Use

Next == Handler \/ Sketch

Spec == Init /\ [][Next]_vars

\* The handler finishes what it began, and the sketch goes on looking.
FairSpec == Spec /\ WF_vars(Copy \/ Terminate \/ Announce) /\ WF_vars(Sketch)

-----------------------------------------------------------------------------
(* Properties.                                                             *)

\* Every variable keeps its type; a message that is stored, and its NUL, fit
\* the buffer.
TypeOK ==
    /\ buffer \in [Cells -> [of : 0..Messages, nul : BOOLEAN]]
    /\ is_rcv_new \in BOOLEAN
    /\ handler \in [pc : HandlerPCs, n : 0..Messages, left : SUBSET Cells,
                    length : 0..Size - 1]
    /\ sketch \in [pc : SketchPCs, at : Cells, of : SUBSET (0..Messages)]
    /\ last \in 0..Messages /\ seen \in 0..Messages

\* What the sketch has read may be a mixture of messages, since the buffer is
\* written under its hands, but a mixture, or an old message, is never the last
\* word: a newer one is then being copied or has been announced.
MixtureIsReplaced ==
    sketch.pc = "look" /\ sketch.of # {} =>
        sketch.of = {last} \/ is_rcv_new \/ handler.pc # "ready"

\* The mailbox keeps its promise: what is read whole never gets older, and the
\* last message is read whole, although flag and buffer are separate, unless a
\* frame that is too short restarts the board.
Promise == INSTANCE LatestValue WITH newest <- last, got <- seen

ImplementsLatestValue == Promise!Spec
=============================================================================
