------------------------------ MODULE ByteRing ------------------------------
(***************************************************************************)
(* The FreeRTOS byte ring buffer (RINGBUF_TYPE_BYTEBUF) as the Dialogflow  *)
(* blocks use it.  Only amounts are kept, in a unit the user chooses: what *)
(* is stored and not yet received, what a reader has received and not yet  *)
(* returned (its space is not free, and a byte buffer hands out no second  *)
(* item before the first is returned), and the read offset, since an item  *)
(* never runs past the end of the buffer.                                  *)
(***************************************************************************)
EXTENDS Integers

Rings(size) == [stored : 0..size, held : 0..size, rd : 0..size - 1]

EmptyRing == [stored |-> 0, held |-> 0, rd |-> 0]

Least(a, b) == IF a <= b THEN a ELSE b

\* xRingbufferGetCurFreeSize
FreeSize(r, size) == size - r.stored - r.held

\* xRingbufferSend: all of the item or, after the timeout, nothing.
Put(r, n, size) ==
    IF n <= FreeSize(r, size) THEN [r EXCEPT !.stored = @ + n] ELSE r

\* The stored bytes a single item can cover.
Contiguous(r, size) == Least(r.stored, size - r.rd)

\* A receiver would get an item now.
Receivable(r) == r.stored > 0 /\ r.held = 0

\* xRingbufferReceiveUpTo of n bytes, n at most Contiguous.
Take(r, n, size) ==
    [stored |-> r.stored - n, held |-> n,
     rd |-> IF r.rd + n = size THEN 0 ELSE r.rd + n]

\* vRingbufferReturnItem
Return(r) == [r EXCEPT !.held = 0]
=============================================================================
