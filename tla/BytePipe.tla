----------------------------- MODULE BytePipe -----------------------------
(***************************************************************************)
(* What a recording promises to the websocket it feeds: bytes are written  *)
(* until enough of them are or the writer stops, each one written is on    *)
(* its way until it is sent, once, and none is thrown away before the      *)
(* writer has stopped.                                                     *)
(***************************************************************************)
EXTENDS Integers

CONSTANTS
    Most,    \* bytes a write brings, at most
    Enough   \* no write once so many were written

VARIABLES written, transit, sent, open

vars == <<written, transit, sent, open>>

Init == written = 0 /\ transit = 0 /\ sent = 0 /\ open = TRUE

Write ==
    /\ open /\ written < Enough
    /\ \E n \in 1..Most : written' = written + n /\ transit' = transit + n
    /\ UNCHANGED <<sent, open>>

Send ==
    /\ \E n \in 1..transit : transit' = transit - n /\ sent' = sent + n
    /\ UNCHANGED <<written, open>>

Stop == open /\ open' = FALSE /\ UNCHANGED <<written, transit, sent>>

Discard ==
    /\ ~open
    /\ \E n \in 1..transit : transit' = transit - n
    /\ UNCHANGED <<written, sent, open>>

Next == Write \/ Send \/ Stop \/ Discard

Spec == Init /\ [][Next]_vars
=============================================================================
