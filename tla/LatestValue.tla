---------------------------- MODULE LatestValue ----------------------------
(***************************************************************************)
(* What a mailbox promises: values 1, 2, ... are put in it, a new one      *)
(* replacing the one before; the reader may skip values, but what it got   *)
(* whole never gets older, and when values stop coming it gets the last.   *)
(* A restart empties the mailbox and begins the count again.               *)
(***************************************************************************)
EXTENDS Integers

CONSTANT Messages  \* bound: values put in

VARIABLES newest, got

vars == <<newest, got>>

Init == newest = 0 /\ got = 0

Put == newest < Messages /\ newest' = newest + 1 /\ UNCHANGED got

Get == \E n \in got + 1..newest : got' = n /\ UNCHANGED newest

CatchUp == got < newest /\ got' = newest /\ UNCHANGED newest

Restart == newest' = 0 /\ got' = 0

Next == Put \/ Get \/ Restart

SafeSpec == Init /\ [][Next]_vars

Spec == SafeSpec /\ WF_vars(CatchUp)
=============================================================================
