------------------------------- MODULE EspNow -------------------------------
(***************************************************************************)
(* esp32_broadcast.h: boards send each other packets of an id and up to    *)
(* four numbers by ESP-NOW.  The radio task's OnDataRecv copies a packet   *)
(* over ReciveData and sets recive_ok; the sketch, on the other core, asks *)
(* esp_available and takes the numbers with esp_read, which leaves a 0     *)
(* behind.  Packets may be lost on the air and come at any pace.  A number *)
(* of packet n is the value n; 0 is the number the sender did not give.    *)
(***************************************************************************)
EXTENDS Integers

CONSTANTS
    Fields,   \* 1..4, the numbers of a packet: d1 to d4
    Ids,      \* of the boards that send
    Packets   \* bound: packets received

ASSUME PacketAssumption == Fields \subseteq Nat \ {0} /\ Packets \in Nat

VARIABLES
    ReciveData,  \* id and numbers
    recive_ok,
    radio,       \* pc, the packet and the words of it still to be copied
    sketch,      \* pc, the id asked for, numbers to read, the field and value
                 \* esp_read has loaded, the packets this round was read from
    got,         \* auxiliary: per field, the last packet it was read of
    wiped        \* auxiliary: fields zeroed after they were written, unread

vars == <<ReciveData, recive_ok, radio, sketch, got, wiped>>

Any == "any"
NoOne == "no one"

\* The words of a packet: its id and its numbers.
Id == 0
Words == Fields \cup {Id}

RadioPCs == {"idle", "copy"}
SketchPCs == {"ask", "match", "clear", "read", "zero"}

Init ==
    /\ ReciveData = [id |-> NoOne, d |-> [f \in Fields |-> 0]]
    /\ recive_ok = FALSE
    /\ radio = [pc |-> "idle", n |-> 0, id |-> NoOne, given |-> {}, left |-> {}]
    /\ sketch = [pc |-> "ask", id |-> Any, left |-> {}, field |-> 0,
                 value |-> 0, of |-> {}]
    /\ got = [f \in Fields |-> 0] /\ wiped = {}

-----------------------------------------------------------------------------
(* OnDataRecv                                                              *)

\* A packet comes from a board whose esp_send was given some of the numbers,
\* the first ones, and fills the others with 0.
Receive ==
    /\ radio.pc = "idle" /\ radio.n < Packets
    /\ \E id \in Ids, first \in Fields :
         radio' = [pc |-> "copy", n |-> radio.n + 1, id |-> id,
                   given |-> {f \in Fields : f <= first},
                   left |-> Words]
    /\ UNCHANGED <<ReciveData, recive_ok, sketch, got, wiped>>

CopyId ==
    /\ radio.pc = "copy" /\ Id \in radio.left
    /\ ReciveData' = [ReciveData EXCEPT !.id = radio.id]
    /\ radio' = [radio EXCEPT !.left = @ \ {Id}]
    /\ UNCHANGED <<recive_ok, sketch, got, wiped>>

CopyNumber ==
    /\ radio.pc = "copy"
    /\ \E f \in radio.left \cap Fields :
         /\ ReciveData' = [ReciveData EXCEPT !.d[f] =
                              IF f \in radio.given THEN radio.n ELSE 0]
         /\ radio' = [radio EXCEPT !.left = @ \ {f}]
         /\ wiped' = wiped \ {f}
    /\ UNCHANGED <<recive_ok, sketch, got>>

Announce ==
    /\ radio.pc = "copy" /\ radio.left = {}
    /\ radio' = [radio EXCEPT !.pc = "idle"]
    /\ recive_ok' = TRUE
    /\ UNCHANGED <<ReciveData, sketch, got, wiped>>

Radio == Receive \/ CopyId \/ CopyNumber \/ Announce

-----------------------------------------------------------------------------
(* The sketch                                                              *)

\* esp_available() or esp_available(id): the flag is looked at, ...
Ask ==
    /\ sketch.pc = "ask" /\ recive_ok
    /\ \E id \in Ids \cup {Any} :
         sketch' = [sketch EXCEPT !.id = id, !.pc =
                       IF id = Any THEN "clear" ELSE "match"]
    /\ UNCHANGED <<ReciveData, recive_ok, radio, got, wiped>>

\* ... then the id, ...
Match ==
    /\ sketch.pc = "match"
    /\ sketch' = [sketch EXCEPT !.pc =
                      IF ReciveData.id = sketch.id THEN "clear" ELSE "ask"]
    /\ UNCHANGED <<ReciveData, recive_ok, radio, got, wiped>>

\* ... and the flag is cleared.
Clear ==
    /\ sketch.pc = "clear"
    /\ recive_ok' = FALSE
    /\ sketch' = [sketch EXCEPT !.pc = "read", !.left = Fields, !.of = {}]
    /\ UNCHANGED <<ReciveData, radio, got, wiped>>

\* esp_read: the number is loaded, then set to 0.
Load ==
    /\ sketch.pc = "read"
    /\ \E f \in sketch.left :
         LET value == ReciveData.d[f]
         IN  sketch' = [sketch EXCEPT !.pc = "zero", !.field = f,
                                      !.value = value,
                                      !.of = @ \cup ({value} \ {0})]
    /\ UNCHANGED <<ReciveData, recive_ok, radio, got, wiped>>

\* What esp_read leaves in the field.  Mutated: the number itself; a mark.
LeftAsItIs(f) == ReciveData.d[f]

LeftMarked(f) == -1

LeftBehind(f) == 0

Zero ==
    /\ sketch.pc = "zero"
    /\ LET f == sketch.field
       IN  /\ ReciveData' = [ReciveData EXCEPT !.d[f] = LeftBehind(f)]
           /\ sketch' = [sketch EXCEPT !.pc = "read", !.left = @ \ {f}]
           /\ got' = IF sketch.value = 0 THEN got
                     ELSE [got EXCEPT ![f] = sketch.value]
           /\ wiped' = IF ReciveData.d[f] \in {0, sketch.value} THEN wiped
                       ELSE wiped \cup {f}
    /\ UNCHANGED <<recive_ok, radio>>

\* Mutated: the flag is cleared when all has been read.
RoundDoneAndClear ==
    /\ sketch.pc = "read" /\ sketch.left = {}
    /\ recive_ok' = FALSE
    /\ sketch' = [sketch EXCEPT !.pc = "ask"]
    /\ UNCHANGED <<ReciveData, radio, got, wiped>>

RoundDone ==
    /\ sketch.pc = "read" /\ sketch.left = {}
    /\ sketch' = [sketch EXCEPT !.pc = "ask"]
    /\ UNCHANGED <<ReciveData, recive_ok, radio, got, wiped>>

Sketch == Ask \/ Match \/ Clear \/ Load \/ Zero \/ RoundDone

Next == Radio \/ Sketch

Spec == Init /\ [][Next]_vars

-----------------------------------------------------------------------------
(* Properties.                                                             *)

\* Every variable keeps its type.
TypeOK ==
    /\ ReciveData \in [id : Ids \cup {NoOne}, d : [Fields -> 0..Packets]]
    /\ recive_ok \in BOOLEAN
    /\ radio \in [pc : RadioPCs, n : 0..Packets, id : Ids \cup {NoOne},
                  given : SUBSET Fields, left : SUBSET Words]
    /\ sketch \in [pc : SketchPCs, id : Ids \cup {Any}, left : SUBSET Fields,
                   field : Fields \cup {0}, value : 0..Packets,
                   of : SUBSET (1..Packets)]
    /\ got \in [Fields -> 0..Packets] /\ wiped \in SUBSET Fields

\* No number of a packet is handed to the sketch twice, and none after a newer
\* one of its field, although the radio writes between esp_read's load and its
\* zeroing.
EachNumberOnce ==
    sketch.pc = "zero" /\ sketch.value # 0 => sketch.value > got[sketch.field]

\* When the sketch has nothing more to do, it has read every number of the last
\* packet, but for those the zeroing of an older number hit: a packet that comes
\* while recive_ok is tested, cleared or acted on is not forgotten.
LastPacketRead ==
    radio.pc = "idle" /\ ~recive_ok /\ sketch.pc = "ask" =>
        \A f \in radio.given : got[f] = radio.n \/ f \in wiped

\* The numbers of one round may be of several packets, or of an old one, but
\* only if a newer packet is just being copied or announces itself afterwards.
\* (The id is not among them: esp_available(id) may match the id of a packet the
\* next one replaces before the flag is cleared.)
MixtureIsReplaced ==
    sketch.pc = "ask" =>
        sketch.of \subseteq {radio.n} \/ recive_ok \/ radio.pc # "idle"
=============================================================================
