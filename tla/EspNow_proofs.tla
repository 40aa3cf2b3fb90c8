---------------------------- MODULE EspNow_proofs ----------------------------
(***************************************************************************)
(* The safety of the ESP-NOW packet buffer for any number of fields,       *)
(* boards and packets, wherever the radio's words fall between the steps   *)
(* of esp_available and esp_read.                                          *)
(***************************************************************************)
EXTENDS EspNow, TLAPS

\* The field a number was loaded of is one.
FieldLoaded == sketch.pc = "zero" => sketch.field \in Fields

\* The initial state is well typed.
LEMMA InitType == Init => TypeOK /\ FieldLoaded
<1> SUFFICES ASSUME Init PROVE TypeOK /\ FieldLoaded
  OBVIOUS
<1> USE PacketAssumption DEF Init
<1>1. ReciveData \in [id : Ids \cup {NoOne}, d : [Fields -> 0..Packets]]
  OBVIOUS
<1>2. radio \in [pc : RadioPCs, n : 0..Packets, id : Ids \cup {NoOne},
                 given : SUBSET Fields, left : SUBSET Words]
  BY DEF RadioPCs
<1>3. sketch \in [pc : SketchPCs, id : Ids \cup {Any}, left : SUBSET Fields,
                  field : Fields \cup {0}, value : 0..Packets,
                  of : SUBSET (1..Packets)]
  BY DEF SketchPCs
<1> QED
  BY <1>1, <1>2, <1>3 DEF TypeOK, FieldLoaded

\* A step of the radio keeps the types.
LEMMA RadioType ==
    ASSUME TypeOK, FieldLoaded, Radio
    PROVE  TypeOK' /\ FieldLoaded'
<1> USE PacketAssumption DEF TypeOK, FieldLoaded
<1>1. CASE Receive
  <2>1. PICK id \in Ids, first \in Fields :
            radio' = [pc |-> "copy", n |-> radio.n + 1, id |-> id,
                      given |-> {f \in Fields : f <= first}, left |-> Words]
    BY <1>1 DEF Receive
  <2>2. radio.n + 1 \in 0..Packets
    BY <1>1 DEF Receive
  <2> QED
    BY <1>1, <2>1, <2>2 DEF Receive, RadioPCs
<1>2. CASE CopyId
  BY <1>2 DEF CopyId
<1>3. CASE CopyNumber
  BY <1>3 DEF CopyNumber
<1>4. CASE Announce
  BY <1>4 DEF Announce, RadioPCs
<1> QED
  BY <1>1, <1>2, <1>3, <1>4 DEF Radio

\* A step of the sketch keeps the types.
LEMMA SketchType ==
    ASSUME TypeOK, FieldLoaded, Sketch
    PROVE  TypeOK' /\ FieldLoaded'
<1> USE PacketAssumption DEF TypeOK, FieldLoaded, SketchPCs
<1>1. CASE Ask
  BY <1>1 DEF Ask
<1>2. CASE Match
  BY <1>2 DEF Match
<1>3. CASE Clear
  BY <1>3 DEF Clear
<1>4. CASE Load
  <2>1. PICK f \in sketch.left :
            sketch' = [sketch EXCEPT !.pc = "zero", !.field = f,
                          !.value = ReciveData.d[f],
                          !.of = @ \cup ({ReciveData.d[f]} \ {0})]
    BY <1>4 DEF Load
  <2>2. ReciveData.d[f] \in 0..Packets /\ f \in Fields
    BY <2>1
  <2>3. {ReciveData.d[f]} \ {0} \subseteq 1..Packets
    BY <2>2
  <2> QED
    BY <1>4, <2>1, <2>2, <2>3 DEF Load
<1>5. CASE Zero
  <2>1. ReciveData' = [ReciveData EXCEPT !.d[sketch.field] = 0]
    BY <1>5 DEF Zero, LeftBehind
  <2>2. /\ sketch' = [sketch EXCEPT !.pc = "read",
                                     !.left = @ \ {sketch.field}]
        /\ UNCHANGED <<recive_ok, radio>>
    BY <1>5 DEF Zero
  <2>3. got' = IF sketch.value = 0 THEN got
               ELSE [got EXCEPT ![sketch.field] = sketch.value]
    BY <1>5 DEF Zero
  <2>4. wiped' = wiped \/ wiped' = wiped \cup {sketch.field}
    BY <1>5 DEF Zero
  <2>5. sketch.pc = "zero"
    BY <1>5 DEF Zero
  <2>6. ReciveData' \in [id : Ids \cup {NoOne}, d : [Fields -> 0..Packets]]
    BY <2>1
  <2>7. got' \in [Fields -> 0..Packets]
    BY <2>3
  <2>8. sketch' \in [pc : SketchPCs, id : Ids \cup {Any},
                     left : SUBSET Fields, field : Fields \cup {0},
                     value : 0..Packets, of : SUBSET (1..Packets)]
    BY <2>2
  <2>9. wiped' \in SUBSET Fields /\ sketch'.pc = "read"
    BY <2>2, <2>4, <2>5
  <2> QED
    BY <2>2, <2>6, <2>7, <2>8, <2>9
<1>6. CASE RoundDone
  BY <1>6 DEF RoundDone
<1> QED
  BY <1>1, <1>2, <1>3, <1>4, <1>5, <1>6 DEF Sketch

\* Every variable keeps its type.
THEOREM TypeCorrect == Spec => []TypeOK
<1>1. TypeOK /\ FieldLoaded /\ [Next]_vars => TypeOK' /\ FieldLoaded'
  <2> SUFFICES ASSUME TypeOK, FieldLoaded, [Next]_vars
               PROVE  TypeOK' /\ FieldLoaded'
    OBVIOUS
  <2>1. CASE UNCHANGED vars
    BY <2>1 DEF TypeOK, FieldLoaded, vars
  <2> QED
    BY <2>1, RadioType, SketchType DEF Next
<1> QED
  BY InitType, <1>1, PTL DEF Spec

-----------------------------------------------------------------------------
(* What the fields hold, and what of it the sketch has.                    *)

Fetched(f) == sketch.pc = "zero" /\ sketch.field = f

\* A field not yet written by the packet being copied holds an older one, and
\* one that was written holds that packet's number or 0.
Written ==
    /\ radio.pc = "idle" => radio.left = {}
    /\ \A f \in Fields :
         IF f \in radio.left
         THEN /\ ReciveData.d[f] < radio.n /\ got[f] < radio.n
              /\ Fetched(f) => sketch.value < radio.n
         ELSE ReciveData.d[f] \in {0, radio.n}

\* A number still to be read is of a newer packet than the last one read.
Unread ==
    \A f \in Fields :
        /\ got[f] <= radio.n
        /\ ReciveData.d[f] = 0 \/ got[f] < ReciveData.d[f]
        /\ Fetched(f) => /\ sketch.value <= radio.n
                         /\ sketch.value = 0 \/ got[f] < sketch.value

\* A number of the packet that was copied has been read, is in its field or in
\* the sketch's hands, or the zeroing of an older one hit it.
Traced ==
    \A f \in radio.given :
        /\ radio.n >= 1
        /\ \/ f \in radio.left \/ f \in wiped
           \/ got[f] = radio.n \/ ReciveData.d[f] = radio.n
           \/ Fetched(f) /\ sketch.value = radio.n

\* With no packet on its way and none announced, the numbers that have not been
\* read are those the present round has still to read.
Pending ==
    radio.pc = "idle" /\ ~recive_ok =>
        /\ sketch.of \subseteq {radio.n}
        /\ \A f \in radio.given :
             \/ f \in wiped \/ got[f] = radio.n
             \/ sketch.pc \in {"read", "zero"} /\ f \in sketch.left

PacketInv == TypeOK /\ FieldLoaded /\ Written /\ Unread /\ Traced /\ Pending

\* What is compared are numbers.
LEMMA PacketNumbers ==
    ASSUME TypeOK
    PROVE  /\ Packets \in Nat /\ radio.n \in Nat /\ sketch.value \in Nat
           /\ radio.given \subseteq Fields /\ 0 \notin Fields
           /\ \A f \in Fields : ReciveData.d[f] \in Nat /\ got[f] \in Nat
<1>1. Packets \in Nat /\ ReciveData.d \in [Fields -> 0..Packets]
  BY PacketAssumption DEF TypeOK
<1>2. \A f \in Fields : ReciveData.d[f] \in Nat /\ got[f] \in Nat
  BY <1>1 DEF TypeOK
<1> QED
  BY <1>1, <1>2, PacketAssumption DEF TypeOK

\* Nothing was received yet.
LEMMA InitPacket == Init => PacketInv
<1> SUFFICES ASSUME Init PROVE PacketInv
  OBVIOUS
<1>1. TypeOK /\ FieldLoaded
  BY InitType
<1>2. /\ radio.pc = "idle" /\ radio.n = 0 /\ radio.given = {}
      /\ radio.left = {} /\ sketch.pc = "ask" /\ sketch.of = {}
      /\ \A f \in Fields : ReciveData.d[f] = 0 /\ got[f] = 0
  BY DEF Init
<1> QED
  BY <1>1, <1>2 DEF PacketInv, Written, Unread, Traced, Pending, Fetched

\* A packet is newer than whatever the fields and the sketch hold.
LEMMA RadioPacket == PacketInv /\ Radio => PacketInv'
<1> SUFFICES ASSUME PacketInv, Radio PROVE PacketInv'
  OBVIOUS
<1>1. /\ TypeOK /\ TypeOK' /\ FieldLoaded /\ FieldLoaded'
      /\ Written /\ Unread /\ Traced /\ Pending
  BY RadioType DEF PacketInv
<1>2. /\ radio.n \in Nat /\ sketch.value \in Nat
      /\ radio.given \subseteq Fields /\ 0 \notin Fields
      /\ \A f \in Fields : ReciveData.d[f] \in Nat /\ got[f] \in Nat
  BY <1>1, PacketNumbers
<1>3. sketch' = sketch /\ got' = got
  BY DEF Radio, Receive, CopyId, CopyNumber, Announce
<1>4. CASE Receive
  <2>1. /\ radio'.pc = "copy" /\ radio'.n = radio.n + 1 /\ radio'.left = Words
        /\ radio'.given \subseteq Fields /\ UNCHANGED <<ReciveData, recive_ok>>
        /\ radio.pc = "idle" /\ radio.left = {}
    BY <1>1, <1>4 DEF Receive, Written
  <2>2. \A f \in Fields : /\ ReciveData.d[f] <= radio.n /\ got[f] <= radio.n
                          /\ Fetched(f) => sketch.value <= radio.n
    BY <1>1, <1>2, <2>1 DEF Written, Unread
  <2>3. Written' /\ Traced' /\ Pending'
    BY <1>2, <1>3, <2>1, <2>2 DEF Written, Traced, Pending, Fetched, Words
  <2>4. Unread'
    BY <1>1, <1>2, <1>3, <2>1, <2>2 DEF Unread, Fetched
  <2> QED
    BY <1>1, <2>3, <2>4 DEF PacketInv
<1>5. CASE CopyId
  <2>1. /\ radio'.pc = "copy" /\ radio'.n = radio.n /\ radio'.given = radio.given
        /\ radio'.left = radio.left \ {Id} /\ ReciveData'.d = ReciveData.d
        /\ recive_ok' = recive_ok /\ wiped' = wiped /\ radio.pc = "copy"
    BY <1>1, <1>5 DEF CopyId, TypeOK
  <2>2. \A f \in Fields : f \in radio'.left <=> f \in radio.left
    BY <1>2, <2>1 DEF Id
  <2>3. Written' /\ Unread' /\ Pending'
    BY <1>1, <1>3, <2>1, <2>2 DEF Written, Unread, Pending, Fetched
  <2>4. Traced'
    BY <1>1, <1>2, <1>3, <2>1, <2>2 DEF Traced, Fetched
  <2> QED
    BY <1>1, <2>3, <2>4 DEF PacketInv
<1>6. CASE CopyNumber
  <2>1. PICK f \in radio.left \cap Fields :
          /\ ReciveData' = [ReciveData EXCEPT !.d[f] =
                               IF f \in radio.given THEN radio.n ELSE 0]
          /\ radio' = [radio EXCEPT !.left = @ \ {f}]
          /\ wiped' = wiped \ {f}
    BY <1>6 DEF CopyNumber
  <2>2. /\ radio'.pc = "copy" /\ radio'.n = radio.n /\ radio'.given = radio.given
        /\ radio'.left = radio.left \ {f} /\ recive_ok' = recive_ok
        /\ radio.pc = "copy"
    BY <1>1, <1>6, <2>1 DEF CopyNumber, TypeOK
  <2>3. /\ ReciveData'.d[f] = IF f \in radio.given THEN radio.n ELSE 0
        /\ \A g \in Fields \ {f} : ReciveData'.d[g] = ReciveData.d[g]
    BY <1>1, <2>1 DEF TypeOK
  <2>4. got[f] < radio.n /\ (Fetched(f) => sketch.value < radio.n)
    BY <1>1, <2>1 DEF Written
  <2>5. Written'
    BY <1>1, <1>3, <2>2, <2>3 DEF Written, Fetched
  <2>6. Unread'
    <3> SUFFICES ASSUME NEW g \in Fields
                 PROVE  /\ got[g] <= radio.n
                        /\ ReciveData'.d[g] = 0 \/ got[g] < ReciveData'.d[g]
                        /\ Fetched(g) => /\ sketch.value <= radio.n
                                         /\ \/ sketch.value = 0
                                            \/ got[g] < sketch.value
      BY <1>3, <2>2 DEF Unread, Fetched
    <3>1. CASE g = f
      BY <1>1, <2>3, <2>4, <3>1 DEF Unread
    <3>2. CASE g # f
      BY <1>1, <2>3, <3>2 DEF Unread
    <3> QED
      BY <3>1, <3>2
  <2>7. Traced'
    <3> SUFFICES ASSUME NEW g \in radio.given
                 PROVE  /\ radio.n >= 1
                        /\ \/ g \in radio'.left \/ g \in wiped'
                           \/ got[g] = radio.n \/ ReciveData'.d[g] = radio.n
                           \/ Fetched(g) /\ sketch.value = radio.n
      BY <1>3, <2>2 DEF Traced, Fetched
    <3>1. CASE g = f
      BY <1>1, <2>3, <3>1 DEF Traced
    <3>2. CASE g # f
      BY <1>1, <1>2, <2>1, <2>2, <2>3, <3>2 DEF Traced
    <3> QED
      BY <3>1, <3>2
  <2>8. Pending'
    BY <2>2 DEF Pending
  <2> QED
    BY <1>1, <2>5, <2>6, <2>7, <2>8 DEF PacketInv
<1>7. CASE Announce
  <2>1. /\ radio'.pc = "idle" /\ radio'.n = radio.n /\ radio'.given = radio.given
        /\ radio'.left = radio.left /\ radio.left = {} /\ recive_ok'
        /\ UNCHANGED <<ReciveData, wiped>>
    BY <1>1, <1>7 DEF Announce, TypeOK
  <2>2. Written' /\ Unread' /\ Traced' /\ Pending'
    BY <1>1, <1>3, <2>1 DEF Written, Unread, Traced, Pending, Fetched
  <2> QED
    BY <1>1, <2>2 DEF PacketInv
<1> QED
  BY <1>4, <1>5, <1>6, <1>7 DEF Radio

\* Zeroing a field leaves a trace, whatever was in it.
LEMMA ZeroPacket == PacketInv /\ Zero => PacketInv'
<1> SUFFICES ASSUME PacketInv, Zero PROVE PacketInv'
  OBVIOUS
<1>1. /\ TypeOK /\ TypeOK' /\ FieldLoaded /\ FieldLoaded'
      /\ Written /\ Unread /\ Traced /\ Pending
  BY SketchType DEF PacketInv, Sketch
<1>2. /\ radio.n \in Nat /\ sketch.value \in Nat
      /\ radio.given \subseteq Fields
      /\ \A f \in Fields : ReciveData.d[f] \in Nat /\ got[f] \in Nat
  BY <1>1, PacketNumbers
<1> DEFINE f == sketch.field
<1>3. f \in Fields /\ Fetched(f) /\ sketch.pc = "zero"
  BY <1>1 DEF Zero, FieldLoaded, Fetched
<1>4. /\ ReciveData' = [ReciveData EXCEPT !.d[f] = 0]
      /\ sketch' = [sketch EXCEPT !.pc = "read", !.left = @ \ {f}]
      /\ got' = IF sketch.value = 0 THEN got
                ELSE [got EXCEPT ![f] = sketch.value]
      /\ wiped' = IF ReciveData.d[f] \in {0, sketch.value} THEN wiped
                  ELSE wiped \cup {f}
      /\ recive_ok' = recive_ok /\ radio' = radio
  BY DEF Zero, LeftBehind
<1>5. /\ ReciveData'.d[f] = 0
      /\ \A g \in Fields \ {f} : ReciveData'.d[g] = ReciveData.d[g]
  BY <1>1, <1>3, <1>4 DEF TypeOK
<1>6. /\ got'[f] = IF sketch.value = 0 THEN got[f] ELSE sketch.value
      /\ \A g \in Fields \ {f} : got'[g] = got[g]
  BY <1>1, <1>3, <1>4 DEF TypeOK
<1>7. /\ sketch'.pc = "read" /\ sketch'.left = sketch.left \ {f}
      /\ sketch'.of = sketch.of /\ \A g \in Fields : ~Fetched(g)'
  BY <1>1, <1>4 DEF TypeOK, Fetched
<1> HIDE DEF f
<1>8. Written'
  <2> SUFFICES ASSUME NEW g \in Fields
               PROVE  IF g \in radio.left
                      THEN ReciveData'.d[g] < radio.n /\ got'[g] < radio.n
                      ELSE ReciveData'.d[g] \in {0, radio.n}
    BY <1>1, <1>4, <1>7 DEF Written
  <2>1. CASE g = f
    BY <1>1, <1>2, <1>3, <1>5, <1>6, <2>1 DEF Written
  <2>2. CASE g # f
    BY <1>1, <1>5, <1>6, <2>2 DEF Written
  <2> QED
    BY <2>1, <2>2
<1>9. Unread'
  <2> SUFFICES ASSUME NEW g \in Fields
               PROVE  /\ got'[g] <= radio.n
                      /\ ReciveData'.d[g] = 0 \/ got'[g] < ReciveData'.d[g]
    BY <1>4, <1>7 DEF Unread
  <2>1. CASE g = f
    BY <1>1, <1>3, <1>5, <1>6, <2>1 DEF Unread
  <2>2. CASE g # f
    BY <1>1, <1>5, <1>6, <2>2 DEF Unread
  <2> QED
    BY <2>1, <2>2
<1>10. ASSUME f \in radio.given, f \notin radio.left
       PROVE  f \in wiped' \/ got'[f] = radio.n
  <2>1. radio.n >= 1 /\ sketch.value <= radio.n
    BY <1>1, <1>3, <1>10 DEF Traced, Unread
  <2>2. CASE f \in wiped
    BY <1>4, <2>2
  <2>3. CASE got[f] = radio.n
    BY <1>1, <1>2, <1>3, <1>6, <2>1, <2>3 DEF Unread
  <2>4. CASE sketch.value = radio.n
    BY <1>6, <2>1, <2>4
  <2>5. CASE ReciveData.d[f] = radio.n /\ sketch.value # radio.n
    BY <1>2, <1>4, <2>1, <2>5
  <2> QED
    BY <1>1, <1>10, <2>2, <2>3, <2>4, <2>5 DEF Traced
<1>11. wiped \subseteq wiped'
  BY <1>4
<1>12. Traced'
  <2> SUFFICES ASSUME NEW g \in radio.given
               PROVE  /\ radio.n >= 1
                      /\ \/ g \in radio.left \/ g \in wiped'
                         \/ got'[g] = radio.n \/ ReciveData'.d[g] = radio.n
    BY <1>4 DEF Traced
  <2>1. CASE g = f
    BY <1>1, <1>10, <2>1 DEF Traced
  <2>2. CASE g # f
    BY <1>1, <1>2, <1>5, <1>6, <1>11, <2>2 DEF Traced, Fetched, f
  <2> QED
    BY <2>1, <2>2
<1>13. Pending'
  <2> SUFFICES ASSUME radio.pc = "idle", ~recive_ok
               PROVE  /\ sketch.of \subseteq {radio.n}
                      /\ \A g \in radio.given :
                           \/ g \in wiped' \/ got'[g] = radio.n
                           \/ g \in sketch'.left
    BY <1>4, <1>7 DEF Pending
  <2>1. radio.left = {}
    BY <1>1 DEF Written
  <2>2. \A g \in radio.given : g # f =>
           \/ g \in wiped' \/ got'[g] = radio.n \/ g \in sketch'.left
    BY <1>1, <1>2, <1>6, <1>7, <1>11 DEF Pending
  <2> QED
    BY <1>1, <1>10, <2>1, <2>2 DEF Pending
<1> QED
  BY <1>1, <1>8, <1>9, <1>12, <1>13 DEF PacketInv

\* The sketch's other steps only look, or announce a round.
LEMMA SketchPacket == PacketInv /\ Sketch => PacketInv'
<1> SUFFICES ASSUME PacketInv, Sketch, ~Zero PROVE PacketInv'
  BY ZeroPacket
<1>1. /\ TypeOK /\ TypeOK' /\ FieldLoaded /\ FieldLoaded'
      /\ Written /\ Unread /\ Traced /\ Pending
  BY SketchType DEF PacketInv
<1>2. /\ radio.n \in Nat /\ radio.given \subseteq Fields
      /\ sketch.left \subseteq Fields
      /\ \A f \in Fields : ReciveData.d[f] \in Nat /\ got[f] \in Nat
  BY <1>1, PacketNumbers DEF TypeOK
<1>3. UNCHANGED <<ReciveData, radio, got, wiped>>
  BY DEF Sketch, Ask, Match, Clear, Load, RoundDone
<1>4. CASE Load
  <2>1. PICK f \in sketch.left :
          sketch' = [sketch EXCEPT !.pc = "zero", !.field = f,
                        !.value = ReciveData.d[f],
                        !.of = @ \cup ({ReciveData.d[f]} \ {0})]
    BY <1>4 DEF Load
  <2>2. /\ sketch'.pc = "zero" /\ sketch'.field = f /\ sketch.pc = "read"
        /\ sketch'.value = ReciveData.d[f] /\ sketch'.left = sketch.left
        /\ sketch'.of = sketch.of \cup ({ReciveData.d[f]} \ {0})
        /\ f \in Fields /\ recive_ok' = recive_ok
    BY <1>1, <1>2, <1>4, <2>1 DEF Load, TypeOK
  <2>3. Written' /\ Unread'
    BY <1>1, <1>2, <1>3, <2>2 DEF Written, Unread, Fetched
  <2>4. Traced'
    BY <1>1, <1>3, <2>2 DEF Traced, Fetched
  <2>5. radio.pc = "idle" => ReciveData.d[f] \in {0, radio.n}
    BY <1>1, <2>2 DEF Written
  <2>6. Pending'
    BY <1>1, <1>3, <2>2, <2>5 DEF Pending
  <2> QED
    BY <1>1, <2>3, <2>4, <2>6 DEF PacketInv
<1>5. CASE ~Load
  <2>1. sketch.pc # "zero" /\ sketch'.pc # "zero"
    BY <1>1, <1>5 DEF Sketch, Ask, Match, Clear, RoundDone, TypeOK
  <2>2. Written' /\ Unread' /\ Traced'
    BY <1>1, <1>3, <2>1 DEF Written, Unread, Traced, Fetched
  <2>3. CASE Clear
    <3>1. sketch'.pc = "read" /\ sketch'.left = Fields /\ sketch'.of = {}
      BY <1>1, <2>3 DEF Clear, TypeOK
    <3> QED
      BY <1>1, <1>2, <1>3, <2>2, <3>1 DEF Pending, PacketInv
  <2>4. CASE ~Clear
    <3>1. /\ sketch'.of = sketch.of /\ recive_ok' = recive_ok
          /\ sketch.pc = "read" => sketch.left = {}
      BY <1>1, <1>5, <2>4 DEF Sketch, Ask, Match, RoundDone, TypeOK
    <3>2. Pending'
      BY <1>1, <1>3, <2>1, <3>1 DEF Pending
    <3> QED
      BY <1>1, <2>2, <3>2 DEF PacketInv
  <2> QED
    BY <2>3, <2>4
<1> QED
  BY <1>4, <1>5

\* The strengthened invariant holds in every behaviour.
LEMMA PacketInvariant == Spec => []PacketInv
<1>1. PacketInv /\ [Next]_vars => PacketInv'
  <2> SUFFICES ASSUME PacketInv, [Next]_vars PROVE PacketInv'
    OBVIOUS
  <2>1. CASE UNCHANGED vars
    BY <2>1 DEF PacketInv, TypeOK, FieldLoaded, Written, Unread, Traced,
                Pending, Fetched, vars
  <2> QED
    BY <2>1, RadioPacket, SketchPacket DEF Next
<1> QED
  BY InitPacket, <1>1, PTL DEF Spec

\* No number is handed to the sketch twice or after a newer one of its field.
THEOREM NumbersOnce == Spec => []EachNumberOnce
<1>1. PacketInv => EachNumberOnce
  BY DEF PacketInv, FieldLoaded, Unread, Fetched, EachNumberOnce
<1> QED
  BY PacketInvariant, <1>1, PTL

\* With nothing more to do the sketch has read the last packet, but for what a
\* zeroing hit.
THEOREM LastRead == Spec => []LastPacketRead
<1>1. PacketInv => LastPacketRead
  BY DEF PacketInv, Pending, LastPacketRead
<1> QED
  BY PacketInvariant, <1>1, PTL

\* A round of numbers of several packets, or of an old one, is not the last.
THEOREM MixtureReplaced == Spec => []MixtureIsReplaced
<1>1. PacketInv => MixtureIsReplaced
  BY DEF PacketInv, Pending, MixtureIsReplaced, TypeOK, RadioPCs
<1> QED
  BY PacketInvariant, <1>1, PTL
=============================================================================
