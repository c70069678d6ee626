------------------------- MODULE AdapterDataProofs -------------------------
(***************************************************************************)
(* The data that the adapter stores, and the data that it computes.  The   *)
(* EEPROM: however often the power is lost, and at whatever byte, the      *)
(* Switch reads nothing another program left, and what it was answered for *)
(* is kept.  The conversions: for every input, for every width of the      *)
(* LED's counters and for every oscillator that can be tuned.              *)
(***************************************************************************)
EXTENDS Conversions, EepromStore, FiniteSetTheorems, TLAPS

-----------------------------------------------------------------------------
(* The EEPROM.                                                             *)

\* Nothing another program left is in the user's area.
Clean == \A a \in UserArea : eeprom[a] # "stale"

TypeInv ==
    /\ eeprom \in [Addresses -> {"stale", "ff", "magic"} \cup Data]
    /\ acked \in [UserArea -> Data \cup {"none"}]
    /\ marred \in BOOLEAN
    /\ pc \in {"off", "clear", "magic", "run", "write"}

\* The magic number is whole only over a clean user's area: it is what
\* PowerUp trusts after any power loss.
ClearInv ==
    /\ HasMagic(eeprom) => Clean
    /\ pc = "clear" => /\ ~HasMagic(eeprom)
                       /\ cursor \in 0..ClearEnd
                       /\ \A a \in UserArea : a < cursor => eeprom[a] # "stale"
    /\ pc = "magic" => /\ Clean
                       /\ cursor \in MagicBytes
                       /\ \A a \in MagicBytes : a < cursor => eeprom[a] = "magic"
    /\ pc \in {"run", "write"} => Clean

\* What is answered for is stored, under a magic number that keeps it from
\* being cleared or is known to be broken; a write in progress has claimed
\* the user bytes it lands on and stored those up to the cursor.
WriteInv ==
    /\ AckedIsStored
    /\ (\E a \in UserArea : acked[a] # "none") => HasMagic(eeprom) \/ marred
    /\ pc \in {"clear", "magic"} => \A a \in UserArea : acked[a] = "none"
    /\ pc = "write" =>
           /\ write \in [address : Nat, length : Nat, data : Data]
           /\ write.address >= UserBase
           /\ cursor \in 0..(write.length - 1)
           /\ \A i \in 0..(cursor - 1) : eeprom[Cell(write, i)] = write.data
           /\ \A a \in UserArea \cap Cells(write) : acked[a] = "none"

StoreInv == TypeInv /\ ClearInv /\ WriteInv

\* The user's area and the magic number do not overlap, and clearing covers
\* the whole of the user's area.
LEMMA Layout ==
    /\ lastInt16 \in Nat \ {0} /\ ClearEnd \in lastInt16 - 1..lastInt16
    /\ UserArea \subseteq 0..ClearEnd
    /\ UserArea \subseteq Addresses /\ MagicBytes \subseteq Addresses
    /\ 0..ClearEnd \subseteq Addresses
    /\ UserArea \cap MagicBytes = {}
BY EepromAssumption
   DEF EepromAssumption, lastInt16, ClearEnd, UserArea, Addresses, MagicBytes

\* Wherever a write lands is in the EEPROM, and a user byte that is meant is
\* the cell that its byte lands in.
LEMMA Landing ==
    ASSUME NEW w \in [address : Nat, length : Nat, data : Data], w.address >= UserBase
    PROVE  /\ \A i \in Nat : Cell(w, i) \in Addresses
           /\ \A a \in Meant(w) : \E i \in 0..(w.length - 1) : Cell(w, i) = a
<1>1. ASSUME NEW i \in Nat PROVE Cell(w, i) \in Addresses
  <2>1. w.address - UserBase + i \in Nat
    BY EepromAssumption DEF EepromAssumption
  <2>. QED
    BY <2>1, EepromAssumption DEF EepromAssumption, Cell, Addresses
<1>2. ASSUME NEW a \in Meant(w) PROVE \E i \in 0..(w.length - 1) : Cell(w, i) = a
  <2>1. /\ a \in UserArea /\ a \in Addresses
        /\ UserBase + a \in w.address..(w.address + w.length - 1)
    BY Layout DEF Meant
  <2>. DEFINE i == (UserBase + a) - w.address
  <2>2. i \in 0..(w.length - 1) /\ w.address - UserBase + i = a
    BY <2>1, EepromAssumption DEF EepromAssumption, UserArea
  <2>3. a % (E2END + 1) = a
    BY <2>1, EepromAssumption DEF EepromAssumption, Addresses
  <2>. QED
    BY <2>2, <2>3 DEF Cell
<1>. QED
  BY <1>1, <1>2

\* At first the EEPROM is not ours, nothing is answered for and nothing runs.
LEMMA StoreInvInit == EepromInit => StoreInv
<1>. SUFFICES ASSUME EepromInit PROVE StoreInv
  OBVIOUS
<1>1. TypeInv
  BY DEF EepromInit, TypeInv
<1>2. ClearInv
  BY DEF EepromInit, ClearInv
<1>3. \A a \in UserArea : acked[a] = "none"
  BY DEF EepromInit
<1>4. WriteInv
  BY <1>3 DEF EepromInit, WriteInv, AckedIsStored
<1>. QED
  BY <1>1, <1>2, <1>4 DEF StoreInv

\* Starting, clearing, marking, writing and losing the power keep the store
\* consistent.
LEMMA StoreInvNext == StoreInv /\ [EepromNext]_eepromVars => StoreInv'
<1>. SUFFICES ASSUME StoreInv, [EepromNext]_eepromVars PROVE StoreInv'
  OBVIOUS
<1>. USE DEF StoreInv
<1>1. CASE PowerUp
  <2>0. \/ ~HasMagic(eeprom) /\ pc' = "clear" /\ cursor' = 0 /\ Forgotten
        \/ HasMagic(eeprom) /\ pc' = "run" /\ UNCHANGED <<acked, marred>>
    BY <1>1 DEF PowerUp, NeedsClearing
  <2>1. /\ UNCHANGED <<eeprom, write>>
        /\ \/ ~HasMagic(eeprom) /\ pc' = "clear" /\ cursor' = 0
           \/ HasMagic(eeprom) /\ pc' = "run"
        /\ \/ UNCHANGED <<acked, marred>> /\ pc' = "run"
           \/ (\A a \in UserArea : acked'[a] = "none") /\ acked' \in [UserArea -> {"none"} \cup Data]
        /\ marred' \in BOOLEAN
    <3>1. CASE ~HasMagic(eeprom) /\ pc' = "clear" /\ cursor' = 0 /\ Forgotten
      <4>1. ~marred => \A a \in UserArea : acked[a] = "none"
        BY <3>1 DEF WriteInv
      <4>2. /\ \A a \in UserArea : acked'[a] = "none"
            /\ acked' \in [UserArea -> {"none"} \cup Data]
            /\ marred' \in BOOLEAN
        BY <3>1, <4>1 DEF Forgotten, TypeInv
      <4>. QED
        BY <1>1, <3>1, <4>2 DEF PowerUp
    <3>2. CASE HasMagic(eeprom) /\ pc' = "run" /\ UNCHANGED <<acked, marred>>
      BY <1>1, <3>2 DEF PowerUp, TypeInv
    <3>. QED
      BY <2>0, <3>1, <3>2
  <2>2. TypeInv'
    BY <2>1 DEF TypeInv
  <2>3. ClearInv'
    BY <2>1, Layout DEF ClearInv, Clean, UserArea
  <2>4. WriteInv'
    BY <2>1 DEF WriteInv, AckedIsStored
  <2>. QED
    BY <2>2, <2>3, <2>4
<1>2. CASE ClearByte
  <2>1. /\ pc = "clear" /\ cursor \in 0..ClearEnd /\ cursor \in Addresses
        /\ eeprom' = [eeprom EXCEPT ![cursor] = "ff"]
        /\ UNCHANGED <<write, acked, marred>>
        /\ ~HasMagic(eeprom)
    BY <1>2, Layout DEF ClearByte, Store, ClearInv
  <2>2. TypeInv'
    BY <1>2, <2>1 DEF ClearByte, TypeInv
  <2>3. ~HasMagic(eeprom')
    BY <2>1, Layout DEF HasMagic, TypeInv
  <2>4. \A a \in UserArea : a < cursor + 1 => eeprom'[a] # "stale"
    BY <2>1, Layout DEF ClearInv, TypeInv, UserArea, Addresses
  <2>5. ClearInv'
    <3>1. CASE cursor = ClearEnd
      BY <3>1, <1>2, <2>3, <2>4, Layout
         DEF ClearByte, ClearInv, Clean, UserArea, MagicBytes
    <3>2. CASE cursor # ClearEnd
      BY <3>2, <1>2, <2>1, <2>3, <2>4, Layout DEF ClearByte, ClearInv, Clean, UserArea
    <3>. QED
      BY <3>1, <3>2
  <2>6. WriteInv'
    BY <1>2, <2>1 DEF ClearByte, WriteInv, AckedIsStored
  <2>. QED
    BY <2>2, <2>5, <2>6
<1>3. CASE MagicByte
  <2>1. /\ pc = "magic" /\ cursor \in MagicBytes /\ cursor \in Addresses /\ Clean
        /\ eeprom' = [eeprom EXCEPT ![cursor] = "magic"]
        /\ UNCHANGED <<write, acked, marred>>
        /\ pc' \in {"magic", "run"}
    BY <1>3, Layout DEF MagicByte, Store, ClearInv
  <2>2. TypeInv'
    BY <2>1 DEF TypeInv
  <2>3. /\ \A a \in UserArea : eeprom'[a] = eeprom[a]
        /\ HasMagic(eeprom) => HasMagic(eeprom')
    BY <2>1, Layout DEF HasMagic, TypeInv
  <2>4. Clean'
    BY <2>1, <2>3 DEF Clean
  <2>5. ClearInv'
    <3>1. CASE cursor = lastInt16
      BY <3>1, <1>3, <2>1, <2>2, <2>4, Layout
         DEF MagicByte, Store, ClearInv, MagicBytes, TypeInv
    <3>2. CASE cursor = lastInt16 + 1
      <4>1. HasMagic(eeprom')
        BY <3>2, <2>1, Layout DEF HasMagic, ClearInv, MagicBytes, TypeInv
      <4>2. pc' = "run"
        BY <3>2, <1>3 DEF MagicByte
      <4>. QED
        BY <4>1, <4>2, <2>4 DEF ClearInv
    <3>. QED
      BY <3>1, <3>2, <2>1 DEF MagicBytes
  <2>6. WriteInv'
    BY <2>1, <2>3 DEF WriteInv, AckedIsStored
  <2>. QED
    BY <2>2, <2>5, <2>6
<1>4. ASSUME NEW address \in 0..(AddressValues - 1), NEW length \in Lengths, NEW data \in Data,
             SpiWrite([address |-> address, length |-> length, data |-> data])
      PROVE  StoreInv'
  <2>. DEFINE w == [address |-> address, length |-> length, data |-> data]
  <2>1. pc = "run" /\ UNCHANGED <<eeprom, marred>> /\ Clean
    BY <1>4 DEF SpiWrite, ClearInv
  <2>2. CASE SpiWriteStoresNothing(w)
    BY <2>1, <2>2 DEF SpiWriteStoresNothing, TypeInv, ClearInv, Clean, WriteInv, AckedIsStored
  <2>3. CASE SpiWriteBegins(w)
    <3>1. /\ w \in [address : Nat, length : Nat, data : Data]
          /\ w.address >= UserBase /\ w.length > 0
      BY <2>3, EepromAssumption DEF EepromAssumption, SpiWriteBegins, InRange
    <3>2. /\ write' = w /\ cursor' = 0 /\ pc' = "write"
          /\ acked' = [a \in UserArea |-> IF a \in Cells(w) THEN "none" ELSE acked[a]]
      BY <2>3 DEF SpiWriteBegins, Disturbed
    <3>. HIDE DEF w
    <3>3. TypeInv'
      BY <2>1, <3>2 DEF TypeInv
    <3>4. ClearInv'
      BY <2>1, <3>2 DEF ClearInv, Clean
    <3>5. AckedIsStored' /\ ((\E a \in UserArea : acked'[a] # "none") => HasMagic(eeprom') \/ marred')
      BY <2>1, <3>2 DEF WriteInv, AckedIsStored
    <3>6. /\ cursor' \in 0..(write'.length - 1)
          /\ \A i \in 0..(cursor' - 1) : eeprom'[Cell(write', i)] = write'.data
      BY <3>1, <3>2
    <3>7. \A a \in UserArea \cap Cells(write') : acked'[a] = "none"
      BY <3>2
    <3>. QED
      BY <3>1, <3>2, <3>3, <3>4, <3>5, <3>6, <3>7 DEF WriteInv
  <2>. QED
    BY <1>4, <2>2, <2>3 DEF SpiWrite
<1>5. CASE WriteByte
  <2>. DEFINE cell == Cell(write, cursor)
  <2>1. /\ pc = "write" /\ Clean
        /\ write \in [address : Nat, length : Nat, data : Data]
        /\ write.address >= UserBase
        /\ cursor \in 0..(write.length - 1)
        /\ eeprom' = [eeprom EXCEPT ![cell] = write.data]
        /\ marred' = ~HasMagic(eeprom')
        /\ UNCHANGED write
    BY <1>5 DEF WriteByte, Store, ClearInv, WriteInv
  <2>2. /\ cell \in Addresses /\ cell \in Cells(write)
        /\ write.data \in Data /\ write.data # "stale"
    BY <2>1, Landing, EepromAssumption DEF EepromAssumption, Cells
  <2>3. \A a \in Addresses : eeprom'[a] = IF a = cell THEN write.data ELSE eeprom[a]
    BY <2>1, <2>2 DEF TypeInv
  <2>4. Clean'
    BY <2>1, <2>2, <2>3, Layout DEF Clean
  <2>5. \A i \in 0..cursor : eeprom'[Cell(write, i)] = write.data
    <3>. SUFFICES ASSUME NEW i \in 0..cursor PROVE eeprom'[Cell(write, i)] = write.data
      OBVIOUS
    <3>1. Cell(write, i) \in Addresses
      BY <2>1, Landing
    <3>2. i = cursor \/ i \in 0..(cursor - 1)
      BY <2>1
    <3>3. i # cursor => eeprom[Cell(write, i)] = write.data
      BY <2>1, <3>2 DEF WriteInv
    <3>. QED
      BY <2>3, <3>1, <3>3
  <2>6. \A a \in UserArea \cap Cells(write) : acked[a] = "none"
    BY <2>1 DEF WriteInv
  <2>7. \A a \in UserArea : acked[a] # "none" => eeprom'[a] = acked[a]
    BY <2>2, <2>3, <2>6, Layout DEF WriteInv, AckedIsStored
  <2>8. HasMagic(eeprom') \/ marred'
    BY <2>1
  <2>9. eeprom' \in [Addresses -> {"stale", "ff", "magic"} \cup Data] /\ marred' \in BOOLEAN
    BY <2>1, <2>2 DEF TypeInv
  <2>. HIDE DEF cell
  <2>10. CASE cursor = write.length - 1
    <3>1. /\ pc' = "run"
          /\ acked' = [a \in UserArea |-> IF a \in Meant(write) THEN write.data ELSE acked[a]]
      BY <1>5, <2>10 DEF WriteByte, Acknowledged
    <3>2. TypeInv'
      BY <2>2, <2>9, <3>1 DEF TypeInv
    <3>3. \A a \in Meant(write) : eeprom'[a] = write.data
      BY <2>1, <2>5, <2>10, Landing
    <3>4. AckedIsStored'
      BY <2>7, <3>1, <3>3 DEF AckedIsStored
    <3>. QED
      BY <2>4, <2>8, <3>1, <3>2, <3>4 DEF ClearInv, WriteInv
  <2>11. CASE cursor # write.length - 1
    <3>1. /\ UNCHANGED <<pc, acked>>
          /\ cursor' = cursor + 1
      BY <1>5, <2>11 DEF WriteByte
    <3>2. TypeInv'
      BY <2>9, <3>1 DEF TypeInv
    <3>3. AckedIsStored'
      BY <2>7, <3>1 DEF AckedIsStored
    <3>4. /\ cursor' \in 0..(write'.length - 1)
          /\ \A i \in 0..(cursor' - 1) : eeprom'[Cell(write', i)] = write'.data
          /\ \A a \in UserArea \cap Cells(write') : acked'[a] = "none"
      BY <2>1, <2>5, <2>6, <2>11, <3>1
    <3>. QED
      BY <2>1, <2>4, <2>8, <3>1, <3>2, <3>3, <3>4 DEF ClearInv, WriteInv
  <2>. QED
    BY <2>10, <2>11
<1>6. CASE PowerLoss
  BY <1>6 DEF PowerLoss, TypeInv, ClearInv, Clean, WriteInv, AckedIsStored
<1>7. CASE UNCHANGED eepromVars
  BY <1>7 DEF eepromVars, TypeInv, ClearInv, Clean, WriteInv, AckedIsStored
<1>. QED
  BY <1>1, <1>2, <1>3, <1>4, <1>5, <1>6, <1>7 DEF EepromNext, Program

\* Together, for every execution.
THEOREM StoreConsistent == EepromSpec => []StoreInv
BY StoreInvInit, StoreInvNext, PTL DEF EepromSpec

\* The Switch never reads what another program left in the EEPROM, for every
\* size of it and wherever the power is lost while it is being cleared.
THEOREM NeverStale == EepromSpec => []NothingStale
<1>1. StoreInv => NothingStale
  BY DEF StoreInv, ClearInv, Clean, NothingStale
<1>. QED
  BY <1>1, StoreConsistent, PTL

\* What an answered write stored stays stored, over any number of power
\* losses, restarts and other writes, refused, cut short or landing elsewhere
\* than they were meant to, until a write lands there, or one has broken the
\* magic number and the program starts again; for every size of the EEPROM
\* and every number of addresses.
THEOREM AckedStays == EepromSpec => []AckedIsStored
<1>1. StoreInv => AckedIsStored
  BY DEF StoreInv, WriteInv
<1>. QED
  BY <1>1, StoreConsistent, PTL

-----------------------------------------------------------------------------
(* The LED.                                                                *)

Led == [usbSofCount : 0..(ByteValues - 1), lastQuarterSofCount : 0..(ByteValues - 1),
        quarterSecondCount : 0..(ByteValues - 1),
        lastLedToggleQuarterSecondCount : 0..(ByteValues - 1),
        lit : BOOLEAN, since : Nat, missed : Nat]

\* Frames since the last quarter, as far as the counter tells, and quarters
\* since the last toggle.
FramesIn(led) == (led.usbSofCount - led.lastQuarterSofCount) % ByteValues
Quarters(led) == (led.quarterSecondCount - led.lastLedToggleQuarterSecondCount) % ByteValues

\* A count of frames beyond a quarter is one whose equality was missed; the
\* turn that this costs is still to come.
TurnToCome(led) == IF FramesIn(led) >= QuarterFrames THEN ByteValues ELSE 0

LedInTime(led) ==
    /\ led \in Led
    /\ Quarters(led) \in 0..3
    /\ led.since <= Quarters(led) * QuarterFrames + FramesIn(led)
                        + ByteValues * led.missed - TurnToCome(led)

LedInv == kind = "led" => LedInTime(output)

\* A difference of counters, and what counting one up makes of it.
LEMMA Turning ==
    ASSUME NEW m \in Nat \ {0}, NEW a \in 0..(m - 1), NEW b \in 0..(m - 1)
    PROVE  /\ (a + 1) % m \in 0..(m - 1)
           /\ (a - b) % m \in 0..(m - 1)
           /\ (a - a) % m = 0
           /\ (((a + 1) % m) - b) % m = IF (a - b) % m = m - 1 THEN 0 ELSE ((a - b) % m) + 1
<1>. DEFINE next == (a + 1) % m
<1>1. ASSUME NEW x \in 0..(m - 1), NEW y \in 0..(m - 1)
      PROVE  (x - y) % m = IF x >= y THEN x - y ELSE x - y + m
  <2>1. CASE x >= y
    <3>1. x - y \in 0..(m - 1)
      BY <2>1
    <3>. QED
      BY <2>1, <3>1
  <2>2. CASE x < y
    <3>1. x - y + m \in 0..(m - 1)
      BY <2>2
    <3>. QED
      BY <2>2, <3>1
  <2>. QED
    BY <2>1, <2>2
<1>2. next = IF a = m - 1 THEN 0 ELSE a + 1
  OBVIOUS
<1>3. next \in 0..(m - 1)
  BY <1>2
<1>. HIDE DEF next
<1>4. (a - b) % m = IF a >= b THEN a - b ELSE a - b + m
  BY <1>1
<1>5. (next - b) % m = IF next >= b THEN next - b ELSE next - b + m
  BY <1>1, <1>3
<1>6. (a - a) % m = 0
  BY <1>1
<1>7. (next - b) % m = IF (a - b) % m = m - 1 THEN 0 ELSE ((a - b) % m) + 1
  BY <1>2, <1>4, <1>5
<1>8. (a - b) % m \in 0..(m - 1)
  BY <1>4
<1>. QED
  BY <1>3, <1>6, <1>7, <1>8 DEF next

LEMMA FramePasses ==
    ASSUME NEW led \in Led
    PROVE  /\ NextFrame(led) \in Led
           /\ FramesIn(led) \in 0..(ByteValues - 1)
           /\ FramesIn(NextFrame(led)) =
                  IF FramesIn(led) = ByteValues - 1 THEN 0 ELSE FramesIn(led) + 1
           /\ Quarters(NextFrame(led)) = Quarters(led)
           /\ NextFrame(led).since = led.since + 1
           /\ NextFrame(led).missed = led.missed
<1>1. ByteValues \in Nat \ 0..4
  BY HeartbeatAssumption DEF HeartbeatAssumption
<1>. DEFINE a == led.usbSofCount
            b == led.lastQuarterSofCount
<1>2. a \in 0..(ByteValues - 1) /\ b \in 0..(ByteValues - 1) /\ led.since \in Nat
  BY DEF Led
<1>. HIDE DEF a, b
<1>3. /\ (a + 1) % ByteValues \in 0..(ByteValues - 1)
      /\ (a - b) % ByteValues \in 0..(ByteValues - 1)
      /\ (((a + 1) % ByteValues) - b) % ByteValues =
             IF (a - b) % ByteValues = ByteValues - 1 THEN 0 ELSE ((a - b) % ByteValues) + 1
  <2>1. ByteValues \in Nat \ {0}
    BY <1>1
  <2>2. \A x, y \in 0..(ByteValues - 1) :
            /\ (x + 1) % ByteValues \in 0..(ByteValues - 1)
            /\ (x - y) % ByteValues \in 0..(ByteValues - 1)
            /\ (((x + 1) % ByteValues) - y) % ByteValues =
                   IF (x - y) % ByteValues = ByteValues - 1 THEN 0 ELSE ((x - y) % ByteValues) + 1
    BY <2>1, Turning
  <2>. QED
    BY <1>2, <2>2
<1>4. NextFrame(led) = [led EXCEPT !.usbSofCount = (a + 1) % ByteValues, !.since = led.since + 1]
  BY DEF NextFrame, a
<1>5. led.since + 1 \in Nat
  BY <1>2
<1>. DEFINE next == (a + 1) % ByteValues
            since == led.since + 1
<1>6. next \in 0..(ByteValues - 1) /\ since \in Nat
  BY <1>3, <1>5
<1>7. NextFrame(led) = [led EXCEPT !.usbSofCount = next, !.since = since]
  BY <1>4
<1>. HIDE DEF next, since
<1>8. /\ NextFrame(led) \in Led
      /\ NextFrame(led).usbSofCount = next /\ NextFrame(led).lastQuarterSofCount = b
      /\ NextFrame(led).quarterSecondCount = led.quarterSecondCount
      /\ NextFrame(led).lastLedToggleQuarterSecondCount = led.lastLedToggleQuarterSecondCount
      /\ NextFrame(led).since = since /\ NextFrame(led).missed = led.missed
  BY <1>6, <1>7 DEF Led, b
<1>. QED
  BY <1>3, <1>8 DEF FramesIn, Quarters, next, since, a, b

\* A frame that the loop misses may be the one in which a quarter is over.
LEMMA MissedInTime ==
    ASSUME NEW led, LedInTime(led)
    PROVE  LedInTime(MissFrame(led))
<1>. DEFINE next == NextFrame(led)
            missed == led.missed + 1
<1>1. /\ ByteValues \in Nat \ 0..4 /\ QuarterFrames \in 1..(ByteValues - 1)
  BY HeartbeatAssumption DEF HeartbeatAssumption
<1>2. led \in Led /\ led.since \in Nat /\ led.missed \in Nat
  BY DEF LedInTime, Led
<1>3. MissFrame(led) = [next EXCEPT !.missed = missed] /\ missed \in Nat
  BY <1>2 DEF MissFrame
<1>4. /\ next \in Led /\ next.since = led.since + 1
      /\ FramesIn(led) \in 0..(ByteValues - 1)
      /\ FramesIn(next) = IF FramesIn(led) = ByteValues - 1 THEN 0 ELSE FramesIn(led) + 1
      /\ Quarters(next) = Quarters(led)
  BY <1>2, FramePasses
<1>. HIDE DEF next, missed
<1>5. /\ MissFrame(led) \in Led
      /\ MissFrame(led).missed = missed /\ MissFrame(led).since = next.since
      /\ FramesIn(MissFrame(led)) = FramesIn(next) /\ Quarters(MissFrame(led)) = Quarters(next)
  BY <1>3, <1>4 DEF Led, FramesIn, Quarters
<1>6. PICK turns \in Int, gone \in Int :
          /\ turns = ByteValues * led.missed
          /\ gone = Quarters(led) * QuarterFrames
  BY <1>1, <1>2 DEF LedInTime
<1>7. ByteValues * missed = turns + ByteValues
  BY <1>1, <1>2, <1>6 DEF missed
<1>8. led.since <= gone + FramesIn(led) + turns - TurnToCome(led)
  BY <1>6 DEF LedInTime
<1>9. led.since + 1 <= gone + FramesIn(next) + (turns + ByteValues)
                           - (IF FramesIn(next) >= QuarterFrames THEN ByteValues ELSE 0)
  BY <1>1, <1>2, <1>4, <1>6, <1>8 DEF TurnToCome
<1>. QED
  BY <1>4, <1>5, <1>6, <1>7, <1>9 DEF LedInTime, TurnToCome

\* A frame that the loop sees: the quarter is counted when it is over, and
\* the fourth one toggles the LED.
LEMMA BlinkInTime ==
    ASSUME NEW led, LedInTime(led)
    PROVE  LedInTime(ledHeartbeat(NextFrame(led)))
<1>. DEFINE next == NextFrame(led)
            counted == CountQuarter(next)
<1>1. /\ ByteValues \in Nat \ 0..4 /\ QuarterFrames \in 1..(ByteValues - 1)
  BY HeartbeatAssumption DEF HeartbeatAssumption
<1>2. led \in Led /\ led.since \in Nat /\ led.missed \in Nat /\ Quarters(led) \in 0..3
  BY DEF LedInTime, Led
<1>3. /\ next \in Led /\ next.since = led.since + 1 /\ next.missed = led.missed
      /\ FramesIn(led) \in 0..(ByteValues - 1)
      /\ FramesIn(next) = IF FramesIn(led) = ByteValues - 1 THEN 0 ELSE FramesIn(led) + 1
      /\ Quarters(next) = Quarters(led)
  BY <1>2, FramePasses
<1>4. PICK turns \in Int, gone \in Int :
          /\ turns = ByteValues * led.missed
          /\ gone = Quarters(led) * QuarterFrames
  BY <1>1, <1>2
<1>5. led.since <= gone + FramesIn(led) + turns - TurnToCome(led)
  BY <1>4 DEF LedInTime
<1>. HIDE DEF next
<1>6. CASE FramesIn(next) # QuarterFrames
  <2>1. counted = next
    BY <1>6 DEF CountQuarter, FramesIn
  <2>2. ledHeartbeat(next) = next
    BY <1>2, <1>3, <2>1 DEF ledHeartbeat, Quarters
  <2>3. next.since <= gone + FramesIn(next) + turns
                          - (IF FramesIn(next) >= QuarterFrames THEN ByteValues ELSE 0)
    <3>1. PICK d \in 0..(ByteValues - 1), e \in Int : d = FramesIn(led) /\ e = FramesIn(next)
      BY <1>3
    <3>2. led.since <= gone + d + turns - (IF d >= QuarterFrames THEN ByteValues ELSE 0)
      BY <1>5, <3>1 DEF TurnToCome
    <3>3. e # QuarterFrames /\ e = IF d = ByteValues - 1 THEN 0 ELSE d + 1
      BY <1>3, <1>6, <3>1
    <3>4. led.since + 1 <= gone + e + turns
                               - (IF e >= QuarterFrames THEN ByteValues ELSE 0)
      BY <1>1, <1>2, <1>4, <3>2, <3>3
    <3>. QED
      BY <1>3, <3>1, <3>4
  <2>4. LedInTime(next)
    BY <1>2, <1>3, <1>4, <2>3 DEF LedInTime, TurnToCome
  <2>. QED
    BY <2>2, <2>4 DEF next
<1>7. CASE FramesIn(next) = QuarterFrames
  <2>. DEFINE q == (next.quarterSecondCount + 1) % ByteValues
              f == next.usbSofCount
              t == next.lastLedToggleQuarterSecondCount
  <2>1. /\ next.quarterSecondCount \in 0..(ByteValues - 1)
        /\ t \in 0..(ByteValues - 1) /\ f \in 0..(ByteValues - 1)
    BY <1>3 DEF Led
  <2>2. /\ q \in 0..(ByteValues - 1) /\ (f - f) % ByteValues = 0
        /\ (q - t) % ByteValues = Quarters(led) + 1 /\ (q - q) % ByteValues = 0
    <3>1. /\ q \in 0..(ByteValues - 1)
          /\ (q - t) % ByteValues =
                 IF Quarters(next) = ByteValues - 1 THEN 0 ELSE Quarters(next) + 1
      BY <1>1, <2>1, Turning DEF Quarters
    <3>. HIDE DEF q
    <3>2. (q - q) % ByteValues = 0 /\ (f - f) % ByteValues = 0
      BY <1>1, <2>1, <3>1, Turning
    <3>. QED
      BY <1>1, <1>2, <1>3, <3>1, <3>2
  <2>3. counted = [next EXCEPT !.quarterSecondCount = q, !.lastQuarterSofCount = f]
    BY <1>7 DEF CountQuarter, FramesIn
  <2>. HIDE DEF q, f, t, counted
  <2>4. /\ counted \in Led /\ counted.quarterSecondCount = q
        /\ counted.usbSofCount = f /\ counted.lastQuarterSofCount = f
        /\ counted.lastLedToggleQuarterSecondCount = t
        /\ counted.since = next.since /\ counted.missed = next.missed
    BY <1>3, <2>1, <2>2, <2>3 DEF Led, f, t
  <2>5. FramesIn(counted) = 0 /\ Quarters(counted) = Quarters(led) + 1
    BY <2>2, <2>4 DEF FramesIn, Quarters
  <2>6. CASE Quarters(led) = 3
    <3>1. ledHeartbeat(next) = Toggle(counted)
      BY <2>5, <2>6 DEF ledHeartbeat, Quarters, counted
    <3>2. PICK lit \in BOOLEAN :
              Toggle(counted) = [counted EXCEPT !.lit = lit, !.since = 0, !.missed = 0,
                                                !.lastLedToggleQuarterSecondCount = q]
      BY <2>4 DEF Toggle
    <3>3. Toggle(counted) \in Led
      <4>1. PICK values : values = 0..(ByteValues - 1)
        OBVIOUS
      <4>2. counted \in [usbSofCount : values, lastQuarterSofCount : values,
                         quarterSecondCount : values, lastLedToggleQuarterSecondCount : values,
                         lit : BOOLEAN, since : Nat, missed : Nat]
        BY <2>4, <4>1 DEF Led
      <4>3. q \in values /\ 0 \in Nat
        BY <2>2, <4>1
      <4>4. Toggle(counted) \in
                [usbSofCount : values, lastQuarterSofCount : values,
                 quarterSecondCount : values, lastLedToggleQuarterSecondCount : values,
                 lit : BOOLEAN, since : Nat, missed : Nat]
        BY <3>2, <4>2, <4>3
      <4>. QED
        BY <4>1, <4>4 DEF Led
    <3>4. /\ Toggle(counted).usbSofCount = f /\ Toggle(counted).lastQuarterSofCount = f
          /\ Toggle(counted).quarterSecondCount = q
          /\ Toggle(counted).lastLedToggleQuarterSecondCount = q
          /\ Toggle(counted).since = 0 /\ Toggle(counted).missed = 0
      BY <2>4, <3>2 DEF Led
    <3>5. FramesIn(Toggle(counted)) = 0 /\ Quarters(Toggle(counted)) = 0
      BY <2>2, <3>4 DEF FramesIn, Quarters
    <3>6. 0 <= 0 * QuarterFrames + 0 + ByteValues * 0 - TurnToCome(Toggle(counted))
      BY <1>1, <3>5 DEF TurnToCome
    <3>7. LedInTime(Toggle(counted))
      BY <3>3, <3>4, <3>5, <3>6 DEF LedInTime
    <3>. QED
      BY <3>1, <3>7 DEF next
  <2>7. CASE Quarters(led) # 3
    <3>1. ledHeartbeat(next) = counted
      BY <1>2, <2>5, <2>7 DEF ledHeartbeat, Quarters, counted
    <3>2. (Quarters(led) + 1) * QuarterFrames = gone + QuarterFrames
      BY <1>1, <1>2, <1>4
    <3>3. led.since + 1 <= gone + QuarterFrames + 0 + turns - TurnToCome(counted)
      BY <1>1, <1>2, <1>3, <1>4, <1>5, <1>7, <2>5 DEF TurnToCome
    <3>4. Quarters(counted) \in 0..3
      BY <1>2, <2>5, <2>7
    <3>5. counted.since <= Quarters(counted) * QuarterFrames + FramesIn(counted)
                               + ByteValues * counted.missed - TurnToCome(counted)
      BY <1>3, <1>4, <2>4, <2>5, <3>2, <3>3
    <3>6. LedInTime(counted)
      BY <2>4, <3>4, <3>5 DEF LedInTime
    <3>. QED
      BY <3>1, <3>6 DEF next
  <2>. QED
    BY <2>6, <2>7
<1>. QED
  BY <1>6, <1>7

LEMMA SwitchInTime ==
    ASSUME NEW led, LedInTime(led), NEW up \in BOOLEAN
    PROVE  LedInTime(SwitchLed(led, up))
<1>1. led \in Led
  BY DEF LedInTime
<1>2. /\ SwitchLed(led, up) \in Led
      /\ SwitchLed(led, up).since = led.since /\ SwitchLed(led, up).missed = led.missed
      /\ FramesIn(SwitchLed(led, up)) = FramesIn(led)
      /\ Quarters(SwitchLed(led, up)) = Quarters(led)
  BY <1>1 DEF SwitchLed, Led, FramesIn, Quarters
<1>. QED
  BY <1>2 DEF LedInTime, TurnToCome

LEMMA LedInvInit == Init => LedInv
<1>. SUFFICES ASSUME Init, kind = "led" PROVE LedInTime(InitialLed)
  BY DEF Init, LedInv
<1>1. ByteValues \in Nat \ 0..4 /\ QuarterFrames \in 1..(ByteValues - 1)
  BY HeartbeatAssumption DEF HeartbeatAssumption
<1>2. InitialLed \in Led
  BY <1>1 DEF InitialLed, Led
<1>3. FramesIn(InitialLed) = 0 /\ Quarters(InitialLed) = 0
  <2>1. (0 - 0) % ByteValues = 0
    BY <1>1
  <2>. QED
    BY <2>1 DEF InitialLed, FramesIn, Quarters
<1>4. InitialLed.since = 0 /\ InitialLed.missed = 0
  BY DEF InitialLed
<1>5. 0 <= 0 * QuarterFrames + 0 + ByteValues * 0 - TurnToCome(InitialLed)
  BY <1>1, <1>3 DEF TurnToCome
<1>. QED
  BY <1>2, <1>3, <1>4, <1>5 DEF LedInTime

LEMMA LedInvNext == LedInv /\ [Next]_vars => LedInv'
<1>. SUFFICES ASSUME LedInv, [Next]_vars, kind' = "led" PROVE LedInTime(output)'
  BY DEF LedInv
<1>1. CASE Blink
  <2>1. LedInTime(output)
    BY <1>1 DEF Blink, LedInv
  <2>2. \/ output' = ledHeartbeat(NextFrame(output))
        \/ output' = MissFrame(output)
        \/ \E up \in BOOLEAN : output' = SwitchLed(output, up)
    BY <1>1 DEF Blink
  <2>. QED
    BY <2>1, <2>2, BlinkInTime, MissedInTime, SwitchInTime
<1>2. CASE UNCHANGED vars
  BY <1>2 DEF vars, LedInv
<1>. QED
  BY <1>1, <1>2 DEF Next, ConvertState, DecodeRumble, PrintString, PrintNumber, ReadFlash, Frame,
                    LongFrame, Compute

\* The LED is toggled every four quarters of a second, and a frame that the
\* loop does not see delays it by a turn of the frame counter at most, for
\* counters of any width and quarters of any length (main.cpp:931-938).
THEOREM Blinks == Spec => []LedBlinks
<1>1. LedInv => LedBlinks
  <2>. SUFFICES ASSUME LedInv, kind = "led"
                PROVE  output.since <= 4 * QuarterFrames + ByteValues * output.missed
    BY DEF LedBlinks
  <2>1. LedInTime(output)
    BY DEF LedInv
  <2>2. /\ ByteValues \in Nat \ 0..4 /\ QuarterFrames \in 1..(ByteValues - 1)
    BY HeartbeatAssumption DEF HeartbeatAssumption
  <2>3. output.since \in Nat /\ output.missed \in Nat /\ FramesIn(output) \in 0..(ByteValues - 1)
    BY <2>1, FramePasses DEF LedInTime, Led
  <2>4. PICK turns \in Int, gone \in Int :
            /\ turns = ByteValues * output.missed
            /\ gone = Quarters(output) * QuarterFrames
    BY <2>1, <2>2, <2>3 DEF LedInTime
  <2>5. gone <= 3 * QuarterFrames
    BY <2>1, <2>2, <2>4 DEF LedInTime
  <2>6. output.since <= gone + FramesIn(output) + turns - TurnToCome(output)
    BY <2>1, <2>4 DEF LedInTime
  <2>. QED
    BY <2>2, <2>3, <2>4, <2>5, <2>6 DEF TurnToCome
<1>. QED
  BY <1>1, LedInvInit, LedInvNext, PTL DEF Spec

-----------------------------------------------------------------------------
(* The SPI flash.                                                          *)

LastOf(segment) == segment.address + segment.length - 1
In(segment, address) == address \in segment.address..LastOf(segment)

\* A byte is named by a place and its number there; the bytes of a read, and
\* those the image has.
Located(place, n) == <<place, n>>
Place(byte) == byte[1]

OfSegment(segment, address, length) ==
    [n \in 1..length |-> Located(segment.name, address - segment.address + n - 1)]
OfUserArea(address, length) ==
    [n \in 1..length |-> Located("eeprom", address - EepromBegin + n - 1)]
OfImage(address, length) == [n \in 1..length |-> Image(address + n - 1)]

InOnePlace(bytes, length) == Cardinality({Place(bytes[n]) : n \in 1..length}) = 1

\* A read under way or over: output is what the search makes of the input.
ReadInv ==
    kind = "read" => /\ input \in Reads
                     /\ done => output = spiMemoryRead(input[1], input[2])

\* The segments ascend, do not overlap, and end below the user's area.
LEMMA SegmentBounds ==
    /\ DOMAIN spiMemory = 1..5
    /\ \A i \in 1..5 : /\ spiMemory[i].address \in Nat /\ spiMemory[i].length \in Nat \ {0}
                       /\ LastOf(spiMemory[i]) = spiMemory[i].address + spiMemory[i].length - 1
                       /\ LastOf(spiMemory[i]) < EepromBegin
    /\ \A i, j \in 1..5 : i < j => LastOf(spiMemory[i]) < spiMemory[j].address
    /\ EepromBegin = 32784 /\ EepromEnd = 32844
<1>1. /\ spiMemory[1].address = 24576 /\ spiMemory[1].length = 16
      /\ spiMemory[2].address = 24608 /\ spiMemory[2].length = 24
      /\ spiMemory[3].address = 24637 /\ spiMemory[3].length = 32
      /\ spiMemory[4].address = 24704 /\ spiMemory[4].length = 24
      /\ spiMemory[5].address = 24728 /\ spiMemory[5].length = 18
      /\ DOMAIN spiMemory = 1..5
  BY DEF spiMemory
<1>2. EepromBegin = 32784 /\ EepromEnd = 32844
  BY DEF EepromBegin, EepromEnd
<1>3. \A i \in 1..5 : i = 1 \/ i = 2 \/ i = 3 \/ i = 4 \/ i = 5
  OBVIOUS
<1>4. \A i \in 1..5 : /\ spiMemory[i].address \in Nat /\ spiMemory[i].length \in Nat \ {0}
                      /\ LastOf(spiMemory[i]) = spiMemory[i].address + spiMemory[i].length - 1
                      /\ LastOf(spiMemory[i]) < EepromBegin
  BY <1>1, <1>2, <1>3 DEF LastOf
<1>5. \A i, j \in 1..5 : i < j => LastOf(spiMemory[i]) < spiMemory[j].address
  BY <1>1, <1>3 DEF LastOf
<1>. QED
  BY <1>1, <1>2, <1>4, <1>5

LEMMA SegmentNames ==
    /\ \A i \in 1..5 : spiMemory[i].name \in {"x6000", "x6020", "x603d", "x6080", "x6098"}
    /\ \A i, j \in 1..5 : spiMemory[i].name = spiMemory[j].name => i = j
<1>1. /\ spiMemory[1].name = "x6000" /\ spiMemory[2].name = "x6020"
      /\ spiMemory[3].name = "x603d" /\ spiMemory[4].name = "x6080"
      /\ spiMemory[5].name = "x6098"
  BY DEF spiMemory
<1>2. \A i \in 1..5 : i = 1 \/ i = 2 \/ i = 3 \/ i = 4 \/ i = 5
  OBVIOUS
<1>. QED
  BY <1>1, <1>2

LEMMA PlaceOf == \A place, n : Place(Located(place, n)) = place
  BY DEF Place, Located

\* What is at an address, without the choice: at most one segment has it.
LEMMA ImageOf ==
    ASSUME NEW address \in Int
    PROVE  /\ \A i \in 1..5 : In(spiMemory[i], address) =>
                  Image(address) = Located(spiMemory[i].name, address - spiMemory[i].address)
           /\ (\A i \in 1..5 : ~In(spiMemory[i], address)) =>
                  Image(address) = IF address \in EepromBegin..(EepromEnd - 1)
                                   THEN Located("eeprom", address - EepromBegin) ELSE Located("nothing", 0)
<1>. DEFINE in == {i \in DOMAIN spiMemory :
                      address \in spiMemory[i].address..(spiMemory[i].address + spiMemory[i].length - 1)}
<1>1. in = {i \in 1..5 : In(spiMemory[i], address)}
  BY SegmentBounds DEF In, LastOf
<1>2. Image(address) = IF in # {} THEN LET i == CHOOSE i \in in : TRUE
                                       IN  Located(spiMemory[i].name, address - spiMemory[i].address)
                       ELSE IF address \in EepromBegin..(EepromEnd - 1)
                       THEN Located("eeprom", address - EepromBegin) ELSE Located("nothing", 0)
  BY DEF Image, Located
<1>. HIDE DEF in
<1>3. \A i, j \in in : i = j
  <2>. SUFFICES ASSUME NEW i \in in, NEW j \in in PROVE ~(i < j)
    BY <1>1
  <2>1. In(spiMemory[i], address) /\ In(spiMemory[j], address) /\ i \in 1..5 /\ j \in 1..5
    BY <1>1
  <2>. QED
    BY <2>1, SegmentBounds DEF In
<1>4. ASSUME NEW i \in 1..5, In(spiMemory[i], address)
      PROVE  Image(address) = Located(spiMemory[i].name, address - spiMemory[i].address)
  <2>1. i \in in
    BY <1>1, <1>4
  <2>2. (CHOOSE j \in in : TRUE) = i
    BY <1>3, <2>1
  <2>. QED
    BY <1>2, <2>1, <2>2
<1>5. (\A i \in 1..5 : ~In(spiMemory[i], address)) => in = {}
  BY <1>1
<1>. QED
  BY <1>2, <1>4, <1>5

\* The other way round: what a byte of the image says of its address.
LEMMA AddressOf ==
    ASSUME NEW address \in Int
    PROVE  /\ \A i \in 1..5 : Place(Image(address)) = spiMemory[i].name => In(spiMemory[i], address)
           /\ Place(Image(address)) = "eeprom" => address \in EepromBegin..(EepromEnd - 1)
           /\ \/ Place(Image(address)) \in {"eeprom", "nothing"}
              \/ \E i \in 1..5 : Place(Image(address)) = spiMemory[i].name
<1>1. CASE \E i \in 1..5 : In(spiMemory[i], address)
  <2>1. PICK i \in 1..5 : In(spiMemory[i], address)
    BY <1>1
  <2>2. Place(Image(address)) = spiMemory[i].name
    BY <2>1, ImageOf, PlaceOf
  <2>3. \A j \in 1..5 : Place(Image(address)) = spiMemory[j].name => j = i
    BY <2>2, SegmentNames
  <2>. QED
    BY <2>1, <2>2, <2>3, SegmentNames
<1>2. CASE ~ \E i \in 1..5 : In(spiMemory[i], address)
  <2>1. Place(Image(address)) =
            IF address \in EepromBegin..(EepromEnd - 1) THEN "eeprom" ELSE "nothing"
    BY <1>2, ImageOf, PlaceOf
  <2>. QED
    BY <2>1, SegmentNames
<1>. QED
  BY <1>1, <1>2

\* The search: the first segment that holds the range, or the user's area, or
\* nothing; the choice is of one that there is.
LEMMA Search ==
    ASSUME NEW address \in Nat, NEW length \in Nat, NEW after,
           after = (address + length) % 65536
    PROVE  \/ \E i \in 1..5 : /\ Holds(spiMemory[i], address, after)
                              /\ spiMemoryRead(address, length) = OfSegment(spiMemory[i], address, length)
           \/ /\ \A i \in 1..5 : ~Holds(spiMemory[i], address, after)
              /\ spiMemoryRead(address, length) =
                     IF address >= EepromBegin /\ after < EepromEnd
                     THEN OfUserArea(address, length) ELSE Failed
<1>. DEFINE found == {i \in DOMAIN spiMemory : Holds(spiMemory[i], address, after)}
            first == CHOOSE i \in found : \A j \in found : i <= j
<1>1. spiMemoryRead(address, length) =
          IF found # {} THEN OfSegment(spiMemory[first], address, length)
          ELSE IF address >= EepromBegin /\ after < EepromEnd
          THEN OfUserArea(address, length) ELSE Failed
  BY DEF spiMemoryRead, OfSegment, OfUserArea, Located
<1>2. found = {i \in 1..5 : Holds(spiMemory[i], address, after)}
  <2>1. DOMAIN spiMemory = 1..5
    BY SegmentBounds
  <2>. QED
    BY <2>1
<1>. HIDE DEF found
<1>3. found # {} => first \in found
  <2>. SUFFICES ASSUME found # {} PROVE \E i \in found : \A j \in found : i <= j
    OBVIOUS
  <2>1. found \subseteq 1..5
    BY <1>2
  <2>2. /\ 1 \in found => \A j \in found : 1 <= j
        /\ 2 \in found => 1 \in found \/ \A j \in found : 2 <= j
        /\ 3 \in found => 1 \in found \/ 2 \in found \/ \A j \in found : 3 <= j
        /\ 4 \in found => 1 \in found \/ 2 \in found \/ 3 \in found \/ \A j \in found : 4 <= j
        /\ 5 \in found => 1 \in found \/ 2 \in found \/ 3 \in found \/ 4 \in found
                          \/ \A j \in found : 5 <= j
    BY <2>1
  <2>3. \A i \in found : i = 1 \/ i = 2 \/ i = 3 \/ i = 4 \/ i = 5
    BY <2>1
  <2>. QED
    BY <2>2, <2>3
<1>. HIDE DEF first
<1>4. CASE found # {}
  <2>1. first \in 1..5 /\ Holds(spiMemory[first], address, after)
    BY <1>2, <1>3, <1>4
  <2>. QED
    BY <1>1, <1>4, <2>1
<1>5. CASE found = {}
  <2>1. \A i \in 1..5 : ~Holds(spiMemory[i], address, after)
    BY <1>2, <1>5
  <2>. QED
    BY <1>1, <1>5, <2>1
<1>. QED
  BY <1>4, <1>5

\* What a segment that holds the range gives is the image's.
LEMMA SegmentAgrees ==
    ASSUME NEW address \in Nat, NEW length \in Nat, NEW i \in 1..5,
           Holds(spiMemory[i], address, address + length)
    PROVE  OfSegment(spiMemory[i], address, length) = OfImage(address, length)
<1>1. ASSUME NEW n \in 1..length
      PROVE  Image(address + n - 1) =
                 Located(spiMemory[i].name, address - spiMemory[i].address + n - 1)
  <2>1. PICK at \in Int : at = address + n - 1
    OBVIOUS
  <2>2. In(spiMemory[i], at)
    BY <2>1, SegmentBounds DEF In, LastOf, Holds
  <2>3. Image(at) = Located(spiMemory[i].name, at - spiMemory[i].address)
    BY <2>2, ImageOf
  <2>4. at - spiMemory[i].address = address - spiMemory[i].address + n - 1
    BY <2>1, SegmentBounds
  <2>. QED
    BY <2>1, <2>3, <2>4
<1>. QED
  BY <1>1 DEF OfSegment, OfImage

LEMMA UserAreaAgrees ==
    ASSUME NEW address \in Nat, NEW length \in Nat,
           address >= EepromBegin, address + length < EepromEnd
    PROVE  OfUserArea(address, length) = OfImage(address, length)
<1>1. ASSUME NEW n \in 1..length
      PROVE  Image(address + n - 1) = Located("eeprom", address - EepromBegin + n - 1)
  <2>1. PICK at \in Int : at = address + n - 1
    OBVIOUS
  <2>2. at \in EepromBegin..(EepromEnd - 1)
    BY <2>1, SegmentBounds
  <2>3. \A i \in 1..5 : ~In(spiMemory[i], at)
    BY <2>2, SegmentBounds DEF In
  <2>4. Image(at) = Located("eeprom", at - EepromBegin)
    BY <2>2, <2>3, ImageOf
  <2>5. at - EepromBegin = address - EepromBegin + n - 1
    BY <2>1, SegmentBounds
  <2>. QED
    BY <2>1, <2>4, <2>5
<1>. QED
  BY <1>1 DEF OfUserArea, OfImage

\* Bytes that are all in one place: the first and the last of them are.
LEMMA OnePlace ==
    ASSUME NEW address \in Nat, NEW length \in Nat,
           InOnePlace(OfImage(address, length), length)
    PROVE  /\ length # 0
           /\ OfImage(address, length)[1] = Image(address)
           /\ Place(Image(address + length - 1)) = Place(Image(address))
<1>. DEFINE places == {Place(OfImage(address, length)[n]) : n \in 1..length}
            known == {"x6000"} \cup {"x6020"} \cup {"x603d"} \cup {"x6080"} \cup {"x6098"}
                     \cup {"eeprom"} \cup {"nothing"}
<1>1. IsFiniteSet(known)
  BY FS_Singleton, FS_Union
<1>2. \A n \in 1..length : OfImage(address, length)[n] = Image(address + n - 1)
  BY DEF OfImage
<1>3. \A n \in 1..length : Place(OfImage(address, length)[n]) \in known
  <2>. SUFFICES ASSUME NEW n \in 1..length PROVE Place(OfImage(address, length)[n]) \in known
    OBVIOUS
  <2>1. PICK at \in Int : at = address + n - 1
    OBVIOUS
  <2>2. Place(Image(at)) \in known
    BY AddressOf, SegmentNames
  <2>. QED
    BY <1>2, <2>1, <2>2
<1>4. places \subseteq known
  BY <1>3
<1>5. \A n \in 1..length : Place(OfImage(address, length)[n]) \in places
  OBVIOUS
<1>6. length # 0 => 1 \in 1..length /\ length \in 1..length
  OBVIOUS
<1>7. length = 0 => places = {}
  OBVIOUS
<1>8. Cardinality(places) = 1
  BY DEF InOnePlace
<1>. HIDE DEF places, known
<1>9. PICK place : places = {place}
  BY <1>1, <1>4, <1>8, FS_Subset, FS_Singleton
<1>10. length # 0
  BY <1>7, <1>9
<1>11. OfImage(address, length)[1] = Image(address)
  <2>1. address + 1 - 1 = address
    OBVIOUS
  <2>. QED
    BY <1>2, <1>6, <1>10, <2>1
<1>12. Place(OfImage(address, length)[length]) = Place(OfImage(address, length)[1])
  BY <1>5, <1>6, <1>9, <1>10
<1>. QED
  BY <1>2, <1>6, <1>10, <1>11, <1>12

LEMMA SearchAgrees ==
    ASSUME NEW address \in Nat, NEW length \in Nat
    PROVE  /\ address + length < 65536 =>
                  spiMemoryRead(address, length) \in {OfImage(address, length), Failed}
           /\ spiMemoryRead(address, length) # Failed =>
                  \A n \in 1..length : Place(spiMemoryRead(address, length)[n]) # "nothing"
           /\ /\ InOnePlace(OfImage(address, length), length)
              /\ Place(OfImage(address, length)[1]) # "nothing"
              /\ address + length # EepromEnd
              => spiMemoryRead(address, length) = OfImage(address, length)
<1>1. PICK after \in Int : after = (address + length) % 65536
  OBVIOUS
<1>2. address + length < 65536 => after = address + length
  BY <1>1
<1>3. \/ \E i \in 1..5 : /\ Holds(spiMemory[i], address, after)
                         /\ spiMemoryRead(address, length) = OfSegment(spiMemory[i], address, length)
      \/ /\ \A i \in 1..5 : ~Holds(spiMemory[i], address, after)
         /\ spiMemoryRead(address, length) =
                IF address >= EepromBegin /\ after < EepromEnd
                THEN OfUserArea(address, length) ELSE Failed
  BY <1>1, Search
<1>4. address + length < 65536 =>
          spiMemoryRead(address, length) \in {OfImage(address, length), Failed}
  BY <1>2, <1>3, SegmentAgrees, UserAreaAgrees
<1>5. ASSUME NEW n \in 1..length, spiMemoryRead(address, length) # Failed
      PROVE  Place(spiMemoryRead(address, length)[n]) # "nothing"
  <2>1. \A i \in 1..5 : Place(OfSegment(spiMemory[i], address, length)[n]) # "nothing"
    BY SegmentNames, PlaceOf DEF OfSegment
  <2>2. Place(OfUserArea(address, length)[n]) # "nothing"
    BY PlaceOf DEF OfUserArea
  <2>. QED
    BY <1>3, <1>5, <2>1, <2>2
<1>6. ASSUME InOnePlace(OfImage(address, length), length),
             Place(OfImage(address, length)[1]) # "nothing", address + length # EepromEnd
      PROVE  spiMemoryRead(address, length) = OfImage(address, length)
  <2>1. /\ length # 0 /\ Place(Image(address)) # "nothing"
        /\ Place(Image(address + length - 1)) = Place(Image(address))
    BY <1>6, OnePlace
  <2>2. PICK last \in Int : last = address + length - 1
    OBVIOUS
  <2>3. Place(Image(last)) = Place(Image(address))
    BY <2>1, <2>2
  <2>4. CASE Place(Image(address)) = "eeprom"
    <3>1. address \in EepromBegin..(EepromEnd - 1) /\ last \in EepromBegin..(EepromEnd - 1)
      BY <2>3, <2>4, AddressOf
    <3>2. address + length < EepromEnd /\ address + length < 65536 /\ address >= EepromBegin
      BY <1>6, <2>2, <3>1, SegmentBounds
    <3>. QED
      BY <1>2, <1>3, <3>2, SegmentAgrees, UserAreaAgrees
  <2>5. CASE \E i \in 1..5 : Place(Image(address)) = spiMemory[i].name
    <3>1. PICK i \in 1..5 : Place(Image(address)) = spiMemory[i].name
      BY <2>5
    <3>2. In(spiMemory[i], address) /\ In(spiMemory[i], last)
      BY <2>3, <3>1, AddressOf
    <3>3. address + length < 65536 /\ address < EepromBegin /\ last < EepromBegin
      BY <2>2, <3>2, SegmentBounds DEF In
    <3>4. Holds(spiMemory[i], address, address + length)
      BY <2>2, <3>2, SegmentBounds DEF In, LastOf, Holds
    <3>5. spiMemoryRead(address, length) = OfImage(address, length)
      <4>1. after = address + length
        BY <1>2, <3>3
      <4>2. \E j \in 1..5 : /\ Holds(spiMemory[j], address, after)
                            /\ spiMemoryRead(address, length) = OfSegment(spiMemory[j], address, length)
        BY <1>3, <3>4, <4>1
      <4>. QED
        BY <4>1, <4>2, SegmentAgrees
    <3>. QED
      BY <3>5
  <2>. QED
    BY <2>1, <2>4, <2>5, AddressOf
<1>. QED
  BY <1>4, <1>5, <1>6

LEMMA ReadInvInit == Init => ReadInv
  BY DEF Init, ReadInv

LEMMA ReadInvNext == ReadInv /\ [Next]_vars => ReadInv'
<1>. SUFFICES ASSUME ReadInv, [Next]_vars PROVE ReadInv'
  OBVIOUS
<1>1. CASE Next
  BY <1>1 DEF Next, ReadInv, ConvertState, DecodeRumble, PrintString, PrintNumber, ReadFlash, Frame,
              LongFrame, Blink, Compute
<1>2. CASE UNCHANGED vars
  BY <1>2 DEF vars, ReadInv
<1>. QED
  BY <1>1, <1>2

\* A read of any address and length that does not run past the last address
\* returns the image's bytes or nothing, and no read returns what the image
\* has not; a range that lies in one segment is found (spiMemory.cpp:122-151).
THEOREM ReadsRight == Spec => []ReadsAgreeWithImage
<1>1. ReadInv => ReadsAgreeWithImage
  <2>. SUFFICES ASSUME ReadInv, kind = "read", done PROVE ReadsAgreeWithImage
    BY DEF ReadsAgreeWithImage
  <2>1. PICK address \in Nat, length \in Nat : input[1] = address /\ input[2] = length
    <3>1. Reads \subseteq Word \X Byte
      BY ConversionsAssumption DEF ConversionsAssumption
    <3>2. input \in Word \X Byte
      BY <3>1 DEF ReadInv
    <3>3. Word \subseteq Nat /\ Byte \subseteq Nat
      BY DEF Word, Byte
    <3>. QED
      BY <3>2, <3>3
  <2>2. output = spiMemoryRead(address, length)
    BY <2>1 DEF ReadInv
  <2>3. OfImage(address, length) = [n \in 1..input[2] |-> Image(input[1] + n - 1)]
    BY <2>1 DEF OfImage
  <2>. HIDE DEF OfImage
  <2>4. PICK bytes : bytes = OfImage(address, length)
    OBVIOUS
  <2>5. /\ address + length < 65536 => output \in {bytes, Failed}
        /\ output # Failed => \A n \in 1..length : Place(output[n]) # "nothing"
        /\ /\ InOnePlace(bytes, length)
           /\ Place(bytes[1]) # "nothing"
           /\ address + length # EepromEnd
           => output = bytes
    BY <2>2, <2>4, SearchAgrees
  <2>6. Cardinality({bytes[n][1] : n \in 1..length}) = 1 => InOnePlace(bytes, length)
    BY DEF InOnePlace, Place
  <2>7. \A byte : Place(byte) = byte[1]
    BY DEF Place
  <2>8. /\ input[1] + input[2] < 65536 => output \in {bytes, Failed}
        /\ output # Failed => \A n \in 1..input[2] : output[n][1] # "nothing"
        /\ /\ Cardinality({bytes[n][1] : n \in 1..input[2]}) = 1
           /\ bytes[1][1] # "nothing"
           /\ input[1] + input[2] # EepromEnd
           => output = bytes
    BY <2>1, <2>5, <2>6, <2>7
  <2>9. bytes = [n \in 1..input[2] |-> Image(input[1] + n - 1)]
    BY <2>3, <2>4
  <2>. QED
    BY <2>8, <2>9 DEF ReadsAgreeWithImage
<1>. QED
  BY <1>1, ReadInvInit, ReadInvNext, PTL DEF Spec

-----------------------------------------------------------------------------
(* The controller's state.                                                 *)

StateInv ==
    kind = "state" => /\ input \in Reports
                      /\ done => output = convertDualShockToSwitch(input)

LEMMA Bits ==
    /\ \A byte \in Byte, n \in 0..7 : Bit(byte, n) \in {0, 1}
    /\ \A byte \in Byte, n \in 0..7 : Bit(255 - byte, n) = 1 - Bit(byte, n)
    /\ \A n \in 0..7 : Bit(0, n) = 0
<1>1. \A n \in 0..7 : n = 0 \/ n = 1 \/ n = 2 \/ n = 3 \/ n = 4 \/ n = 5 \/ n = 6 \/ n = 7
  OBVIOUS
<1>2. \A byte \in 0..255 : /\ Bit(byte, 0) = byte % 2 /\ Bit(byte, 1) = (byte \div 2) % 2
                           /\ Bit(byte, 2) = (byte \div 4) % 2 /\ Bit(byte, 3) = (byte \div 8) % 2
                           /\ Bit(byte, 4) = (byte \div 16) % 2 /\ Bit(byte, 5) = (byte \div 32) % 2
                           /\ Bit(byte, 6) = (byte \div 64) % 2 /\ Bit(byte, 7) = (byte \div 128) % 2
  BY DEF Bit
<1>3. ASSUME NEW byte \in 0..255, NEW n \in 0..7 PROVE Bit(byte, n) \in {0, 1}
  BY <1>1, <1>2
<1>4. ASSUME NEW byte \in 0..255, NEW n \in 0..7 PROVE Bit(255 - byte, n) = 1 - Bit(byte, n)
  <2>1. PICK other \in 0..255 : other = 255 - byte
    OBVIOUS
  <2>2. /\ other % 2 = 1 - (byte % 2) /\ (other \div 2) % 2 = 1 - ((byte \div 2) % 2)
        /\ (other \div 4) % 2 = 1 - ((byte \div 4) % 2)
        /\ (other \div 8) % 2 = 1 - ((byte \div 8) % 2)
    BY <2>1
  <2>3. /\ (other \div 16) % 2 = 1 - ((byte \div 16) % 2)
        /\ (other \div 32) % 2 = 1 - ((byte \div 32) % 2)
        /\ (other \div 64) % 2 = 1 - ((byte \div 64) % 2)
        /\ (other \div 128) % 2 = 1 - ((byte \div 128) % 2)
    BY <2>1
  <2>. QED
    BY <1>1, <1>2, <2>1, <2>2, <2>3
<1>5. ASSUME NEW n \in 0..7 PROVE Bit(0, n) = 0
  BY <1>1, <1>2
<1>. QED
  BY <1>3, <1>4, <1>5 DEF Byte

\* A byte put together from bits has these bits.
LEMMA Assembled ==
    ASSUME NEW b0 \in {0, 1}, NEW b1 \in {0, 1}, NEW b2 \in {0, 1}, NEW b3 \in {0, 1},
           NEW b4 \in {0, 1}, NEW b5 \in {0, 1}, NEW b6 \in {0, 1}, NEW b7 \in {0, 1},
           NEW byte,
           byte = b0 + 2 * b1 + 4 * b2 + 8 * b3 + 16 * b4 + 32 * b5 + 64 * b6 + 128 * b7
    PROVE  /\ byte \in 0..255
           /\ Bit(byte, 0) = b0 /\ Bit(byte, 1) = b1 /\ Bit(byte, 2) = b2 /\ Bit(byte, 3) = b3
           /\ Bit(byte, 4) = b4 /\ Bit(byte, 5) = b5 /\ Bit(byte, 6) = b6 /\ Bit(byte, 7) = b7
<1>1. byte \in 0..255
  OBVIOUS
<1>2. /\ byte % 2 = b0 /\ (byte \div 2) % 2 = b1 /\ (byte \div 4) % 2 = b2
      /\ (byte \div 8) % 2 = b3
  OBVIOUS
<1>3. /\ (byte \div 16) % 2 = b4 /\ (byte \div 32) % 2 = b5
      /\ (byte \div 64) % 2 = b6 /\ (byte \div 128) % 2 = b7
  OBVIOUS
<1>. QED
  BY <1>1, <1>2, <1>3 DEF Bit

\* What the compiler's insertion is said to do, bit by bit.
InsertedBits(byte, map, bits, val) ==
    /\ Bit(byte, 0) = IF map[8] = 15 THEN Bit(val, 0) ELSE Bit(bits, map[8])
    /\ Bit(byte, 1) = IF map[7] = 15 THEN Bit(val, 1) ELSE Bit(bits, map[7])
    /\ Bit(byte, 2) = IF map[6] = 15 THEN Bit(val, 2) ELSE Bit(bits, map[6])
    /\ Bit(byte, 3) = IF map[5] = 15 THEN Bit(val, 3) ELSE Bit(bits, map[5])
    /\ Bit(byte, 4) = IF map[4] = 15 THEN Bit(val, 4) ELSE Bit(bits, map[4])
    /\ Bit(byte, 5) = IF map[3] = 15 THEN Bit(val, 5) ELSE Bit(bits, map[3])
    /\ Bit(byte, 6) = IF map[2] = 15 THEN Bit(val, 6) ELSE Bit(bits, map[2])
    /\ Bit(byte, 7) = IF map[1] = 15 THEN Bit(val, 7) ELSE Bit(bits, map[1])

LEMMA Inserted ==
    ASSUME NEW map, \A n \in 1..8 : map[n] \in (0..7) \cup {15},
           NEW bits \in Byte, NEW val \in Byte
    PROVE  /\ insert_bits(map, bits, val) \in Byte
           /\ InsertedBits(insert_bits(map, bits, val), map, bits, val)
<1>. DEFINE bit(n) == IF map[8 - n] = 15 THEN Bit(val, n) ELSE Bit(bits, map[8 - n])
<1>1. ASSUME NEW n \in 0..7 PROVE bit(n) \in {0, 1}
  <2>1. PICK m \in 1..8 : m = 8 - n
    OBVIOUS
  <2>2. map[m] # 15 => map[m] \in 0..7
    OBVIOUS
  <2>. QED
    BY <2>1, <2>2, Bits
<1>2. insert_bits(map, bits, val) =
          bit(0) + 2 * bit(1) + 4 * bit(2) + 8 * bit(3) + 16 * bit(4) + 32 * bit(5)
                 + 64 * bit(6) + 128 * bit(7)
  <2>1. insert_bits(map, bits, val) =
            2^0 * bit(0) + 2^1 * bit(1) + 2^2 * bit(2) + 2^3 * bit(3) + 2^4 * bit(4)
                + 2^5 * bit(5) + 2^6 * bit(6) + 2^7 * bit(7)
    BY DEF insert_bits
  <2>2. /\ 2^0 = 1 /\ 2^1 = 2 /\ 2^2 = 4 /\ 2^3 = 8 /\ 2^4 = 16 /\ 2^5 = 32 /\ 2^6 = 64
        /\ 2^7 = 128
    OBVIOUS
  <2>. HIDE DEF bit
  <2>3. 1 * bit(0) = bit(0)
    BY <1>1
  <2>. QED
    BY <2>1, <2>2, <2>3
<1>. HIDE DEF bit
<1>3. PICK byte : byte = insert_bits(map, bits, val)
  OBVIOUS
<1>4. /\ byte \in 0..255
      /\ Bit(byte, 0) = bit(0) /\ Bit(byte, 1) = bit(1) /\ Bit(byte, 2) = bit(2)
      /\ Bit(byte, 3) = bit(3) /\ Bit(byte, 4) = bit(4) /\ Bit(byte, 5) = bit(5)
      /\ Bit(byte, 6) = bit(6) /\ Bit(byte, 7) = bit(7)
  BY <1>1, <1>2, <1>3, Assembled
<1>5. /\ bit(0) = IF map[8] = 15 THEN Bit(val, 0) ELSE Bit(bits, map[8])
      /\ bit(1) = IF map[7] = 15 THEN Bit(val, 1) ELSE Bit(bits, map[7])
      /\ bit(2) = IF map[6] = 15 THEN Bit(val, 2) ELSE Bit(bits, map[6])
      /\ bit(3) = IF map[5] = 15 THEN Bit(val, 3) ELSE Bit(bits, map[5])
      /\ bit(4) = IF map[4] = 15 THEN Bit(val, 4) ELSE Bit(bits, map[4])
      /\ bit(5) = IF map[3] = 15 THEN Bit(val, 5) ELSE Bit(bits, map[3])
      /\ bit(6) = IF map[2] = 15 THEN Bit(val, 6) ELSE Bit(bits, map[2])
      /\ bit(7) = IF map[1] = 15 THEN Bit(val, 7) ELSE Bit(bits, map[1])
  BY DEF bit
<1>. QED
  BY <1>3, <1>4, <1>5 DEF Byte, InsertedBits

\* Where a button's name comes from.
InRow(name, byte, names, value) == \E n \in 0..7 : Bit(byte, n) = value /\ name = names[n + 1]

LEMMA ButtonNames ==
    ASSUME NEW names, NEW bytes, NEW value
    PROVE  \A name : name \in ButtonsWith(names, bytes, value) <=>
                         \E i \in DOMAIN names, n \in 0..7 :
                             Bit(bytes[i], n) = value /\ name = names[i][n + 1]
<1>. DEFINE at == {x \in (DOMAIN names) \X (0..7) : Bit(bytes[x[1]], x[2]) = value}
<1>1. ButtonsWith(names, bytes, value) = {names[x[1]][x[2] + 1] : x \in at}
  BY DEF ButtonsWith
<1>2. ASSUME NEW i \in DOMAIN names, NEW n \in 0..7, Bit(bytes[i], n) = value
      PROVE  names[i][n + 1] \in ButtonsWith(names, bytes, value)
  <2>1. <<i, n>> \in at
    BY <1>2
  <2>. QED
    BY <1>1, <2>1
<1>3. ASSUME NEW name \in ButtonsWith(names, bytes, value)
      PROVE  \E i \in DOMAIN names, n \in 0..7 : Bit(bytes[i], n) = value /\ name = names[i][n + 1]
  <2>1. PICK x \in at : name = names[x[1]][x[2] + 1]
    BY <1>1
  <2>2. x[1] \in DOMAIN names /\ x[2] \in 0..7 /\ Bit(bytes[x[1]], x[2]) = value
    BY <2>1
  <2>. QED
    BY <2>1, <2>2
<1>. QED
  BY <1>2, <1>3

\* The bits of the three bytes that a report's two are made into.
LEMMA ButtonBits ==
    ASSUME NEW b1 \in Byte, NEW b2 \in Byte, NEW out,
           out = << insert_bits(<<1, 3, 15, 15, 5, 6, 4, 7>>, 255 - b2, 0),
                    insert_bits(<<15, 15, 15, 15, 1, 2, 3, 0>>, 255 - b1, 0),
                    insert_bits(<<15, 15, 15, 15, 7, 5, 4, 6>>, 255 - b1,
                                insert_bits(<<0, 2, 15, 15, 15, 15, 15, 15>>, 255 - b2, 0)) >>
    PROVE  /\ Bit(out[1], 0) = 1 - Bit(b2, 7) /\ Bit(out[1], 1) = 1 - Bit(b2, 4)
           /\ Bit(out[1], 2) = 1 - Bit(b2, 6) /\ Bit(out[1], 3) = 1 - Bit(b2, 5)
           /\ Bit(out[1], 4) = 0 /\ Bit(out[1], 5) = 0
           /\ Bit(out[1], 6) = 1 - Bit(b2, 3) /\ Bit(out[1], 7) = 1 - Bit(b2, 1)
           /\ Bit(out[2], 0) = 1 - Bit(b1, 0) /\ Bit(out[2], 1) = 1 - Bit(b1, 3)
           /\ Bit(out[2], 2) = 1 - Bit(b1, 2) /\ Bit(out[2], 3) = 1 - Bit(b1, 1)
           /\ Bit(out[2], 4) = 0 /\ Bit(out[2], 5) = 0 /\ Bit(out[2], 6) = 0 /\ Bit(out[2], 7) = 0
           /\ Bit(out[3], 0) = 1 - Bit(b1, 6) /\ Bit(out[3], 1) = 1 - Bit(b1, 4)
           /\ Bit(out[3], 2) = 1 - Bit(b1, 5) /\ Bit(out[3], 3) = 1 - Bit(b1, 7)
           /\ Bit(out[3], 4) = 0 /\ Bit(out[3], 5) = 0
           /\ Bit(out[3], 6) = 1 - Bit(b2, 2) /\ Bit(out[3], 7) = 1 - Bit(b2, 0)
<1>1. PICK c1, c2 : c1 = 255 - b1 /\ c2 = 255 - b2 /\ c1 \in Byte /\ c2 \in Byte
  <2>1. \A byte \in 0..255 : 255 - byte \in 0..255
    OBVIOUS
  <2>. QED
    BY <2>1 DEF Byte
<1>2. \A n \in 0..7 : Bit(c1, n) = 1 - Bit(b1, n) /\ Bit(c2, n) = 1 - Bit(b2, n) /\ Bit(0, n) = 0
  BY <1>1, Bits
<1>3. 0 \in Byte
  BY DEF Byte
<1>. DEFINE map1 == <<1, 3, 15, 15, 5, 6, 4, 7>>
            map2 == <<15, 15, 15, 15, 1, 2, 3, 0>>
            map3 == <<15, 15, 15, 15, 7, 5, 4, 6>>
            map4 == <<0, 2, 15, 15, 15, 15, 15, 15>>
<1>4. /\ \A n \in 1..8 : map1[n] \in (0..7) \cup {15} /\ map2[n] \in (0..7) \cup {15}
      /\ \A n \in 1..8 : map3[n] \in (0..7) \cup {15} /\ map4[n] \in (0..7) \cup {15}
  OBVIOUS
<1>5. /\ map1[1] = 1 /\ map1[2] = 3 /\ map1[3] = 15 /\ map1[4] = 15
      /\ map1[5] = 5 /\ map1[6] = 6 /\ map1[7] = 4 /\ map1[8] = 7
      /\ map2[1] = 15 /\ map2[2] = 15 /\ map2[3] = 15 /\ map2[4] = 15
      /\ map2[5] = 1 /\ map2[6] = 2 /\ map2[7] = 3 /\ map2[8] = 0
  OBVIOUS
<1>6. /\ map3[1] = 15 /\ map3[2] = 15 /\ map3[3] = 15 /\ map3[4] = 15
      /\ map3[5] = 7 /\ map3[6] = 5 /\ map3[7] = 4 /\ map3[8] = 6
      /\ map4[1] = 0 /\ map4[2] = 2 /\ map4[3] = 15 /\ map4[4] = 15
      /\ map4[5] = 15 /\ map4[6] = 15 /\ map4[7] = 15 /\ map4[8] = 15
  OBVIOUS
<1>7. /\ out[1] = insert_bits(map1, c2, 0) /\ out[2] = insert_bits(map2, c1, 0)
      /\ out[3] = insert_bits(map3, c1, insert_bits(map4, c2, 0))
  BY <1>1
<1>. HIDE DEF map1, map2, map3, map4
<1>8. PICK high : high = insert_bits(map4, c2, 0)
  OBVIOUS
<1>9. high \in Byte /\ InsertedBits(high, map4, c2, 0)
  BY <1>1, <1>3, <1>4, <1>8, Inserted
<1>10. /\ Bit(high, 7) = 1 - Bit(b2, 0) /\ Bit(high, 6) = 1 - Bit(b2, 2)
       /\ Bit(high, 5) = 0 /\ Bit(high, 4) = 0
  BY <1>2, <1>6, <1>9 DEF InsertedBits
<1>11. Bit(0, 4) = 0 /\ Bit(0, 5) = 0 /\ Bit(0, 6) = 0 /\ Bit(0, 7) = 0
  BY <1>2
<1>12. /\ Bit(c1, 0) = 1 - Bit(b1, 0) /\ Bit(c1, 1) = 1 - Bit(b1, 1) /\ Bit(c1, 2) = 1 - Bit(b1, 2)
       /\ Bit(c1, 3) = 1 - Bit(b1, 3) /\ Bit(c1, 4) = 1 - Bit(b1, 4) /\ Bit(c1, 5) = 1 - Bit(b1, 5)
       /\ Bit(c1, 6) = 1 - Bit(b1, 6) /\ Bit(c1, 7) = 1 - Bit(b1, 7)
  BY <1>2
<1>13. /\ Bit(c2, 0) = 1 - Bit(b2, 0) /\ Bit(c2, 1) = 1 - Bit(b2, 1) /\ Bit(c2, 2) = 1 - Bit(b2, 2)
       /\ Bit(c2, 3) = 1 - Bit(b2, 3) /\ Bit(c2, 4) = 1 - Bit(b2, 4) /\ Bit(c2, 5) = 1 - Bit(b2, 5)
       /\ Bit(c2, 6) = 1 - Bit(b2, 6) /\ Bit(c2, 7) = 1 - Bit(b2, 7)
  BY <1>2
<1>14. InsertedBits(out[1], map1, c2, 0) /\ InsertedBits(out[2], map2, c1, 0)
  BY <1>1, <1>3, <1>4, <1>7, Inserted
<1>15. InsertedBits(out[3], map3, c1, high)
  BY <1>1, <1>4, <1>7, <1>8, <1>9, Inserted
<1>16. /\ Bit(out[1], 0) = 1 - Bit(b2, 7) /\ Bit(out[1], 1) = 1 - Bit(b2, 4)
       /\ Bit(out[1], 2) = 1 - Bit(b2, 6) /\ Bit(out[1], 3) = 1 - Bit(b2, 5)
       /\ Bit(out[1], 4) = 0 /\ Bit(out[1], 5) = 0
       /\ Bit(out[1], 6) = 1 - Bit(b2, 3) /\ Bit(out[1], 7) = 1 - Bit(b2, 1)
  BY <1>5, <1>11, <1>13, <1>14 DEF InsertedBits
<1>17. /\ Bit(out[2], 0) = 1 - Bit(b1, 0) /\ Bit(out[2], 1) = 1 - Bit(b1, 3)
       /\ Bit(out[2], 2) = 1 - Bit(b1, 2) /\ Bit(out[2], 3) = 1 - Bit(b1, 1)
       /\ Bit(out[2], 4) = 0 /\ Bit(out[2], 5) = 0 /\ Bit(out[2], 6) = 0 /\ Bit(out[2], 7) = 0
  BY <1>5, <1>11, <1>12, <1>14 DEF InsertedBits
<1>18. /\ Bit(out[3], 0) = 1 - Bit(b1, 6) /\ Bit(out[3], 1) = 1 - Bit(b1, 4)
       /\ Bit(out[3], 2) = 1 - Bit(b1, 5) /\ Bit(out[3], 3) = 1 - Bit(b1, 7)
       /\ Bit(out[3], 4) = 0 /\ Bit(out[3], 5) = 0
       /\ Bit(out[3], 6) = 1 - Bit(b2, 2) /\ Bit(out[3], 7) = 1 - Bit(b2, 0)
  BY <1>6, <1>10, <1>12, <1>15 DEF InsertedBits
<1>. QED
  BY <1>16, <1>17, <1>18

LEMMA Rows ==
    ASSUME NEW byte, NEW names, NEW value
    PROVE  \A name : InRow(name, byte, names, value) <=>
               \/ (Bit(byte, 0) = value /\ name = names[1]) \/ (Bit(byte, 1) = value /\ name = names[2])
               \/ (Bit(byte, 2) = value /\ name = names[3]) \/ (Bit(byte, 3) = value /\ name = names[4])
               \/ (Bit(byte, 4) = value /\ name = names[5]) \/ (Bit(byte, 5) = value /\ name = names[6])
               \/ (Bit(byte, 6) = value /\ name = names[7]) \/ (Bit(byte, 7) = value /\ name = names[8])
<1>1. \A n \in 0..7 : n = 0 \/ n = 1 \/ n = 2 \/ n = 3 \/ n = 4 \/ n = 5 \/ n = 6 \/ n = 7
  OBVIOUS
<1>2. /\ 0 \in 0..7 /\ 1 \in 0..7 /\ 2 \in 0..7 /\ 3 \in 0..7 /\ 4 \in 0..7 /\ 5 \in 0..7
      /\ 6 \in 0..7 /\ 7 \in 0..7 /\ 0 + 1 = 1 /\ 1 + 1 = 2 /\ 2 + 1 = 3 /\ 3 + 1 = 4
      /\ 4 + 1 = 5 /\ 5 + 1 = 6 /\ 6 + 1 = 7 /\ 7 + 1 = 8
  OBVIOUS
<1>3. ASSUME NEW name, NEW n \in 0..7, Bit(byte, n) = value, name = names[n + 1]
      PROVE  \/ (Bit(byte, 0) = value /\ name = names[1]) \/ (Bit(byte, 1) = value /\ name = names[2])
             \/ (Bit(byte, 2) = value /\ name = names[3]) \/ (Bit(byte, 3) = value /\ name = names[4])
             \/ (Bit(byte, 4) = value /\ name = names[5]) \/ (Bit(byte, 5) = value /\ name = names[6])
             \/ (Bit(byte, 6) = value /\ name = names[7]) \/ (Bit(byte, 7) = value /\ name = names[8])
  <2>1. CASE n = 0
    BY <1>2, <1>3, <2>1
  <2>2. CASE n = 1
    BY <1>2, <1>3, <2>2
  <2>3. CASE n = 2
    BY <1>2, <1>3, <2>3
  <2>4. CASE n = 3
    BY <1>2, <1>3, <2>4
  <2>5. CASE n = 4
    BY <1>2, <1>3, <2>5
  <2>6. CASE n = 5
    BY <1>2, <1>3, <2>6
  <2>7. CASE n = 6
    BY <1>2, <1>3, <2>7
  <2>8. CASE n = 7
    BY <1>2, <1>3, <2>8
  <2>. QED
    BY <1>1, <2>1, <2>2, <2>3, <2>4, <2>5, <2>6, <2>7, <2>8
<1>4. ASSUME NEW name,
             \/ (Bit(byte, 0) = value /\ name = names[1]) \/ (Bit(byte, 1) = value /\ name = names[2])
             \/ (Bit(byte, 2) = value /\ name = names[3]) \/ (Bit(byte, 3) = value /\ name = names[4])
             \/ (Bit(byte, 4) = value /\ name = names[5]) \/ (Bit(byte, 5) = value /\ name = names[6])
             \/ (Bit(byte, 6) = value /\ name = names[7]) \/ (Bit(byte, 7) = value /\ name = names[8])
      PROVE  InRow(name, byte, names, value)
  BY <1>2, <1>4 DEF InRow
<1>. QED
  BY <1>3, <1>4 DEF InRow

LEMMA SwitchNames ==
    ASSUME NEW out
    PROVE  \A name : name \in ButtonsWith(SwitchButtons, out, 1) <=>
               \/ (Bit(out[1], 0) = 1 /\ name = "y") \/ (Bit(out[1], 1) = 1 /\ name = "x")
               \/ (Bit(out[1], 2) = 1 /\ name = "b") \/ (Bit(out[1], 3) = 1 /\ name = "a")
               \/ (Bit(out[1], 4) = 1 /\ name = "rightSR") \/ (Bit(out[1], 5) = 1 /\ name = "rightSL")
               \/ (Bit(out[1], 6) = 1 /\ name = "r") \/ (Bit(out[1], 7) = 1 /\ name = "zr")
               \/ (Bit(out[2], 0) = 1 /\ name = "minus") \/ (Bit(out[2], 1) = 1 /\ name = "plus")
               \/ (Bit(out[2], 2) = 1 /\ name = "rStick") \/ (Bit(out[2], 3) = 1 /\ name = "lStick")
               \/ (Bit(out[2], 4) = 1 /\ name = "home") \/ (Bit(out[2], 5) = 1 /\ name = "capture")
               \/ (Bit(out[2], 6) = 1 /\ name = "unused") \/ (Bit(out[2], 7) = 1 /\ name = "grip")
               \/ (Bit(out[3], 0) = 1 /\ name = "down") \/ (Bit(out[3], 1) = 1 /\ name = "up")
               \/ (Bit(out[3], 2) = 1 /\ name = "right") \/ (Bit(out[3], 3) = 1 /\ name = "left")
               \/ (Bit(out[3], 4) = 1 /\ name = "leftSR") \/ (Bit(out[3], 5) = 1 /\ name = "leftSL")
               \/ (Bit(out[3], 6) = 1 /\ name = "l") \/ (Bit(out[3], 7) = 1 /\ name = "zl")
<1>1. DOMAIN SwitchButtons = 1..3 /\ \A i \in 1..3 : i = 1 \/ i = 2 \/ i = 3
  BY DEF SwitchButtons
<1>2. \A name : name \in ButtonsWith(SwitchButtons, out, 1) <=>
          \/ InRow(name, out[1], SwitchButtons[1], 1)
          \/ InRow(name, out[2], SwitchButtons[2], 1)
          \/ InRow(name, out[3], SwitchButtons[3], 1)
  <2>1. \A name : name \in ButtonsWith(SwitchButtons, out, 1) <=>
            \E i \in DOMAIN SwitchButtons : InRow(name, out[i], SwitchButtons[i], 1)
    BY ButtonNames DEF InRow
  <2>. QED
    BY <1>1, <2>1
<1>3. \A name : InRow(name, out[1], SwitchButtons[1], 1) <=>
          \/ (Bit(out[1], 0) = 1 /\ name = "y") \/ (Bit(out[1], 1) = 1 /\ name = "x")
          \/ (Bit(out[1], 2) = 1 /\ name = "b") \/ (Bit(out[1], 3) = 1 /\ name = "a")
          \/ (Bit(out[1], 4) = 1 /\ name = "rightSR") \/ (Bit(out[1], 5) = 1 /\ name = "rightSL")
          \/ (Bit(out[1], 6) = 1 /\ name = "r") \/ (Bit(out[1], 7) = 1 /\ name = "zr")
  <2>1. /\ SwitchButtons[1][1] = "y" /\ SwitchButtons[1][2] = "x"
        /\ SwitchButtons[1][3] = "b" /\ SwitchButtons[1][4] = "a"
        /\ SwitchButtons[1][5] = "rightSR" /\ SwitchButtons[1][6] = "rightSL"
        /\ SwitchButtons[1][7] = "r" /\ SwitchButtons[1][8] = "zr"
    BY DEF SwitchButtons
  <2>. QED
    BY <2>1, Rows
<1>4. \A name : InRow(name, out[2], SwitchButtons[2], 1) <=>
          \/ (Bit(out[2], 0) = 1 /\ name = "minus") \/ (Bit(out[2], 1) = 1 /\ name = "plus")
          \/ (Bit(out[2], 2) = 1 /\ name = "rStick") \/ (Bit(out[2], 3) = 1 /\ name = "lStick")
          \/ (Bit(out[2], 4) = 1 /\ name = "home") \/ (Bit(out[2], 5) = 1 /\ name = "capture")
          \/ (Bit(out[2], 6) = 1 /\ name = "unused") \/ (Bit(out[2], 7) = 1 /\ name = "grip")
  <2>1. /\ SwitchButtons[2][1] = "minus" /\ SwitchButtons[2][2] = "plus"
        /\ SwitchButtons[2][3] = "rStick" /\ SwitchButtons[2][4] = "lStick"
        /\ SwitchButtons[2][5] = "home" /\ SwitchButtons[2][6] = "capture"
        /\ SwitchButtons[2][7] = "unused" /\ SwitchButtons[2][8] = "grip"
    BY DEF SwitchButtons
  <2>. QED
    BY <2>1, Rows
<1>5. \A name : InRow(name, out[3], SwitchButtons[3], 1) <=>
          \/ (Bit(out[3], 0) = 1 /\ name = "down") \/ (Bit(out[3], 1) = 1 /\ name = "up")
          \/ (Bit(out[3], 2) = 1 /\ name = "right") \/ (Bit(out[3], 3) = 1 /\ name = "left")
          \/ (Bit(out[3], 4) = 1 /\ name = "leftSR") \/ (Bit(out[3], 5) = 1 /\ name = "leftSL")
          \/ (Bit(out[3], 6) = 1 /\ name = "l") \/ (Bit(out[3], 7) = 1 /\ name = "zl")
  <2>1. /\ SwitchButtons[3][1] = "down" /\ SwitchButtons[3][2] = "up"
        /\ SwitchButtons[3][3] = "right" /\ SwitchButtons[3][4] = "left"
        /\ SwitchButtons[3][5] = "leftSR" /\ SwitchButtons[3][6] = "leftSL"
        /\ SwitchButtons[3][7] = "l" /\ SwitchButtons[3][8] = "zl"
    BY DEF SwitchButtons
  <2>. QED
    BY <2>1, Rows
<1>. QED
  BY <1>2, <1>3, <1>4, <1>5

LEMMA DualShockNames ==
    ASSUME NEW in
    PROVE  \A name : name \in ButtonsWith(DualShockButtons, in, 0) <=>
               \/ (Bit(in[1], 0) = 0 /\ name = "select") \/ (Bit(in[1], 1) = 0 /\ name = "l3")
               \/ (Bit(in[1], 2) = 0 /\ name = "r3") \/ (Bit(in[1], 3) = 0 /\ name = "start")
               \/ (Bit(in[1], 4) = 0 /\ name = "up") \/ (Bit(in[1], 5) = 0 /\ name = "right")
               \/ (Bit(in[1], 6) = 0 /\ name = "down") \/ (Bit(in[1], 7) = 0 /\ name = "left")
               \/ (Bit(in[2], 0) = 0 /\ name = "l2") \/ (Bit(in[2], 1) = 0 /\ name = "r2")
               \/ (Bit(in[2], 2) = 0 /\ name = "l1") \/ (Bit(in[2], 3) = 0 /\ name = "r1")
               \/ (Bit(in[2], 4) = 0 /\ name = "triangle") \/ (Bit(in[2], 5) = 0 /\ name = "circle")
               \/ (Bit(in[2], 6) = 0 /\ name = "cross") \/ (Bit(in[2], 7) = 0 /\ name = "square")
<1>1. DOMAIN DualShockButtons = 1..2 /\ \A i \in 1..2 : i = 1 \/ i = 2
  BY DEF DualShockButtons
<1>2. \A name : name \in ButtonsWith(DualShockButtons, in, 0) <=>
          \/ InRow(name, in[1], DualShockButtons[1], 0)
          \/ InRow(name, in[2], DualShockButtons[2], 0)
  <2>1. \A name : name \in ButtonsWith(DualShockButtons, in, 0) <=>
            \E i \in DOMAIN DualShockButtons : InRow(name, in[i], DualShockButtons[i], 0)
    BY ButtonNames DEF InRow
  <2>. QED
    BY <1>1, <2>1
<1>3. \A name : InRow(name, in[1], DualShockButtons[1], 0) <=>
          \/ (Bit(in[1], 0) = 0 /\ name = "select") \/ (Bit(in[1], 1) = 0 /\ name = "l3")
          \/ (Bit(in[1], 2) = 0 /\ name = "r3") \/ (Bit(in[1], 3) = 0 /\ name = "start")
          \/ (Bit(in[1], 4) = 0 /\ name = "up") \/ (Bit(in[1], 5) = 0 /\ name = "right")
          \/ (Bit(in[1], 6) = 0 /\ name = "down") \/ (Bit(in[1], 7) = 0 /\ name = "left")
  <2>1. /\ DualShockButtons[1][1] = "select" /\ DualShockButtons[1][2] = "l3"
        /\ DualShockButtons[1][3] = "r3" /\ DualShockButtons[1][4] = "start"
        /\ DualShockButtons[1][5] = "up" /\ DualShockButtons[1][6] = "right"
        /\ DualShockButtons[1][7] = "down" /\ DualShockButtons[1][8] = "left"
    BY DEF DualShockButtons
  <2>. QED
    BY <2>1, Rows
<1>4. \A name : InRow(name, in[2], DualShockButtons[2], 0) <=>
          \/ (Bit(in[2], 0) = 0 /\ name = "l2") \/ (Bit(in[2], 1) = 0 /\ name = "r2")
          \/ (Bit(in[2], 2) = 0 /\ name = "l1") \/ (Bit(in[2], 3) = 0 /\ name = "r1")
          \/ (Bit(in[2], 4) = 0 /\ name = "triangle") \/ (Bit(in[2], 5) = 0 /\ name = "circle")
          \/ (Bit(in[2], 6) = 0 /\ name = "cross") \/ (Bit(in[2], 7) = 0 /\ name = "square")
  <2>1. /\ DualShockButtons[2][1] = "l2" /\ DualShockButtons[2][2] = "r2"
        /\ DualShockButtons[2][3] = "l1" /\ DualShockButtons[2][4] = "r1"
        /\ DualShockButtons[2][5] = "triangle" /\ DualShockButtons[2][6] = "circle"
        /\ DualShockButtons[2][7] = "cross" /\ DualShockButtons[2][8] = "square"
    BY DEF DualShockButtons
  <2>. QED
    BY <2>1, Rows
<1>. QED
  BY <1>2, <1>3, <1>4

\* A button for a button: what is pressed on one side is pressed on the other.
LEMMA ButtonsConverted ==
    ASSUME NEW b1 \in Byte, NEW b2 \in Byte, NEW in, in = <<b1, b2>>, NEW out,
           out = << insert_bits(<<1, 3, 15, 15, 5, 6, 4, 7>>, 255 - b2, 0),
                    insert_bits(<<15, 15, 15, 15, 1, 2, 3, 0>>, 255 - b1, 0),
                    insert_bits(<<15, 15, 15, 15, 7, 5, 4, 6>>, 255 - b1,
                                insert_bits(<<0, 2, 15, 15, 15, 15, 15, 15>>, 255 - b2, 0)) >>
    PROVE  ButtonsWith(SwitchButtons, out, 1)
               = {Counterpart[b] : b \in ButtonsWith(DualShockButtons, in, 0)}
<1>1. in[1] = b1 /\ in[2] = b2
  OBVIOUS
<1>2. \A name : name \in ButtonsWith(SwitchButtons, out, 1) <=>
          \/ (Bit(out[1], 0) = 1 /\ name = "y") \/ (Bit(out[1], 1) = 1 /\ name = "x")
          \/ (Bit(out[1], 2) = 1 /\ name = "b") \/ (Bit(out[1], 3) = 1 /\ name = "a")
          \/ (Bit(out[1], 4) = 1 /\ name = "rightSR") \/ (Bit(out[1], 5) = 1 /\ name = "rightSL")
          \/ (Bit(out[1], 6) = 1 /\ name = "r") \/ (Bit(out[1], 7) = 1 /\ name = "zr")
          \/ (Bit(out[2], 0) = 1 /\ name = "minus") \/ (Bit(out[2], 1) = 1 /\ name = "plus")
          \/ (Bit(out[2], 2) = 1 /\ name = "rStick") \/ (Bit(out[2], 3) = 1 /\ name = "lStick")
          \/ (Bit(out[2], 4) = 1 /\ name = "home") \/ (Bit(out[2], 5) = 1 /\ name = "capture")
          \/ (Bit(out[2], 6) = 1 /\ name = "unused") \/ (Bit(out[2], 7) = 1 /\ name = "grip")
          \/ (Bit(out[3], 0) = 1 /\ name = "down") \/ (Bit(out[3], 1) = 1 /\ name = "up")
          \/ (Bit(out[3], 2) = 1 /\ name = "right") \/ (Bit(out[3], 3) = 1 /\ name = "left")
          \/ (Bit(out[3], 4) = 1 /\ name = "leftSR") \/ (Bit(out[3], 5) = 1 /\ name = "leftSL")
          \/ (Bit(out[3], 6) = 1 /\ name = "l") \/ (Bit(out[3], 7) = 1 /\ name = "zl")
  BY SwitchNames
<1>3. \A name : name \in ButtonsWith(DualShockButtons, in, 0) <=>
          \/ (Bit(b1, 0) = 0 /\ name = "select") \/ (Bit(b1, 1) = 0 /\ name = "l3")
          \/ (Bit(b1, 2) = 0 /\ name = "r3") \/ (Bit(b1, 3) = 0 /\ name = "start")
          \/ (Bit(b1, 4) = 0 /\ name = "up") \/ (Bit(b1, 5) = 0 /\ name = "right")
          \/ (Bit(b1, 6) = 0 /\ name = "down") \/ (Bit(b1, 7) = 0 /\ name = "left")
          \/ (Bit(b2, 0) = 0 /\ name = "l2") \/ (Bit(b2, 1) = 0 /\ name = "r2")
          \/ (Bit(b2, 2) = 0 /\ name = "l1") \/ (Bit(b2, 3) = 0 /\ name = "r1")
          \/ (Bit(b2, 4) = 0 /\ name = "triangle") \/ (Bit(b2, 5) = 0 /\ name = "circle")
          \/ (Bit(b2, 6) = 0 /\ name = "cross") \/ (Bit(b2, 7) = 0 /\ name = "square")
  BY <1>1, DualShockNames
<1>4. /\ Counterpart["square"] = "y" /\ Counterpart["triangle"] = "x" /\ Counterpart["cross"] = "b"
      /\ Counterpart["circle"] = "a" /\ Counterpart["r1"] = "r" /\ Counterpart["r2"] = "zr"
      /\ Counterpart["select"] = "minus" /\ Counterpart["start"] = "plus"
      /\ Counterpart["r3"] = "rStick" /\ Counterpart["l3"] = "lStick"
      /\ Counterpart["down"] = "down" /\ Counterpart["up"] = "up"
      /\ Counterpart["right"] = "right" /\ Counterpart["left"] = "left"
      /\ Counterpart["l1"] = "l" /\ Counterpart["l2"] = "zl"
  BY DEF Counterpart
<1>5. \A n \in 0..7 : Bit(b1, n) \in {0, 1} /\ Bit(b2, n) \in {0, 1}
  BY Bits
<1>6. \A name : name \in {Counterpart[b] : b \in ButtonsWith(DualShockButtons, in, 0)} <=>
          \/ (Bit(b1, 0) = 0 /\ name = "minus") \/ (Bit(b1, 1) = 0 /\ name = "lStick")
          \/ (Bit(b1, 2) = 0 /\ name = "rStick") \/ (Bit(b1, 3) = 0 /\ name = "plus")
          \/ (Bit(b1, 4) = 0 /\ name = "up") \/ (Bit(b1, 5) = 0 /\ name = "right")
          \/ (Bit(b1, 6) = 0 /\ name = "down") \/ (Bit(b1, 7) = 0 /\ name = "left")
          \/ (Bit(b2, 0) = 0 /\ name = "zl") \/ (Bit(b2, 1) = 0 /\ name = "zr")
          \/ (Bit(b2, 2) = 0 /\ name = "l") \/ (Bit(b2, 3) = 0 /\ name = "r")
          \/ (Bit(b2, 4) = 0 /\ name = "x") \/ (Bit(b2, 5) = 0 /\ name = "a")
          \/ (Bit(b2, 6) = 0 /\ name = "b") \/ (Bit(b2, 7) = 0 /\ name = "y")
  <2>1. \A name : name \in {Counterpart[b] : b \in ButtonsWith(DualShockButtons, in, 0)} <=>
            \E b : b \in ButtonsWith(DualShockButtons, in, 0) /\ name = Counterpart[b]
    OBVIOUS
  <2>. QED
    BY <1>3, <1>4, <2>1
<1>7. /\ Bit(out[1], 0) = 1 <=> Bit(b2, 7) = 0
      /\ Bit(out[1], 1) = 1 <=> Bit(b2, 4) = 0
      /\ Bit(out[1], 2) = 1 <=> Bit(b2, 6) = 0
      /\ Bit(out[1], 3) = 1 <=> Bit(b2, 5) = 0
      /\ Bit(out[1], 6) = 1 <=> Bit(b2, 3) = 0
      /\ Bit(out[1], 7) = 1 <=> Bit(b2, 1) = 0
      /\ Bit(out[3], 6) = 1 <=> Bit(b2, 2) = 0
      /\ Bit(out[3], 7) = 1 <=> Bit(b2, 0) = 0
  BY <1>5, ButtonBits
<1>8. /\ Bit(out[2], 0) = 1 <=> Bit(b1, 0) = 0
      /\ Bit(out[2], 1) = 1 <=> Bit(b1, 3) = 0
      /\ Bit(out[2], 2) = 1 <=> Bit(b1, 2) = 0
      /\ Bit(out[2], 3) = 1 <=> Bit(b1, 1) = 0
      /\ Bit(out[3], 0) = 1 <=> Bit(b1, 6) = 0
      /\ Bit(out[3], 1) = 1 <=> Bit(b1, 4) = 0
      /\ Bit(out[3], 2) = 1 <=> Bit(b1, 5) = 0
      /\ Bit(out[3], 3) = 1 <=> Bit(b1, 7) = 0
  BY <1>5, ButtonBits
<1>9. /\ Bit(out[1], 4) # 1 /\ Bit(out[1], 5) # 1 /\ Bit(out[2], 4) # 1 /\ Bit(out[2], 5) # 1
      /\ Bit(out[2], 6) # 1 /\ Bit(out[2], 7) # 1 /\ Bit(out[3], 4) # 1 /\ Bit(out[3], 5) # 1
  BY ButtonBits
<1>10. \A name : name \in ButtonsWith(SwitchButtons, out, 1) <=>
                 name \in {Counterpart[b] : b \in ButtonsWith(DualShockButtons, in, 0)}
  <2>. TAKE name
  <2>. DEFINE to == ButtonsWith(SwitchButtons, out, 1)
              from == {Counterpart[b] : b \in ButtonsWith(DualShockButtons, in, 0)}
  <2>1. name \in to <=>
               \/ (Bit(b2, 7) = 0 /\ name = "y") \/ (Bit(b2, 4) = 0 /\ name = "x")
               \/ (Bit(b2, 6) = 0 /\ name = "b") \/ (Bit(b2, 5) = 0 /\ name = "a")
               \/ (Bit(b2, 3) = 0 /\ name = "r") \/ (Bit(b2, 1) = 0 /\ name = "zr")
               \/ (Bit(b1, 0) = 0 /\ name = "minus") \/ (Bit(b1, 3) = 0 /\ name = "plus")
               \/ (Bit(b1, 2) = 0 /\ name = "rStick") \/ (Bit(b1, 1) = 0 /\ name = "lStick")
               \/ (Bit(b1, 6) = 0 /\ name = "down") \/ (Bit(b1, 4) = 0 /\ name = "up")
               \/ (Bit(b1, 5) = 0 /\ name = "right") \/ (Bit(b1, 7) = 0 /\ name = "left")
               \/ (Bit(b2, 2) = 0 /\ name = "l") \/ (Bit(b2, 0) = 0 /\ name = "zl")
    BY <1>2, <1>7, <1>8, <1>9
  <2>2. name \in from <=>
                 \/ (Bit(b1, 0) = 0 /\ name = "minus") \/ (Bit(b1, 1) = 0 /\ name = "lStick")
                 \/ (Bit(b1, 2) = 0 /\ name = "rStick") \/ (Bit(b1, 3) = 0 /\ name = "plus")
                 \/ (Bit(b1, 4) = 0 /\ name = "up") \/ (Bit(b1, 5) = 0 /\ name = "right")
                 \/ (Bit(b1, 6) = 0 /\ name = "down") \/ (Bit(b1, 7) = 0 /\ name = "left")
                 \/ (Bit(b2, 0) = 0 /\ name = "zl") \/ (Bit(b2, 1) = 0 /\ name = "zr")
                 \/ (Bit(b2, 2) = 0 /\ name = "l") \/ (Bit(b2, 3) = 0 /\ name = "r")
                 \/ (Bit(b2, 4) = 0 /\ name = "x") \/ (Bit(b2, 5) = 0 /\ name = "a")
                 \/ (Bit(b2, 6) = 0 /\ name = "b") \/ (Bit(b2, 7) = 0 /\ name = "y")
    BY <1>6
  <2>. HIDE DEF to, from
  <2>3. name \in to <=> name \in from
    BY <2>1, <2>2
  <2>. QED
    BY <2>3 DEF to, from
<1>. QED
  BY <1>10

\* Two values of twelve bits come out of the three bytes they are packed into.
LEMMA Packed12 ==
    ASSUME NEW x12 \in Nat, x12 < 4096, NEW y12 \in Nat, y12 < 4096
    PROVE  Position(PackedStick(x12, y12)) = <<x12, y12>>
<1>1. PICK xh \in Nat, xl \in Nat : xh = x12 \div 256 /\ xl = x12 % 256
  OBVIOUS
<1>2. PICK yh \in Nat, yl \in Nat : yh = y12 \div 16 /\ yl = y12 % 16
  OBVIOUS
<1>3. xh < 16 /\ xl < 256 /\ x12 = 256 * xh + xl
  BY <1>1
<1>4. yh < 256 /\ yl < 16 /\ y12 = 16 * yh + yl
  BY <1>2
<1>5. (y12 * 16) % 256 = 16 * yl
  <2>1. PICK high \in Nat, low \in Nat : high = 256 * yh /\ low = 16 * yl
    OBVIOUS
  <2>2. y12 * 16 = high + low /\ low < 256
    BY <1>4, <2>1
  <2>3. (256 * yh + low) % 256 = low
    BY <2>1, <2>2
  <2>. QED
    BY <2>1, <2>2, <2>3
<1>6. PICK packed : packed = PackedStick(x12, y12)
  OBVIOUS
<1>7. packed[1] = xl /\ packed[2] = 16 * yl + xh /\ packed[3] = yh
  BY <1>1, <1>2, <1>5, <1>6 DEF PackedStick
<1>8. (16 * yl + xh) % 16 = xh /\ (16 * yl + xh) \div 16 = yl
  BY <1>3
<1>9. Position(packed) = << xl + 256 * ((16 * yl + xh) % 16),
                            ((16 * yl + xh) \div 16) + 16 * yh >>
  BY <1>7 DEF Position
<1>10. xl + 256 * xh = x12 /\ yl + 16 * yh = y12
  BY <1>3, <1>4
<1>. QED
  BY <1>6, <1>8, <1>9, <1>10

LEMMA TwelveBits ==
    ASSUME NEW value \in Byte
    PROVE  /\ eightBitToTwelveBit(value) \in Nat
           /\ eightBitToTwelveBit(value) < 4096
           /\ ToScale(eightBitToTwelveBit(value), value)
<1>1. value \in Nat /\ value < 256
  BY DEF Byte
<1>2. PICK scaled \in Int : scaled = (value * 4095) \div 255
  BY <1>1
<1>3. 255 * scaled <= value * 4095 /\ value * 4095 < 255 * scaled + 255
  BY <1>1, <1>2
<1>4. /\ scaled \in Nat /\ scaled < 4096
      /\ 255 * scaled \in (4095 * value - 254)..(4095 * value)
  BY <1>1, <1>3
<1>. QED
  BY <1>2, <1>4 DEF eightBitToTwelveBit, ToScale

LEMMA SticksConverted ==
    ASSUME NEW x \in Byte, NEW y \in Byte
    PROVE  /\ ToScale(Position(Stick(x, y))[1], x)
           /\ ToScale(Position(Stick(x, y))[2], 255 - y)
<1>1. PICK up \in Byte : up = 255 - y
  <2>1. \A byte \in 0..255 : 255 - byte \in 0..255
    OBVIOUS
  <2>. QED
    BY <2>1 DEF Byte
<1>2. PICK x12 \in Nat : x12 = eightBitToTwelveBit(x) /\ x12 < 4096 /\ ToScale(x12, x)
  BY TwelveBits
<1>3. PICK y12 \in Nat : y12 = eightBitToTwelveBit(up) /\ y12 < 4096 /\ ToScale(y12, up)
  BY TwelveBits
<1>4. Stick(x, y) = PackedStick(x12, y12)
  BY <1>1, <1>2, <1>3 DEF Stick
<1>5. Position(Stick(x, y)) = <<x12, y12>>
  BY <1>2, <1>3, <1>4, Packed12
<1>. QED
  BY <1>1, <1>2, <1>3, <1>5

LEMMA StateInvInit == Init => StateInv
  BY DEF Init, StateInv

LEMMA StateInvNext == StateInv /\ [Next]_vars => StateInv'
<1>. SUFFICES ASSUME StateInv, [Next]_vars PROVE StateInv'
  OBVIOUS
<1>1. CASE Next
  BY <1>1 DEF Next, StateInv, ConvertState, DecodeRumble, PrintString, PrintNumber, ReadFlash,
              Frame, LongFrame, Blink, Compute
<1>2. CASE UNCHANGED vars
  BY <1>2 DEF vars, StateInv
<1>. QED
  BY <1>1, <1>2

\* Every report of a Dual Shock is converted as the source's comment says: a
\* button for a button, nothing else pressed, both sticks to scale
\* (main.cpp:281-368).
THEOREM ConvertsState == Spec => []StateConverted
<1>1. StateInv => StateConverted
  <2>. SUFFICES ASSUME StateInv, kind = "state", done PROVE StateConverted
    BY DEF StateConverted
  <2>1. input \in [buttons : Byte \X Byte, leftStick : Byte \X Byte, rightStick : Byte \X Byte]
    <3>1. Reports \subseteq [buttons : Byte \X Byte, leftStick : Byte \X Byte,
                             rightStick : Byte \X Byte]
      BY ConversionsAssumption DEF ConversionsAssumption
    <3>. QED
      BY <3>1 DEF StateInv
  <2>2. /\ input.buttons \in Byte \X Byte /\ input.leftStick \in Byte \X Byte
        /\ input.rightStick \in Byte \X Byte
    BY <2>1
  <2>3. PICK b1 \in Byte, b2 \in Byte : input.buttons = <<b1, b2>>
    BY <2>2
  <2>4. PICK lx \in Byte, ly \in Byte : input.leftStick = <<lx, ly>>
    BY <2>2
  <2>5. PICK rx \in Byte, ry \in Byte : input.rightStick = <<rx, ry>>
    BY <2>2
  <2>6. output = convertDualShockToSwitch(input)
    BY DEF StateInv
  <2>7. /\ output.leftStick = Stick(lx, ly) /\ output.rightStick = Stick(rx, ry)
        /\ output.buttons =
               << insert_bits(<<1, 3, 15, 15, 5, 6, 4, 7>>, 255 - b2, 0),
                  insert_bits(<<15, 15, 15, 15, 1, 2, 3, 0>>, 255 - b1, 0),
                  insert_bits(<<15, 15, 15, 15, 7, 5, 4, 6>>, 255 - b1,
                              insert_bits(<<0, 2, 15, 15, 15, 15, 15, 15>>, 255 - b2, 0)) >>
    BY <2>3, <2>4, <2>5, <2>6 DEF convertDualShockToSwitch
  <2>8. ButtonsWith(SwitchButtons, output.buttons, 1)
            = {Counterpart[b] : b \in ButtonsWith(DualShockButtons, input.buttons, 0)}
    BY <2>3, <2>7, ButtonsConverted
  <2>9. /\ ToScale(Position(output.leftStick)[1], input.leftStick[1])
        /\ ToScale(Position(output.leftStick)[2], 255 - input.leftStick[2])
    BY <2>4, <2>7, SticksConverted
  <2>10. /\ ToScale(Position(output.rightStick)[1], input.rightStick[1])
         /\ ToScale(Position(output.rightStick)[2], 255 - input.rightStick[2])
    BY <2>5, <2>7, SticksConverted
  <2>. QED
    BY <2>8, <2>9, <2>10 DEF StateConverted
<1>. QED
  BY <1>1, StateInvInit, StateInvNext, PTL DEF Spec

-----------------------------------------------------------------------------
(* The rumble data.                                                        *)

Encoded == Byte \X Byte \X Byte \X Byte

RumbleInv ==
    kind = "rumble" => /\ input \in RumbleData
                       /\ done => output = MotorAmplitudes(input[1], input[2])

LEMMA BitsOf == ASSUME NEW encoded \in Encoded, NEW n \in 0..31
                PROVE  BitOf(encoded, n) \in {0, 1}
<1>1. /\ encoded[1] \in Byte /\ encoded[2] \in Byte /\ encoded[3] \in Byte /\ encoded[4] \in Byte
  BY DEF Encoded
<1>2. PICK i \in 1..4, k \in 0..7 : i = (n \div 8) + 1 /\ k = n % 8
  OBVIOUS
<1>3. encoded[i] \in Byte
  BY <1>1, <1>2
<1>4. PICK byte \in Nat : byte = encoded[i]
  BY <1>3 DEF Byte
<1>5. PICK power \in Nat \ {0} : power = 2^k
  <2>1. k = 0 \/ k = 1 \/ k = 2 \/ k = 3 \/ k = 4 \/ k = 5 \/ k = 6 \/ k = 7
    OBVIOUS
  <2>2. /\ 2^0 = 1 /\ 2^1 = 2 /\ 2^2 = 4 /\ 2^3 = 8 /\ 2^4 = 16 /\ 2^5 = 32 /\ 2^6 = 64
        /\ 2^7 = 128
    OBVIOUS
  <2>3. 2^k \in Nat \ {0}
    <3>1. CASE k = 0
      BY <2>2, <3>1
    <3>2. CASE k = 1
      BY <2>2, <3>2
    <3>3. CASE k = 2
      BY <2>2, <3>3
    <3>4. CASE k = 3
      BY <2>2, <3>4
    <3>5. CASE k = 4
      BY <2>2, <3>5
    <3>6. CASE k = 5
      BY <2>2, <3>6
    <3>7. CASE k = 6
      BY <2>2, <3>7
    <3>8. CASE k = 7
      BY <2>2, <3>8
    <3>. QED
      BY <2>1, <3>1, <3>2, <3>3, <3>4, <3>5, <3>6, <3>7, <3>8
  <2>. QED
    BY <2>3
<1>6. (byte \div power) % 2 \in {0, 1}
  BY <1>4, <1>5
<1>. QED
  BY <1>2, <1>4, <1>5, <1>6 DEF BitOf

\* An amplitude of four bits, with its switch or without.
LEMMA AmplitudeOf ==
    ASSUME NEW encoded \in Encoded, NEW first \in 0..27
    PROVE  /\ Amplitude(encoded, first) \in Nat /\ Wave(encoded, first) \in Nat
           /\ (\A n \in (27 - first)..(30 - first) : BitOf(encoded, n) = 0) =>
                  Amplitude(encoded, first) = 0 /\ Wave(encoded, first) = 0
<1>1. PICK b0, b1, b2, b3 : /\ b0 = BitOf(encoded, 31 - (first + 1 + 0))
                            /\ b1 = BitOf(encoded, 31 - (first + 1 + 1))
                            /\ b2 = BitOf(encoded, 31 - (first + 1 + 2))
                            /\ b3 = BitOf(encoded, 31 - (first + 1 + 3))
  OBVIOUS
<1>2. PICK n0, n1, n2, n3 : /\ n0 = 31 - (first + 1 + 0) /\ n1 = 31 - (first + 1 + 1)
                            /\ n2 = 31 - (first + 1 + 2) /\ n3 = 31 - (first + 1 + 3)
                            /\ n0 \in 0..31 /\ n1 \in 0..31 /\ n2 \in 0..31 /\ n3 \in 0..31
                            /\ n0 \in (27 - first)..(30 - first)
                            /\ n1 \in (27 - first)..(30 - first)
                            /\ n2 \in (27 - first)..(30 - first)
                            /\ n3 \in (27 - first)..(30 - first)
  OBVIOUS
<1>3. b0 \in {0, 1} /\ b1 \in {0, 1} /\ b2 \in {0, 1} /\ b3 \in {0, 1}
  BY <1>1, <1>2, BitsOf
<1>4. PICK field : field = Field(encoded, first + 1, 4)
  OBVIOUS
<1>5. field = b0 * 2^0 + b1 * 2^1 + b2 * 2^2 + b3 * 2^3 + 0 + 0 + 0
  BY <1>1, <1>4 DEF Field, Flipped
<1>6. 2^0 = 1 /\ 2^1 = 2 /\ 2^2 = 4 /\ 2^3 = 8
  OBVIOUS
<1>7. field \in 0..15 /\ (b0 = 0 /\ b1 = 0 /\ b2 = 0 /\ b3 = 0 => field = 0)
  BY <1>3, <1>5, <1>6
<1>8. /\ \A at \in 1..16 : amplitude_lut[at] \in Nat
      /\ amplitude_lut[1] = 0
  BY DEF amplitude_lut
<1>9. PICK at \in 1..16 : at = field + 1
  BY <1>7
<1>10. Amplitude(encoded, first) = amplitude_lut[at]
  BY <1>4, <1>9 DEF Amplitude
<1>11. Amplitude(encoded, first) \in Nat
  BY <1>8, <1>10
<1>12. (\A n \in (27 - first)..(30 - first) : BitOf(encoded, n) = 0) =>
           Amplitude(encoded, first) = 0
  <2>. SUFFICES ASSUME \A n \in (27 - first)..(30 - first) : BitOf(encoded, n) = 0
                PROVE  Amplitude(encoded, first) = 0
    OBVIOUS
  <2>1. b0 = 0 /\ b1 = 0 /\ b2 = 0 /\ b3 = 0
    BY <1>1, <1>2
  <2>2. at = 1
    BY <1>7, <1>9, <2>1
  <2>. QED
    BY <1>8, <1>10, <2>2
<1>. QED
  BY <1>11, <1>12 DEF Wave

\* An amplitude of seven bits.
LEMMA SevenBits ==
    ASSUME NEW encoded \in Encoded, NEW first \in 0..25
    PROVE  /\ amplitudeFrom7BitAmplitude(Field(encoded, first, 7)) \in Nat
           /\ (\A n \in (25 - first)..(31 - first) : BitOf(encoded, n) = 0) =>
                  amplitudeFrom7BitAmplitude(Field(encoded, first, 7)) = 0
<1>1. PICK b0, b1, b2, b3, b4, b5, b6 :
          /\ b0 = BitOf(encoded, 31 - (first + 0)) /\ b1 = BitOf(encoded, 31 - (first + 1))
          /\ b2 = BitOf(encoded, 31 - (first + 2)) /\ b3 = BitOf(encoded, 31 - (first + 3))
          /\ b4 = BitOf(encoded, 31 - (first + 4)) /\ b5 = BitOf(encoded, 31 - (first + 5))
          /\ b6 = BitOf(encoded, 31 - (first + 6))
  OBVIOUS
<1>2. \A k \in 0..6 : 31 - (first + k) \in 0..31 /\ 31 - (first + k) \in (25 - first)..(31 - first)
  OBVIOUS
<1>3. \A k \in 0..6 : BitOf(encoded, 31 - (first + k)) \in {0, 1}
  BY <1>2, BitsOf
<1>4. /\ b0 \in {0, 1} /\ b1 \in {0, 1} /\ b2 \in {0, 1} /\ b3 \in {0, 1} /\ b4 \in {0, 1}
      /\ b5 \in {0, 1} /\ b6 \in {0, 1}
  BY <1>1, <1>3
<1>5. PICK field : field = Field(encoded, first, 7)
  OBVIOUS
<1>6. field = b0 * 2^0 + b1 * 2^1 + b2 * 2^2 + b3 * 2^3 + b4 * 2^4 + b5 * 2^5 + b6 * 2^6
  BY <1>1, <1>5 DEF Field, Flipped
<1>7. /\ 2^0 = 1 /\ 2^1 = 2 /\ 2^2 = 4 /\ 2^3 = 8 /\ 2^4 = 16 /\ 2^5 = 32 /\ 2^6 = 64
  OBVIOUS
<1>8. /\ field \in Nat
      /\ b0 = 0 /\ b1 = 0 /\ b2 = 0 /\ b3 = 0 /\ b4 = 0 /\ b5 = 0 /\ b6 = 0 => field = 0
  BY <1>4, <1>6, <1>7
<1>9. (field * 2) % 256 \in Nat /\ (0 * 2) % 256 = 0
  BY <1>8
<1>10. ASSUME \A n \in (25 - first)..(31 - first) : BitOf(encoded, n) = 0
       PROVE  field = 0
  <2>1. \A k \in 0..6 : BitOf(encoded, 31 - (first + k)) = 0
    BY <1>2, <1>10
  <2>. QED
    BY <1>1, <1>8, <2>1
<1>. QED
  BY <1>5, <1>9, <1>10 DEF amplitudeFrom7BitAmplitude

LEMMA Decoded ==
    ASSUME NEW encoded \in Encoded, NEW state, state = decodeSwitchRumbleState(encoded)
    PROVE  /\ state.low \in Nat /\ state.high \in Nat /\ state.pulse1 \in Nat
           /\ state.pulse2 \in Nat /\ state.pulse3 \in Nat
           /\ IsNeutral(encoded) =>
                  /\ state.low = 0 /\ state.high = 0 /\ state.pulse1 = 0
                  /\ state.pulse2 = 0 /\ state.pulse3 = 0
<1>. DEFINE wave(first) == Wave(encoded, first)
            amplitude(first) == Amplitude(encoded, first)
            seven(first) == amplitudeFrom7BitAmplitude(Field(encoded, first, 7))
            type == rumbleStateType(encoded)
<1>1. \A first \in 0..27 : wave(first) \in Nat /\ amplitude(first) \in Nat
  BY AmplitudeOf
<1>2. seven(2) \in Nat /\ seven(16) \in Nat
  BY SevenBits
<1>3. \A first \in 0..27 : (\A n \in (27 - first)..(30 - first) : BitOf(encoded, n) = 0) =>
                               wave(first) = 0 /\ amplitude(first) = 0
  BY AmplitudeOf
<1>4. (\A n \in 23..29 : BitOf(encoded, n) = 0) => seven(2) = 0
  <2>1. 25 - 2 = 23 /\ 31 - 2 = 29 /\ 2 \in 0..25
    OBVIOUS
  <2>. QED
    BY <2>1, SevenBits
<1>5. (\A n \in 9..15 : BitOf(encoded, n) = 0) => seven(16) = 0
  <2>1. 25 - 16 = 9 /\ 31 - 16 = 15 /\ 16 \in 0..25
    OBVIOUS
  <2>. QED
    BY <2>1, SevenBits
<1>6. Pulse(encoded) = seven(2)
  BY DEF Pulse
<1>7. /\ Still.low = 0 /\ Still.high = 0 /\ Still.pulse1 = 0 /\ Still.pulse2 = 0
      /\ Still.pulse3 = 0
  BY DEF Still
<1>8. CASE type = "X0"
  <2>1. state = X0SingleWaveWithResonance(encoded)
    BY <1>8 DEF decodeSwitchRumbleState
  <2>2. /\ state.low \in {0, wave(14)} /\ state.high \in {0, wave(19)}
        /\ state.pulse1 = wave(9) /\ state.pulse2 = seven(2) /\ state.pulse3 = 0
    BY <1>6, <2>1 DEF X0SingleWaveWithResonance, Still
  <2>3. ASSUME IsNeutral(encoded)
        PROVE  wave(14) = 0 /\ wave(19) = 0 /\ wave(9) = 0 /\ seven(2) = 0
    <3>1. \A n \in 8..11 \cup 13..16 \cup 18..21 \cup 23..29 : BitOf(encoded, n) = 0
      BY <1>8, <2>3 DEF IsNeutral, AmplitudeBits
    <3>2. /\ 27 - 14 = 13 /\ 30 - 14 = 16 /\ 27 - 19 = 8 /\ 30 - 19 = 11
          /\ 27 - 9 = 18 /\ 30 - 9 = 21 /\ 14 \in 0..27 /\ 19 \in 0..27 /\ 9 \in 0..27
      OBVIOUS
    <3>. QED
      BY <1>3, <1>4, <3>1, <3>2
  <2>. HIDE DEF wave, seven
  <2>. QED
    BY <1>1, <1>2, <2>2, <2>3
<1>9. CASE type = "0100"
  <2>1. state = DualWave(encoded)
    BY <1>9 DEF decodeSwitchRumbleState
  <2>2. /\ state.low = seven(2) /\ state.high = seven(16)
        /\ state.pulse1 = 0 /\ state.pulse2 = 0 /\ state.pulse3 = 0
    BY <1>6, <2>1 DEF DualWave, Still
  <2>3. ASSUME IsNeutral(encoded) PROVE seven(2) = 0 /\ seven(16) = 0
    <3>1. \A n \in 9..15 \cup 23..29 : BitOf(encoded, n) = 0
      BY <1>9, <2>3 DEF IsNeutral, AmplitudeBits
    <3>. QED
      BY <1>4, <1>5, <3>1
  <2>. HIDE DEF wave, seven
  <2>. QED
    BY <1>1, <1>2, <2>2, <2>3
<1>10. CASE type = "0110"
  <2>1. state = DualResonanceWith3Pulse(encoded)
    BY <1>10 DEF decodeSwitchRumbleState
  <2>2. /\ state.low = wave(19) /\ state.high = wave(24)
        /\ state.pulse1 = wave(14) /\ state.pulse2 = wave(9) /\ state.pulse3 = seven(2)
    BY <1>6, <2>1 DEF DualResonanceWith3Pulse, Still
  <2>3. ASSUME IsNeutral(encoded)
        PROVE  wave(24) = 0 /\ wave(19) = 0 /\ wave(14) = 0 /\ wave(9) = 0 /\ seven(2) = 0
    <3>1. \A n \in 3..6 \cup 8..11 \cup 13..16 \cup 18..21 \cup 23..29 : BitOf(encoded, n) = 0
      BY <1>10, <2>3 DEF IsNeutral, AmplitudeBits
    <3>2. /\ 27 - 14 = 13 /\ 30 - 14 = 16 /\ 27 - 19 = 8 /\ 30 - 19 = 11
          /\ 27 - 9 = 18 /\ 30 - 9 = 21 /\ 14 \in 0..27 /\ 19 \in 0..27 /\ 9 \in 0..27
          /\ 27 - 24 = 3 /\ 30 - 24 = 6 /\ 24 \in 0..27
      OBVIOUS
    <3>. QED
      BY <1>3, <1>4, <3>1, <3>2
  <2>. HIDE DEF wave, seven
  <2>. QED
    BY <1>1, <1>2, <2>2, <2>3
<1>11. CASE type = "11"
  <2>1. state = DualResonanceWith4Pulse(encoded)
    BY <1>11 DEF decodeSwitchRumbleState
  <2>2. /\ state.low = wave(22) /\ state.high \in {amplitude(27), wave(17)}
        /\ state.pulse1 \in {wave(17), 0} /\ state.pulse2 = 0
        /\ state.pulse3 \in {amplitude(2), 0}
    BY <2>1 DEF DualResonanceWith4Pulse, Still
  <2>3. ASSUME IsNeutral(encoded)
        PROVE  wave(22) = 0 /\ amplitude(27) = 0 /\ wave(17) = 0 /\ amplitude(2) = 0
    <3>1. \A n \in 0..3 \cup 5..8 \cup 10..13 \cup 15..18 \cup 20..23 \cup 25..28 :
              BitOf(encoded, n) = 0
      BY <1>11, <2>3 DEF IsNeutral, AmplitudeBits
    <3>2. /\ 27 - 22 = 5 /\ 30 - 22 = 8 /\ 27 - 27 = 0 /\ 30 - 27 = 3
          /\ 27 - 17 = 10 /\ 30 - 17 = 13 /\ 27 - 2 = 25 /\ 30 - 2 = 28
          /\ 22 \in 0..27 /\ 27 \in 0..27 /\ 17 \in 0..27 /\ 2 \in 0..27
      OBVIOUS
    <3>. QED
      BY <1>3, <3>1, <3>2
  <2>. HIDE DEF wave, amplitude, seven
  <2>. QED
    BY <1>1, <2>2, <2>3
<1>12. CASE type \notin {"X0", "0100", "0110", "11"}
  <2>1. state = Still
    BY <1>12 DEF decodeSwitchRumbleState
  <2>. QED
    BY <1>7, <2>1
<1>. QED
  BY <1>8, <1>9, <1>10, <1>11, <1>12

\* The maximum of as many numbers as there are strengths is one of them.
LEMMA MaxOf8 ==
    ASSUME NEW f, \A i \in 1..8 : f[i] \in Nat,
           NEW S, S = {f[1], f[2]} \cup {f[3], f[4], f[5], f[6], f[7], f[8]}
    PROVE  Max(S) \in S /\ \A a \in S : Max(S) >= a
<1>1. PICK a1, a2, a3, a4, a5, a6, a7, a8 :
          /\ a1 = f[1] /\ a2 = f[2] /\ a3 = f[3] /\ a4 = f[4]
          /\ a5 = f[5] /\ a6 = f[6] /\ a7 = f[7] /\ a8 = f[8]
  OBVIOUS
<1>2. /\ a1 \in Nat /\ a2 \in Nat /\ a3 \in Nat /\ a4 \in Nat
      /\ a5 \in Nat /\ a6 \in Nat /\ a7 \in Nat /\ a8 \in Nat
  BY <1>1
<1>3. S = {a1, a2} \cup {a3, a4, a5, a6, a7, a8}
  BY <1>1
<1>4. PICK m2 \in {a1, a2} : m2 >= a1 /\ m2 >= a2
  BY <1>2
<1>5. PICK m4 \in {m2, a3, a4} : m4 >= m2 /\ m4 >= a3 /\ m4 >= a4
  <2>1. m2 \in Nat
    BY <1>2, <1>4
  <2>. QED
    BY <1>2, <2>1
<1>6. PICK m6 \in {m4, a5, a6} : m6 >= m4 /\ m6 >= a5 /\ m6 >= a6
  <2>1. m4 \in Nat
    BY <1>2, <1>4, <1>5
  <2>. QED
    BY <1>2, <2>1
<1>7. PICK m8 \in {m6, a7, a8} : m8 >= m6 /\ m8 >= a7 /\ m8 >= a8
  <2>1. m6 \in Nat
    BY <1>2, <1>4, <1>5, <1>6
  <2>. QED
    BY <1>2, <2>1
<1>8. m2 \in Nat /\ m4 \in Nat /\ m6 \in Nat /\ m8 \in Nat
  BY <1>2, <1>3, <1>4, <1>5, <1>6, <1>7
<1>9. m8 \in S
  BY <1>2, <1>3, <1>4, <1>5, <1>6, <1>7
<1>10. /\ m8 >= a1 /\ m8 >= a2 /\ m8 >= a3 /\ m8 >= a4
      /\ m8 >= a5 /\ m8 >= a6 /\ m8 >= a7 /\ m8 >= a8
  BY <1>2, <1>4, <1>5, <1>6, <1>7, <1>8
<1>11. \A a \in S : m8 >= a
  BY <1>3, <1>10
<1>12. \E m \in S : \A a \in S : m >= a
  BY <1>9, <1>11
<1>. QED
  BY <1>12 DEF Max

\* Either motor is driven by the highest of the strengths that concern it.
LEMMA MotorsFelt ==
    ASSUME NEW left \in Encoded, NEW right \in Encoded, NEW motors,
           motors = MotorAmplitudes(left, right)
    PROVE  /\ IsNeutral(left) /\ IsNeutral(right) => motors = [low |-> 0, high |-> 0]
           /\ motors.low >= decodeSwitchRumbleState(left).low
           /\ motors.low >= decodeSwitchRumbleState(right).low
           /\ motors.high >= decodeSwitchRumbleState(left).high
           /\ motors.high >= decodeSwitchRumbleState(right).high
<1>1. PICK l, r : l = decodeSwitchRumbleState(left) /\ r = decodeSwitchRumbleState(right)
  OBVIOUS
<1>2. /\ l.low \in Nat /\ l.high \in Nat /\ l.pulse1 \in Nat /\ l.pulse2 \in Nat /\ l.pulse3 \in Nat
      /\ r.low \in Nat /\ r.high \in Nat /\ r.pulse1 \in Nat /\ r.pulse2 \in Nat /\ r.pulse3 \in Nat
  BY <1>1, Decoded
<1>3. PICK low, high :
          /\ low = {l.low, r.low} \cup {l.pulse1, l.pulse2, l.pulse3, r.pulse1, r.pulse2, r.pulse3}
          /\ high = {l.high, r.high} \cup {l.pulse1, l.pulse2, l.pulse3, r.pulse1, r.pulse2, r.pulse3}
  OBVIOUS
<1>4. motors = [low |-> Max(low), high |-> Max(high)]
  BY <1>1, <1>3 DEF MotorAmplitudes, Pulses
<1>5. Max(low) \in low /\ \A a \in low : Max(low) >= a
  <2>. DEFINE f == <<l.low, r.low, l.pulse1, l.pulse2, l.pulse3, r.pulse1, r.pulse2, r.pulse3>>
  <2>1. /\ f[1] = l.low /\ f[2] = r.low /\ f[3] = l.pulse1 /\ f[4] = l.pulse2
        /\ f[5] = l.pulse3 /\ f[6] = r.pulse1 /\ f[7] = r.pulse2 /\ f[8] = r.pulse3
    OBVIOUS
  <2>. HIDE DEF f
  <2>2. low = {f[1], f[2]} \cup {f[3], f[4], f[5], f[6], f[7], f[8]}
    BY <1>3, <2>1
  <2>3. \A i \in 1..8 : f[i] \in Nat
    <3>1. \A i \in 1..8 : i \in {1, 2, 3, 4, 5, 6, 7, 8}
      OBVIOUS
    <3>. QED
      BY <1>2, <2>1, <3>1
  <2>. QED
    BY ONLY <2>2, <2>3, MaxOf8
<1>6. Max(high) \in high /\ \A a \in high : Max(high) >= a
  <2>. DEFINE f == <<l.high, r.high, l.pulse1, l.pulse2, l.pulse3, r.pulse1, r.pulse2, r.pulse3>>
  <2>1. /\ f[1] = l.high /\ f[2] = r.high /\ f[3] = l.pulse1 /\ f[4] = l.pulse2
        /\ f[5] = l.pulse3 /\ f[6] = r.pulse1 /\ f[7] = r.pulse2 /\ f[8] = r.pulse3
    OBVIOUS
  <2>. HIDE DEF f
  <2>2. high = {f[1], f[2]} \cup {f[3], f[4], f[5], f[6], f[7], f[8]}
    BY <1>3, <2>1
  <2>3. \A i \in 1..8 : f[i] \in Nat
    <3>1. \A i \in 1..8 : i \in {1, 2, 3, 4, 5, 6, 7, 8}
      OBVIOUS
    <3>. QED
      BY <1>2, <2>1, <3>1
  <2>. QED
    BY ONLY <2>2, <2>3, MaxOf8
<1>7. ASSUME IsNeutral(left), IsNeutral(right) PROVE low \subseteq {0} /\ high \subseteq {0}
  <2>1. /\ l.low = 0 /\ l.high = 0 /\ l.pulse1 = 0 /\ l.pulse2 = 0 /\ l.pulse3 = 0
        /\ r.low = 0 /\ r.high = 0 /\ r.pulse1 = 0 /\ r.pulse2 = 0 /\ r.pulse3 = 0
    BY <1>1, <1>7, Decoded
  <2>. QED
    BY <1>3, <2>1
<1>8. IsNeutral(left) /\ IsNeutral(right) => motors = [low |-> 0, high |-> 0]
  BY <1>4, <1>5, <1>6, <1>7
<1>9. l.low \in low /\ r.low \in low /\ l.high \in high /\ r.high \in high
  BY <1>3
<1>10. motors.low = Max(low) /\ motors.high = Max(high)
  BY <1>4
<1>. QED
  BY <1>1, <1>5, <1>6, <1>8, <1>9, <1>10

LEMMA RumbleInvInit == Init => RumbleInv
  BY DEF Init, RumbleInv

LEMMA RumbleInvNext == RumbleInv /\ [Next]_vars => RumbleInv'
<1>. SUFFICES ASSUME RumbleInv, [Next]_vars PROVE RumbleInv'
  OBVIOUS
<1>1. CASE Next
  BY <1>1 DEF Next, RumbleInv, ConvertState, DecodeRumble, PrintString, PrintNumber, ReadFlash,
              Frame, LongFrame, Blink, Compute
<1>2. CASE UNCHANGED vars
  BY <1>2 DEF vars, RumbleInv
<1>. QED
  BY <1>1, <1>2

\* Whatever the Switch's rumble data: all amplitudes zero leave both motors
\* still, in every layout and with any frequencies, and a side's channels are
\* felt whatever the other side's data (rumble.cpp:75-150, 253-373).
THEOREM FeelsRumble == Spec => []RumbleFelt
<1>1. RumbleInv => RumbleFelt
  <2>. SUFFICES ASSUME RumbleInv, kind = "rumble", done PROVE RumbleFelt
    BY DEF RumbleFelt
  <2>1. RumbleData \subseteq Encoded \X Encoded
    BY ConversionsAssumption DEF ConversionsAssumption, Encoded
  <2>2. input \in Encoded \X Encoded
    BY <2>1 DEF RumbleInv
  <2>3. PICK left \in Encoded, right \in Encoded : input[1] = left /\ input[2] = right
    BY <2>2
  <2>4. output = MotorAmplitudes(left, right)
    BY <2>3 DEF RumbleInv
  <2>5. /\ IsNeutral(left) /\ IsNeutral(right) => output = [low |-> 0, high |-> 0]
        /\ output.low >= decodeSwitchRumbleState(left).low
        /\ output.low >= decodeSwitchRumbleState(right).low
        /\ output.high >= decodeSwitchRumbleState(left).high
        /\ output.high >= decodeSwitchRumbleState(right).high
    BY <2>4, MotorsFelt
  <2>6. \A side \in 1..2 : side = 1 \/ side = 2
    OBVIOUS
  <2>. QED
    BY <2>3, <2>5, <2>6 DEF RumbleFelt
<1>. QED
  BY <1>1, RumbleInvInit, RumbleInvNext, PTL DEF Spec

-----------------------------------------------------------------------------
(* The oscillator.                                                         *)

\* In tune, or on the way to a value that is, with a frame left for each step.
OnTheWay(chip, OSCCAL, undisturbed) ==
    \/ InTune(chip, OSCCAL)
    \/ /\ Deviation(chip, OSCCAL) \in -126..128
       /\ \E tuned \in 1..254 : /\ InTune(chip, tuned)
                                /\ OSCCAL - tuned <= Settling - undisturbed
                                /\ tuned - OSCCAL <= Settling - undisturbed

AfterFrame(chip, OSCCAL, phase) == tuneOsccal(OSCCAL, Counts(chip, OSCCAL) + phase)

ClockInv ==
    kind = "clock" =>
        /\ input \in Chips
        /\ output = Clock(output.OSCCAL, output.undisturbed)
        /\ output.OSCCAL \in 0..255
        /\ output.undisturbed \in Int /\ output.undisturbed <= Settling
        /\ OnTheWay(input, output.OSCCAL, output.undisturbed)

\* The two comparisons in eight bits, whose signs the branches go by, tell
\* apart what they are to: too high, too low, and neither.
LEMMA StepSigned ==
    ASSUME NEW v \in Int
    PROVE  /\ v \in 2..129 => Step(v % 256) = -1
           /\ v \in -126..-2 => Step(v % 256) = 1
           /\ v \in -1..1 => Step(v % 256) = 0
           /\ Step(v % 256) \in -1..1
<1>1. /\ v \in 2..129 => v % 256 \in 2..129
      /\ v \in -126..-2 => v % 256 \in 130..254
      /\ v \in -1..1 => v % 256 \in {0, 1, 255}
      /\ v % 256 \in 0..255
  OBVIOUS
<1>2. \A w \in 0..255 :
          /\ Minus(w, 2) <=> w \notin 2..129
          /\ Minus(w, 255) <=> w \in 127..254
  BY DEF Minus
<1>3. \A w \in 0..255 :
          Step(w) = IF w \in 2..129 THEN -1 ELSE IF w \in 130..254 THEN 1 ELSE 0
  BY <1>2 DEF Step, TOLERATED_DEVIATION
<1>. QED
  BY <1>1, <1>3

\* A higher OSCCAL never makes for fewer counts, and a step for three more at
\* most.
LEMMA Faster ==
    ASSUME NEW chip, chip.initial \in Int, chip.perStep \in 1..300,
           NEW a \in Int, NEW b \in Int, a <= b
    PROVE  /\ Deviation(chip, a) \in Int
           /\ Deviation(chip, a) <= Deviation(chip, b)
           /\ b = a + 1 => Deviation(chip, b) <= Deviation(chip, a) + 3
<1>. PICK i \in Int, p \in 1..300 : i = chip.initial /\ p = chip.perStep
  OBVIOUS
<1>. PICK c \in Int, n \in Nat : c = a - 226 /\ n = b - a
  OBVIOUS
<1>. PICK x \in Int, z \in Nat : x = c * p /\ z = n * p
  OBVIOUS
<1>. PICK y \in Int : y = x + z
  OBVIOUS
<1>1. (a - 226) * p = x /\ (b - 226) * p = y
  <2>1. (c + n) * p = c * p + n * p
    OBVIOUS
  <2>. QED
    BY <2>1
<1>2. x <= y /\ (b = a + 1 => y <= x + 300)
  <2>1. b = a + 1 => z = p
    OBVIOUS
  <2>. QED
    BY <2>1
<1>3. x \div 100 \in Int /\ x \div 100 <= y \div 100 /\ (y <= x + 300 => y \div 100 <= x \div 100 + 3)
  BY <1>2
<1>4. Deviation(chip, a) = i + (x \div 100) - 200 /\ Deviation(chip, b) = i + (y \div 100) - 200
  BY <1>1 DEF Deviation, Counts, EXPECTED_TIMER0_INCREMENT, InitialOSCCAL
<1>. HIDE DEF Deviation
<1>. QED
  BY <1>2, <1>3, <1>4

\* A frame of a clock in tune leaves it in tune.
LEMMA TuneKept ==
    ASSUME NEW chip, Tunable(chip), NEW o \in 0..255, InTune(chip, o), NEW phase \in 0..1
    PROVE  /\ AfterFrame(chip, o, phase) \in 0..255
           /\ InTune(chip, AfterFrame(chip, o, phase))
<1>. PICK d : d = Deviation(chip, o)
  OBVIOUS
<1>1. d \in -2..1 /\ o \in 1..254
  BY DEF Tunable, InTune
<1>2. AfterFrame(chip, o, phase) = (o + Step((d + phase) % 256)) % 256
  <2>1. Counts(chip, o) \in Int
    BY <1>1 DEF Tunable, Counts, InitialOSCCAL
  <2>2. (Counts(chip, o) + phase) - EXPECTED_TIMER0_INCREMENT = d + phase
    BY <2>1 DEF Deviation, EXPECTED_TIMER0_INCREMENT
  <2>. QED
    BY <2>2, Zenon DEF tuneOsccal, AfterFrame
<1>3. CASE d + phase \in -1..1
  <2>1. AfterFrame(chip, o, phase) = o
    BY <1>1, <1>2, <1>3, StepSigned
  <2>. QED
    BY <2>1
<1>4. CASE d + phase >= 2
  <2>1. AfterFrame(chip, o, phase) = o - 1
    BY <1>1, <1>2, <1>4, StepSigned
  <2>2. Deviation(chip, o - 1) \in Int /\ Deviation(chip, o - 1) <= d /\ d <= Deviation(chip, o - 1) + 3
    BY <1>1, Faster DEF Tunable
  <2>3. d = 1
    BY <1>1, <1>4
  <2>. QED
    BY <1>1, <2>1, <2>2, <2>3 DEF InTune
<1>5. CASE d + phase <= -2
  <2>1. AfterFrame(chip, o, phase) = o + 1
    BY <1>1, <1>2, <1>5, StepSigned
  <2>2. /\ Deviation(chip, o + 1) \in Int /\ d <= Deviation(chip, o + 1)
        /\ Deviation(chip, o + 1) <= d + 3
    BY <1>1, Faster DEF Tunable
  <2>3. d = -2
    BY <1>1, <1>5
  <2>. QED
    BY <1>1, <2>1, <2>2, <2>3 DEF InTune
<1>. QED
  BY <1>1, <1>3, <1>4, <1>5

\* Short of being in tune, a frame is a step nearer to it.
LEMMA TuneNearer ==
    ASSUME NEW chip, Tunable(chip), NEW o \in 0..255, NEW n \in Int, n < Settling,
           ConversionsAssumption, OnTheWay(chip, o, n), NEW phase \in 0..1
    PROVE  /\ AfterFrame(chip, o, phase) \in 0..255
           /\ OnTheWay(chip, AfterFrame(chip, o, phase), n + 1)
<1>. PICK next : next = AfterFrame(chip, o, phase)
  OBVIOUS
<1>. PICK d : d = Deviation(chip, o)
  OBVIOUS
<1>. SUFFICES next \in 0..255 /\ OnTheWay(chip, next, n + 1)
  OBVIOUS
<1>1. CASE InTune(chip, o)
  <2>1. AfterFrame(chip, o, phase) \in 0..255 /\ InTune(chip, AfterFrame(chip, o, phase))
    BY <1>1, TuneKept, Zenon
  <2>. QED
    BY <2>1 DEF OnTheWay
<1>2. CASE ~InTune(chip, o)
  <2>1. PICK tuned \in 1..254 : /\ InTune(chip, tuned)
                                /\ o - tuned <= Settling - n /\ tuned - o <= Settling - n
    BY <1>2 DEF OnTheWay
  <2>2. d \in -126..128 /\ d \notin -2..1
    BY <1>2 DEF OnTheWay, InTune
  <2>3. next = (o + Step((d + phase) % 256)) % 256
    <3>1. Counts(chip, o) \in Int
      BY DEF Tunable, Counts, InitialOSCCAL
    <3>2. (Counts(chip, o) + phase) - EXPECTED_TIMER0_INCREMENT = d + phase
      BY <3>1 DEF Deviation, EXPECTED_TIMER0_INCREMENT
    <3>. QED
      BY <3>2, Zenon DEF tuneOsccal, AfterFrame
  <2>4. PICK e : e = Deviation(chip, tuned)
    OBVIOUS
  <2>5. e \in -2..1 /\ Settling \in Nat
    BY <2>1, <2>4 DEF InTune, ConversionsAssumption
  <2>6. CASE d >= 2
    <3>1. tuned < o
      <4>1. o <= tuned => d <= e
        BY <2>1, <2>4, Faster DEF Tunable
      <4>. QED
        BY <2>2, <2>5, <2>6, <4>1
    <3>2. next = o - 1
      <4>1. d + phase \in 2..129
        BY <2>2, <2>6
      <4>2. next = (o - 1) % 256
        <5>1. PICK v \in Int : v = d + phase
          BY <4>1
        <5>. QED
          BY <2>3, <4>1, <5>1, StepSigned
      <4>. QED
        BY <3>1, <4>2
    <3>3. PICK f : f = Deviation(chip, next)
      OBVIOUS
    <3>4. f \in Int /\ f <= d /\ d <= f + 3
      BY <2>2, <3>2, <3>3, Faster DEF Tunable
    <3>5. f \in -126..128
      BY <2>2, <2>6, <3>4
    <3>6. next - tuned <= Settling - (n + 1) /\ tuned - next <= Settling - (n + 1)
      BY <2>1, <2>5, <3>1, <3>2
    <3>7. next \in 0..255
      BY <2>1, <3>1, <3>2
    <3>. QED
      BY <2>1, <3>3, <3>5, <3>6, <3>7 DEF OnTheWay
  <2>7. CASE d <= -3
    <3>1. o < tuned
      <4>1. tuned <= o => e <= d
        BY <2>1, <2>4, Faster DEF Tunable
      <4>. QED
        BY <2>2, <2>5, <2>7, <4>1
    <3>2. next = o + 1
      <4>1. d + phase \in -126..-2
        BY <2>2, <2>7
      <4>2. next = (o + 1) % 256
        <5>1. PICK v \in Int : v = d + phase
          BY <4>1
        <5>. QED
          BY <2>3, <4>1, <5>1, StepSigned
      <4>. QED
        BY <3>1, <4>2
    <3>3. PICK f : f = Deviation(chip, next)
      OBVIOUS
    <3>4. f \in Int /\ d <= f /\ f <= d + 3
      <4>1. Deviation(chip, o + 1) \in Int
        BY Faster DEF Tunable
      <4>. QED
        BY <2>2, <3>2, <3>3, <4>1, Faster DEF Tunable
    <3>5. f \in -126..128
      BY <2>2, <2>7, <3>4
    <3>6. next - tuned <= Settling - (n + 1) /\ tuned - next <= Settling - (n + 1)
      BY <2>1, <2>5, <3>1, <3>2
    <3>7. next \in 0..255
      BY <2>1, <3>1, <3>2
    <3>. QED
      BY <2>1, <3>3, <3>5, <3>6, <3>7 DEF OnTheWay
  <2>. QED
    BY <2>2, <2>6, <2>7
<1>. QED
  BY <1>1, <1>2

\* A step either way from a clock in tune stays within a frame of it.
LEMMA TuneDisturbed ==
    ASSUME NEW chip, Tunable(chip), NEW o \in 0..255, InTune(chip, o), NEW counts \in 0..255,
           ConversionsAssumption
    PROVE  /\ tuneOsccal(o, counts) \in 0..255
           /\ OnTheWay(chip, tuneOsccal(o, counts), Settling - 2)
<1>. PICK s : s = Step((counts - EXPECTED_TIMER0_INCREMENT) % 256)
  OBVIOUS
<1>1. s \in -1..1
  BY StepSigned DEF EXPECTED_TIMER0_INCREMENT
<1>2. o \in 1..254 /\ Settling \in Nat
  BY DEF Tunable, ConversionsAssumption
<1>3. tuneOsccal(o, counts) = o + s
  <2>1. tuneOsccal(o, counts) = (o + s) % 256
    BY Zenon DEF tuneOsccal
  <2>. QED
    BY <1>1, <1>2, <2>1
<1>4. Deviation(chip, o + s) \in -126..128
  <2>1. Deviation(chip, o) \in -2..1
    BY DEF InTune
  <2>2. CASE s = 0
    BY <1>2, <2>1, <2>2
  <2>3. CASE s = 1
    <3>1. PICK p \in Int : p = o + 1
      BY <1>2
    <3>2. /\ Deviation(chip, p) \in Int /\ Deviation(chip, o) <= Deviation(chip, p)
          /\ Deviation(chip, p) <= Deviation(chip, o) + 3
      BY <1>2, <3>1, Faster DEF Tunable
    <3>. QED
      BY <2>1, <2>3, <3>1, <3>2
  <2>4. CASE s = -1
    <3>1. PICK p \in Int : p = o - 1
      BY <1>2
    <3>2. /\ Deviation(chip, p) \in Int /\ Deviation(chip, p) <= Deviation(chip, o)
          /\ Deviation(chip, o) <= Deviation(chip, p) + 3
      BY <1>2, <3>1, Faster DEF Tunable
    <3>. QED
      BY <1>2, <2>1, <2>4, <3>1, <3>2
  <2>. QED
    BY <1>1, <2>2, <2>3, <2>4
<1>5. PICK next, m : next = o + s /\ m = Settling - 2
  OBVIOUS
<1>6. next \in 0..255 /\ next - o <= Settling - m /\ o - next <= Settling - m
  BY <1>1, <1>2, <1>5
<1>. QED
  BY <1>2, <1>3, <1>4, <1>5, <1>6 DEF OnTheWay

LEMMA ClockInvInit ==
    ASSUME \A chip \in Chips : Tunable(chip), ConversionsAssumption, Init PROVE ClockInv
<1>. SUFFICES ASSUME kind = "clock" PROVE ClockInv
  BY DEF ClockInv
<1>1. input \in Chips /\ output = Clock(InitialOSCCAL, 0)
  BY DEF Init
<1>2. output.OSCCAL = InitialOSCCAL /\ output.undisturbed = 0
  BY <1>1 DEF Clock
<1>3. InitialOSCCAL \in 0..255 /\ Settling \in Nat
  BY DEF InitialOSCCAL, ConversionsAssumption
<1>4. OnTheWay(input, InitialOSCCAL, 0)
  BY <1>1, <1>3 DEF Tunable, OnTheWay
<1>. QED
  BY <1>1, <1>2, <1>3, <1>4 DEF ClockInv

LEMMA ClockInvNext ==
    ASSUME \A chip \in Chips : Tunable(chip), ConversionsAssumption, ClockInv, [Next]_vars
    PROVE  ClockInv'
<1>1. CASE Next /\ kind = "clock"
  <2>. PICK o, n : o = output.OSCCAL /\ n = output.undisturbed
    OBVIOUS
  <2>1. /\ input \in Chips /\ Tunable(input) /\ o \in 0..255 /\ n \in Int /\ n <= Settling
        /\ OnTheWay(input, o, n) /\ Settling \in Nat
    BY <1>1 DEF ClockInv, ConversionsAssumption
  <2>2. Frame \/ LongFrame
    BY <1>1 DEF Next, ConvertState, DecodeRumble, PrintString, PrintNumber, ReadFlash, Blink, Compute
  <2>3. n = Settling => InTune(input, o)
    <3>1. ASSUME n = Settling, NEW tuned \in 1..254, InTune(input, tuned),
                 o - tuned <= Settling - n, tuned - o <= Settling - n
          PROVE  InTune(input, o)
      <4>1. o = tuned
        BY <2>1, <3>1
      <4>. QED
        BY <3>1, <4>1
    <3>. QED
      BY <2>1, <3>1 DEF OnTheWay
  <2>4. CASE Frame
    <3>1. PICK phase \in 0..1 :
              output' = Clock(AfterFrame(input, o, phase),
                              IF n < Settling THEN n + 1 ELSE n)
      BY <2>4 DEF Frame, AfterFrame
    <3>. PICK next : next = AfterFrame(input, o, phase)
      OBVIOUS
    <3>2. next \in 0..255 /\ OnTheWay(input, next, IF n < Settling THEN n + 1 ELSE n)
      <4>1. CASE n < Settling
        BY <2>1, <3>1, <4>1, TuneNearer, ConversionsAssumption, Zenon
      <4>2. CASE n = Settling
        <5>1. next \in 0..255 /\ InTune(input, next)
          BY <2>1, <2>3, <3>1, <4>2, TuneKept, Zenon
        <5>. QED
          BY <5>1 DEF OnTheWay
      <4>. QED
        BY <2>1, <4>1, <4>2
    <3>3. input' = input
      BY <2>4 DEF Frame
    <3>4. output'.OSCCAL = next /\ output'.undisturbed = (IF n < Settling THEN n + 1 ELSE n)
      BY <3>1 DEF Clock
    <3>. QED
      BY <2>1, <3>1, <3>2, <3>3, <3>4 DEF ClockInv
  <2>5. CASE LongFrame
    <3>1. PICK counts \in 0..255 : output' = Clock(tuneOsccal(o, counts), Settling - 2)
      BY <2>5 DEF LongFrame
    <3>2. n = Settling /\ input' = input
      BY <2>5 DEF LongFrame
    <3>. PICK next : next = tuneOsccal(o, counts)
      OBVIOUS
    <3>3. next \in 0..255 /\ OnTheWay(input, next, Settling - 2)
      BY <2>1, <2>3, <3>1, <3>2, TuneDisturbed, ConversionsAssumption, Zenon
    <3>4. output'.OSCCAL = next /\ output'.undisturbed = Settling - 2
      BY <3>1 DEF Clock
    <3>. QED
      BY <2>1, <3>1, <3>2, <3>3, <3>4 DEF ClockInv
  <2>. QED
    BY <2>2, <2>4, <2>5
<1>2. CASE Next /\ kind # "clock"
  BY <1>2 DEF Next, ClockInv, ConvertState, DecodeRumble, PrintString, PrintNumber, ReadFlash,
              Frame, LongFrame, Blink, Compute
<1>3. CASE UNCHANGED vars
  BY <1>3 DEF vars, ClockInv
<1>. QED
  BY <1>1, <1>2, <1>3

\* The clock of every oscillator that can be tuned at all is in tune once it
\* has had the frames to settle, and two frames after any frame that was
\* misread (osctune.h:54-85).
THEOREM KeepsTime == (\A chip \in Chips : Tunable(chip)) => (Spec => []ClockInTune)
<1>. SUFFICES ASSUME \A chip \in Chips : Tunable(chip) PROVE Spec => []ClockInTune
  OBVIOUS
<1>1. Init => ClockInv
  BY ConversionsAssumption, ClockInvInit
<1>2. ClockInv /\ [Next]_vars => ClockInv'
  BY ConversionsAssumption, ClockInvNext
<1>3. ClockInv => ClockInTune
  <2>. SUFFICES ASSUME ClockInv, kind = "clock", output.undisturbed = Settling
                PROVE  InTune(input, output.OSCCAL)
    BY DEF ClockInTune
  <2>. PICK o, n : o = output.OSCCAL /\ n = output.undisturbed
    OBVIOUS
  <2>1. o \in 0..255 /\ OnTheWay(input, o, Settling) /\ Settling \in Nat
    BY ConversionsAssumption DEF ClockInv, ConversionsAssumption
  <2>2. InTune(input, o)
    <3>1. ASSUME NEW tuned \in 1..254, InTune(input, tuned),
                 o - tuned <= Settling - Settling, tuned - o <= Settling - Settling
          PROVE  InTune(input, o)
      <4>1. o = tuned
        BY <2>1, <3>1
      <4>. QED
        BY <3>1, <4>1
    <3>. QED
      BY <2>1, <3>1 DEF OnTheWay
  <2>. QED
    BY <2>2
<1>. QED
  BY <1>1, <1>2, <1>3, PTL DEF Spec

=============================================================================
