-------------------------- MODULE HaltReportProofs --------------------------
(***************************************************************************)
(* What haltStr6 prints is the history of commands, and it leaves the      *)
(* adapter, for histories and rings of any length, however often the ring  *)
(* had run over before.                                                    *)
(***************************************************************************)
EXTENDS HaltReport, TLAPS

\* The slot of the entry number i, counted back from the one at the cursor.
Back(slot, i) == IF i <= slot THEN slot - i ELSE slot - i + sCommandHistoryLength

\* Entries that haltStr6 has yet to print, counted back from the newest.
Unprinted == Len(dump)..(sCommandHistoryLength - 1)

Run == [what : Commands \cup {Rumble}, count : Nat]

HistoryTypes ==
    /\ sCommandHistory \in [History!Slots -> History!Entry]
    /\ sCommandHistoryCursor \in History!Slots
    /\ pc \in {"run", "dump", "stopped"}
    /\ dump \in Seq(History!Entry)
    /\ runs \in Seq(Run)

RingTypes ==
    /\ sSerialOutputBuffer \in [Ring!Slots -> Nat]
    /\ sSerialOutputBufferStart \in Ring!Slots
    /\ sSerialOutputBufferEnd \in Ring!Slots
    /\ printed \in Nat
    /\ written \in Nat

\* Backwards from the cursor the ring of entries holds what is still to be
\* printed: all of the latest runs until haltStr6 begins.
HistoryInv ==
    /\ pc = "run" => dump = <<>>
    /\ pc # "stopped" =>
           /\ Len(dump) < sCommandHistoryLength
           /\ \A i \in Unprinted :
                  sCommandHistory[Back(sCommandHistoryCursor, i - Len(dump))] = ExpectedEntry(i)
    /\ pc = "stopped" => Len(dump) = sCommandHistoryLength
    /\ DumpIsHistory

\* From haltStr6's first character on the ring is empty and all is written,
\* or it holds the last character alone; from the second one on, those before
\* that are written.
RingInv ==
    dump # <<>> =>
        \/ Ring!Empty /\ written = printed
        \/ /\ sSerialOutputBufferEnd = Ring!NextSlot(sSerialOutputBufferStart)
           /\ sSerialOutputBuffer[sSerialOutputBufferStart] = printed
           /\ Len(dump) > 1 => written = printed - 1

-----------------------------------------------------------------------------
(* Slots, and the count in two bytes.                                      *)

\* The slot after one, and the one before it, in either ring.
LEMMA SlotSteps ==
    ASSUME NEW m \in Nat \ {0}, NEW a \in 0..(m - 1)
    PROVE  (a + 1) % m = IF a = m - 1 THEN 0 ELSE a + 1
<1>1. CASE a = m - 1
  <2>1. a + 1 = m
    BY <1>1
  <2>2. m % m = 0
    OBVIOUS
  <2>. QED
    BY <1>1, <2>1, <2>2
<1>2. CASE a # m - 1
  BY <1>2
<1>. QED
  BY <1>1, <1>2

\* The ring of entries: a new entry's slot is one on, and what was i back is
\* then i + 1 back; haltStr6 goes the other way.
LEMMA HistorySlots ==
    ASSUME sCommandHistoryCursor \in History!Slots
    PROVE  /\ History!NextSlot \in History!Slots
           /\ History!PreviousSlot \in History!Slots
           /\ \A i \in 0..(sCommandHistoryLength - 1) :
                  /\ Back(sCommandHistoryCursor, i) \in History!Slots
                  /\ Back(History!NextSlot, i) \in History!Slots
                  /\ Back(History!NextSlot, i) = History!NextSlot <=> i = 0
                  /\ i > 0 => Back(History!NextSlot, i) = Back(sCommandHistoryCursor, i - 1)
                  /\ Back(sCommandHistoryCursor, i) = sCommandHistoryCursor <=> i = 0
                  /\ i > 0 => Back(History!PreviousSlot, i - 1) = Back(sCommandHistoryCursor, i)
           /\ Back(sCommandHistoryCursor, 0) = sCommandHistoryCursor
           /\ 0 \in 0..(sCommandHistoryLength - 1)
<1>. DEFINE L == sCommandHistoryLength
            c == sCommandHistoryCursor
<1>1. L \in Nat \ {0} /\ c \in 0..(L - 1)
  BY HaltReportAssumption DEF HaltReportAssumption, History!Slots
<1>2. History!NextSlot = IF c = L - 1 THEN 0 ELSE c + 1
  BY <1>1, SlotSteps DEF History!NextSlot
<1>3. History!PreviousSlot = IF c = 0 THEN L - 1 ELSE c - 1
  BY DEF History!PreviousSlot
<1>. QED
  BY <1>1, <1>2, <1>3 DEF Back, History!Slots

\* The ring of characters has two slots at least: the one after a slot is
\* another one.
LEMMA RingSlots ==
    ASSUME sSerialOutputBufferLength > 1, NEW slot \in Ring!Slots
    PROVE  /\ Ring!NextSlot(slot) \in Ring!Slots
           /\ Ring!NextSlot(slot) # slot
<1>. DEFINE N == sSerialOutputBufferLength
<1>1. N \in 2..255 /\ slot \in 0..(N - 1)
  BY HaltReportAssumption DEF HaltReportAssumption, Ring!Slots
<1>2. (slot + 1) % 256 = slot + 1
  BY <1>1
<1>3. Ring!NextSlot(slot) = (slot + 1) % N
  BY <1>2 DEF Ring!NextSlot
<1>4. Ring!NextSlot(slot) = IF slot = N - 1 THEN 0 ELSE slot + 1
  BY <1>1, <1>3, SlotSteps
<1>. QED
  BY <1>1, <1>4 DEF Ring!Slots

\* Quotient and remainder are the only ones.
LEMMA Division ==
    ASSUME NEW b \in Nat \ {0}, NEW q \in Nat, NEW r \in 0..(b - 1),
           NEW n \in Nat, n = q * b + r
    PROVE  n \div b = q /\ n % b = r
<1>1. n \in Nat
  OBVIOUS
<1>. DEFINE d == n \div b
            e == n % b
<1>2. d \in Int /\ e \in 0..(b - 1)
  BY <1>1
<1>3. n = d * b + e
  BY <1>1
<1>4. (q - d) * b = e - r
  BY <1>1, <1>2, <1>3
<1>5. ~(q > d)
  <2>1. SUFFICES ASSUME q > d PROVE FALSE
    OBVIOUS
  <2>2. PICK k \in Nat : q - d = 1 + k
    BY <2>1, <1>2
  <2>3. (1 + k) * b >= b
    OBVIOUS
  <2>. QED
    BY <1>2, <1>4, <2>2, <2>3
<1>6. ~(q < d)
  <2>1. SUFFICES ASSUME q < d PROVE FALSE
    OBVIOUS
  <2>2. PICK k \in Nat : d - q = 1 + k
    BY <2>1, <1>2
  <2>3. (1 + k) * b >= b
    OBVIOUS
  <2>. QED
    BY <1>2, <1>4, <2>2, <2>3
<1>. QED
  BY <1>2, <1>3, <1>5, <1>6

LEMMA Multiple ==
    ASSUME NEW b \in Nat \ {0}, NEW q \in Nat, NEW n, n = q * b
    PROVE  n \div b = q /\ n % b = 0
<1>1. n = q * b + 0 /\ 0 \in 0..(b - 1)
  OBVIOUS
<1>. QED
  BY <1>1, Division

\* The sixteen bits after the last that a count of reports leaves.
OneMore(count) == (((count \div Byte) % Byte) * Byte + (count % Byte) + 1) % (Byte * Byte)

\* One more in sixteen bits that are kept in two bytes, carry and all.
LEMMA CountedBytes ==
    ASSUME NEW count \in Nat
    PROVE  /\ OneMore(count) \div Byte = ((count + 1) \div Byte) % Byte
           /\ OneMore(count) % Byte = (count + 1) % Byte
<1>. DEFINE B == Byte
            q == count \div B
            r == count % B
            p == q \div B
            h == q % B
            k == OneMore(count)
<1>1. B \in Nat \ 0..1
  BY HaltReportAssumption DEF HaltReportAssumption
<1>2. q \in Nat /\ r \in 0..(B - 1) /\ count = q * B + r
  BY <1>1
<1>3. p \in Nat /\ h \in 0..(B - 1) /\ q = p * B + h
  BY <1>1, <1>2
<1>4. k = (h * B + r + 1) % (B * B)
  BY DEF OneMore
<1>. HIDE DEF q, r, p, h, k
<1>5. CASE r + 1 < B
  <2>1. count + 1 = q * B + (r + 1) /\ r + 1 \in 0..(B - 1)
    BY <1>1, <1>2, <1>5
  <2>2. (count + 1) \div B = q /\ (count + 1) % B = r + 1
    BY <1>1, <1>2, <2>1, Division
  <2>3. h * B + (r + 1) \in 0..(B * B - 1)
    <3>1. h * B <= (B - 1) * B
      BY <1>1, <1>3
    <3>2. (B - 1) * B = B * B - B
      BY <1>1
    <3>. QED
      BY <1>1, <1>2, <1>3, <1>5, <3>1, <3>2
  <2>4. k = h * B + (r + 1)
    <3>. DEFINE m == B * B
    <3>1. m \in Nat \ {0} /\ h * B + (r + 1) \in 0..(m - 1)
      BY <1>1, <2>3
    <3>. HIDE DEF m
    <3>2. (h * B + (r + 1)) % m = h * B + (r + 1)
      BY <3>1
    <3>. QED
      BY <1>1, <1>2, <1>3, <1>4, <3>2 DEF m
  <2>5. k \div B = h /\ k % B = r + 1
    <3>1. k \in Nat /\ B \in Nat \ {0} /\ h \in Nat /\ r + 1 \in 0..(B - 1)
      BY <1>1, <1>3, <2>1, <2>4
    <3>2. PICK n \in Nat, low \in 0..(B - 1) : n = k /\ low = r + 1
      BY <3>1
    <3>3. n = h * B + low
      BY <2>4, <3>2
    <3>4. n \div B = h /\ n % B = low
      BY <3>1, <3>2, <3>3, Division
    <3>. QED
      BY <3>2, <3>4
  <2>. QED
    BY <2>2, <2>5 DEF h, k
<1>6. CASE r + 1 = B /\ h + 1 < B
  <2>1. PICK next \in Nat : next = q + 1
    BY <1>2
  <2>2. count + 1 = next * B /\ next = p * B + (h + 1) /\ h + 1 \in 0..(B - 1)
    BY <1>1, <1>2, <1>3, <1>6, <2>1
  <2>3. (count + 1) \div B = next /\ (count + 1) % B = 0
    BY <1>1, <2>2, Multiple
  <2>4. next % B = h + 1
    BY <1>1, <1>3, <2>2, Division
  <2>5. k = (h + 1) * B
    <3>. DEFINE m == B * B
                n == (h + 1) * B
    <3>1. n <= (B - 1) * B /\ n >= 0 /\ n \in Int
      BY <1>1, <1>3, <1>6
    <3>2. m \in Nat \ {0} /\ n \in 0..(m - 1)
      BY <1>1, <3>1
    <3>3. k = n % m
      <4>1. h * B + r + 1 = n
        BY <1>1, <1>2, <1>3, <1>6
      <4>. QED
        BY <1>4, <4>1
    <3>. HIDE DEF m, n
    <3>4. k = n
      BY <3>2, <3>3
    <3>. QED
      BY <3>4 DEF n
  <2>6. k \div B = h + 1 /\ k % B = 0
    <3>1. PICK high \in Nat : high = h + 1
      BY <1>3
    <3>. QED
      BY <1>1, <2>5, <3>1, Multiple
  <2>. QED
    BY <2>3, <2>4, <2>6 DEF k
<1>7. CASE r + 1 = B /\ h + 1 = B
  <2>1. PICK next \in Nat, above \in Nat : next = q + 1 /\ above = p + 1
    BY <1>2, <1>3
  <2>2. count + 1 = next * B /\ next = above * B
    BY <1>1, <1>2, <1>3, <1>7, <2>1
  <2>3. (count + 1) \div B = next /\ (count + 1) % B = 0
    <3>1. PICK n \in Nat : n = count + 1
      OBVIOUS
    <3>2. n = next * B
      BY <2>2, <3>1
    <3>3. n \div B = next /\ n % B = 0
      BY <1>1, <3>2, Multiple
    <3>. QED
      BY <3>1, <3>3
  <2>4. next % B = 0
    BY <1>1, <2>2, Multiple
  <2>5. k = 0
    <3>. DEFINE m == B * B
    <3>1. m \in Nat \ {0} /\ h * B + r + 1 = m
      BY <1>1, <1>2, <1>3, <1>7
    <3>2. k = m % m
      BY <1>4, <3>1
    <3>. HIDE DEF m
    <3>. QED
      BY <3>1, <3>2
  <2>6. k \div B = 0 /\ k % B = 0
    BY <1>1, <2>5
  <2>. QED
    BY <2>3, <2>4, <2>6 DEF k
<1>. QED
  <2>1. (r + 1 < B \/ r + 1 = B) /\ (h + 1 < B \/ h + 1 = B)
    BY <1>1, <1>2, <1>3
  <2>. QED
    BY <1>5, <1>6, <1>7, <2>1

\* The entry of a run of one report more.
LEMMA CountedEntry ==
    ASSUME NEW what, NEW count \in Nat
    PROVE  History!Counted(EntryOf([what |-> what, count |-> count]))
               = EntryOf([what |-> what, count |-> count + 1])
<1>. DEFINE entry == EntryOf([what |-> what, count |-> count])
            k == OneMore(count)
<1>1. entry = [what |-> what, high |-> (count \div Byte) % Byte, low |-> count % Byte]
  BY DEF EntryOf
<1>. HIDE DEF entry
<1>2. History!Counted(entry) = [what |-> what, high |-> k \div Byte, low |-> k % Byte]
  <2>1. k = (entry.high * Byte + entry.low + 1) % (Byte * Byte)
    BY <1>1 DEF OneMore
  <2>. HIDE DEF k
  <2>2. History!Counted(entry) = [entry EXCEPT !.high = k \div Byte, !.low = k % Byte]
    BY <2>1, Zenon DEF History!Counted
  <2>. QED
    BY <1>1, <2>2
<1>3. k \div Byte = ((count + 1) \div Byte) % Byte /\ k % Byte = (count + 1) % Byte
  BY CountedBytes
<1>. QED
  BY <1>2, <1>3 DEF EntryOf, entry

-----------------------------------------------------------------------------
(* The history.                                                            *)

LEMMA EntryTypes ==
    /\ \A run \in Run : EntryOf(run) \in History!Entry
    /\ runs \in Seq(Run) => \A i \in Nat : ExpectedEntry(i) \in History!Entry
<1>1. Byte \in Nat \ 0..1
  BY HaltReportAssumption DEF HaltReportAssumption
<1>2. ASSUME NEW run \in Run PROVE EntryOf(run) \in History!Entry
  <2>1. run.what \in Commands \cup {Rumble} /\ run.count \in Nat
    BY DEF Run
  <2>2. (run.count \div Byte) % Byte \in 0..(Byte - 1) /\ run.count % Byte \in 0..(Byte - 1)
    BY <1>1, <2>1
  <2>. QED
    BY <2>1, <2>2 DEF EntryOf, History!Entry
<1>3. ASSUME runs \in Seq(Run), NEW i \in Nat PROVE ExpectedEntry(i) \in History!Entry
  <2>1. CASE i < Len(runs)
    <3>1. Len(runs) - i \in 1..Len(runs)
      BY <1>3, <2>1
    <3>2. runs[Len(runs) - i] \in Run
      BY <1>3, <3>1
    <3>. QED
      BY <1>2, <2>1, <3>2 DEF ExpectedEntry
  <2>2. CASE ~(i < Len(runs))
    BY <1>1, <2>2 DEF ExpectedEntry, History!Entry
  <2>. QED
    BY <2>1, <2>2
<1>. QED
  BY <1>2, <1>3

LEMMA HistoryInit == History!Init => HistoryTypes /\ HistoryInv
<1>. SUFFICES ASSUME History!Init PROVE HistoryTypes /\ HistoryInv
  OBVIOUS
<1>1. Byte \in Nat \ 0..1 /\ sCommandHistoryLength \in 1..255
  BY HaltReportAssumption DEF HaltReportAssumption
<1>2. [what |-> Nothing, high |-> 0, low |-> 0] \in History!Entry
  BY <1>1 DEF History!Entry
<1>3. HistoryTypes
  BY <1>1, <1>2 DEF History!Init, HistoryTypes, History!Slots
<1>4. Len(dump) = 0 /\ Len(runs) = 0
  BY DEF History!Init
<1>5. ASSUME NEW i \in Unprinted
      PROVE  sCommandHistory[Back(sCommandHistoryCursor, i - Len(dump))] = ExpectedEntry(i)
  <2>1. i \in 0..(sCommandHistoryLength - 1)
    BY <1>4 DEF Unprinted
  <2>2. Back(sCommandHistoryCursor, i) \in History!Slots
    BY <1>3, <2>1, HistorySlots DEF HistoryTypes
  <2>3. ExpectedEntry(i) = [what |-> Nothing, high |-> 0, low |-> 0]
    BY <1>4, <2>1 DEF ExpectedEntry
  <2>4. i - Len(dump) = i
    BY <1>4, <2>1
  <2>. QED
    BY <2>2, <2>3, <2>4 DEF History!Init
<1>. QED
  BY <1>1, <1>3, <1>4, <1>5 DEF HistoryInv, DumpIsHistory, History!Init

\* A new run takes the slot after the newest; the oldest entry is gone.
LEMMA NewRun ==
    ASSUME HistoryTypes, HistoryInv, pc = "run", UNCHANGED <<pc, dump>>,
           NEW run \in Run,
           sCommandHistory' = [sCommandHistory EXCEPT ![History!NextSlot] = EntryOf(run)],
           sCommandHistoryCursor' = History!NextSlot,
           runs' = Append(runs, run)
    PROVE  HistoryTypes' /\ HistoryInv'
<1>. DEFINE L == sCommandHistoryLength
<1>1. PICK n \in Nat : n = Len(runs)
  BY DEF HistoryTypes
<1>2. runs' \in Seq(Run) /\ Len(runs') = n + 1 /\ runs'[n + 1] = run
      /\ \A j \in 1..n : runs'[j] = runs[j]
  BY <1>1 DEF HistoryTypes
<1>3. HistoryTypes'
  BY <1>2, EntryTypes, HistorySlots DEF HistoryTypes
<1>4. dump = <<>> /\ dump' = <<>> /\ Len(dump) = 0 /\ Len(dump') = 0
  BY DEF HistoryInv
<1>5. L \in 1..255
  BY HaltReportAssumption DEF HaltReportAssumption
<1>6. ASSUME NEW i \in 0..(L - 1)
      PROVE  sCommandHistory'[Back(History!NextSlot, i)] = ExpectedEntry(i)'
  <2>1. ExpectedEntry(i)' = IF i < n + 1 THEN EntryOf(runs'[n + 1 - i])
                            ELSE [what |-> Nothing, high |-> 0, low |-> 0]
    BY <1>2 DEF ExpectedEntry, EntryOf
  <2>2. CASE i = 0
    <3>1. Back(History!NextSlot, i) = History!NextSlot
      BY <2>2, HistorySlots DEF HistoryTypes
    <3>2. ExpectedEntry(i)' = EntryOf(run)
      BY <1>1, <1>2, <2>1, <2>2
    <3>. QED
      BY <3>1, <3>2, HistorySlots DEF HistoryTypes
  <2>3. CASE i > 0
    <3>1. /\ Back(History!NextSlot, i) = Back(sCommandHistoryCursor, i - 1)
          /\ Back(History!NextSlot, i) # History!NextSlot
          /\ Back(History!NextSlot, i) \in History!Slots
      BY <2>3, HistorySlots DEF HistoryTypes
    <3>2. i - 1 \in Unprinted /\ (i - 1) - Len(dump) = i - 1
      BY <1>4, <1>5, <2>3 DEF Unprinted
    <3>3. sCommandHistory[Back(sCommandHistoryCursor, i - 1)] = ExpectedEntry(i - 1)
      BY <3>2 DEF HistoryInv
    <3>4. ExpectedEntry(i - 1) = ExpectedEntry(i)'
      <4>1. CASE i < n + 1
        <5>1. n + 1 - i \in 1..n /\ n - (i - 1) = n + 1 - i /\ i - 1 < n
          BY <1>1, <2>3, <4>1
        <5>. QED
          BY <1>1, <1>2, <2>1, <4>1, <5>1 DEF ExpectedEntry
      <4>2. CASE ~(i < n + 1)
        <5>1. ~(i - 1 < n)
          BY <1>1, <4>2
        <5>. QED
          BY <1>1, <2>1, <4>2, <5>1 DEF ExpectedEntry
      <4>. QED
        BY <4>1, <4>2
    <3>. QED
      BY <3>1, <3>3, <3>4 DEF HistoryTypes
  <2>. QED
    BY <2>2, <2>3
<1>7. Unprinted' = 0..(L - 1) /\ \A i \in 0..(L - 1) : i - Len(dump') = i
  BY <1>4 DEF Unprinted
<1>. QED
  BY <1>3, <1>4, <1>5, <1>6, <1>7 DEF HistoryInv, DumpIsHistory, Back

\* A run that goes on is counted in the newest entry, which is its own.
LEMMA SameRun ==
    ASSUME HistoryTypes, HistoryInv, pc = "run", UNCHANGED <<pc, dump>>,
           History!Newest.what = Rumble,
           sCommandHistory' =
               [sCommandHistory EXCEPT ![sCommandHistoryCursor] = History!Counted(@)],
           sCommandHistoryCursor' = sCommandHistoryCursor,
           runs' = [runs EXCEPT ![Len(runs)].count = @ + 1]
    PROVE  HistoryTypes' /\ HistoryInv'
<1>. DEFINE L == sCommandHistoryLength
            c == sCommandHistoryCursor
<1>1. PICK n \in Nat : n = Len(runs)
  BY DEF HistoryTypes
<1>2. L \in 1..255 /\ c \in 0..(L - 1)
  BY HaltReportAssumption DEF HaltReportAssumption, HistoryTypes, History!Slots
<1>3. dump = <<>> /\ dump' = <<>> /\ Len(dump) = 0 /\ Len(dump') = 0
  BY DEF HistoryInv
<1>4. \A i \in 0..(L - 1) : sCommandHistory[Back(c, i)] = ExpectedEntry(i)
  <2>1. ASSUME NEW i \in 0..(L - 1) PROVE i \in Unprinted /\ i - Len(dump) = i
    BY <1>3 DEF Unprinted
  <2>. QED
    BY <2>1 DEF HistoryInv
<1>5. sCommandHistory[c] = ExpectedEntry(0)
  <2>1. Back(c, 0) = c /\ 0 \in 0..(L - 1)
    BY HistorySlots DEF HistoryTypes
  <2>. QED
    BY <1>4, <2>1
<1>6. n > 0
  <2>1. SUFFICES ASSUME n = 0 PROVE FALSE
    OBVIOUS
  <2>2. sCommandHistory[c].what = Nothing
    BY <1>1, <1>5, <2>1 DEF ExpectedEntry
  <2>. QED
    BY <2>2, HaltReportAssumption DEF HaltReportAssumption, History!Newest
<1>. DEFINE run == runs[n]
            longer == [what |-> run.what, count |-> run.count + 1]
<1>7. run \in Run /\ longer \in Run /\ run = [what |-> run.what, count |-> run.count]
  <2>1. n \in 1..Len(runs)
    BY <1>1, <1>6
  <2>2. run \in Run
    BY <2>1 DEF HistoryTypes
  <2>. HIDE DEF run
  <2>. QED
    BY <2>2 DEF Run
<1>8. /\ runs' \in Seq(Run) /\ Len(runs') = n /\ runs'[n] = longer
      /\ \A j \in 1..(n - 1) : runs'[j] = runs[j]
  <2>1. runs' = [runs EXCEPT ![n] = longer]
    <3>1. runs' = [runs EXCEPT ![n] = [run EXCEPT !.count = run.count + 1]]
      BY <1>1
    <3>2. [run EXCEPT !.count = run.count + 1] = longer
      <4>. HIDE DEF run
      <4>. QED
        BY <1>7
    <3>. QED
      BY <3>1, <3>2
  <2>. HIDE DEF longer, run
  <2>. QED
    BY <1>1, <1>6, <1>7, <2>1 DEF HistoryTypes
<1>9. sCommandHistory[c] = EntryOf(run)
  BY <1>1, <1>5, <1>6 DEF ExpectedEntry
<1>10. History!Counted(sCommandHistory[c]) = EntryOf(longer)
  <2>1. run.count \in Nat
    BY <1>7 DEF Run
  <2>2. sCommandHistory[c] = EntryOf([what |-> run.what, count |-> run.count])
    BY <1>7, <1>9
  <2>. HIDE DEF run
  <2>. QED
    BY <2>1, <2>2, CountedEntry
<1>. HIDE DEF longer, run
<1>11. sCommandHistory' = [sCommandHistory EXCEPT ![c] = EntryOf(longer)]
  BY <1>10
<1>12. HistoryTypes'
  BY <1>7, <1>8, <1>11, EntryTypes DEF HistoryTypes
<1>13. ASSUME NEW i \in 0..(L - 1) PROVE sCommandHistory'[Back(c, i)] = ExpectedEntry(i)'
  <2>1. ExpectedEntry(i)' = IF i < n THEN EntryOf(runs'[n - i])
                            ELSE [what |-> Nothing, high |-> 0, low |-> 0]
    BY <1>8 DEF ExpectedEntry, EntryOf
  <2>2. CASE i = 0
    <3>1. Back(c, i) = c
      BY <2>2, HistorySlots DEF HistoryTypes
    <3>2. ExpectedEntry(i)' = EntryOf(longer)
      BY <1>6, <1>8, <2>1, <2>2
    <3>. QED
      BY <1>11, <3>1, <3>2 DEF HistoryTypes
  <2>3. CASE i > 0
    <3>1. Back(c, i) # c /\ Back(c, i) \in History!Slots
      BY <2>3, HistorySlots DEF HistoryTypes
    <3>2. ExpectedEntry(i)' = ExpectedEntry(i)
      <4>1. i < n => n - i \in 1..(n - 1)
        BY <2>3
      <4>. QED
        BY <1>1, <1>8, <2>1, <4>1 DEF ExpectedEntry
    <3>. QED
      BY <1>4, <1>11, <3>1, <3>2 DEF HistoryTypes
  <2>. QED
    BY <2>2, <2>3
<1>14. Unprinted' = 0..(L - 1) /\ \A i \in 0..(L - 1) : i - Len(dump') = i
  BY <1>3 DEF Unprinted
<1>. QED
  BY <1>2, <1>3, <1>12, <1>13, <1>14 DEF HistoryInv, DumpIsHistory, Back

LEMMA HandleReportInv ==
    ASSUME HistoryTypes, HistoryInv, History!HandleReport
    PROVE  HistoryTypes' /\ HistoryInv'
<1>1. pc = "run" /\ UNCHANGED <<pc, dump>>
  BY DEF History!HandleReport
<1>2. CASE History!RecordRumble /\ History!Newest.what = Rumble
  BY <1>1, <1>2, SameRun DEF History!RecordRumble
<1>3. CASE History!RecordRumble /\ History!Newest.what # Rumble
  <2>. DEFINE run == [what |-> Rumble, count |-> 1]
  <2>1. run \in Run
    BY DEF Run
  <2>2. Byte \in Nat \ 0..1
    BY HaltReportAssumption DEF HaltReportAssumption
  <2>3. History!FirstOfRun = EntryOf([what |-> Rumble, count |-> 0])
    BY <2>2 DEF History!FirstOfRun, EntryOf
  <2>4. History!Counted(History!FirstOfRun) = EntryOf(run)
    <3>1. History!Counted(EntryOf([what |-> Rumble, count |-> 0]))
              = EntryOf([what |-> Rumble, count |-> 0 + 1])
      BY CountedEntry
    <3>. QED
      BY <2>3, <3>1
  <2>. HIDE DEF run
  <2>5. /\ sCommandHistory' = [sCommandHistory EXCEPT ![History!NextSlot] = EntryOf(run)]
        /\ sCommandHistoryCursor' = History!NextSlot
        /\ runs' = Append(runs, run)
    BY <1>3, <2>4 DEF History!RecordRumble, run
  <2>. QED
    BY <1>1, <2>1, <2>5, NewRun
<1>4. ASSUME NEW command \in Commands, History!RecordCommand(command)
      PROVE  HistoryTypes' /\ HistoryInv'
  <2>. DEFINE run == [what |-> command, count |-> 0]
  <2>1. run \in Run
    BY DEF Run
  <2>2. Byte \in Nat \ 0..1
    BY HaltReportAssumption DEF HaltReportAssumption
  <2>3. EntryOf(run) = [what |-> command, high |-> 0, low |-> 0]
    BY <2>2 DEF EntryOf
  <2>. HIDE DEF run
  <2>4. /\ sCommandHistory' = [sCommandHistory EXCEPT ![History!NextSlot] = EntryOf(run)]
        /\ sCommandHistoryCursor' = History!NextSlot
        /\ runs' = Append(runs, run)
    BY <1>4, <2>3 DEF History!RecordCommand, run
  <2>. QED
    BY <1>1, <2>1, <2>4, NewRun
<1>. QED
  BY <1>2, <1>3, <1>4 DEF History!HandleReport

\* The entry printed is the newest of those not printed yet.
LEMMA PrintEntryInv ==
    ASSUME HistoryTypes, HistoryInv, History!PrintEntry
    PROVE  HistoryTypes' /\ HistoryInv' /\ Len(dump') = Len(dump) + 1
<1>. DEFINE L == sCommandHistoryLength
            c == sCommandHistoryCursor
            previous == History!PreviousSlot
<1>1. PICK d \in Nat : d = Len(dump)
  BY DEF HistoryTypes
<1>2. L \in 1..255 /\ d < L
  BY <1>1, HaltReportAssumption DEF HaltReportAssumption, HistoryInv, History!PrintEntry
<1>3. \A i \in d..(L - 1) : sCommandHistory[Back(c, i - d)] = ExpectedEntry(i)
  BY <1>1 DEF HistoryInv, Unprinted, History!PrintEntry
<1>4. History!Newest = ExpectedEntry(d) /\ History!Newest \in History!Entry
  <2>1. d \in d..(L - 1) /\ d - d = 0
    BY <1>2
  <2>2. Back(c, 0) = c
    BY HistorySlots DEF HistoryTypes
  <2>. QED
    BY <1>3, <2>1, <2>2 DEF History!Newest, HistoryTypes
<1>5. /\ dump' \in Seq(History!Entry)
      /\ Len(dump') = d + 1
      /\ dump'[d + 1] = ExpectedEntry(d)
      /\ \A i \in 1..d : dump'[i] = dump[i]
  BY <1>1, <1>4 DEF History!PrintEntry, HistoryTypes
<1>6. \A i : ExpectedEntry(i)' = ExpectedEntry(i)
  BY DEF ExpectedEntry, EntryOf, History!PrintEntry
<1>7. HistoryTypes'
  BY <1>5, HistorySlots DEF HistoryTypes, History!PrintEntry
<1>8. DumpIsHistory'
  <2>1. ASSUME NEW i \in 1..(d + 1) PROVE dump'[i] = ExpectedEntry(i - 1)
    <3>1. CASE i = d + 1
      BY <1>5, <3>1
    <3>2. CASE i \in 1..d
      BY <1>1, <1>5, <3>2 DEF HistoryInv, DumpIsHistory
    <3>. QED
      BY <3>1, <3>2
  <2>. QED
    BY <1>5, <1>6, <2>1 DEF DumpIsHistory
<1>9. /\ pc' # "run"
      /\ d + 1 = L => pc' = "stopped"
      /\ d + 1 # L => pc' = "dump"
  BY <1>5 DEF History!PrintEntry
<1>10. ASSUME NEW i \in (d + 1)..(L - 1)
       PROVE  sCommandHistory'[Back(previous, i - (d + 1))] = ExpectedEntry(i)'
  <2>1. PICK k \in 1..(L - 1) : k = i - d
    BY <1>2
  <2>2. Back(previous, k - 1) = Back(c, k)
    BY <2>1, HistorySlots DEF HistoryTypes
  <2>3. k - 1 = i - (d + 1) /\ k = i - d /\ i \in d..(L - 1)
    BY <2>1
  <2>. QED
    BY <1>3, <1>6, <2>2, <2>3 DEF History!PrintEntry
<1>11. Unprinted' = (d + 1)..(L - 1)
  BY <1>5 DEF Unprinted
<1>12. sCommandHistoryCursor' = previous
  BY DEF History!PrintEntry
<1>. HIDE DEF previous
<1>13. pc' # "stopped" =>
           /\ Len(dump') < L
           /\ \A i \in Unprinted' :
                  sCommandHistory'[Back(sCommandHistoryCursor', i - Len(dump'))]
                      = ExpectedEntry(i)'
  <2>1. pc' # "stopped" => d + 1 < L
    BY <1>2, <1>9
  <2>. QED
    BY <1>5, <1>10, <1>11, <1>12, <2>1
<1>. QED
  BY <1>1, <1>5, <1>7, <1>8, <1>9, <1>13 DEF HistoryInv, Back

-----------------------------------------------------------------------------
(* The ring of characters.                                                 *)

LEMMA RingInit == Ring!Init => RingTypes
<1>1. sSerialOutputBufferLength \in 1..255
  BY HaltReportAssumption DEF HaltReportAssumption
<1>. QED
  BY <1>1 DEF Ring!Init, RingTypes, Ring!Slots

LEMMA RingTypesNext ==
    ASSUME sSerialOutputBufferLength > 1, RingTypes,
           \/ Ring!serialPoll \/ Ring!UartTakes \/ Ring!serialPrintWaits
           \/ Ring!serialPrint \/ Ring!serialPrintReturns
    PROVE  RingTypes'
<1>1. CASE Ring!serialPoll
  BY <1>1, RingSlots DEF RingTypes, Ring!serialPoll, Ring!OldestSlot
<1>2. CASE Ring!UartTakes \/ Ring!serialPrintWaits
  BY <1>2 DEF RingTypes, Ring!UartTakes, Ring!serialPrintWaits
<1>3. CASE Ring!AddCharacter
  <2>1. printed' \in Nat /\ printed + 1 \in Nat
    BY <1>3 DEF Ring!AddCharacter, RingTypes
  <2>2. sSerialOutputBuffer' \in [Ring!Slots -> Nat]
    BY <1>3, <2>1 DEF Ring!AddCharacter, RingTypes
  <2>. QED
    BY <1>3, <2>1, <2>2, RingSlots DEF Ring!AddCharacter, RingTypes
<1>. QED
  BY <1>1, <1>2, <1>3 DEF Ring!serialPrint, Ring!serialPrintReturns

\* A poll takes the only character out of the ring.
LEMMA PollRing ==
    ASSUME sSerialOutputBufferLength > 1, RingTypes, RingInv, Ring!serialPoll, UNCHANGED dump
    PROVE  RingInv'
<1>. SUFFICES ASSUME dump # <<>> PROVE RingInv'
  BY DEF RingInv
<1>1. sSerialOutputBufferStart # sSerialOutputBufferEnd
  BY DEF Ring!serialPoll, Ring!Empty
<1>2. /\ sSerialOutputBufferEnd = Ring!NextSlot(sSerialOutputBufferStart)
      /\ sSerialOutputBuffer[sSerialOutputBufferStart] = printed
  BY <1>1 DEF RingInv, Ring!Empty
<1>3. /\ sSerialOutputBufferStart' = Ring!NextSlot(sSerialOutputBufferStart)
      /\ written' = sSerialOutputBuffer[sSerialOutputBufferStart]
      /\ UNCHANGED <<sSerialOutputBufferEnd, printed>>
  BY DEF Ring!serialPoll, Ring!OldestSlot
<1>4. sSerialOutputBufferStart' = sSerialOutputBufferEnd' /\ written' = printed'
  BY <1>2, <1>3
<1>. QED
  BY <1>4 DEF RingInv, Ring!Empty

\* A print of haltStr6 adds its character to a ring that is empty, or that
\* seems to be when it has run over; the next print finds all written.
LEMMA PrintRing ==
    ASSUME sSerialOutputBufferLength > 1, RingTypes, HistoryTypes, RingInv,
           Ring!serialPrintReturns, Len(dump') = Len(dump) + 1
    PROVE  RingInv'
<1>1. /\ sSerialOutputBufferStart = sSerialOutputBufferEnd
      /\ Ring!AddCharacter
  BY DEF Ring!serialPrintReturns, Ring!Drained, Ring!Empty
<1>2. /\ sSerialOutputBufferStart' = sSerialOutputBufferStart
      /\ sSerialOutputBufferEnd' = Ring!NextSlot(sSerialOutputBufferStart)
      /\ printed' = printed + 1
      /\ written' = written
      /\ sSerialOutputBuffer'[sSerialOutputBufferStart] = printed + 1
  BY <1>1 DEF Ring!AddCharacter, RingTypes
<1>3. Len(dump') > 1 => written' = printed' - 1
  <2>1. SUFFICES ASSUME Len(dump') > 1 PROVE written = printed
    BY <1>2 DEF RingTypes
  <2>2. PICK d \in Nat : d = Len(dump)
    BY DEF HistoryTypes
  <2>3. dump # <<>>
    BY <2>1, <2>2
  <2>4. Ring!NextSlot(sSerialOutputBufferStart) # sSerialOutputBufferStart
    BY RingSlots DEF RingTypes
  <2>. QED
    BY <1>1, <2>3, <2>4 DEF RingInv
<1>4. Ring!NextSlot(sSerialOutputBufferStart)' = Ring!NextSlot(sSerialOutputBufferStart)
  BY <1>2 DEF Ring!NextSlot
<1>. QED
  BY <1>2, <1>3, <1>4 DEF RingInv

-----------------------------------------------------------------------------
(* The halt report.                                                        *)

LEMMA HistoryInvInit == Init => HistoryTypes /\ HistoryInv
  BY HistoryInit DEF Init

\* Only reports, haltStr6 and its prints of entries touch the history.
LEMMA HistoryInvNext ==
    ASSUME HistoryTypes, HistoryInv, [Next]_vars
    PROVE  HistoryTypes' /\ HistoryInv'
<1>1. ASSUME UNCHANGED historyVars PROVE HistoryTypes' /\ HistoryInv'
  <2>1. \A i : ExpectedEntry(i)' = ExpectedEntry(i)
    BY <1>1 DEF historyVars, ExpectedEntry, EntryOf
  <2>. QED
    BY <1>1, <2>1 DEF historyVars, HistoryTypes, HistoryInv, DumpIsHistory, Unprinted, Back
<1>2. CASE HandleReport
  BY <1>2, HandleReportInv DEF HandleReport
<1>3. CASE haltStr6
  <2>1. HistoryTypes'
    BY <1>3 DEF haltStr6, History!haltStr6, HistoryTypes
  <2>2. \A i : ExpectedEntry(i)' = ExpectedEntry(i)
    BY <1>3 DEF haltStr6, History!haltStr6, ExpectedEntry, EntryOf
  <2>3. HistoryInv'
    BY <1>3, <2>2 DEF haltStr6, History!haltStr6, HistoryInv, DumpIsHistory, Unprinted, Back
  <2>. QED
    BY <2>1, <2>3
<1>4. CASE PrintEntry
  BY <1>4, PrintEntryInv DEF PrintEntry
<1>5. CASE DebugPrint \/ PrintEntryWaits \/ Poll \/ UartTakes \/ UNCHANGED vars
  BY <1>1, <1>5 DEF DebugPrint, PrintEntryWaits, Poll, UartTakes, vars
<1>. QED
  BY <1>2, <1>3, <1>4, <1>5 DEF Next

LEMMA HistoryConsistent == Spec => [](HistoryTypes /\ HistoryInv)
<1>1. HistoryTypes /\ HistoryInv /\ [Next]_vars => (HistoryTypes /\ HistoryInv)'
  BY HistoryInvNext
<1>. QED
  BY <1>1, HistoryInvInit, PTL DEF Spec

\* What haltStr6 prints is the latest commands, newest first, each run of
\* rumble reports with its length in sixteen bits, for a history of any
\* length and however many reports there were (main.cpp:148-173).
THEOREM DumpTold == Spec => []DumpIsHistory
<1>1. HistoryInv => DumpIsHistory
  BY DEF HistoryInv
<1>. QED
  BY <1>1, HistoryConsistent, PTL

LEMMA RingInvInit == Init => RingTypes /\ RingInv
  BY RingInit DEF Init, History!Init, RingInv

LEMMA RingInvNext ==
    ASSUME sSerialOutputBufferLength > 1, HistoryTypes, HistoryInv, RingTypes, RingInv,
           [Next]_vars
    PROVE  RingTypes' /\ RingInv'
<1>1. ASSUME UNCHANGED <<ringVars, dump>> PROVE RingTypes' /\ RingInv'
  BY <1>1 DEF ringVars, RingTypes, RingInv, Ring!Empty, Ring!NextSlot
<1>2. CASE HandleReport \/ haltStr6 \/ UNCHANGED vars
  BY <1>1, <1>2 DEF HandleReport, History!HandleReport, haltStr6, History!haltStr6, vars, historyVars
<1>3. CASE DebugPrint
  <2>1. dump' = <<>>
    BY <1>3 DEF DebugPrint, HistoryInv, historyVars
  <2>. QED
    BY <1>3, <2>1, RingTypesNext DEF DebugPrint, RingInv
<1>4. CASE PrintEntryWaits
  <2>1. RingInv'
    BY <1>4 DEF PrintEntryWaits, Ring!serialPrintWaits, historyVars, RingInv, Ring!Empty,
                Ring!NextSlot
  <2>. QED
    BY <1>4, <2>1, RingTypesNext DEF PrintEntryWaits
<1>5. CASE PrintEntry
  <2>1. Len(dump') = Len(dump) + 1
    BY <1>5, PrintEntryInv DEF PrintEntry
  <2>2. RingInv'
    BY <1>5, <2>1, PrintRing DEF PrintEntry
  <2>. QED
    BY <1>5, <2>2, RingTypesNext DEF PrintEntry
<1>6. CASE Poll
  BY <1>6, RingTypesNext, PollRing DEF Poll, historyVars
<1>7. CASE UartTakes
  <2>1. RingInv'
    BY <1>7 DEF UartTakes, Ring!UartTakes, historyVars, RingInv, Ring!Empty, Ring!NextSlot
  <2>. QED
    BY <1>7, <2>1, RingTypesNext DEF UartTakes
<1>. QED
  BY <1>2, <1>3, <1>4, <1>5, <1>6, <1>7 DEF Next

\* However often the ring had run over, the halt report leaves the adapter,
\* all but its last character, when it has two characters and the ring two
\* slots at least (serial.cpp:42-56).
THEOREM HaltReportLeaves ==
    sSerialOutputBufferLength > 1 /\ sCommandHistoryLength > 1
        => (Spec => []HaltReportWritten)
<1>. SUFFICES ASSUME sSerialOutputBufferLength > 1, sCommandHistoryLength > 1
              PROVE  Spec => []HaltReportWritten
  OBVIOUS
<1>. DEFINE HaltInv == HistoryTypes /\ HistoryInv /\ RingTypes /\ RingInv
<1>1. Init => HaltInv
  BY HistoryInvInit, RingInvInit
<1>2. HaltInv /\ [Next]_vars => HaltInv'
  BY HistoryInvNext, RingInvNext
<1>3. HaltInv => HaltReportWritten
  <2>1. SUFFICES ASSUME HaltInv, pc = "stopped" PROVE written >= printed - 1
    BY DEF HaltReportWritten
  <2>2. Len(dump) > 1
    BY <2>1 DEF HistoryInv
  <2>3. dump # <<>>
    BY <2>2
  <2>. QED
    BY <2>1, <2>2, <2>3 DEF RingInv, RingTypes
<1>. HIDE DEF HaltInv
<1>. QED
  BY <1>1, <1>2, <1>3, PTL DEF Spec

=============================================================================
