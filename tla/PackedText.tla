----------------------------- MODULE PackedText -----------------------------
(***************************************************************************)
(* The texts the adapter prints: strings packed at compile time, six or    *)
(* seven bits to a character (src/src/packedStrings.h), their reading back *)
(* (packedStrings.cpp) and the printing of strings and numbers             *)
(* (serial.cpp).  Characters are numbers; what is printed is a sequence.   *)
(***************************************************************************)
EXTENDS Integers, Sequences, SequencesExt

Newline == 10
Semicolon == 59
Exclamation == 33
Caret == 94
Pipe == 124

\* Slip: small letters count as signs outside the set.
SignOfCapital(ch) ==
    CASE ch = 0 -> Semicolon
      [] ch = Newline -> Caret
      [] ch = Pipe -> Exclamation
      [] ch \in 32..93 -> ch
      [] OTHER -> 63

\* The six-bit code of a character, before 32 is subtracted: capitals only,
\* and three signs stand for a newline, a bar and the end of the string.
SixBitSign(ch) ==
    LET upper == IF ch \in 97..122 THEN ch - 32 ELSE ch
    IN  CASE ch = 0 -> Semicolon
          [] ch = Newline -> Caret
          [] ch = Pipe -> Exclamation
          [] upper \in 32..93 -> upper
          [] OTHER -> 63

\* A character's bits, at the top of a byte.
Aligned(bits, ch) == IF bits = 6 THEN (SixBitSign(ch) - 32) * 4 ELSE (ch * 2) % 256

\* The bytes a string and its final zero are packed in.  A character's bits
\* begin in the byte where the one before it ended.
Packed(bits, string) ==
    LET chars == Append(string, 0)
        length == (Len(chars) * bits + 7) \div 8
        at(i) == ((i - 1) * bits) % 8
        firstByte(i) == ((i - 1) * bits) \div 8
        part(byte, i) ==
            CASE byte = firstByte(i) -> Aligned(bits, chars[i]) \div 2^at(i)
              [] byte = firstByte(i) + 1 /\ at(i) + bits > 8 ->
                     (Aligned(bits, chars[i]) * 2^(8 - at(i))) % 256
              [] OTHER -> 0
    IN  [byte \in 1..length |->
            FoldLeft(LAMBDA sum, i : sum + part(byte - 1, i), 0, [i \in 1..Len(chars) |-> i])]

\* The character at an index, in the byte's top bits.
TopBits(bits, data, index) ==
    LET startByte == (index * bits) \div 8
        startBit == (index * bits) % 8
    IN  ((data[startByte + 1] * 2^startBit) % 256)
        + (IF startBit > 8 - bits THEN data[startByte + 2] \div 2^(8 - startBit) ELSE 0)

str7CharAtIndex(data, index) == TopBits(7, data, index) \div 2

str6CharAtIndex(data, index) ==
    LET sign == 32 + TopBits(6, data, index) \div 4
    IN  CASE sign = Caret -> Newline
          [] sign = Exclamation -> Pipe
          [] sign = Semicolon -> 0
          [] OTHER -> sign

\* Up to the first character that reads as zero.
serialPrintStr6(data) ==
    LET print[i \in Nat] ==
            IF str6CharAtIndex(data, i) = 0 THEN <<>>
            ELSE <<str6CharAtIndex(data, i)>> \o print[i + 1]
    IN  print[0]

Nybble(n) == IF n >= 10 THEN 65 - 10 + n ELSE 48 + n
serialPrintHex(byte) == <<Nybble(byte \div 16), Nybble(byte % 16)>>
serialPrintHex16(word) == serialPrintHex(word \div 256) \o serialPrintHex(word % 256)

serialPrintDec(byte) ==
    LET print[n \in 0..255] == (IF n \div 10 = 0 THEN <<>> ELSE print[n \div 10]) \o <<48 + (n % 10)>>
    IN  print[byte]

\* Eight bytes to a line.
serialPrintBuffer(buffer) ==
    FlattenSeq([i \in DOMAIN buffer |->
        serialPrintHex(buffer[i]) \o <<32>>
        \o (IF i % 8 = 0 \/ i = Len(buffer) THEN <<Newline>> ELSE <<>>)])

-----------------------------------------------------------------------------

\* What a string of the source reads like when printed.
Readable(string) ==
    LET shown(ch) ==
            CASE ch \in 97..122 -> ch - 32
              [] ch \in {Newline, Pipe} -> ch
              [] ch = Exclamation -> Pipe
              [] ch \in 32..93 \ {Exclamation} -> ch
              [] OTHER -> 63
        end == IF \E i \in DOMAIN string : string[i] = Semicolon
               THEN SelectInSeq(string, LAMBDA ch : ch = Semicolon) - 1 ELSE Len(string)
    IN  [i \in 1..end |-> shown(string[i])]

DigitValue(ch) == IF ch >= 65 THEN ch - 65 + 10 ELSE ch - 48
NumberOf(base, digits) == FoldLeft(LAMBDA n, ch : base * n + DigitValue(ch), 0, digits)

=============================================================================
