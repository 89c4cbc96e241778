----------------------------- MODULE Encodings ------------------------------
(***************************************************************************)
(* The arithmetic of the encodings between widget, daemon and network, one *)
(* unit at a time, and what the other side makes of it: a character as     *)
(* UTF-8 and as the escapes of its UTF-16 units, three bytes as four       *)
(* symbols of base64, a sum and its carries.                               *)
(***************************************************************************)
EXTENDS Integers, Sequences

Octet == {n \in Nat : n < 256}

-----------------------------------------------------------------------------
(* Characters.  In the text of a JSON string bytes are numbers below 256,  *)
(* and \uXXXX is one symbol, the escaped unit above them.                  *)

Escape(unit) == 256 + unit
IsEscape(symbol) == symbol >= 256
IsHigh(unit) == 55296 <= unit /\ unit < 56320     \* 0xD800 to 0xDBFF
IsLow(unit) == 56320 <= unit /\ unit < 57344      \* 0xDC00 to 0xDFFF

\* Two units that make a pair are one character.
Paired(high, low) == 65536 + (high - 55296) * 1024 + (low - 56320)

\* Mutant: the boundary of the two-byte sequences.
appendUtf8OffByOne(cp) ==
    IF cp < 128 THEN << cp >>
    ELSE IF cp <= 2048 THEN << 192 + cp \div 64, 128 + (cp % 64) >>
    ELSE IF cp < 65536 THEN << 224 + cp \div 4096, 128 + ((cp \div 64) % 64), 128 + (cp % 64) >>
    ELSE << 240 + cp \div 262144, 128 + ((cp \div 4096) % 64), 128 + ((cp \div 64) % 64), 128 + (cp % 64) >>

appendUtf8(cp) ==
    IF cp < 128 THEN << cp >>
    ELSE IF cp < 2048 THEN << 192 + cp \div 64, 128 + (cp % 64) >>
    ELSE IF cp < 65536 THEN << 224 + cp \div 4096, 128 + ((cp \div 64) % 64), 128 + (cp % 64) >>
    ELSE << 240 + cp \div 262144, 128 + ((cp \div 4096) % 64), 128 + ((cp \div 64) % 64), 128 + (cp % 64) >>

IsContinuation(byte) == 128 <= byte /\ byte < 192

\* How many bytes follow a leading byte, and what it contributes.
Extra(c) ==
    IF 192 <= c /\ c < 224 THEN 1
    ELSE IF 224 <= c /\ c < 240 THEN 2
    ELSE IF 240 <= c /\ c < 248 THEN 3 ELSE 0
Lead(c) == IF Extra(c) = 1 THEN c % 32 ELSE IF Extra(c) = 2 THEN c % 16 ELSE c % 8

\* The character a text begins with, if the bytes that should follow the first do.
IsSequence(s) == \A k \in 1..Extra(s[1]) : IsContinuation(s[1 + k])
CodePoint(s) ==
    LET Take(cp, k) == IF k <= Extra(s[1]) THEN cp * 64 + (s[1 + k] % 64) ELSE cp
    IN Take(Take(Take(Lead(s[1]), 1), 2), 3)

writeEscapedCodePoint(cp) ==
    IF cp < 65536 THEN << Escape(cp) >>
    ELSE << Escape(55296 + (cp - 65536) \div 1024), Escape(56320 + ((cp - 65536) % 1024)) >>

-----------------------------------------------------------------------------
(* base64: positions in the alphabet, 64 is the padding.                   *)

\* The three bytes after the first i, the missing ones as zeros.
ByteAt(data, n) == IF n <= Len(data) THEN data[n] ELSE 0
Triple(data, i) == ByteAt(data, i + 1) * 65536 + ByteAt(data, i + 2) * 256 + ByteAt(data, i + 3)

Sextet(triple, j) ==
    CASE j = 0 -> triple \div 262144
      [] j = 1 -> (triple \div 4096) % 64
      [] j = 2 -> (triple \div 64) % 64
      [] j = 3 -> triple % 64

\* Mutant: a single byte at the end is padded like two.
PadsOnce(data, i, j) == j = 3 /\ i + j > Len(data)

\* The last symbols of an incomplete group: two after one byte, one after two.
Pads(data, i, j) == i + j > Len(data)

base64Encode(data) ==
    [k \in 1..(4 * ((Len(data) + 2) \div 3)) |->
        LET i == 3 * ((k - 1) \div 4)
            j == (k - 1) % 4
        IN IF Pads(data, i, j) THEN 64 ELSE Sextet(Triple(data, i), j)]

\* How a decoder reads it: groups of four, with one or two symbols of padding at the
\* end of the last and nowhere else.
Padding(code) ==
    IF code = << >> THEN 0
    ELSE IF code[Len(code) - 1] = 64 THEN 2 ELSE IF code[Len(code)] = 64 THEN 1 ELSE 0

Readable(code) ==
    /\ Len(code) % 4 = 0
    /\ \A k \in 1..Len(code) : code[k] < 64 \/ (code[k] = 64 /\ k > Len(code) - Padding(code))

Bits(code, g) ==
    (code[4 * g + 1] % 64) * 262144 + (code[4 * g + 2] % 64) * 4096
    + (code[4 * g + 3] % 64) * 64 + (code[4 * g + 4] % 64)

Decoded(code) ==
    [n \in 1..(3 * (Len(code) \div 4) - Padding(code)) |->
        LET bits == Bits(code, (n - 1) \div 3)
            j == (n - 1) % 3
        IN CASE j = 0 -> bits \div 65536
             [] j = 1 -> (bits \div 256) % 256
             [] j = 2 -> bits % 256]

-----------------------------------------------------------------------------
(* The checksum.                                                           *)

\* The running sums of a sequence of numbers, and the last of them.
Sums(w) == LET sum[i \in 0..Len(w)] == IF i = 0 THEN 0 ELSE sum[i - 1] + w[i] IN sum
Total(w) == Sums(w)[Len(w)]

\* Words as memcpy makes them on a little-endian machine, the last byte alone.
Words(data) ==
    [i \in 1..((Len(data) + 1) \div 2) |-> data[2 * i - 1] + 256 * ByteAt(data, 2 * i)]

\* Mutant: carries are dropped.
foldNot(sum) == sum % 65536

\* Carries out of the low sixteen bits are added back until there are none: for a
\* sum of 32 bits that is twice, and once more would change nothing.
fold(sum) ==
    LET Carried(s) == (s % 65536) + s \div 65536
    IN Carried(Carried(sum))

internetChecksum(data) == 65535 - fold(Total(Words(data)))

\* How a receiver adds them up: byte by byte, each by its place in its word.
Weighed(packet) == [i \in 1..Len(packet) |-> IF i % 2 = 1 THEN packet[i] ELSE 256 * packet[i]]
=============================================================================
