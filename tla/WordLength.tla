---------------------------- MODULE WordLength ----------------------------
(***************************************************************************)
(* internal/routeros/protocol.go: the length before each word, in one to   *)
(* five bytes. A byte is a number below 256; "b | 0xC0" sets the two top   *)
(* bits of a byte and keeps the rest, and so on.                           *)
(***************************************************************************)
EXTENDS Integers, Sequences

Byte == 0..255

\* binary.Uint32 of a length, and the largest that fits.
K == 256
LengthLimit == K * K * K * K

Low(n, k) == (n \div k) % K   \* byte(n >> ...)

WriteLength(n) ==
    IF n < 128 THEN <<n>>
    ELSE IF n < 64 * K
    THEN <<128 + (Low(n, K) % 128), n % K>>
    ELSE IF n < 32 * K * K
    THEN <<192 + (Low(n, K * K) % 64), Low(n, K), n % K>>
    ELSE IF n < 16 * K * K * K
    THEN <<224 + (Low(n, K * K * K) % 32), Low(n, K * K), Low(n, K), n % K>>
    ELSE <<240, Low(n, K * K * K), Low(n, K * K), Low(n, K), n % K>>

\* How many bytes a prefix has, by its first one; 0 if no prefix starts so.
PrefixSize(first) ==
    IF first < 128 THEN 1          \* first & 0x80 = 0
    ELSE IF first < 192 THEN 2     \* first & 0xC0 = 0x80
    ELSE IF first < 224 THEN 3     \* first & 0xE0 = 0xC0
    ELSE IF first < 240 THEN 4     \* first & 0xF0 = 0xE0
    ELSE IF first = 240 THEN 5 ELSE 0

\* readLength: the length, read off the bytes that come next. It is only asked
\* of a stream that starts with a prefix and goes on for as long as that does.
ReadLength(s) ==
    LET size == PrefixSize(s[1]) IN
    CASE size = 1 -> s[1]
      [] size = 2 -> (s[1] % 64) * K + s[2]
      [] size = 3 -> (s[1] % 32) * K * K + s[2] * K + s[3]
      [] size = 4 -> (s[1] % 16) * K * K * K + s[2] * K * K + s[3] * K + s[4]
      [] OTHER -> s[2] * K * K * K + s[3] * K * K + s[4] * K + s[5]
============================================================================
