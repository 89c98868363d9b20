-------------------------- MODULE AlgorithmsProofs --------------------------
(***************************************************************************)
(* What holds of the stand-alone computations for every input: mkexfatfs   *)
(* interrupted anywhere, names of any length, all times, timestamps and    *)
(* time zones.                                                             *)
(***************************************************************************)
EXTENDS Algorithms, Iteration, SequenceTheorems

-----------------------------------------------------------------------------
(* mkexfatfs.                                                              *)

Object == {"vbr", "backup", "fat", "cbm", "uct", "rootdir"}

\* dev where the objects before at are first and the others rest
Passed(first, rest) ==
  \A k \in 1 .. 6 : dev[M!objects[k]] = IF k < at THEN first ELSE rest

\* The objects are replaced in order: zeroed first, then new.
MkfsInv ==
  /\ pc \in {"setup", "check", "erase", "create", "fsync", "done", "failed"}
  /\ at \in 1 .. 6
  /\ dev \in [Object -> {"old", "zero", "new", "torn"}]
  /\ pc \in {"setup", "check"} => at = 1 /\ Passed("old", "old")
  /\ pc = "erase" => Passed("zero", "old")
  /\ pc = "create" => Passed("new", "zero")
  /\ pc \in {"fsync", "done"} => Passed("new", "new")
  /\ M!NoHybrid

\* The objects of mkfs(), in their order.
LEMMA Objects ==
  /\ Len(M!objects) = 6 /\ M!Range(M!objects) = Object
  /\ M!objects[1] = "vbr" /\ M!objects[2] = "backup" /\ M!objects[3] = "fat"
  /\ M!objects[4] = "cbm" /\ M!objects[5] = "uct" /\ M!objects[6] = "rootdir"
  BY DEF M!objects, M!Range, Object

\* erase() zeroes the old objects one by one, create() replaces the zeroed ones:
\* the boot record and the root directory are whole at once only at the ends.
LEMMA MkfsPut ==
  ASSUME MkfsInv, NEW content, M!Put(content),
         \/ pc = "erase" /\ content = "zero"
         \/ pc = "create" /\ content = "new"
  PROVE  MkfsInv'
  <1> USE Objects
  <1> QED BY DEF MkfsInv, Passed, M!Put, M!NoHybrid, Object

\* Every step of mkexfatfs preserves it.
LEMMA MkfsStep ==
  ASSUME MkfsInv, M!Next
  PROVE  MkfsInv'
  <1>1. CASE M!setup
    BY <1>1, Objects DEF MkfsInv, Passed, M!setup, M!NoHybrid
  <1>2. CASE M!Check
    BY <1>2, Objects DEF MkfsInv, Passed, M!Check, M!NoHybrid
  <1>3. CASE M!erase
    BY <1>3, MkfsPut DEF M!erase
  <1>4. CASE M!create
    BY <1>4, MkfsPut DEF M!create
  <1>5. CASE M!exfat_fsync
    BY <1>5, Objects DEF MkfsInv, Passed, M!exfat_fsync, M!NoHybrid
  <1> QED BY <1>1, <1>2, <1>3, <1>4, <1>5 DEF M!Next

\* Interrupted anywhere, and whatever transfer fails, mkexfatfs leaves the old
\* volume, a new one, or none that mounts, for every size and parameter.
THEOREM NoHybridHolds == Spec => []NoHybrid
  <1> DEFINE Inv == part = "mkfs" => MkfsInv
  <1>1. Init => Inv
    BY Objects DEF Init, M!Init, MkfsInv, Passed, M!NoHybrid, Object
  <1>2. Inv /\ [Next]_vars => Inv'
    <2> SUFFICES ASSUME Inv, [Next]_vars, part' = "mkfs" PROVE MkfsInv'
      OBVIOUS
    <2>1. CASE Mkfs
      BY <2>1, MkfsStep DEF Mkfs
    <2>2. CASE UNCHANGED vars
      BY <2>2 DEF vars, mkfs, MkfsInv, Passed, M!NoHybrid
    <2> QED BY <2>1, <2>2 DEF Next, Utf, Time, Walks, Reconstruct
  <1>3. Inv => NoHybrid
    BY DEF MkfsInv, NoHybrid
  <1> QED BY <1>1, <1>2, <1>3, PTL DEF Spec

-----------------------------------------------------------------------------
(* Characters and the buffers of utf.c.                                    *)

\* The last character of Unicode, and of UTF-16.
LastChar == 1114111

\* What wchar_to_utf8() writes, for the characters of Unicode.
LEMMA WcharToUtf8 ==
  ASSUME NEW wc \in Nat, wc <= LastChar, NEW outsize \in Int
  PROVE  U!wchar_to_utf8(wc, outsize) =
           IF wc <= 127 THEN IF outsize < 1 THEN <<>> ELSE <<wc>>
           ELSE IF wc <= 2047 THEN
             IF outsize < 2 THEN <<>> ELSE <<192 + wc \div 64, 128 + (wc % 64)>>
           ELSE IF wc <= 65535 THEN
             IF outsize < 3 THEN <<>>
             ELSE <<224 + wc \div 4096, 128 + ((wc \div 64) % 64), 128 + (wc % 64)>>
           ELSE IF outsize < 4 THEN <<>>
             ELSE <<240 + wc \div 262144, 128 + ((wc \div 4096) % 64),
                    128 + ((wc \div 64) % 64), 128 + (wc % 64)>>
  <1> DEFINE P(k) == wc <= U!Limits[k] /\ \A j \in 1 .. k - 1 : wc > U!Limits[j]
             n == CHOOSE k \in 1 .. 6 : P(k)
             bytes(m) == [k \in 1 .. m |-> IF k = 1 THEN U!Leads[m] + wc \div U!Shifts[m]
                                   ELSE 128 + ((wc \div U!Shifts[m - k + 1]) % 64)]
  <1>1. U!wchar_to_utf8(wc, outsize) = IF outsize < n THEN <<>> ELSE bytes(n)
    BY DEF U!wchar_to_utf8, U!NULL
  <1>2. /\ U!Limits[1] = 127 /\ U!Limits[2] = 2047 /\ U!Limits[3] = 65535
        /\ U!Limits[4] = 2097151
    BY DEF U!Limits
  <1>3. /\ U!Leads[1] = 0 /\ U!Leads[2] = 192 /\ U!Leads[3] = 224 /\ U!Leads[4] = 240
        /\ U!Shifts[1] = 1 /\ U!Shifts[2] = 64 /\ U!Shifts[3] = 4096 /\ U!Shifts[4] = 262144
    BY DEF U!Leads, U!Shifts
  <1>4. ASSUME NEW m \in 1 .. 6, P(m) PROVE n = m
    <2>1. ASSUME NEW k \in 1 .. 6, P(k) PROVE k = m
      <3>1. ~ (k < m) /\ ~ (m < k)
        BY <1>4, <2>1, <1>2 DEF LastChar
      <3> QED BY <3>1
    <2> HIDE DEF P
    <2> QED BY <1>4, <2>1
  <1> HIDE DEF n
  <1>5. CASE wc <= 127
    <2>1. n = 1
      BY <1>5, <1>4, <1>2
    <2>2. bytes(1) = <<wc>>
      BY <1>3
    <2> HIDE DEF bytes
    <2> QED BY <1>1, <2>1, <2>2, <1>5
  <1>6. CASE 127 < wc /\ wc <= 2047
    <2>1. n = 2
      BY <1>6, <1>4, <1>2
    <2>2. bytes(2) = <<192 + wc \div 64, 128 + (wc % 64)>>
      BY <1>3
    <2> HIDE DEF bytes
    <2> QED BY <1>1, <2>1, <2>2, <1>6
  <1>7. CASE 2047 < wc /\ wc <= 65535
    <2>1. n = 3
      BY <1>7, <1>4, <1>2
    <2>2. bytes(3) = <<224 + wc \div 4096, 128 + ((wc \div 64) % 64), 128 + (wc % 64)>>
      BY <1>3
    <2> HIDE DEF bytes
    <2> QED BY <1>1, <2>1, <2>2, <1>7
  <1>8. CASE 65535 < wc
    <2>1. n = 4
      BY <1>8, <1>4, <1>2 DEF LastChar
    <2>2. bytes(4) = <<240 + wc \div 262144, 128 + ((wc \div 4096) % 64),
                       128 + ((wc \div 64) % 64), 128 + (wc % 64)>>
      BY <1>3
    <2> HIDE DEF bytes
    <2> QED BY <1>1, <2>1, <2>2, <1>8
  <1> QED BY <1>5, <1>6, <1>7, <1>8

\* The largest values of a byte and of a unit.
LEMMA Maxima == U!UINT8_MAX = 255 /\ U!UINT16_MAX = 65535
  BY DEF U!UINT8_MAX, U!UINT16_MAX

\* A byte.
LEMMA CharType == \A x : x \in U!char <=> x \in Int /\ 0 <= x /\ x <= 255
  <1>1. U!UINT8_MAX \in Int
    BY Maxima
  <1>2. \A x : x \in U!char <=> x \in Int /\ 0 <= x /\ x <= U!UINT8_MAX
    BY <1>1 DEF U!char
  <1> QED BY <1>2, Maxima

\* A UTF-16 unit.
LEMMA UnitType == \A x : x \in U!le16_t <=> x \in Int /\ 0 <= x /\ x <= 65535
  <1>1. U!UINT16_MAX \in Int
    BY Maxima
  <1>2. \A x : x \in U!le16_t <=> x \in Int /\ 0 <= x /\ x <= U!UINT16_MAX
    BY <1>1 DEF U!le16_t
  <1> QED BY <1>2, Maxima

\* The bytes of a character written into room bytes, or nothing.
Longest(wc) == IF wc <= 65535 THEN 3 ELSE 4
Encodes(bytes, wc, room) ==
  \/ bytes = <<>> /\ room < Longest(wc)
  \/ /\ bytes \in Seq(U!char) /\ bytes # <<>>
     /\ Len(bytes) <= room /\ Len(bytes) <= Longest(wc)
     /\ wc = 0 => bytes = <<0>>

\* wchar_to_utf8() stays in its buffer, and fails only in one that is too short
\* for the longest character of as many units.
LEMMA BytesWritten ==
  ASSUME NEW wc \in Nat, wc <= LastChar, NEW outsize \in Int
  PROVE  Encodes(U!wchar_to_utf8(wc, outsize), wc, outsize)
  <1> DEFINE bytes == U!wchar_to_utf8(wc, outsize)
             b1 == <<wc>>
             b2 == <<192 + wc \div 64, 128 + (wc % 64)>>
             b3 == <<224 + wc \div 4096, 128 + ((wc \div 64) % 64), 128 + (wc % 64)>>
             b4 == <<240 + wc \div 262144, 128 + ((wc \div 4096) % 64),
                     128 + ((wc \div 64) % 64), 128 + (wc % 64)>>
  <1>1. bytes = IF wc <= 127 THEN IF outsize < 1 THEN <<>> ELSE b1
           ELSE IF wc <= 2047 THEN IF outsize < 2 THEN <<>> ELSE b2
           ELSE IF wc <= 65535 THEN IF outsize < 3 THEN <<>> ELSE b3
           ELSE IF outsize < 4 THEN <<>> ELSE b4
    BY WcharToUtf8
  <1>2. wc <= 127 => b1 \in Seq(U!char) /\ Len(b1) = 1
    BY CharType
  <1>3. 127 < wc /\ wc <= 2047 => b2 \in Seq(U!char) /\ Len(b2) = 2
    <2>1. 127 < wc /\ wc <= 2047 =>
             192 + wc \div 64 \in U!char /\ 128 + (wc % 64) \in U!char
      BY CharType
    <2> QED BY <2>1
  <1>4. 2047 < wc /\ wc <= 65535 => b3 \in Seq(U!char) /\ Len(b3) = 3
    <2>1. 2047 < wc /\ wc <= 65535 =>
             /\ 224 + wc \div 4096 \in U!char /\ 128 + ((wc \div 64) % 64) \in U!char
             /\ 128 + (wc % 64) \in U!char
      BY CharType
    <2> QED BY <2>1
  <1>5. 65535 < wc => b4 \in Seq(U!char) /\ Len(b4) = 4
    <2>1. 65535 < wc =>
             /\ 240 + wc \div 262144 \in U!char /\ 128 + ((wc \div 4096) % 64) \in U!char
             /\ 128 + ((wc \div 64) % 64) \in U!char /\ 128 + (wc % 64) \in U!char
      BY CharType DEF LastChar
    <2> QED BY <2>1
  <1>6. wc = 0 => b1 = <<0>>
    OBVIOUS
  <1>7. b1 # <<>> /\ b2 # <<>> /\ b3 # <<>> /\ b4 # <<>>
    OBVIOUS
  <1> DEFINE n == Len(bytes)
             most == IF wc <= 65535 THEN 3 ELSE 4
  <1> SUFFICES \/ bytes = <<>> /\ outsize < most
               \/ /\ bytes \in Seq(U!char) /\ bytes # <<>>
                  /\ n <= outsize /\ n <= most
                  /\ wc = 0 => bytes = <<0>>
    BY DEF Encodes, Longest
  <1>12. most \in Int /\ most >= 3 /\ (wc > 65535 => most = 4)
    OBVIOUS
  <1> HIDE DEF bytes, b1, b2, b3, b4, n, most
  <1>8. CASE wc <= 127
    BY <1>1, <1>2, <1>6, <1>7, <1>8, <1>12 DEF n
  <1>9. CASE 127 < wc /\ wc <= 2047
    <2>1. bytes = IF outsize < 2 THEN <<>> ELSE b2
      BY <1>1, <1>9
    <2>2. b2 \in Seq(U!char) /\ Len(b2) = 2 /\ 2 <= most /\ wc # 0
      BY <1>3, <1>9, <1>12
    <2>3. CASE outsize < 2
      BY <2>1, <2>2, <2>3, <1>12
    <2>4. CASE outsize >= 2
      <3>1. bytes = b2
        BY <2>1, <2>4
      <3>2. n = 2
        BY <3>1, <2>2 DEF n
      <3>3. bytes \in Seq(U!char) /\ bytes # <<>>
        BY <3>1, <2>2, <1>7
      <3>4. 2 <= most /\ wc # 0
        BY <2>2
      <3> QED BY <2>4, <3>2, <3>3, <3>4, <1>12
    <2> QED BY <2>3, <2>4
  <1>10. CASE 2047 < wc /\ wc <= 65535
    <2>1. bytes = IF outsize < 3 THEN <<>> ELSE b3
      BY <1>1, <1>10
    <2>2. b3 \in Seq(U!char) /\ Len(b3) = 3 /\ 3 <= most /\ wc # 0
      BY <1>4, <1>10, <1>12
    <2>3. CASE outsize < 3
      BY <2>1, <2>2, <2>3, <1>12
    <2>4. CASE outsize >= 3
      <3>1. bytes = b3
        BY <2>1, <2>4
      <3>2. n = 3
        BY <3>1, <2>2 DEF n
      <3>3. bytes \in Seq(U!char) /\ bytes # <<>>
        BY <3>1, <2>2, <1>7
      <3>4. 3 <= most /\ wc # 0
        BY <2>2
      <3> QED BY <2>4, <3>2, <3>3, <3>4, <1>12
    <2> QED BY <2>3, <2>4
  <1>11. CASE 65535 < wc
    <2>1. bytes = IF outsize < 4 THEN <<>> ELSE b4
      BY <1>1, <1>11
    <2>2. b4 \in Seq(U!char) /\ Len(b4) = 4 /\ 4 <= most /\ wc # 0
      BY <1>5, <1>11, <1>12
    <2>3. CASE outsize < 4
      BY <2>1, <2>2, <2>3, <1>12
    <2>4. CASE outsize >= 4
      <3>1. bytes = b4
        BY <2>1, <2>4
      <3>2. n = 4
        BY <3>1, <2>2 DEF n
      <3>3. bytes \in Seq(U!char) /\ bytes # <<>>
        BY <3>1, <2>2, <1>7
      <3>4. 4 <= most /\ wc # 0
        BY <2>2
      <3> QED BY <2>4, <3>2, <3>3, <3>4, <1>12
    <2> QED BY <2>3, <2>4
  <1> QED BY <1>8, <1>9, <1>10, <1>11

\* utf16_to_wchar() reads inside the name; one unit holds 16 bits.
LEMMA Utf16Char ==
  ASSUME NEW in \in [1 .. NameMax -> U!le16_t], NEW p \in Nat, p < NameMax
  PROVE  LET ch == U!utf16_to_wchar(in, p, NameMax - p) IN
         /\ ch.len \in Nat /\ ch.len <= 2
         /\ ch.len # 0 => /\ ch.wc \in Nat /\ ch.wc <= LastChar /\ p + ch.len <= NameMax
                          /\ ch.len = 1 => ch.wc <= 65535
  <1>1. in[p + 1] \in Int /\ 0 <= in[p + 1] /\ in[p + 1] <= 65535
    BY UnitType, NamesAssumption
  <1>2. NameMax - p >= 2 => in[p + 2] \in Int /\ 0 <= in[p + 2] /\ in[p + 2] <= 65535
    BY UnitType, NamesAssumption
  <1> QED BY <1>1, <1>2, NamesAssumption, SMTT(30) DEF U!utf16_to_wchar, LastChar

\* wchar_to_utf16() stays in its buffer.
LEMMA UnitsWritten ==
  ASSUME NEW wc \in Nat, NEW outsize \in Nat
  PROVE  LET units == U!wchar_to_utf16(wc, outsize) IN
         \/ units = <<>>
         \/ units \in Seq(U!le16_t) /\ units # <<>> /\ Len(units) <= outsize
  <1>1. wc <= 65535 => wc \in U!le16_t
    BY UnitType
  <1>2. wc > 65535 => 55296 + (((wc - 65536) \div 1024) % 1024) \in U!le16_t
                      /\ 56320 + ((wc - 65536) % 1024) \in U!le16_t
    BY UnitType
  <1>3. CASE wc <= 65535
    BY <1>1, <1>3 DEF U!wchar_to_utf16, U!NULL
  <1>4. CASE wc > 65535
    BY <1>2, <1>4 DEF U!wchar_to_utf16, U!NULL
  <1> QED BY <1>3, <1>4

\* f computes the bits of a character of n bytes.
Bits(f, in, p, n) ==
  /\ U!utf8_bits(in, p, n) = f[n]
  /\ f[1] = in[p + 1] - U!Leads[n]
  /\ f[2] = f[1] * 64 + (in[p + 2] % 64)
  /\ f[3] = f[2] * 64 + (in[p + 3] % 64)
  /\ f[4] = f[3] * 64 + (in[p + 4] % 64)
  /\ f[5] = f[4] * 64 + (in[p + 5] % 64)
  /\ f[6] = f[5] * 64 + (in[p + 6] % 64)

\* The recursive function in utf8_bits() is defined.
LEMMA Utf8Bits ==
  ASSUME NEW in, NEW p, NEW n
  PROVE  \E f : Bits(f, in, p, n)
  <1> DEFINE x == in[p + 1] - U!Leads[n]
             v2 == x * 64 + (in[p + 2] % 64)
             v3 == v2 * 64 + (in[p + 3] % 64)
             v4 == v3 * 64 + (in[p + 4] % 64)
             v5 == v4 * 64 + (in[p + 5] % 64)
             v6 == v5 * 64 + (in[p + 6] % 64)
             F(g) == [k \in 1 .. 6 |-> IF k = 1 THEN x ELSE g[k - 1] * 64 + (in[p + k] % 64)]
             f == CHOOSE g : g = F(g)
             h == [k \in 1 .. 6 |-> IF k = 1 THEN x ELSE IF k = 2 THEN v2
                    ELSE IF k = 3 THEN v3 ELSE IF k = 4 THEN v4
                    ELSE IF k = 5 THEN v5 ELSE v6]
  <1>1. h = F(h)
    <2>1. /\ h[1] = x /\ h[2] = v2 /\ h[3] = v3 /\ h[4] = v4 /\ h[5] = v5 /\ h[6] = v6
      <3> HIDE DEF x, v2, v3, v4, v5, v6
      <3> QED OBVIOUS
    <2>2. ASSUME NEW k \in 1 .. 6
          PROVE  h[k] = IF k = 1 THEN x ELSE h[k - 1] * 64 + (in[p + k] % 64)
      <3>1. k = 1 \/ k = 2 \/ k = 3 \/ k = 4 \/ k = 5 \/ k = 6
        OBVIOUS
      <3> HIDE DEF h
      <3> QED BY <2>1, <3>1
    <2>3. DOMAIN h = 1 .. 6 /\ h = [k \in 1 .. 6 |-> h[k]]
      <3> HIDE DEF x, v2, v3, v4, v5, v6
      <3> QED OBVIOUS
    <2> HIDE DEF h, x, v2, v3, v4, v5, v6
    <2> QED BY <2>2, <2>3
  <1>2. f = F(f)
    <2> HIDE DEF F, h
    <2> QED BY <1>1
  <1>3. U!utf8_bits(in, p, n) = f[n]
    BY DEF U!utf8_bits
  <1> HIDE DEF f
  <1>4. /\ f[1] = x /\ f[2] = f[1] * 64 + (in[p + 2] % 64)
        /\ f[3] = f[2] * 64 + (in[p + 3] % 64) /\ f[4] = f[3] * 64 + (in[p + 4] % 64)
        /\ f[5] = f[4] * 64 + (in[p + 5] % 64) /\ f[6] = f[5] * 64 + (in[p + 6] % 64)
    <2> HIDE DEF x
    <2> QED BY <1>2
  <1>5. Bits(f, in, p, n)
    BY <1>3, <1>4 DEF Bits
  <1> QED BY <1>5

\* The first bytes of a character.
LEMMA Tables ==
  /\ U!Leads[1] = 0 /\ U!Leads[2] = 192 /\ U!Leads[3] = 224
  /\ U!Leads[4] = 240 /\ U!Leads[5] = 248 /\ U!Leads[6] = 252
  BY DEF U!Leads

\* utf8_to_wchar() tells the length by the first byte.
LEMMA Utf8Length ==
  ASSUME NEW in, NEW p, NEW insize \in Int, in[p + 1] \in U!char
  PROVE  LET byte == in[p + 1]
             fits(n) == [wc |-> U!utf8_bits(in, p, n), len |-> n]
         IN U!utf8_to_wchar(in, p, insize) =
              IF byte <= 127 /\ insize >= 1 THEN fits(1)
              ELSE IF 192 <= byte /\ byte <= 223 /\ insize >= 2 THEN fits(2)
              ELSE IF 224 <= byte /\ byte <= 239 /\ insize >= 3 THEN fits(3)
              ELSE IF 240 <= byte /\ byte <= 247 /\ insize >= 4 THEN fits(4)
              ELSE IF 248 <= byte /\ byte <= 251 /\ insize >= 5 THEN fits(5)
              ELSE IF 252 <= byte /\ byte <= 253 /\ insize >= 6 THEN fits(6)
              ELSE [wc |-> 0, len |-> 0]
  <1> DEFINE byte == in[p + 1]
             tops == <<127, 223, 239, 247, 251, 253>>
             P(m) == U!Leads[m] <= byte /\ byte <= tops[m] /\ insize >= m
             fits == {m \in 1 .. 6 : P(m)}
             n == CHOOSE m \in fits : TRUE
             r(m) == [wc |-> U!utf8_bits(in, p, m), len |-> m]
  <1>1. U!utf8_to_wchar(in, p, insize) = IF fits = {} THEN [wc |-> 0, len |-> 0] ELSE r(n)
    BY DEF U!utf8_to_wchar
  <1>2. byte \in Int /\ 0 <= byte
    BY CharType
  <1>3. /\ P(1) <=> byte <= 127 /\ insize >= 1
        /\ P(2) <=> 192 <= byte /\ byte <= 223 /\ insize >= 2
        /\ P(3) <=> 224 <= byte /\ byte <= 239 /\ insize >= 3
        /\ P(4) <=> 240 <= byte /\ byte <= 247 /\ insize >= 4
        /\ P(5) <=> 248 <= byte /\ byte <= 251 /\ insize >= 5
        /\ P(6) <=> 252 <= byte /\ byte <= 253 /\ insize >= 6
    <2> HIDE DEF byte
    <2> QED BY <1>2, Tables
  <1> HIDE DEF byte, P, r
  <1>4. ASSUME NEW m \in 1 .. 6, P(m) PROVE fits # {} /\ n = m
    <2>1. ASSUME NEW k \in 1 .. 6, P(k) PROVE k = m
      BY <1>2, <1>3, <1>4, <2>1
    <2>2. fits = {m}
      BY <1>4, <2>1
    <2> HIDE DEF fits
    <2> QED BY <2>2
  <1>5. ~ (P(1) \/ P(2) \/ P(3) \/ P(4) \/ P(5) \/ P(6)) => fits = {}
    OBVIOUS
  <1> HIDE DEF fits, n
  <1>6. U!utf8_to_wchar(in, p, insize) =
          IF P(1) THEN r(1) ELSE IF P(2) THEN r(2) ELSE IF P(3) THEN r(3)
          ELSE IF P(4) THEN r(4) ELSE IF P(5) THEN r(5) ELSE IF P(6) THEN r(6)
          ELSE [wc |-> 0, len |-> 0]
    BY <1>1, <1>4, <1>5
  <1> QED BY <1>3, <1>6 DEF byte, r

\* The bits of a character are a number.
LEMMA Utf8Natural ==
  ASSUME NEW in, NEW p, NEW n \in 1 .. 6, in[p + 1] - U!Leads[n] \in Nat,
         \A k \in 2 .. n : in[p + k] % 64 \in Nat
  PROVE  U!utf8_bits(in, p, n) \in Nat
  <1>1. PICK f : Bits(f, in, p, n)
    BY Utf8Bits
  <1>2. \A x, y \in Nat : x * 64 + y \in Nat
    OBVIOUS
  <1>3. f[1] \in Nat
    BY <1>1 DEF Bits
  <1>4. n >= 2 => f[2] \in Nat
    BY <1>1, <1>2, <1>3 DEF Bits
  <1>5. n >= 3 => f[3] \in Nat
    BY <1>1, <1>2, <1>4 DEF Bits
  <1>6. n >= 4 => f[4] \in Nat
    BY <1>1, <1>2, <1>5 DEF Bits
  <1>7. n >= 5 => f[5] \in Nat
    BY <1>1, <1>2, <1>6 DEF Bits
  <1>8. n >= 6 => f[6] \in Nat
    BY <1>1, <1>2, <1>7 DEF Bits
  <1>9. f[n] \in Nat
    <2>1. n = 1 \/ n = 2 \/ n = 3 \/ n = 4 \/ n = 5 \/ n = 6
      OBVIOUS
    <2> QED BY <1>3, <1>4, <1>5, <1>6, <1>7, <1>8, <2>1
  <1> QED BY <1>1, <1>9 DEF Bits

\* utf8_to_wchar() reads inside the string.
LEMMA Utf8Char ==
  ASSUME NEW in \in Seq(U!char), NEW p \in Nat, p < Len(in)
  PROVE  LET ch == U!utf8_to_wchar(in, p, Len(in) - p) IN
         /\ ch.len \in Nat /\ p + ch.len <= Len(in)
         /\ ch.wc \in Nat
  <1> DEFINE n == Len(in) - p
             byte == in[p + 1]
             ch == U!utf8_to_wchar(in, p, n)
             r(m) == [wc |-> U!utf8_bits(in, p, m), len |-> m]
  <1>1. n \in Nat /\ \A k \in Nat : 1 <= k /\ k <= n => in[p + k] \in U!char
    OBVIOUS
  <1>2. \A k \in Nat : 1 <= k /\ k <= n => in[p + k] % 64 \in Nat
    BY <1>1, CharType
  <1>3. byte \in Int /\ 0 <= byte /\ byte \in U!char /\ n >= 1
    BY <1>1, CharType
  <1>4. /\ r(1).len = 1 /\ r(2).len = 2 /\ r(3).len = 3
        /\ r(4).len = 4 /\ r(5).len = 5 /\ r(6).len = 6
    OBVIOUS
  <1> HIDE DEF n
  <1>5. /\ n >= 1 => r(1).wc \in Nat
        /\ byte >= 192 /\ n >= 2 => r(2).wc \in Nat
        /\ byte >= 224 /\ n >= 3 => r(3).wc \in Nat
        /\ byte >= 240 /\ n >= 4 => r(4).wc \in Nat
        /\ byte >= 248 /\ n >= 5 => r(5).wc \in Nat
        /\ byte >= 252 /\ n >= 6 => r(6).wc \in Nat
    <2>1. ASSUME NEW m \in 1 .. 6, m <= n, byte >= U!Leads[m], U!Leads[m] \in Int
          PROVE  U!utf8_bits(in, p, m) \in Nat
      <3>1. byte - U!Leads[m] \in Nat
        BY <1>3, <2>1
      <3>2. ASSUME NEW k \in 2 .. m PROVE in[p + k] % 64 \in Nat
        <4>1. k \in Nat /\ 1 <= k /\ k <= n
          BY <1>1, <2>1
        <4> QED BY <1>2, <4>1
      <3> QED BY <3>1, <3>2, Utf8Natural
    <2> HIDE DEF byte
    <2>2. n >= 1 => U!utf8_bits(in, p, 1) \in Nat
      BY <1>3, <2>1, Tables, SMTT(30)
    <2>3. byte >= 192 /\ n >= 2 => U!utf8_bits(in, p, 2) \in Nat
      BY <1>1, <1>3, <2>1, Tables, SMTT(30)
    <2>4. byte >= 224 /\ n >= 3 => U!utf8_bits(in, p, 3) \in Nat
      BY <1>1, <1>3, <2>1, Tables
    <2>5. byte >= 240 /\ n >= 4 => U!utf8_bits(in, p, 4) \in Nat
      BY <1>1, <1>3, <2>1, Tables
    <2>6. byte >= 248 /\ n >= 5 => U!utf8_bits(in, p, 5) \in Nat
      BY <1>1, <1>3, <2>1, Tables
    <2>7. byte >= 252 /\ n >= 6 => U!utf8_bits(in, p, 6) \in Nat
      BY <1>1, <1>3, <2>1, Tables, SMTT(30)
    <2> QED BY <2>2, <2>3, <2>4, <2>5, <2>6, <2>7
  <1>6. ch = IF byte <= 127 /\ n >= 1 THEN r(1)
              ELSE IF 192 <= byte /\ byte <= 223 /\ n >= 2 THEN r(2)
              ELSE IF 224 <= byte /\ byte <= 239 /\ n >= 3 THEN r(3)
              ELSE IF 240 <= byte /\ byte <= 247 /\ n >= 4 THEN r(4)
              ELSE IF 248 <= byte /\ byte <= 251 /\ n >= 5 THEN r(5)
              ELSE IF 252 <= byte /\ byte <= 253 /\ n >= 6 THEN r(6)
              ELSE [wc |-> 0, len |-> 0]
    BY <1>1, <1>3, Utf8Length, SMTT(30)
  <1> HIDE DEF r, ch, byte
  <1>7. ch.len \in Nat /\ ch.len <= n /\ ch.wc \in Nat
    BY <1>1, <1>3, <1>4, <1>5, <1>6, SMTT(30)
  <1> QED BY <1>7 DEF ch, n

\* The conversions stay in their buffers: of the first, no more than three
\* bytes are written for a unit that is read.
UtfInv ==
  /\ job.to \in {"utf8", "utf16"}
  /\ job.to = "utf8" => /\ job.in \in [1 .. NameMax -> U!le16_t]
                        /\ job.insize = NameMax /\ job.outsize = 3 * NameMax + 1
                        /\ out \in Seq(U!char) /\ rc # "ENAMETOOLONG"
                        /\ rc = "run" => Len(out) <= 3 * pos
  /\ job.to = "utf16" => /\ job.in \in Seq(U!char)
                         /\ job.insize = Len(job.in) /\ job.outsize = NameMax + 1
                         /\ out \in Seq(U!le16_t)
  /\ pos \in Nat /\ pos <= job.insize
  /\ rc \in {"run", "ok", "EILSEQ", "ENAMETOOLONG"}
  /\ Len(out) <= job.outsize
  /\ rc = "ok" => out # <<>> /\ out[Len(out)] = 0

\* The terminator is a byte and a unit.
LEMMA ZeroUnit == 0 \in U!char /\ 0 \in U!le16_t
  BY CharType, UnitType

\* The first conversion of a name has done nothing yet.
LEMMA UtfInit == U!Init => UtfInv
  BY NamesAssumption DEF U!Init, UtfInv, U!ToUtf8, U!ToUtf16

\* A step of utf16_to_utf8(): a unit needs at most three bytes, so that the
\* buffer always has room for one more character and the terminator.
LEMMA UtfEncode ==
  ASSUME UtfInv, U!utf16_to_utf8
  PROVE  UtfInv'
  <1> DEFINE ch == U!utf16_to_wchar(job.in, pos, job.insize - pos)
             bytes == U!wchar_to_utf8(ch.wc, job.outsize - Len(out))
  <1> USE NamesAssumption
  <1>1. /\ job.to = "utf8" /\ rc = "run" /\ UNCHANGED job
        /\ IF pos >= job.insize THEN U!Terminate /\ UNCHANGED pos
           ELSE IF ch.len = 0 THEN rc' = "EILSEQ" /\ UNCHANGED <<pos, out>>
           ELSE IF bytes = <<>> THEN rc' = "ENAMETOOLONG" /\ UNCHANGED <<pos, out>>
           ELSE /\ pos' = pos + ch.len /\ out' = out \o bytes
                /\ rc' = IF ch.wc = 0 THEN "ok" ELSE "run"
    BY DEF U!utf16_to_utf8, U!NULL
  <1>2. /\ job.in \in [1 .. NameMax -> U!le16_t]
        /\ job.insize = NameMax /\ job.outsize = 3 * NameMax + 1
        /\ out \in Seq(U!char) /\ Len(out) <= 3 * pos
        /\ pos \in Nat /\ pos <= NameMax
    BY <1>1 DEF UtfInv
  <1>3. CASE pos >= job.insize
    <2>1. U!Terminate /\ UNCHANGED <<job, pos>> /\ ~ (Len(out) >= job.outsize)
      BY <1>1, <1>2, <1>3
    <2>2. rc' = "ok" /\ out' = Append(out, 0)
      BY <2>1 DEF U!Terminate
    <2>3. /\ out' \in Seq(U!char) /\ Len(out') = Len(out) + 1 /\ out' # <<>>
          /\ out'[Len(out')] = 0
      BY <1>2, <2>2, ZeroUnit
    <2>4. Len(out') <= 3 * NameMax + 1
      BY <1>2, <2>3
    <2> QED BY <1>1, <1>2, <2>1, <2>2, <2>3, <2>4 DEF UtfInv
  <1>4. CASE pos < job.insize /\ ch.len = 0
    BY <1>1, <1>2, <1>4 DEF UtfInv
  <1>5. CASE pos < job.insize /\ ch.len # 0
    <2>1. /\ ch.len \in Nat /\ ch.len <= 2 /\ ch.wc \in Nat /\ ch.wc <= LastChar
          /\ pos + ch.len <= NameMax
          /\ ch.len = 1 => ch.wc <= 65535
      BY <1>2, <1>5, Utf16Char
    <2> DEFINE room == job.outsize - Len(out)
               most == Longest(ch.wc)
    <2>2. room \in Int /\ room >= most + 1 /\ most <= 3 * ch.len /\ most \in Int
      <3> HIDE DEF ch
      <3>1. room \in Int /\ room >= 3 * ch.len + 1
        BY <1>2, <2>1
      <3>2. most \in Int /\ most <= 3 * ch.len
        BY <1>5, <2>1 DEF Longest
      <3> HIDE DEF room, most
      <3> QED BY <2>1, <3>1, <3>2
    <2>3. \/ bytes = <<>> /\ room < most
          \/ /\ bytes \in Seq(U!char) /\ bytes # <<>>
             /\ Len(bytes) <= room /\ Len(bytes) <= most
             /\ ch.wc = 0 => bytes = <<0>>
      <3>1. Encodes(bytes, ch.wc, room)
        <4> HIDE DEF ch
        <4> QED BY <2>1, <2>2, BytesWritten
      <3> HIDE DEF ch, bytes, room
      <3> QED BY <3>1 DEF Encodes
    <2> HIDE DEF ch, bytes, room, most
    <2>4. /\ bytes \in Seq(U!char) /\ bytes # <<>> /\ Len(bytes) <= most
          /\ ch.wc = 0 => bytes = <<0>>
      BY <2>2, <2>3
    <2>5. /\ pos' = pos + ch.len /\ out' = out \o bytes
          /\ rc' = IF ch.wc = 0 THEN "ok" ELSE "run"
      <3>1. ~ (pos >= job.insize)
        BY <1>2, <1>5
      <3> QED BY <1>1, <1>5, <2>4, <3>1, Zenon
    <2>6. /\ out' \in Seq(U!char) /\ Len(out') = Len(out) + Len(bytes)
          /\ ch.wc = 0 => out'[Len(out')] = 0 /\ out' # <<>>
      <3>1. out' \in Seq(U!char) /\ Len(out') = Len(out) + Len(bytes)
        BY <1>2, <2>4, <2>5
      <3>2. ch.wc = 0 => Len(bytes) = 1 /\ bytes[1] = 0
        BY <2>4
      <3>3. ch.wc = 0 => out'[Len(out) + 1] = bytes[1]
        BY <1>2, <2>4, <2>5, <3>2
      <3>4. ch.wc = 0 => Len(out') = Len(out) + 1 /\ Len(out') > 0
        <4>1. Len(out) \in Nat
          BY <1>2
        <4>2. ch.wc = 0 => Len(out') = Len(out) + 1
          BY <3>1, <3>2, Zenon
        <4>3. Len(out) + 1 > 0
          BY <4>1
        <4> QED BY <4>2, <4>3, Zenon
      <3>5. ch.wc = 0 => out' # <<>>
        BY <3>1, <3>4
      <3> QED BY <3>1, <3>2, <3>3, <3>4, <3>5
    <2>7. /\ pos' \in Nat /\ pos' <= NameMax /\ Len(out') <= 3 * pos'
          /\ Len(out') <= 3 * NameMax + 1
      <3> DEFINE n == Len(bytes)
                 m == Len(out)
                 l == ch.len
      <3>1. n \in Nat /\ n <= most /\ m \in Nat /\ m <= 3 * pos
        BY <1>2, <2>4
      <3>2. pos \in Nat /\ l \in Nat /\ pos + l <= NameMax
        BY <1>2, <2>1
      <3>3. Len(out') = m + n /\ pos' = pos + l
        BY <2>5, <2>6
      <3>4. most \in Int /\ most <= 3 * l
        BY <2>2
      <3> HIDE DEF n, m, l
      <3> QED BY <3>1, <3>2, <3>3, <3>4
    <2> QED BY <1>1, <1>2, <2>5, <2>6, <2>7 DEF UtfInv
  <1> QED BY <1>2, <1>3, <1>4, <1>5

\* A step of utf8_to_utf16().
LEMMA UtfDecode ==
  ASSUME UtfInv, U!utf8_to_utf16
  PROVE  UtfInv'
  <1> DEFINE ch == U!utf8_to_wchar(job.in, pos, job.insize - pos)
             units == U!wchar_to_utf16(ch.wc, job.outsize - Len(out))
  <1> USE NamesAssumption
  <1>1. /\ job.to = "utf16" /\ rc = "run" /\ UNCHANGED job
        /\ IF pos >= job.insize THEN U!Terminate /\ UNCHANGED pos
           ELSE IF ch.len = 0 THEN rc' = "EILSEQ" /\ UNCHANGED <<pos, out>>
           ELSE IF units = <<>> THEN rc' = "ENAMETOOLONG" /\ UNCHANGED <<pos, out>>
           ELSE /\ rc' = "run" /\ out' = out \o units
                /\ pos' = IF ch.wc = 0 THEN job.insize ELSE pos + ch.len
    BY DEF U!utf8_to_utf16, U!NULL
  <1>2. /\ job.in \in Seq(U!char)
        /\ job.insize = Len(job.in) /\ job.outsize = NameMax + 1
        /\ out \in Seq(U!le16_t) /\ Len(out) <= NameMax + 1
        /\ pos \in Nat /\ pos <= Len(job.in)
    BY <1>1 DEF UtfInv
  <1>3. CASE pos >= job.insize
    BY <1>1, <1>2, <1>3, ZeroUnit, SMTT(30) DEF UtfInv, U!Terminate
  <1>4. CASE pos < job.insize /\ (ch.len = 0 \/ units = <<>>)
    BY <1>1, <1>2, <1>4 DEF UtfInv
  <1>5. CASE pos < job.insize /\ ch.len # 0 /\ units # <<>>
    <2>1. ch.len \in Nat /\ pos + ch.len <= Len(job.in) /\ ch.wc \in Nat
      BY <1>2, <1>5, Utf8Char
    <2>2. units \in Seq(U!le16_t) /\ Len(units) <= job.outsize - Len(out)
      <3>1. job.outsize - Len(out) \in Nat
        BY <1>2
      <3> HIDE DEF ch
      <3> QED BY <1>5, <2>1, <3>1, UnitsWritten
    <2> HIDE DEF ch, units
    <2>3. /\ rc' = "run" /\ out' = out \o units
          /\ pos' = IF ch.wc = 0 THEN job.insize ELSE pos + ch.len
      <3>1. ~ (pos >= job.insize)
        BY <1>2, <1>5
      <3> QED BY <1>1, <1>5, <3>1, Zenon
    <2>4. out' \in Seq(U!le16_t) /\ Len(out') <= NameMax + 1
      BY <1>2, <2>2, <2>3
    <2>5. pos' \in Nat /\ pos' <= Len(job.in)
      BY <1>2, <2>1, <2>3
    <2> QED BY <1>1, <1>2, <2>3, <2>4, <2>5 DEF UtfInv
  <1> QED BY <1>2, <1>3, <1>4, <1>5

\* utf16_length() finds the terminator.
LEMMA Utf16Length ==
  ASSUME NEW units \in Seq(U!le16_t), units # <<>>, units[Len(units)] = 0
  PROVE  LET n == U!utf16_length(units) IN
         /\ n \in Nat /\ n < Len(units) /\ units[n + 1] = 0
         /\ \A j \in 1 .. n : units[j] # 0
  <1> DEFINE S == {k \in Nat : k < Len(units) /\ units[k + 1] = 0}
             P(k) == units[k + 1] = 0 /\ \A j \in 1 .. k : units[j] # 0
  <1>1. Len(units) \in Nat /\ Len(units) > 0
    OBVIOUS
  <1>2. Len(units) - 1 \in S
    BY <1>1
  <1>3. PICK m \in S : \A k \in S : m <= k
    <2> HIDE DEF S
    <2>1. S \subseteq Nat /\ S # {}
      BY <1>2 DEF S
    <2> QED BY <2>1, LeastNatural
  <1>4. m \in 0 .. Len(units) - 1 /\ P(m)
    <2>1. m \in Nat /\ m < Len(units) /\ units[m + 1] = 0
      BY <1>3
    <2>2. ASSUME NEW j \in 1 .. m PROVE units[j] # 0
      <3>1. j - 1 \in Nat /\ j - 1 < m /\ (j - 1) + 1 = j /\ j - 1 < Len(units)
        BY <1>1, <2>1
      <3>2. j - 1 \notin S
        BY <1>3, <2>1, <3>1
      <3> QED BY <3>1, <3>2
    <2> QED BY <1>1, <2>1, <2>2
  <1>5. U!utf16_length(units) = CHOOSE k \in 0 .. Len(units) - 1 : P(k)
    BY DEF U!utf16_length
  <1> DEFINE n == U!utf16_length(units)
  <1>6. n \in 0 .. Len(units) - 1 /\ P(n)
    <2> HIDE DEF P, S
    <2> QED BY <1>4, <1>5
  <1> HIDE DEF n
  <1>7. n \in Nat /\ n < Len(units)
    BY <1>1, <1>6
  <1> QED BY <1>6, <1>7 DEF n

\* The result is the input of the conversion back.
LEMMA UtfBack ==
  ASSUME UtfInv, U!ConvertBack
  PROVE  UtfInv'
  <1> USE NamesAssumption
  <1>1. rc = "ok" /\ rc' = "run" /\ pos' = 0 /\ out' = <<>>
    BY DEF U!ConvertBack
  <1>2. CASE job.to = "utf8"
    <2>1. out \in Seq(U!char) /\ out # <<>>
      BY <1>1, <1>2 DEF UtfInv
    <2> DEFINE back == SubSeq(out, 1, Len(out) - 1)
    <2>2. back \in Seq(U!char)
      BY <2>1
    <2>3. job' = U!ToUtf16(back)
      BY <1>2 DEF U!ConvertBack
    <2> HIDE DEF back
    <2> QED BY <1>1, <2>2, <2>3 DEF UtfInv, U!ToUtf16
  <1>3. CASE job.to = "utf16"
    <2>1. /\ out \in Seq(U!le16_t) /\ out # <<>> /\ out[Len(out)] = 0
          /\ Len(out) <= NameMax + 1
      BY <1>1, <1>3 DEF UtfInv
    <2> DEFINE n == U!utf16_length(out)
               back == [k \in 1 .. NameMax |-> IF k <= n THEN out[k] ELSE 0]
    <2>2. n \in Nat /\ n < Len(out)
      BY <2>1, Utf16Length
    <2>3. job' = U!ToUtf8(back)
      BY <1>3 DEF U!ConvertBack
    <2> HIDE DEF n
    <2>4. back \in [1 .. NameMax -> U!le16_t]
      BY <2>1, <2>2, ZeroUnit
    <2> HIDE DEF back
    <2> QED BY <1>1, <2>3, <2>4 DEF UtfInv, U!ToUtf8
  <1> QED BY <1>2, <1>3 DEF UtfInv

\* Every step preserves the invariant.
LEMMA UtfStep ==
  ASSUME UtfInv, U!Next
  PROVE  UtfInv'
  BY UtfEncode, UtfDecode, UtfBack DEF U!Next

\* What it says of the buffers.
LEMMA UtfImplies ==
  ASSUME UtfInv
  PROVE  U!TypeOK /\ U!InBuffer /\ U!NameFits
  <1>1. pos \in 0 .. job.insize /\ rc \in {"run", "ok", "EILSEQ", "ENAMETOOLONG"}
    BY NamesAssumption DEF UtfInv
  <1>2. U!Range(out) \subseteq IF job.to = "utf8" THEN U!char ELSE U!le16_t
    BY DEF UtfInv, U!Range
  <1>3. U!InBuffer
    BY DEF UtfInv, U!InBuffer, U!Last
  <1> QED BY <1>1, <1>2, <1>3 DEF UtfInv, U!TypeOK, U!NameFits

\* For every name on the device and every string of bytes: the conversions of
\* utf.c stay in their buffers, a successful one has written the terminator, and
\* three bytes per unit are enough for exfat_get_name().
THEOREM NamesInBufferHolds == Spec => []NamesInBuffer
  <1> DEFINE Inv == part = "utf" => UtfInv
  <1>1. Init => Inv
    BY UtfInit DEF Init
  <1>2. Inv /\ [Next]_vars => Inv'
    <2> SUFFICES ASSUME Inv, [Next]_vars, part' = "utf" PROVE UtfInv'
      OBVIOUS
    <2>1. CASE Utf
      BY <2>1, UtfStep DEF Utf
    <2>2. CASE UNCHANGED vars
      BY <2>2 DEF vars, utf, UtfInv
    <2> QED BY <2>1, <2>2 DEF Next, Time, Walks, Mkfs, Reconstruct
  <1>3. Inv => NamesInBuffer
    BY UtfImplies DEF NamesInBuffer
  <1> QED BY <1>1, <1>2, <1>3, PTL DEF Spec

-----------------------------------------------------------------------------
(* Names there and back.                                                   *)

\* The bytes of a character.
Encoding(wc) == U!wchar_to_utf8(wc, 4)

\* The encodings by length.
LEMMA EncodingCases ==
  ASSUME NEW wc \in Nat, wc <= LastChar
  PROVE  /\ wc <= 127 => Encoding(wc) = <<wc>>
         /\ 127 < wc /\ wc <= 2047 =>
              Encoding(wc) = <<192 + wc \div 64, 128 + (wc % 64)>>
         /\ 2047 < wc /\ wc <= 65535 =>
              Encoding(wc) = <<224 + wc \div 4096, 128 + ((wc \div 64) % 64),
                               128 + (wc % 64)>>
         /\ 65535 < wc =>
              Encoding(wc) = <<240 + wc \div 262144, 128 + ((wc \div 4096) % 64),
                               128 + ((wc \div 64) % 64), 128 + (wc % 64)>>
  <1> DEFINE b1 == <<wc>>
             b2 == <<192 + wc \div 64, 128 + (wc % 64)>>
             b3 == <<224 + wc \div 4096, 128 + ((wc \div 64) % 64), 128 + (wc % 64)>>
             b4 == <<240 + wc \div 262144, 128 + ((wc \div 4096) % 64),
                     128 + ((wc \div 64) % 64), 128 + (wc % 64)>>
  <1>1. Encoding(wc) = IF wc <= 127 THEN IF 4 < 1 THEN <<>> ELSE b1
                       ELSE IF wc <= 2047 THEN IF 4 < 2 THEN <<>> ELSE b2
                       ELSE IF wc <= 65535 THEN IF 4 < 3 THEN <<>> ELSE b3
                       ELSE IF 4 < 4 THEN <<>> ELSE b4
    BY WcharToUtf8 DEF Encoding
  <1> HIDE DEF b1, b2, b3, b4
  <1>2. /\ wc <= 127 => Encoding(wc) = b1
        /\ 127 < wc /\ wc <= 2047 => Encoding(wc) = b2
        /\ 2047 < wc /\ wc <= 65535 => Encoding(wc) = b3
        /\ 65535 < wc => Encoding(wc) = b4
    BY <1>1, SMTT(20)
  <1> QED BY <1>2, SMTT(20) DEF b1, b2, b3, b4

\* The room decides whether a character is written, not how.
LEMMA EncodingWritten ==
  ASSUME NEW wc \in Nat, wc <= LastChar, NEW outsize \in Int,
         U!wchar_to_utf8(wc, outsize) # <<>>
  PROVE  U!wchar_to_utf8(wc, outsize) = Encoding(wc)
  <1> DEFINE b1 == <<wc>>
             b2 == <<192 + wc \div 64, 128 + (wc % 64)>>
             b3 == <<224 + wc \div 4096, 128 + ((wc \div 64) % 64), 128 + (wc % 64)>>
             b4 == <<240 + wc \div 262144, 128 + ((wc \div 4096) % 64),
                     128 + ((wc \div 64) % 64), 128 + (wc % 64)>>
  <1>1. U!wchar_to_utf8(wc, outsize) =
           IF wc <= 127 THEN IF outsize < 1 THEN <<>> ELSE b1
           ELSE IF wc <= 2047 THEN IF outsize < 2 THEN <<>> ELSE b2
           ELSE IF wc <= 65535 THEN IF outsize < 3 THEN <<>> ELSE b3
           ELSE IF outsize < 4 THEN <<>> ELSE b4
    BY WcharToUtf8
  <1>2. /\ wc <= 127 => Encoding(wc) = b1
        /\ 127 < wc /\ wc <= 2047 => Encoding(wc) = b2
        /\ 2047 < wc /\ wc <= 65535 => Encoding(wc) = b3
        /\ 65535 < wc => Encoding(wc) = b4
    BY EncodingCases, SMTT(20)
  <1> HIDE DEF b1, b2, b3, b4
  <1> QED BY <1>1, <1>2, SMTT(20)

\* A character has one to four bytes.
LEMMA EncodingType ==
  ASSUME NEW wc \in Nat, wc <= LastChar
  PROVE  /\ Encoding(wc) \in Seq(U!char) /\ Encoding(wc) # <<>>
         /\ Len(Encoding(wc)) \in 1 .. 4
  <1>1. Encodes(Encoding(wc), wc, 4)
    BY BytesWritten DEF Encoding
  <1>2. Longest(wc) <= 4 /\ Longest(wc) \in Nat
    BY DEF Longest
  <1>3. /\ Encoding(wc) \in Seq(U!char) /\ Encoding(wc) # <<>>
        /\ Len(Encoding(wc)) <= 4
    BY <1>1, <1>2 DEF Encodes
  <1> DEFINE n == Len(Encoding(wc))
  <1>4. n \in Nat /\ n # 0 /\ n <= 4
    BY <1>3
  <1> HIDE DEF n
  <1>5. n \in 1 .. 4
    BY <1>4
  <1> QED BY <1>3, <1>5 DEF n

\* utf8_to_wchar() reads what wchar_to_utf8() wrote.
LEMMA Split64 ==
  ASSUME NEW v \in Nat
  PROVE  (v \div 64) * 64 + (v % 64) = v
  OBVIOUS

\* utf8_to_wchar() reads what wchar_to_utf8() wrote.
LEMMA Decoded ==
  ASSUME NEW wc \in Nat, wc <= LastChar, NEW in, NEW p, NEW insize \in Int,
         insize >= Len(Encoding(wc)),
         \A k \in 1 .. Len(Encoding(wc)) : in[p + k] = Encoding(wc)[k]
  PROVE  U!utf8_to_wchar(in, p, insize) = [wc |-> wc, len |-> Len(Encoding(wc))]
  <1> DEFINE byte == in[p + 1]
             r(m) == [wc |-> U!utf8_bits(in, p, m), len |-> m]
  <1>1. byte = Encoding(wc)[1] /\ byte \in U!char
    <2>1. 1 \in 1 .. Len(Encoding(wc)) /\ Encoding(wc)[1] \in U!char
      BY EncodingType, SMTT(20)
    <2> QED BY <2>1
  <1>2. U!utf8_to_wchar(in, p, insize) =
          IF byte <= 127 /\ insize >= 1 THEN r(1)
          ELSE IF 192 <= byte /\ byte <= 223 /\ insize >= 2 THEN r(2)
          ELSE IF 224 <= byte /\ byte <= 239 /\ insize >= 3 THEN r(3)
          ELSE IF 240 <= byte /\ byte <= 247 /\ insize >= 4 THEN r(4)
          ELSE IF 248 <= byte /\ byte <= 251 /\ insize >= 5 THEN r(5)
          ELSE IF 252 <= byte /\ byte <= 253 /\ insize >= 6 THEN r(6)
          ELSE [wc |-> 0, len |-> 0]
    BY <1>1, Utf8Length, SMTT(20)
  <1>3. CASE wc <= 127
    <2>1. Encoding(wc) = <<wc>>
      BY <1>3, EncodingCases, SMTT(20)
    <2>2. byte = wc /\ Len(Encoding(wc)) = 1 /\ insize >= 1
      BY <1>1, <2>1, SMTT(20)
    <2>3. U!utf8_to_wchar(in, p, insize) = r(1)
      <3> HIDE DEF byte, r
      <3> QED BY <1>2, <1>3, <2>2, SMTT(20)
    <2>4. U!utf8_bits(in, p, 1) = wc
      <3>1. PICK f : Bits(f, in, p, 1)
        BY Utf8Bits
      <3>2. U!utf8_bits(in, p, 1) = f[1] /\ f[1] = byte - U!Leads[1]
        BY <3>1 DEF Bits
      <3> HIDE DEF byte
      <3> QED BY <3>2, <2>2, Tables
    <2> QED BY <2>2, <2>3, <2>4
  <1>4. CASE 127 < wc /\ wc <= 2047
    <2>1. Encoding(wc) = <<192 + wc \div 64, 128 + (wc % 64)>>
      BY <1>4, EncodingCases, SMTT(20)
    <2>2. /\ byte = 192 + wc \div 64 /\ in[p + 2] = 128 + (wc % 64)
          /\ Len(Encoding(wc)) = 2 /\ insize >= 2
      <3>1. Len(Encoding(wc)) = 2
        BY <2>1, SMTT(20)
      <3> QED BY <1>1, <2>1, <3>1, SMTT(20)
    <2>3. U!utf8_to_wchar(in, p, insize) = r(2)
      <3> HIDE DEF byte, r
      <3> QED BY <1>2, <1>4, <2>2, SMTT(20)
    <2>4. U!utf8_bits(in, p, 2) = wc
      <3>0. PICK f : Bits(f, in, p, 2)
        BY Utf8Bits
      <3>1. /\ U!utf8_bits(in, p, 2) = f[2] /\ f[1] = byte - U!Leads[2]
            /\ f[2] = f[1] * 64 + (in[p + 2] % 64)
        BY <3>0 DEF Bits
      <3> HIDE DEF byte
      <3>2. f[1] = wc \div 64 /\ in[p + 2] % 64 = wc % 64
        BY <3>1, <2>2, Tables, SMTT(20)
      <3> QED BY <3>1, <3>2, SMTT(20)
    <2> QED BY <2>2, <2>3, <2>4
  <1>5. CASE 2047 < wc /\ wc <= 65535
    <2>1. Encoding(wc) = <<224 + wc \div 4096, 128 + ((wc \div 64) % 64), 128 + (wc % 64)>>
      BY <1>5, EncodingCases, SMTT(20)
    <2>2. /\ byte = 224 + wc \div 4096 /\ in[p + 2] = 128 + ((wc \div 64) % 64)
          /\ in[p + 3] = 128 + (wc % 64)
          /\ Len(Encoding(wc)) = 3 /\ insize >= 3
      <3>1. Len(Encoding(wc)) = 3
        BY <2>1, SMTT(20)
      <3> QED BY <1>1, <2>1, <3>1, SMTT(20)
    <2>3. U!utf8_to_wchar(in, p, insize) = r(3)
      <3> HIDE DEF byte, r
      <3> QED BY <1>2, <1>5, <2>2, SMTT(20)
    <2>4. U!utf8_bits(in, p, 3) = wc
      <3>0. PICK f : Bits(f, in, p, 3)
        BY Utf8Bits
      <3>1. /\ U!utf8_bits(in, p, 3) = f[3] /\ f[1] = byte - U!Leads[3]
            /\ f[2] = f[1] * 64 + (in[p + 2] % 64)
            /\ f[3] = f[2] * 64 + (in[p + 3] % 64)
        BY <3>0 DEF Bits
      <3> HIDE DEF byte
      <3>2. /\ f[1] = wc \div 4096 /\ in[p + 2] % 64 = (wc \div 64) % 64
            /\ in[p + 3] % 64 = wc % 64
        BY <3>1, <2>2, Tables, SMTT(20)
      <3>3. f[2] = wc \div 64
        BY <3>1, <3>2, SMTT(20)
      <3> QED BY <3>1, <3>2, <3>3, SMTT(60)
    <2> QED BY <2>2, <2>3, <2>4
  <1>6. CASE 65535 < wc
    <2>1. Encoding(wc) = <<240 + wc \div 262144, 128 + ((wc \div 4096) % 64),
                           128 + ((wc \div 64) % 64), 128 + (wc % 64)>>
      BY <1>6, EncodingCases, SMTT(20)
    <2>2. /\ byte = 240 + wc \div 262144 /\ in[p + 2] = 128 + ((wc \div 4096) % 64)
          /\ in[p + 3] = 128 + ((wc \div 64) % 64) /\ in[p + 4] = 128 + (wc % 64)
          /\ Len(Encoding(wc)) = 4 /\ insize >= 4
      <3>1. Len(Encoding(wc)) = 4
        BY <2>1, SMTT(20)
      <3> QED BY <1>1, <2>1, <3>1, SMTT(20)
    <2>3. U!utf8_to_wchar(in, p, insize) = r(4)
      <3> HIDE DEF byte, r
      <3> QED BY <1>2, <1>6, <2>2, SMTT(20) DEF LastChar
    <2>4. U!utf8_bits(in, p, 4) = wc
      <3>0. PICK f : Bits(f, in, p, 4)
        BY Utf8Bits
      <3>1. /\ U!utf8_bits(in, p, 4) = f[4] /\ f[1] = byte - U!Leads[4]
            /\ f[2] = f[1] * 64 + (in[p + 2] % 64)
            /\ f[3] = f[2] * 64 + (in[p + 3] % 64)
            /\ f[4] = f[3] * 64 + (in[p + 4] % 64)
        BY <3>0 DEF Bits
      <3> HIDE DEF byte
      <3>2. /\ f[1] = wc \div 262144 /\ in[p + 2] % 64 = (wc \div 4096) % 64
            /\ in[p + 3] % 64 = (wc \div 64) % 64 /\ in[p + 4] % 64 = wc % 64
        BY <3>1, <2>2, Tables, SMTT(20)
      <3>3. f[2] = wc \div 4096
        <4> DEFINE v == wc \div 4096
        <4>1. v \in Nat /\ wc \div 262144 = v \div 64
          BY SMTT(20)
        <4>0. f[1] = v \div 64 /\ in[p + 2] % 64 = v % 64
          BY <3>2, <4>1, SMTT(20)
        <4>2. f[2] = (v \div 64) * 64 + (v % 64)
          <5> HIDE DEF v
          <5> QED BY <3>1, <4>0
        <4> HIDE DEF v
        <4>3. f[2] = v
          BY <4>1, <4>2, Split64
        <4> QED BY <4>3 DEF v
      <3>4. f[3] = wc \div 64
        <4> DEFINE v == wc \div 64
        <4>1. v \in Nat /\ wc \div 4096 = v \div 64
          BY SMTT(20)
        <4>0. f[2] = v \div 64 /\ in[p + 3] % 64 = v % 64
          BY <3>2, <3>3, <4>1, SMTT(20)
        <4>2. f[3] = (v \div 64) * 64 + (v % 64)
          <5> HIDE DEF v
          <5> QED BY <3>1, <4>0
        <4> HIDE DEF v
        <4>3. f[3] = v
          BY <4>1, <4>2, Split64
        <4> QED BY <4>3 DEF v
      <3>5. f[4] = (wc \div 64) * 64 + (wc % 64)
        <4>1. in[p + 4] % 64 = wc % 64
          BY <3>2, SMTT(20)
        <4> QED BY <3>1, <3>4, <4>1
      <3> QED BY <3>1, <3>5, Split64
    <2> QED BY <2>2, <2>3, <2>4
  <1> QED BY <1>3, <1>4, <1>5, <1>6

\* wchar_to_utf16() writes what utf16_to_wchar() read.
LEMMA UnitsKept ==
  ASSUME NEW in \in [1 .. NameMax -> U!le16_t], NEW p \in Nat, p < NameMax,
         U!utf16_to_wchar(in, p, NameMax - p).len # 0, NEW outsize \in Int,
         outsize >= U!utf16_to_wchar(in, p, NameMax - p).len
  PROVE  LET ch == U!utf16_to_wchar(in, p, NameMax - p)
             units == U!wchar_to_utf16(ch.wc, outsize)
         IN /\ Len(units) = ch.len /\ units # <<>>
            /\ \A k \in 1 .. ch.len : units[k] = in[p + k]
            /\ ch.wc # 0 => \A k \in 1 .. ch.len : in[p + k] # 0
  <1> USE NamesAssumption
  <1> DEFINE x == in[p + 1]
             y == in[p + 2]
             ch == U!utf16_to_wchar(in, p, NameMax - p)
             units == U!wchar_to_utf16(ch.wc, outsize)
  <1> SUFFICES /\ Len(units) = ch.len /\ units # <<>>
               /\ \A k \in 1 .. ch.len : units[k] = in[p + k]
               /\ ch.wc # 0 => \A k \in 1 .. ch.len : in[p + k] # 0
    OBVIOUS
  <1>1. x \in Int /\ 0 <= x /\ x <= 65535
    BY UnitType
  <1>0. ch.len # 0 /\ outsize >= ch.len
    OBVIOUS
  <1>2. CASE x \div 1024 # 54
    <2>1. ch = [wc |-> x, len |-> 1]
      BY <1>2 DEF U!utf16_to_wchar
    <2>2. U!wchar_to_utf16(x, outsize) = <<x>>
      <3>1. outsize # 0
        BY <1>0, <2>1
      <3> QED BY <1>1, <3>1, SMTT(20) DEF U!wchar_to_utf16
    <2>3. ch.len = 1 /\ ch.wc = x /\ units = <<x>>
      BY <2>1, <2>2
    <2> HIDE DEF ch, units
    <2> QED BY <2>3
  <1>3. CASE x \div 1024 = 54
    <2>1. NameMax - p >= 2 /\ y \div 1024 = 55
      BY <1>3 DEF U!utf16_to_wchar
    <2>2. y \in Int /\ 0 <= y /\ y <= 65535
      BY <2>1, UnitType, SMTT(20)
    <2> DEFINE w == (x % 1024) * 1024 + (y % 1024) + 65536
    <2>3. ch = [wc |-> w, len |-> 2]
      BY <1>3, <2>1, SMTT(20) DEF U!utf16_to_wchar
    <2>4. w \in Int /\ w > 65535
      BY <1>1, <2>2, SMTT(20)
    <2>5. /\ 55296 + (((w - 65536) \div 1024) % 1024) = x
          /\ 56320 + ((w - 65536) % 1024) = y
      <3> DEFINE h == x % 1024
                 l == y % 1024
      <3>1. /\ h \in Int /\ 0 <= h /\ h < 1024 /\ x = 54 * 1024 + h
            /\ l \in Int /\ 0 <= l /\ l < 1024 /\ y = 55 * 1024 + l
        BY <1>1, <1>3, <2>1, <2>2, SMTT(60)
      <3>2. w - 65536 = h * 1024 + l
        BY <3>1, SMTT(20)
      <3> HIDE DEF w, h, l
      <3>3. (h * 1024 + l) \div 1024 = h /\ (h * 1024 + l) % 1024 = l /\ h % 1024 = h
        BY <3>1, SMTT(20)
      <3> QED BY <3>1, <3>2, <3>3, SMTT(20)
    <2>6. U!wchar_to_utf16(w, outsize) = <<x, y>>
      <3>1. ~ (outsize < 2)
        BY <1>0, <2>3
      <3> HIDE DEF w, x, y
      <3> QED BY <3>1, <2>4, <2>5, SMTT(20) DEF U!wchar_to_utf16
    <2>7. x # 0 /\ y # 0
      BY <1>1, <1>3, <2>1, <2>2, SMTT(20)
    <2> HIDE DEF w
    <2>8. ch.len = 2 /\ ch.wc = w /\ units = <<x, y>>
      BY <2>3, <2>6
    <2> HIDE DEF ch, units
    <2> QED BY <2>7, <2>8
  <1> QED BY <1>2, <1>3

\* A set P of pairs: with u units read, b bytes are written.  From every pair
\* but the last the next character leads to another, and its bytes are there.
Advance(P, in, bytes, u, e) ==
  LET char == U!utf16_to_wchar(in, u, NameMax - u)
      code == Encoding(char.wc)
  IN /\ u < NameMax /\ char.len # 0 /\ char.wc # 0
     /\ <<u + char.len, e + Len(code)>> \in P
     /\ \A k \in 1 .. Len(code) : bytes[e + k] = code[k]

\* P leads from the start to units units and length bytes, none of the units 0.
Trail(P, in, bytes, units, length) ==
  /\ units \in Nat /\ length \in Nat /\ units <= NameMax /\ length <= Len(bytes)
  /\ <<0, 0>> \in P /\ <<units, length>> \in P
  /\ \A u, e \in Nat : <<u, e>> \in P =>
       /\ u <= units /\ e <= length
       /\ (u = units /\ e = length) \/ Advance(P, in, bytes, u, e)
  /\ \A k \in 1 .. units : in[k] # 0

\* What utf16_to_wchar() finds.
LEMMA CharRead ==
  ASSUME NEW in \in [1 .. NameMax -> U!le16_t], NEW u \in Nat, u < NameMax,
         U!utf16_to_wchar(in, u, NameMax - u).len # 0
  PROVE  LET char == U!utf16_to_wchar(in, u, NameMax - u) IN
         /\ char.wc \in Nat /\ char.wc <= LastChar
         /\ char.len \in Nat /\ char.len > 0 /\ u + char.len <= NameMax
         /\ char.wc = 0 => in[u + 1] = 0
  <1> DEFINE char == U!utf16_to_wchar(in, u, NameMax - u)
  <1>1. /\ char.wc \in Nat /\ char.wc <= LastChar
        /\ char.len \in Nat /\ u + char.len <= NameMax
    BY Utf16Char
  <1>2. char.wc = 0 => in[u + 1] = 0
    <2>1. CASE in[u + 1] \div 1024 # 54
      BY <2>1 DEF U!utf16_to_wchar
    <2>2. CASE in[u + 1] \div 1024 = 54
      <3>1. NameMax - u >= 2 /\ char.wc = (in[u + 1] % 1024) * 1024 + (in[u + 2] % 1024) + 65536
        BY <2>2, NamesAssumption DEF U!utf16_to_wchar
      <3>2. in[u + 1] \in Nat /\ in[u + 2] \in Nat
        BY <3>1, UnitType, NamesAssumption, SMTT(20)
      <3>3. char.wc # 0
        BY <3>1, <3>2, SMTT(20)
      <3> QED BY <3>3
    <2> QED BY <2>1, <2>2
  <1> HIDE DEF char
  <1>3. char.len > 0
    BY <1>1 DEF char
  <1> QED BY <1>1, <1>2, <1>3 DEF char

\* Only the bytes up to the last pair matter.
LEMMA TrailSame ==
  ASSUME NEW P, NEW in \in [1 .. NameMax -> U!le16_t], NEW x, NEW y, NEW units, NEW length,
         Trail(P, in, x, units, length), length <= Len(y),
         \A k \in 1 .. length : y[k] = x[k]
  PROVE  Trail(P, in, y, units, length)
  <1>1. units \in Nat /\ length \in Nat
    BY DEF Trail
  <1>2. ASSUME NEW u \in Nat, NEW e \in Nat, <<u, e>> \in P,
               Advance(P, in, x, u, e)
        PROVE  Advance(P, in, y, u, e)
    <2> DEFINE char == U!utf16_to_wchar(in, u, NameMax - u)
               code == Encoding(char.wc)
               n == Len(code)
    <2>1. /\ u < NameMax /\ char.len # 0 /\ char.wc # 0
          /\ <<u + char.len, e + n>> \in P
          /\ \A k \in 1 .. n : x[e + k] = code[k]
      BY <1>2 DEF Advance
    <2>2. char.wc \in Nat /\ char.wc <= LastChar /\ char.len \in Nat
      BY <2>1, CharRead
    <2>3. n \in Nat
      BY <2>2, EncodingType
    <2> HIDE DEF char, code, n
    <2>4. u + char.len \in Nat /\ e + n \in Nat
      BY <2>2, <2>3
    <2>5. e + n <= length
      BY <2>1, <2>4 DEF Trail
    <2>6. ASSUME NEW k \in 1 .. n PROVE y[e + k] = code[k]
      <3>1. e + k \in 1 .. length
        BY <1>1, <2>3, <2>5
      <3> QED BY <2>1, <3>1
    <2> QED BY <2>1, <2>6 DEF Advance, char, code, n
  <1> QED BY <1>1, <1>2 DEF Trail

\* y goes on after x with the character at u; the pair after it.
GoesOn(in, u, e, x, y) ==
  LET char == U!utf16_to_wchar(in, u, NameMax - u)
      code == Encoding(char.wc)
  IN /\ char.len # 0 /\ char.wc # 0
     /\ e + Len(code) <= Len(y)
     /\ \A k \in 1 .. e : y[k] = x[k]
     /\ \A k \in 1 .. Len(code) : y[e + k] = code[k]

After(in, u, e) ==
  LET char == U!utf16_to_wchar(in, u, NameMax - u)
  IN <<u + char.len, e + Len(Encoding(char.wc))>>

\* One character more.
LEMMA TrailGrows ==
  ASSUME NEW P, NEW in \in [1 .. NameMax -> U!le16_t], NEW x, NEW u, NEW e,
         Trail(P, in, x, u, e), u < NameMax, NEW y, GoesOn(in, u, e, x, y)
  PROVE  Trail(P \cup {After(in, u, e)}, in, y, After(in, u, e)[1], After(in, u, e)[2])
  <1> DEFINE char == U!utf16_to_wchar(in, u, NameMax - u)
             code == Encoding(char.wc)
             n == Len(code)
             m == char.len
             Q == P \cup {<<u + m, e + n>>}
  <1>1. /\ m # 0 /\ char.wc # 0 /\ e + n <= Len(y)
        /\ \A k \in 1 .. e : y[k] = x[k]
        /\ \A k \in 1 .. n : y[e + k] = code[k]
    BY DEF GoesOn
  <1>2. u \in Nat /\ e \in Nat /\ NameMax \in Nat
    BY NamesAssumption DEF Trail
  <1>3. /\ char.wc \in Nat /\ char.wc <= LastChar
        /\ m \in Nat /\ m > 0 /\ u + m <= NameMax
    BY <1>1, <1>2, CharRead
  <1>4. n \in Nat /\ n > 0
    BY <1>3, EncodingType
  <1>5. \A k \in 1 .. m : in[u + k] # 0
    <2>1. 2 \in Int /\ 2 >= m
      BY <1>2, <1>1, Utf16Char
    <2> QED BY <1>1, <1>2, <2>1, UnitsKept
  <1>6. Advance(Q, in, y, u, e)
    <2> HIDE DEF char
    <2>1. <<u + m, e + n>> \in Q
      OBVIOUS
    <2> HIDE DEF Q, n, m, code
    <2> QED BY <1>1, <2>1 DEF Advance, char, code, n, m
  <1>7. ASSUME NEW v \in Nat, NEW d \in Nat, <<v, d>> \in P, ~ (v = u /\ d = e)
        PROVE  v <= u /\ d <= e /\ Advance(Q, in, y, v, d)
    <2>1. v <= u /\ d <= e /\ Advance(P, in, x, v, d)
      BY <1>7 DEF Trail
    <2> DEFINE ch == U!utf16_to_wchar(in, v, NameMax - v)
               co == Encoding(ch.wc)
               l == Len(co)
    <2>2. /\ v < NameMax /\ ch.len # 0 /\ ch.wc # 0
          /\ <<v + ch.len, d + l>> \in P
          /\ \A k \in 1 .. l : x[d + k] = co[k]
      BY <2>1 DEF Advance
    <2>3. ch.wc \in Nat /\ ch.wc <= LastChar /\ ch.len \in Nat
      BY <2>2, CharRead
    <2>4. l \in Nat
      BY <2>3, EncodingType
    <2> HIDE DEF ch, co, l, char, code, n, m
    <2>5. v + ch.len \in Nat /\ d + l \in Nat
      BY <2>3, <2>4
    <2>6. d + l <= e
      BY <2>2, <2>5 DEF Trail
    <2>7. ASSUME NEW k \in 1 .. l PROVE y[d + k] = co[k]
      <3>1. d + k \in 1 .. e
        BY <1>2, <2>4, <2>6
      <3> QED BY <1>1, <2>2, <3>1
    <2>8. <<v + ch.len, d + l>> \in Q
      BY <2>2
    <2> HIDE DEF Q
    <2> QED BY <2>1, <2>2, <2>7, <2>8 DEF Advance, ch, co, l
  <1>8. Trail(Q, in, y, u + m, e + n)
    <2> HIDE DEF char, code, n, m
    <2>1. u + m \in Nat /\ e + n \in Nat /\ u + m <= NameMax /\ e + n <= Len(y)
      BY <1>1, <1>2, <1>3, <1>4
    <2>2. <<0, 0>> \in Q /\ <<u + m, e + n>> \in Q
      BY DEF Trail
    <2>3. ASSUME NEW v \in Nat, NEW d \in Nat, <<v, d>> \in Q
          PROVE  /\ v <= u + m /\ d <= e + n
                 /\ (v = u + m /\ d = e + n) \/ Advance(Q, in, y, v, d)
      <3>1. CASE v = u + m /\ d = e + n
        BY <3>1, <2>1
      <3>2. CASE v = u /\ d = e
        BY <3>2, <1>2, <1>3, <1>4, <1>6
      <3>3. CASE ~ (v = u + m /\ d = e + n) /\ ~ (v = u /\ d = e)
        <4>1. <<v, d>> \in P
          BY <2>3, <3>3
        <4>2. v <= u /\ d <= e /\ Advance(Q, in, y, v, d)
          BY <1>7, <3>3, <4>1
        <4> HIDE DEF Q
        <4> QED BY <1>2, <1>3, <1>4, <4>2
      <3> QED BY <3>1, <3>2, <3>3
    <2>4. ASSUME NEW k \in 1 .. u + m PROVE in[k] # 0
      <3>1. CASE k <= u
        BY <3>1, <1>2 DEF Trail
      <3>2. CASE k > u
        <4>1. k - u \in 1 .. m /\ u + (k - u) = k
          BY <3>2, <1>2, <1>3
        <4> QED BY <1>5, <4>1
      <3> QED BY <3>1, <3>2, <1>2
    <2> HIDE DEF Q
    <2> QED BY <2>1, <2>2, <2>3, <2>4 DEF Trail
  <1>9. After(in, u, e) = <<u + m, e + n>>
    BY DEF After
  <1> HIDE DEF n, m, code, char
  <1> QED BY <1>8, <1>9

\* utf16_to_utf8() has encoded the units it has read, and all up to the end of
\* the name once it is done.
Ends(in, u) == u = NameMax \/ (u < NameMax /\ in[u + 1] = 0)

Encoded ==
  /\ rc = "run" => \E P : Trail(P, job.in, out, pos, Len(out))
  /\ rc = "ok" => \E P, u : Trail(P, job.in, out, u, Len(out) - 1) /\ Ends(job.in, u)

\* utf8_to_utf16() goes along the same characters.
Goes(P, u) ==
  /\ Trail(P, orig.in, job.in, u, Len(job.in)) /\ Ends(orig.in, u)
  /\ rc = "run" => /\ <<Len(out), pos>> \in P
                   /\ \A k \in 1 .. Len(out) : out[k] = orig.in[k]
  /\ rc = "ok" => /\ Len(out) = u + 1 /\ out[u + 1] = 0
                  /\ \A k \in 1 .. u : out[k] = orig.in[k]

\* The conversion back of a name that was read from the device.
Returned ==
  /\ job.to = "utf16" /\ orig.in \in [1 .. NameMax -> U!le16_t]
  /\ rc \in {"run", "ok"}
  /\ \E P, u : Goes(P, u)

\* The two conversions of a name from the device.
KeptInv ==
  /\ UtfInv
  /\ orig = U!NoJob \/ orig.to \in {"utf8", "utf16"}
  /\ orig = U!NoJob /\ job.to = "utf8" => Encoded
  /\ orig.to = "utf8" => Returned

\* Nothing is converted back in the first conversion.
LEMMA NoJobTo == U!NoJob.to = "none"
  BY DEF U!NoJob

\* Before the first character the trail is its first pair.
LEMMA KeptInit == U!Init => KeptInv
  <1> SUFFICES ASSUME U!Init PROVE KeptInv
    OBVIOUS
  <1>1. UtfInv
    BY UtfInit
  <1>2. pos = 0 /\ out = <<>> /\ rc = "run" /\ orig = U!NoJob
    BY DEF U!Init
  <1>3. Trail({<<0, 0>>}, job.in, out, pos, Len(out))
    BY <1>2, NamesAssumption DEF Trail
  <1> QED BY <1>1, <1>2, <1>3, NoJobTo DEF KeptInv, Encoded

\* utf16_to_utf8() extends the trail, or ends the name.
LEMMA KeptEncode ==
  ASSUME KeptInv, U!utf16_to_utf8, orig = U!NoJob
  PROVE  Encoded'
  <1> DEFINE ch == U!utf16_to_wchar(job.in, pos, job.insize - pos)
             bytes == U!wchar_to_utf8(ch.wc, job.outsize - Len(out))
             code == Encoding(ch.wc)
  <1> USE NamesAssumption
  <1>1. /\ job.to = "utf8" /\ rc = "run" /\ job' = job
        /\ IF pos >= job.insize THEN U!Terminate /\ UNCHANGED pos
           ELSE IF ch.len = 0 THEN rc' = "EILSEQ" /\ UNCHANGED <<pos, out>>
           ELSE IF bytes = <<>> THEN rc' = "ENAMETOOLONG" /\ UNCHANGED <<pos, out>>
           ELSE /\ pos' = pos + ch.len /\ out' = out \o bytes
                /\ rc' = IF ch.wc = 0 THEN "ok" ELSE "run"
    BY DEF U!utf16_to_utf8, U!NULL
  <1>2. /\ job.in \in [1 .. NameMax -> U!le16_t]
        /\ job.insize = NameMax /\ job.outsize = 3 * NameMax + 1
        /\ out \in Seq(U!char) /\ Len(out) <= 3 * pos
        /\ pos \in Nat /\ pos <= NameMax
    BY <1>1 DEF KeptInv, UtfInv
  <1>3. PICK P : Trail(P, job.in, out, pos, Len(out))
    BY <1>1 DEF KeptInv, Encoded
  <1>4. CASE pos >= job.insize
    <2>1. U!Terminate /\ pos = NameMax
      BY <1>1, <1>2, <1>4
    <2>2. CASE Len(out) >= job.outsize
      BY <2>1, <2>2 DEF U!Terminate, Encoded
    <2>3. CASE ~ (Len(out) >= job.outsize)
      <3>1. rc' = "ok" /\ out' = Append(out, 0)
        BY <2>1, <2>3 DEF U!Terminate
      <3>2. /\ Len(out') = Len(out) + 1 /\ Len(out') - 1 = Len(out) /\ Len(out) <= Len(out')
            /\ \A k \in 1 .. Len(out) : out'[k] = out[k]
        BY <1>2, <3>1
      <3>3. Trail(P, job.in, out', pos, Len(out))
        BY <1>2, <1>3, <3>2, TrailSame
      <3>4. Trail(P, job'.in, out', pos, Len(out') - 1) /\ Ends(job'.in, pos)
        BY <1>1, <2>1, <3>2, <3>3 DEF Ends
      <3> QED BY <3>1, <3>4 DEF Encoded
    <2> QED BY <2>2, <2>3
  <1>5. CASE pos < job.insize /\ (ch.len = 0 \/ bytes = <<>>)
    <2>1. ~ (pos >= job.insize)
      BY <1>2, <1>5
    <2>2. rc' \in {"EILSEQ", "ENAMETOOLONG"}
      BY <1>1, <1>5, <2>1, Zenon
    <2> QED BY <2>2 DEF Encoded
  <1>6. CASE pos < job.insize /\ ch.len # 0 /\ bytes # <<>>
    <2>0. ch = U!utf16_to_wchar(job.in, pos, NameMax - pos) /\ pos < NameMax
      BY <1>2, <1>6
    <2>1. /\ ch.wc \in Nat /\ ch.wc <= LastChar
          /\ ch.len \in Nat /\ ch.len > 0 /\ pos + ch.len <= NameMax
          /\ ch.wc = 0 => job.in[pos + 1] = 0
      <3>1. U!utf16_to_wchar(job.in, pos, NameMax - pos).len # 0
        BY <1>6, <2>0
      <3> HIDE DEF ch
      <3> QED BY <1>2, <2>0, <3>1, CharRead
    <2>2. /\ pos' = pos + ch.len /\ out' = out \o bytes
          /\ rc' = IF ch.wc = 0 THEN "ok" ELSE "run"
      <3>1. ~ (pos >= job.insize)
        BY <1>2, <1>6
      <3> QED BY <1>1, <1>6, <3>1, Zenon
    <2>3. bytes = code /\ code \in Seq(U!char)
      <3>1. job.outsize - Len(out) \in Int
        BY <1>2
      <3> HIDE DEF ch
      <3> QED BY <1>6, <2>1, <3>1, EncodingWritten, EncodingType
    <2>4. out' = out \o code
      BY <2>2, <2>3
    <2> HIDE DEF bytes
    <2>5. /\ Len(out') = Len(out) + Len(code) /\ Len(out) <= Len(out')
          /\ \A k \in 1 .. Len(out) : out'[k] = out[k]
          /\ \A k \in 1 .. Len(code) : out'[Len(out) + k] = code[k]
      <3> HIDE DEF ch, code
      <3> QED BY <1>2, <2>3, <2>4
    <2>6. CASE ch.wc = 0
      <3>1. code = <<0>>
        BY <2>1, <2>6, EncodingCases
      <3>2. Len(out') - 1 = Len(out) /\ rc' = "ok"
        <4>1. Len(code) = 1 /\ Len(out) \in Nat
          BY <1>2, <3>1
        <4> HIDE DEF ch, code
        <4> QED BY <2>2, <2>5, <2>6, <4>1
      <3>3. Trail(P, job.in, out', pos, Len(out))
        <4> HIDE DEF ch, code
        <4> QED BY <1>2, <1>3, <2>5, TrailSame
      <3>4. Trail(P, job'.in, out', pos, Len(out') - 1) /\ Ends(job'.in, pos)
        <4> HIDE DEF ch, code
        <4> QED BY <1>1, <2>0, <2>1, <2>6, <3>2, <3>3 DEF Ends
      <3> HIDE DEF ch, code
      <3> QED BY <3>2, <3>4 DEF Encoded
    <2>7. CASE ch.wc # 0
      <3> DEFINE to == <<pos + ch.len, Len(out) + Len(code)>>
      <3>0. Len(out) + Len(code) <= Len(out')
        <4>1. Len(out) \in Nat /\ Len(code) \in Nat
          BY <1>2, <2>3
        <4> HIDE DEF ch, code
        <4> QED BY <2>5, <4>1
      <3>1. Trail(P \cup {to}, job.in, out', to[1], to[2])
        <4>1. GoesOn(job.in, pos, Len(out), out, out')
          BY <2>0, <2>5, <2>7, <3>0, <1>6 DEF GoesOn
        <4>2. After(job.in, pos, Len(out)) = to
          BY <2>0 DEF After
        <4> HIDE DEF to, ch, code
        <4> QED BY <1>2, <1>3, <2>0, <4>1, <4>2, TrailGrows
      <3>2. to[1] = pos' /\ to[2] = Len(out') /\ rc' = "run"
        <4> HIDE DEF ch, code
        <4> QED BY <2>2, <2>5, <2>7
      <3> HIDE DEF to, ch, code
      <3> QED BY <1>1, <3>1, <3>2 DEF Encoded
    <2> QED BY <2>6, <2>7
  <1> QED BY <1>2, <1>4, <1>5, <1>6

\* utf8_to_utf16() goes along the trail: at each of its pairs it decodes the
\* character that was encoded there and writes the units it came from.
LEMMA KeptDecode ==
  ASSUME UtfInv, Returned, U!utf8_to_utf16
  PROVE  Returned'
  <1> DEFINE ch == U!utf8_to_wchar(job.in, pos, job.insize - pos)
             units == U!wchar_to_utf16(ch.wc, job.outsize - Len(out))
             m == Len(out)
             n == Len(job.in)
  <1> USE NamesAssumption
  <1>1. /\ job.to = "utf16" /\ rc = "run" /\ job' = job /\ orig' = orig
        /\ IF pos >= job.insize THEN U!Terminate /\ UNCHANGED pos
           ELSE IF ch.len = 0 THEN rc' = "EILSEQ" /\ UNCHANGED <<pos, out>>
           ELSE IF units = <<>> THEN rc' = "ENAMETOOLONG" /\ UNCHANGED <<pos, out>>
           ELSE /\ rc' = "run" /\ out' = out \o units
                /\ pos' = IF ch.wc = 0 THEN job.insize ELSE pos + ch.len
    BY DEF U!utf8_to_utf16, U!NULL
  <1>2. /\ job.in \in Seq(U!char)
        /\ job.insize = n /\ job.outsize = NameMax + 1
        /\ out \in Seq(U!le16_t)
        /\ pos \in Nat /\ pos <= n /\ n \in Nat /\ m \in Nat
    BY <1>1 DEF UtfInv
  <1>3. orig.in \in [1 .. NameMax -> U!le16_t]
    BY DEF Returned
  <1>4. PICK P, u : Goes(P, u)
    BY DEF Returned
  <1>5. /\ Trail(P, orig.in, job.in, u, n) /\ Ends(orig.in, u)
        /\ <<m, pos>> \in P
        /\ \A k \in 1 .. m : out[k] = orig.in[k]
    BY <1>1, <1>4 DEF Goes
  <1>6. /\ u \in Nat /\ u <= NameMax /\ m <= u
        /\ (m = u /\ pos = n) \/ Advance(P, orig.in, job.in, m, pos)
    <2> HIDE DEF m, n
    <2> QED BY <1>2, <1>5 DEF Trail
  <1>7. CASE m = u /\ pos = n
    <2>1. U!Terminate
      BY <1>1, <1>2, <1>7
    <2>2. ~ (Len(out) >= job.outsize)
      <3>1. ~ (m >= job.outsize)
        <4> HIDE DEF m
        <4> QED BY <1>2, <1>6, <1>7
      <3> QED BY <3>1
    <2>3. rc' = "ok" /\ out' = Append(out, 0)
      BY <2>1, <2>2 DEF U!Terminate
    <2>4. /\ Len(out') = u + 1 /\ out'[u + 1] = 0
          /\ \A k \in 1 .. u : out'[k] = orig.in[k]
      BY <1>2, <1>5, <1>7, <2>3
    <2>5. Goes(P, u)'
      <3> HIDE DEF m
      <3>1. Trail(P, orig.in, job.in, u, Len(job.in))'
        BY <1>1, <1>5
      <3>2. Ends(orig.in, u)'
        BY <1>1, <1>5
      <3> QED BY <1>1, <2>3, <2>4, <3>1, <3>2 DEF Goes
    <2> QED BY <1>1, <1>3, <2>3, <2>5 DEF Returned
  <1>8. CASE ~ (m = u /\ pos = n)
    <2> DEFINE c16 == U!utf16_to_wchar(orig.in, m, NameMax - m)
               code == Encoding(c16.wc)
               l == Len(code)
    <2>1. /\ m < NameMax /\ c16.len # 0 /\ c16.wc # 0
          /\ <<m + c16.len, pos + l>> \in P
          /\ \A k \in 1 .. l : job.in[pos + k] = code[k]
      <3> HIDE DEF m
      <3> QED BY <1>6, <1>8 DEF Advance
    <2>2. /\ c16.wc \in Nat /\ c16.wc <= LastChar
          /\ c16.len \in Nat /\ c16.len > 0 /\ m + c16.len <= NameMax
      <3> HIDE DEF m
      <3> QED BY <1>2, <1>3, <2>1, CharRead
    <2>3. l \in Nat /\ l > 0
      BY <2>2, EncodingType
    <2>4. pos + l <= n
      <3>1. m + c16.len \in Nat /\ pos + l \in Nat
        <4> HIDE DEF m, c16, l
        <4> QED BY <1>2, <2>2, <2>3
      <3> HIDE DEF m, c16, l, n
      <3> QED BY <1>5, <2>1, <3>1 DEF Trail
    <2>5. pos < n /\ job.insize - pos \in Int /\ job.insize - pos >= l
      <3> HIDE DEF l, n
      <3> QED BY <1>2, <2>3, <2>4
    <2>6. ch = [wc |-> c16.wc, len |-> l]
      <3> HIDE DEF c16, m, n
      <3> QED BY <2>1, <2>2, <2>5, Decoded
    <2>7. ch.wc = c16.wc /\ ch.len = l
      <3> HIDE DEF ch, c16, l
      <3> QED BY <2>6
    <2>8. job.outsize - m \in Int /\ job.outsize - m >= c16.len
      <3> HIDE DEF m, c16
      <3> QED BY <1>2, <2>2
    <2>9. /\ Len(units) = c16.len /\ units # <<>>
          /\ \A k \in 1 .. c16.len : units[k] = orig.in[m + k]
      <3>1. units = U!wchar_to_utf16(c16.wc, job.outsize - m)
        <4> HIDE DEF ch, c16, l
        <4> QED BY <2>7
      <3> HIDE DEF m, units
      <3> QED BY <1>2, <1>3, <2>1, <2>8, <3>1, UnitsKept
    <2>10. units \in Seq(U!le16_t)
      <3>1. ch.wc \in Nat
        BY <2>2, <2>7
      <3>2. job.outsize - m \in Nat
        <4> HIDE DEF m
        <4> QED BY <1>2, <2>1
      <3> HIDE DEF ch
      <3> QED BY <2>9, <3>1, <3>2, UnitsWritten
    <2> HIDE DEF ch, units, code
    <2>11. rc' = "run" /\ out' = out \o units /\ pos' = pos + l
      <3>1. ~ (pos >= job.insize) /\ ch.len # 0 /\ ch.wc # 0
        <4> HIDE DEF n, l, m, c16
        <4> QED BY <1>2, <2>1, <2>3, <2>5, <2>7
      <3> HIDE DEF c16, l
      <3> QED BY <1>1, <2>7, <2>9, <3>1, Zenon
    <2> HIDE DEF c16, l
    <2>12. /\ Len(out') = m + c16.len
           /\ \A k \in 1 .. Len(out') : out'[k] = orig.in[k]
      <3>1. Len(out') = m + c16.len
        BY <1>2, <2>9, <2>10, <2>11
      <3>2. ASSUME NEW k \in 1 .. Len(out') PROVE out'[k] = orig.in[k]
        <4>1. CASE k <= m
          BY <4>1, <1>2, <1>5, <2>10, <2>11
        <4>2. CASE k > m
          <5>1. k - m \in 1 .. c16.len /\ m + (k - m) = k
            <6> HIDE DEF m
            <6> QED BY <4>2, <1>2, <2>2, <3>1
          <5>2. out'[k] = units[k - m]
            BY <4>2, <1>2, <2>10, <2>11
          <5> HIDE DEF m
          <5> QED BY <5>1, <5>2, <2>9
        <4> QED BY <4>1, <4>2, <1>2
      <3> QED BY <3>1, <3>2
    <2>13. Goes(P, u)'
      <3>1. Trail(P, orig.in, job.in, u, Len(job.in))' /\ Ends(orig.in, u)'
        BY <1>1, <1>5
      <3>2. <<Len(out'), pos'>> \in P
        <4> HIDE DEF m
        <4> QED BY <2>1, <2>11, <2>12
      <3> HIDE DEF m
      <3> QED BY <1>1, <2>11, <2>12, <3>1, <3>2 DEF Goes
    <2> QED BY <1>1, <1>3, <2>11, <2>13 DEF Returned
  <1> QED BY <1>7, <1>8

\* The trail of the first conversion is the one the second goes along.
LEMMA KeptBack ==
  ASSUME KeptInv, U!ConvertBack, job.to = "utf8"
  PROVE  Returned' /\ orig'.to = "utf8"
  <1> DEFINE back == SubSeq(out, 1, Len(out) - 1)
             n == Len(out) - 1
  <1> USE NamesAssumption
  <1>1. /\ rc = "ok" /\ rc' = "run" /\ pos' = 0 /\ out' = <<>>
        /\ orig = U!NoJob /\ orig' = job
    BY DEF U!ConvertBack
  <1>2. job' = U!ToUtf16(back)
    BY DEF U!ConvertBack
  <1>3. /\ job.in \in [1 .. NameMax -> U!le16_t]
        /\ out \in Seq(U!char) /\ out # <<>>
    BY <1>1 DEF KeptInv, UtfInv
  <1>4. n \in Nat /\ back \in Seq(U!char) /\ Len(back) = n /\ \A k \in 1 .. n : back[k] = out[k]
    <2>1. n \in Nat /\ n <= Len(out) /\ Len(out) \in Nat
      <3> DEFINE l == Len(out)
      <3>1. l \in Nat /\ l # 0
        BY <1>3
      <3> HIDE DEF l
      <3>2. l - 1 \in Nat /\ l - 1 <= l
        BY <3>1
      <3> QED BY <3>1, <3>2 DEF l
    <2>2. back = SubSeq(out, 1, n)
      OBVIOUS
    <2> HIDE DEF n, back
    <2> QED BY <1>3, <2>1, <2>2
  <1>5. PICK P, u : Trail(P, job.in, out, u, n) /\ Ends(job.in, u)
    <2>1. Encoded
      BY <1>1 DEF KeptInv
    <2> QED BY <1>1, <2>1, Zenon DEF Encoded
  <1> HIDE DEF back, n
  <1>6. Trail(P, job.in, back, u, n)
    BY <1>3, <1>4, <1>5, TrailSame
  <1>7. job'.in = back /\ job'.to = "utf16"
    BY <1>2 DEF U!ToUtf16
  <1>8. Goes(P, u)'
    <2>1. Trail(P, orig.in, job.in, u, Len(job.in))'
      BY <1>1, <1>4, <1>6, <1>7
    <2>2. Ends(orig.in, u)'
      BY <1>1, <1>5
    <2>3. <<0, 0>> \in P
      BY <1>6 DEF Trail
    <2>4. Len(out') = 0
      BY <1>1
    <2> QED BY <1>1, <2>1, <2>2, <2>3, <2>4 DEF Goes
  <1> QED BY <1>1, <1>3, <1>7, <1>8 DEF Returned

\* Every step preserves the invariant.
LEMMA KeptStep ==
  ASSUME KeptInv, U!Next
  PROVE  KeptInv'
  <1>0. UtfInv /\ UtfInv'
    BY UtfStep DEF KeptInv
  <1>1. CASE U!utf16_to_utf8
    <2>1. job.to = "utf8" /\ job' = job /\ orig' = orig
      BY <1>1 DEF U!utf16_to_utf8
    <2>2. orig.to # "utf8"
      BY <2>1 DEF KeptInv, Returned
    <2>3. orig = U!NoJob => Encoded'
      BY <1>1, KeptEncode
    <2> QED BY <1>0, <2>1, <2>2, <2>3 DEF KeptInv
  <1>2. CASE U!utf8_to_utf16
    <2>1. job.to = "utf16" /\ job' = job /\ orig' = orig
      BY <1>2 DEF U!utf8_to_utf16
    <2>2. orig.to = "utf8" => Returned'
      BY <1>0, <1>2, KeptDecode DEF KeptInv
    <2> QED BY <1>0, <2>1, <2>2 DEF KeptInv
  <1>3. CASE U!ConvertBack
    <2>1. orig = U!NoJob /\ orig' = job
      BY <1>3 DEF U!ConvertBack
    <2>2. job.to \in {"utf8", "utf16"}
      BY DEF KeptInv, UtfInv
    <2>3. job.to = "utf8" => Returned'
      BY <1>3, KeptBack
    <2>4. orig'.to \in {"utf8", "utf16"} /\ orig' # U!NoJob
      BY <2>1, <2>2, NoJobTo
    <2> QED BY <1>0, <2>1, <2>3, <2>4 DEF KeptInv
  <1> QED BY <1>1, <1>2, <1>3 DEF U!Next

\* The part of an array before its terminator.
LEMMA UntilZero ==
  ASSUME NEW S, NEW s \in Seq(S), NEW u \in Nat, u <= Len(s),
         \A k \in 1 .. u : s[k] # 0,
         u = Len(s) \/ (u < Len(s) /\ s[u + 1] = 0)
  PROVE  U!Until0(s) = SubSeq(s, 1, u)
  <1> DEFINE first(k) == s[k] = 0 /\ \A j \in 1 .. k - 1 : s[j] # 0
             n == Len(s)
  <1>0. n \in Nat /\ DOMAIN s = 1 .. n
    OBVIOUS
  <1>1. CASE u = n
    <2>1. ~ \E k \in DOMAIN s : s[k] = 0
      BY <1>0, <1>1
    <2>2. SubSeq(s, 1, n) = s
      BY SubSeqFull
    <2> QED BY <1>1, <2>1, <2>2 DEF U!Until0
  <1>2. CASE u < n /\ s[u + 1] = 0
    <2>1. u + 1 \in DOMAIN s /\ first(u + 1)
      <3>1. u + 1 \in 1 .. n /\ (u + 1) - 1 = u
        <4> HIDE DEF n
        <4> QED BY <1>0, <1>2
      <3> QED BY <1>0, <1>2, <3>1
    <2>2. ASSUME NEW k \in DOMAIN s, first(k) PROVE k = u + 1
      <3>1. k \in Nat /\ k >= 1
        <4> HIDE DEF n
        <4> QED BY <1>0
      <3>2. ~ (k <= u)
        BY <2>2, <3>1
      <3>3. ~ (u + 1 <= k - 1)
        BY <1>2, <2>2, <3>1
      <3> QED BY <3>1, <3>2, <3>3
    <2> DEFINE ch == CHOOSE k \in DOMAIN s : first(k)
    <2>3. ch = u + 1
      <3> HIDE DEF first
      <3>1. ch \in DOMAIN s /\ first(ch)
        BY <2>1
      <3> QED BY <2>2, <3>1
    <2>4. U!Until0(s) = SubSeq(s, 1, ch - 1)
      BY <2>1 DEF U!Until0
    <2> HIDE DEF ch
    <2> QED BY <2>3, <2>4
  <1> QED BY <1>1, <1>2

\* At the end of the trail the name is back.
LEMMA KeptImplies ==
  ASSUME KeptInv
  PROVE  U!RoundTrip
  <1> SUFFICES ASSUME orig.to = "utf8", rc # "run"
               PROVE  rc = "ok" /\ U!Until0(out) = U!Until0(orig.in)
    BY DEF U!RoundTrip
  <1> USE NamesAssumption
  <1>1. Returned
    BY DEF KeptInv
  <1>2. rc = "ok" /\ job.to = "utf16" /\ orig.in \in [1 .. NameMax -> U!le16_t]
    BY <1>1 DEF Returned
  <1>3. PICK P, u : Goes(P, u)
    BY <1>1 DEF Returned
  <1>4. /\ Trail(P, orig.in, job.in, u, Len(job.in)) /\ Ends(orig.in, u)
        /\ Len(out) = u + 1 /\ out[u + 1] = 0
        /\ \A k \in 1 .. u : out[k] = orig.in[k]
    BY <1>2, <1>3 DEF Goes
  <1>5. u \in Nat /\ u <= NameMax /\ \A k \in 1 .. u : orig.in[k] # 0
    BY <1>4 DEF Trail
  <1>6. out \in Seq(U!le16_t)
    BY <1>2 DEF KeptInv, UtfInv
  <1>7. orig.in \in Seq(U!le16_t) /\ Len(orig.in) = NameMax
    BY <1>2
  <1>8. U!Until0(out) = SubSeq(out, 1, u)
    <2>1. u < Len(out) /\ u <= Len(out)
      BY <1>4, <1>5
    <2> QED BY <1>4, <1>5, <1>6, <2>1, UntilZero
  <1>9. U!Until0(orig.in) = SubSeq(orig.in, 1, u)
    <2>1. /\ u <= Len(orig.in)
          /\ u = Len(orig.in) \/ (u < Len(orig.in) /\ orig.in[u + 1] = 0)
      <3> DEFINE n == Len(orig.in)
                 x == orig.in[u + 1]
      <3>1. u = NameMax \/ (u < NameMax /\ x = 0)
        BY <1>4, Zenon DEF Ends
      <3>2. n = NameMax
        BY <1>7
      <3> HIDE DEF n, x
      <3>3. u <= n /\ (u = n \/ (u < n /\ x = 0))
        BY <1>5, <3>1, <3>2
      <3> QED BY <3>3 DEF n, x
    <2> QED BY <1>5, <1>7, <2>1, UntilZero
  <1>10. SubSeq(out, 1, u) = SubSeq(orig.in, 1, u)
    BY <1>4, <1>5, <1>6, <1>7
  <1> QED BY <1>2, <1>8, <1>9, <1>10

-----------------------------------------------------------------------------
(* Known characters.                                                       *)

\* A known character is the one with this number.
Is(known, wc) ==
  /\ wc \in Nat /\ wc <= LastChar /\ wc # 0
  /\ known.utf8 = Encoding(wc)
  /\ known.utf16 \in Seq(U!le16_t) /\ known.utf16 # <<>>
  /\ \A k \in 1 .. Len(known.utf16) : known.utf16[k] # 0
  /\ \A room \in Int : U!wchar_to_utf16(wc, room) \in {<<>>, known.utf16}

\* The known characters have numbers.
LEMMA KnownChar ==
  ASSUME NEW known \in U!Known
  PROVE  \E wc : Is(known, wc)
  <1>0. 65 \in U!le16_t /\ 233 \in U!le16_t /\ 8364 \in U!le16_t
        /\ 55357 \in U!le16_t /\ 56832 \in U!le16_t
    BY UnitType, SMTT(20)
  <1>1. CASE known = [utf8 |-> <<65>>, utf16 |-> <<65>>]
    <2>1. Encoding(65) = <<65>> /\ 65 <= LastChar
      BY EncodingCases, SMTT(20) DEF LastChar
    <2>2. \A room \in Int : U!wchar_to_utf16(65, room) \in {<<>>, <<65>>}
      BY SMTT(20) DEF U!wchar_to_utf16, U!NULL
    <2>3. Is(known, 65)
      BY <1>0, <1>1, <2>1, <2>2, SMTT(20) DEF Is
    <2> QED BY <2>3, SMTT(20)
  <1>2. CASE known = [utf8 |-> <<195, 169>>, utf16 |-> <<233>>]
    <2>1. Encoding(233) = <<195, 169>> /\ 233 <= LastChar
      BY EncodingCases, SMTT(20) DEF LastChar
    <2>2. \A room \in Int : U!wchar_to_utf16(233, room) \in {<<>>, <<233>>}
      BY SMTT(20) DEF U!wchar_to_utf16, U!NULL
    <2>3. Is(known, 233)
      BY <1>0, <1>2, <2>1, <2>2, SMTT(20) DEF Is
    <2> QED BY <2>3, SMTT(20)
  <1>3. CASE known = [utf8 |-> <<226, 130, 172>>, utf16 |-> <<8364>>]
    <2>1. Encoding(8364) = <<226, 130, 172>> /\ 8364 <= LastChar
      BY EncodingCases, SMTT(20) DEF LastChar
    <2>2. \A room \in Int : U!wchar_to_utf16(8364, room) \in {<<>>, <<8364>>}
      BY SMTT(20) DEF U!wchar_to_utf16, U!NULL
    <2>3. Is(known, 8364)
      BY <1>0, <1>3, <2>1, <2>2, SMTT(20) DEF Is
    <2> QED BY <2>3, SMTT(20)
  <1>4. CASE known = [utf8 |-> <<240, 159, 152, 128>>, utf16 |-> <<55357, 56832>>]
    <2>1. Encoding(128512) = <<240, 159, 152, 128>> /\ 128512 <= LastChar
      BY EncodingCases, SMTT(20) DEF LastChar
    <2>2. \A room \in Int : U!wchar_to_utf16(128512, room) \in {<<>>, <<55357, 56832>>}
      BY SMTT(20) DEF U!wchar_to_utf16, U!NULL
    <2>3. Is(known, 128512)
      BY <1>0, <1>4, <2>1, <2>2, SMTT(20) DEF Is
    <2> QED BY <2>3, SMTT(20)
  <1> QED BY <1>1, <1>2, <1>3, <1>4, SMTT(20) DEF U!Known

\* utf8_to_utf16() goes along the two characters of a known name.
Two(x, y) ==
  /\ rc = "run" => \/ pos = 0 /\ out = <<>>
                   \/ pos = Len(x.utf8) /\ out = x.utf16
                   \/ pos = Len(job.in) /\ out = x.utf16 \o y.utf16
  /\ rc = "ok" => out = Append(x.utf16 \o y.utf16, 0)

\* The same for all pairs of known characters.
StandardInv ==
  job.to = "utf16" =>
    \A x, y \in U!Known : job.in = x.utf8 \o y.utf8 => Two(x, y)

\* A step over a known character: it is decoded, or does not fit.
LEMMA KnownRead ==
  ASSUME UtfInv, U!utf8_to_utf16, NEW x \in U!Known,
         pos + Len(x.utf8) <= Len(job.in),
         \A k \in 1 .. Len(x.utf8) : job.in[pos + k] = x.utf8[k]
  PROVE  \/ rc' = "ENAMETOOLONG"
         \/ rc' = "run" /\ pos' = pos + Len(x.utf8) /\ out' = out \o x.utf16
  <1> DEFINE ch == U!utf8_to_wchar(job.in, pos, job.insize - pos)
             units == U!wchar_to_utf16(ch.wc, job.outsize - Len(out))
             l == Len(x.utf8)
             n == Len(job.in)
  <1> USE NamesAssumption
  <1>1. /\ job.to = "utf16" /\ rc = "run"
        /\ IF pos >= job.insize THEN U!Terminate /\ UNCHANGED pos
           ELSE IF ch.len = 0 THEN rc' = "EILSEQ" /\ UNCHANGED <<pos, out>>
           ELSE IF units = <<>> THEN rc' = "ENAMETOOLONG" /\ UNCHANGED <<pos, out>>
           ELSE /\ rc' = "run" /\ out' = out \o units
                /\ pos' = IF ch.wc = 0 THEN job.insize ELSE pos + ch.len
    BY DEF U!utf8_to_utf16, U!NULL
  <1>2. /\ job.in \in Seq(U!char)
        /\ job.insize = n /\ job.outsize = NameMax + 1
        /\ out \in Seq(U!le16_t) /\ pos \in Nat /\ n \in Nat
    BY <1>1 DEF UtfInv
  <1>3. PICK wc : Is(x, wc)
    BY KnownChar
  <1>4. wc \in Nat /\ wc <= LastChar /\ wc # 0 /\ x.utf8 = Encoding(wc)
    BY <1>3 DEF Is
  <1>5. l \in Nat /\ l > 0
    BY <1>4, EncodingType
  <1>6. job.insize - pos \in Int /\ job.insize - pos >= l /\ ~ (pos >= job.insize)
    <2>1. pos + l <= n
      OBVIOUS
    <2> HIDE DEF l, n
    <2> QED BY <1>2, <1>5, <2>1
  <1>7. ch = [wc |-> wc, len |-> l]
    <2>1. job.insize - pos >= Len(Encoding(wc))
      BY <1>4, <1>6
    <2>2. \A k \in 1 .. Len(Encoding(wc)) : job.in[pos + k] = Encoding(wc)[k]
      BY <1>4
    <2>3. ch = [wc |-> wc, len |-> Len(Encoding(wc))]
      BY <1>4, <1>6, <2>1, <2>2, Decoded
    <2> QED BY <1>4, <2>3
  <1>8. ch.wc = wc /\ ch.len = l
    <2> HIDE DEF ch, l
    <2> QED BY <1>7
  <1>9. units \in {<<>>, x.utf16}
    <2>1. job.outsize - Len(out) \in Int
      BY <1>2
    <2> HIDE DEF ch
    <2> QED BY <1>3, <1>8, <2>1 DEF Is
  <1> HIDE DEF ch, units
  <1>10. ch.len # 0 /\ ch.wc # 0
    BY <1>4, <1>5, <1>8
  <1> HIDE DEF l
  <1>11. \/ rc' = "ENAMETOOLONG"
         \/ rc' = "run" /\ pos' = pos + l /\ out' = out \o units /\ units # <<>>
    BY <1>1, <1>6, <1>8, <1>10, Zenon
  <1>12. units # <<>> => units = x.utf16
    BY <1>9
  <1> QED BY <1>11, <1>12, Zenon DEF l

\* A step over a name of two known characters.
LEMMA StandardDecode ==
  ASSUME UtfInv, U!utf8_to_utf16, NEW x \in U!Known, NEW y \in U!Known,
         job.in = x.utf8 \o y.utf8, Two(x, y)
  PROVE  Two(x, y)'
  <1> USE NamesAssumption
  <1>1. job.to = "utf16" /\ rc = "run" /\ job' = job
    BY DEF U!utf8_to_utf16
  <1>2. PICK v : Is(x, v)
    BY KnownChar
  <1>3. PICK w : Is(y, w)
    BY KnownChar
  <1> DEFINE l == Len(x.utf8)
             m == Len(y.utf8)
  <1>4. /\ x.utf8 \in Seq(U!char) /\ y.utf8 \in Seq(U!char)
        /\ x.utf16 \in Seq(U!le16_t) /\ y.utf16 \in Seq(U!le16_t)
        /\ l \in Nat /\ m \in Nat
    BY <1>2, <1>3, EncodingType DEF Is
  <1>5. /\ Len(job.in) = l + m
        /\ \A k \in 1 .. l : job.in[k] = x.utf8[k]
        /\ \A k \in 1 .. m : job.in[l + k] = y.utf8[k]
    <2> DEFINE s == x.utf8
               t == y.utf8
    <2>1. job.in = s \o t /\ s \in Seq(U!char) /\ t \in Seq(U!char)
      BY <1>4
    <2> HIDE DEF s, t
    <2>2. /\ Len(job.in) = Len(s) + Len(t)
          /\ \A k \in 1 .. Len(s) : job.in[k] = s[k]
          /\ \A k \in 1 .. Len(t) : job.in[Len(s) + k] = t[k]
      BY <2>1
    <2> QED BY <2>2 DEF s, t
  <1>6. CASE pos = 0 /\ out = <<>>
    <2>1. 0 + l <= Len(job.in) /\ \A k \in 1 .. l : job.in[0 + k] = x.utf8[k]
      <3> HIDE DEF l, m
      <3>1. 0 + l <= Len(job.in)
        BY <1>4, <1>5
      <3>2. \A k \in 1 .. l : 0 + k = k
        BY <1>4
      <3> QED BY <1>5, <3>1, <3>2
    <2>2. \/ rc' = "ENAMETOOLONG"
          \/ rc' = "run" /\ pos' = 0 + l /\ out' = out \o x.utf16
      BY <1>6, <2>1, KnownRead
    <2>3. out \o x.utf16 = x.utf16 /\ 0 + l = l
      BY <1>4, <1>6
    <2> QED BY <2>2, <2>3 DEF Two
  <1>7. CASE pos = l /\ out = x.utf16
    <2>1. l + m <= Len(job.in)
      <3> HIDE DEF l, m
      <3> QED BY <1>4, <1>5
    <2>2. \/ rc' = "ENAMETOOLONG"
          \/ rc' = "run" /\ pos' = l + m /\ out' = x.utf16 \o y.utf16
      BY <1>5, <1>7, <2>1, KnownRead
    <2>3. rc' = "run" => pos' = Len(job'.in) /\ out' = x.utf16 \o y.utf16
      BY <1>1, <1>5, <2>2
    <2>4. rc' # "ok"
      BY <2>2
    <2> QED BY <2>3, <2>4 DEF Two
  <1>8. CASE pos = Len(job.in) /\ out = x.utf16 \o y.utf16
    <2>1. job.insize = Len(job.in) /\ pos \in Nat
      BY <1>1 DEF UtfInv
    <2>2. U!Terminate
      BY <1>8, <2>1 DEF U!utf8_to_utf16
    <2>3. \/ rc' = "ENAMETOOLONG"
          \/ rc' = "ok" /\ out' = Append(out, 0)
      BY <2>2 DEF U!Terminate
    <2> QED BY <1>8, <2>3 DEF Two
  <1> QED BY <1>1, <1>6, <1>7, <1>8 DEF Two

\* Every step preserves it.
LEMMA StandardStep ==
  ASSUME UtfInv, StandardInv, U!Next
  PROVE  StandardInv'
  <1> SUFFICES ASSUME job'.to = "utf16", NEW x \in U!Known, NEW y \in U!Known,
                      job'.in = x.utf8 \o y.utf8
               PROVE  Two(x, y)'
    BY DEF StandardInv
  <1>1. CASE U!utf16_to_utf8
    BY <1>1 DEF U!utf16_to_utf8
  <1>2. CASE U!utf8_to_utf16
    <2>1. job' = job /\ job.to = "utf16"
      BY <1>2 DEF U!utf8_to_utf16
    <2>2. Two(x, y)
      BY <2>1 DEF StandardInv
    <2> QED BY <1>2, <2>1, <2>2, StandardDecode
  <1>3. CASE U!ConvertBack
    BY <1>3 DEF U!ConvertBack, Two
  <1> QED BY <1>1, <1>2, <1>3 DEF U!Next

\* Known names are converted as they should be.
LEMMA StandardImplies ==
  ASSUME StandardInv
  PROVE  U!Standard
  <1> SUFFICES ASSUME job.to = "utf16", rc = "ok", NEW x \in U!Known, NEW y \in U!Known,
                      job.in = x.utf8 \o y.utf8
               PROVE  U!Until0(out) = x.utf16 \o y.utf16
    BY DEF U!Standard
  <1> DEFINE s == x.utf16
             t == y.utf16
             both == s \o t
             n == Len(both)
  <1>1. out = Append(both, 0)
    BY DEF StandardInv, Two
  <1>2. /\ s \in Seq(U!le16_t) /\ \A k \in 1 .. Len(s) : s[k] # 0
        /\ t \in Seq(U!le16_t) /\ \A k \in 1 .. Len(t) : t[k] # 0
    BY KnownChar DEF Is
  <1> HIDE DEF s, t
  <1>3. both \in Seq(U!le16_t) /\ n \in Nat
    BY <1>2
  <1>4. \A k \in 1 .. n : both[k] # 0
    BY <1>2
  <1> HIDE DEF both, n
  <1>5. /\ out \in Seq(U!le16_t) /\ Len(out) = n + 1 /\ out[n + 1] = 0
        /\ \A k \in 1 .. n : out[k] = both[k]
    BY <1>1, <1>3, ZeroUnit DEF n
  <1>6. n <= Len(out) /\ n < Len(out) /\ \A k \in 1 .. n : out[k] # 0
    BY <1>3, <1>4, <1>5
  <1>7. U!Until0(out) = SubSeq(out, 1, n)
    BY <1>3, <1>5, <1>6, UntilZero
  <1>8. SubSeq(out, 1, n) = both
    BY <1>3, <1>5, <1>6 DEF n
  <1> QED BY <1>7, <1>8 DEF both, s, t

\* Every name that is read from the device, converted and converted back is the
\* same name, and known characters are converted as the standard says.
THEOREM NamesKeptHolds == Spec => []NamesKept
  <1> DEFINE Inv == part = "utf" => KeptInv /\ StandardInv
  <1>1. Init => Inv
    <2>1. U!Init => StandardInv
      BY DEF U!Init, StandardInv, Two
    <2> QED BY <2>1, KeptInit DEF Init
  <1>2. Inv /\ [Next]_vars => Inv'
    <2> SUFFICES ASSUME Inv, [Next]_vars, part' = "utf" PROVE KeptInv' /\ StandardInv'
      OBVIOUS
    <2>1. CASE Utf
      BY <2>1, KeptStep, StandardStep DEF Utf, KeptInv
    <2>2. CASE UNCHANGED vars
      BY <2>2 DEF vars, utf, UtfInv, KeptInv, Encoded, Returned, Goes, StandardInv, Two
    <2> QED BY <2>1, <2>2 DEF Next, Time, Walks, Mkfs, Reconstruct
  <1>3. Inv => NamesKept
    BY KeptImplies, StandardImplies DEF NamesKept
  <1> QED BY <1>1, <1>2, <1>3, PTL DEF Spec

-----------------------------------------------------------------------------
(* Dates.                                                                  *)

\* The exFAT calendar, in which every fourth year is leap: the leap day of a
\* year and its first day.
Leap(y) == IF T!IS_LEAP_YEAR(y) THEN 1 ELSE 0
NewYear(y) == y * 365 + T!LEAP_YEARS(y)
\* The day of the year at which a month starts.
Start(y, m) == T!days_in_year[m] + T!leap_sub(y, m)
\* Day n of the year is in the month.
InMonth(y, m, n) ==
  Start(y, m) <= n /\ (m = 12 \/ n < Start(y, m + 1))

\* The division by the days of four years finds the year of a day.
LEMMA YearFound ==
  ASSUME NEW n \in Nat
  PROVE  LET y == (4 * n) \div 1461
         IN y \in Nat /\ n - NewYear(y) \in Nat /\ n - NewYear(y) <= 364 + Leap(y)
  <1> DEFINE y == (4 * n) \div 1461
             r == (4 * n) % 1461
             p == (1979 + y) \div 4
             q == (1979 + y) % 4
  <1>1. /\ y \in Nat /\ r \in Nat /\ r < 1461 /\ 4 * n = 1461 * y + r
    OBVIOUS
  <1> HIDE DEF y, r
  <1>2. /\ p \in Nat /\ q \in Nat /\ q < 4 /\ 1979 + y = 4 * p + q
        /\ (1980 + y) % 4 = 0 <=> q = 3
    BY <1>1
  <1>3. NewYear(y) = y * 365 + (p - 494)
    BY DEF NewYear, T!LEAP_YEARS
  <1>4. Leap(y) = IF q = 3 THEN 1 ELSE 0
    BY <1>2 DEF Leap, T!IS_LEAP_YEAR
  <1> HIDE DEF p, q
  <1>5. q = 0 \/ q = 1 \/ q = 2 \/ q = 3
    BY <1>2
  <1>6. n - NewYear(y) \in Int /\ 0 <= n - NewYear(y) /\ n - NewYear(y) <= 364 + Leap(y)
    <2>1. CASE q = 0
      BY <1>1, <1>2, <1>3, <1>4, <2>1
    <2>2. CASE q = 1
      BY <1>1, <1>2, <1>3, <1>4, <2>2
    <2>3. CASE q = 2
      BY <1>1, <1>2, <1>3, <1>4, <2>3
    <2>4. CASE q = 3
      BY <1>1, <1>2, <1>3, <1>4, <2>4
    <2> QED BY <1>5, <2>1, <2>2, <2>3, <2>4
  <1> QED BY <1>1, <1>6 DEF y

\* It finds the same year for all days of it.
LEMMA YearIs ==
  ASSUME NEW y \in Nat, NEW k \in Nat, k <= 364 + Leap(y)
  PROVE  (4 * (NewYear(y) + k)) \div 1461 = y
  <1> DEFINE p == (1979 + y) \div 4
             q == (1979 + y) % 4
  <1>2. /\ p \in Nat /\ q \in Nat /\ q < 4 /\ 1979 + y = 4 * p + q
        /\ (1980 + y) % 4 = 0 <=> q = 3
    OBVIOUS
  <1>3. NewYear(y) = y * 365 + (p - 494)
    BY DEF NewYear, T!LEAP_YEARS
  <1>4. Leap(y) = IF q = 3 THEN 1 ELSE 0
    BY <1>2 DEF Leap, T!IS_LEAP_YEAR
  <1> HIDE DEF p, q
  <1>5. q = 0 \/ q = 1 \/ q = 2 \/ q = 3
    BY <1>2
  <1> DEFINE r == 4 * (NewYear(y) + k) - 1461 * y
  <1>6. r \in Int /\ 0 <= r /\ r < 1461
    BY <1>2, <1>3, <1>4, <1>5
  <1>7. 4 * (NewYear(y) + k) = 1461 * y + r
    BY <1>2, <1>3
  <1> HIDE DEF r
  <1>8. (1461 * y + r) \div 1461 = y
    BY <1>6
  <1> QED BY <1>7, <1>8

\* The days before each month.
LEMMA Table ==
  /\ T!days_in_year[1] = 0 /\ T!days_in_year[2] = 31 /\ T!days_in_year[3] = 59
  /\ T!days_in_year[4] = 90 /\ T!days_in_year[5] = 120 /\ T!days_in_year[6] = 151
  /\ T!days_in_year[7] = 181 /\ T!days_in_year[8] = 212 /\ T!days_in_year[9] = 243
  /\ T!days_in_year[10] = 273 /\ T!days_in_year[11] = 304 /\ T!days_in_year[12] = 334
  BY DEF T!days_in_year

\* The days before each month in a year.
LEMMA Starts ==
  ASSUME NEW y
  PROVE  /\ Leap(y) \in {0, 1}
         /\ Start(y, 1) = 0 /\ Start(y, 2) = 31 /\ Start(y, 3) = 59 + Leap(y)
         /\ Start(y, 4) = 90 + Leap(y) /\ Start(y, 5) = 120 + Leap(y)
         /\ Start(y, 6) = 151 + Leap(y) /\ Start(y, 7) = 181 + Leap(y)
         /\ Start(y, 8) = 212 + Leap(y) /\ Start(y, 9) = 243 + Leap(y)
         /\ Start(y, 10) = 273 + Leap(y) /\ Start(y, 11) = 304 + Leap(y)
         /\ Start(y, 12) = 334 + Leap(y)
  BY Table DEF Start, T!leap_sub, Leap

\* They are numbers.
LEMMA StartType == \A y : \A m \in 1 .. 12 : Start(y, m) \in Nat
  BY Starts

\* The loop over the months ends at the month the day is in.
LEMMA MonthIs ==
  ASSUME NEW y, NEW m \in 1 .. 12, NEW n \in Nat, InMonth(y, m, n)
  PROVE  T!month_of(y, n) = m
  <1> DEFINE fits == {k \in 1 .. 12 : \/ k = 12
                                      \/ n - T!leap_sub(y, k)
                                          < T!days_in_year[k + 1] + T!leap_day(y, k)}
  <1>1. T!month_of(y, n) = CHOOSE k \in fits : \A j \in fits : k <= j
    BY DEF T!month_of
  <1>2. \A k \in 1 .. 12 : k \in fits <=> k = 12 \/ n < Start(y, k + 1)
    <2> SUFFICES ASSUME NEW k \in 1 .. 12, k # 12
                 PROVE  n - T!leap_sub(y, k) < T!days_in_year[k + 1] + T!leap_day(y, k)
                          <=> n < Start(y, k + 1)
      OBVIOUS
    <2> DEFINE s == T!leap_sub(y, k)
               t == T!leap_day(y, k)
               s1 == T!leap_sub(y, k + 1)
               d == T!days_in_year[k + 1]
    <2>1. s \in Int /\ t \in Int /\ s1 \in Int /\ s1 = s + t
      BY DEF T!leap_sub, T!leap_day
    <2>2. d \in Int
      BY Table
    <2>3. Start(y, k + 1) = d + s1
      BY DEF Start
    <2> HIDE DEF s, t, s1, d
    <2>4. n - s < d + t <=> n < d + s1
      BY <2>1, <2>2
    <2> QED BY <2>3, <2>4 DEF s, t, s1, d
  <1> HIDE DEF fits
  <1>3. m \in fits
    BY <1>2 DEF InMonth
  <1>4. ASSUME NEW k \in fits PROVE k \in 1 .. 12 /\ m <= k
    <2>1. k \in 1 .. 12
      BY DEF fits
    <2>2. ASSUME k < m PROVE FALSE
      <3>1. n < Start(y, k + 1)
        BY <1>2, <1>4, <2>1, <2>2
      <3>2. Start(y, k + 1) <= Start(y, m)
        BY <2>1, <2>2, Starts
      <3>3. Start(y, m) <= n /\ Start(y, m) \in Nat /\ Start(y, k + 1) \in Nat
        BY <2>1, <2>2, StartType DEF InMonth
      <3> QED BY <3>1, <3>2, <3>3
    <2> QED BY <2>1, <2>2
  <1> DEFINE P(k) == \A j \in fits : k <= j
  <1>5. P(m)
    BY <1>4
  <1>6. \A k \in fits : P(k) => k = m
    BY <1>3, <1>4
  <1> HIDE DEF P
  <1>7. (CHOOSE k \in fits : P(k)) = m
    BY <1>3, <1>5, <1>6
  <1> QED BY <1>1, <1>7 DEF P

\* Every day is in a month.
LEMMA MonthFound ==
  ASSUME NEW y, NEW n \in Nat
  PROVE  \E m \in 1 .. 12 : InMonth(y, m, n)
  BY Starts DEF InMonth

-----------------------------------------------------------------------------
(* Times of the day.                                                       *)

\* The hour, the minute, the pair of seconds and the odd second of a second.
Reads(s, h, m, w, o) ==
  /\ s \div 3600 = h /\ (s % 3600) \div 60 = m /\ (s % 60) \div 2 = w /\ s % 2 = o
  /\ h \in 0 .. 23 /\ m \in 0 .. 59 /\ w \in 0 .. 29 /\ o \in 0 .. 1
  /\ s = h * 3600 + m * 60 + w * 2 + o

\* The fields of a time of the day.
LEMMA Clock ==
  ASSUME NEW s \in Nat, s < 86400
  PROVE  Reads(s, s \div 3600, (s % 3600) \div 60, (s % 60) \div 2, s % 2)
  BY SMTT(20) DEF Reads

-----------------------------------------------------------------------------
(* Time zones.                                                             *)

\* The seconds of a day.
LEMMA DayLengthIs == T!DayLength = 86400
  BY DEF T!DayLength

\* The days from 1970 to 1980.
LEMMA EpochIs == T!EPOCH_DIFF_DAYS = 3652
  BY DEF T!EPOCH_DIFF_DAYS

\* A number of seconds.
Total(t) == t.d * 86400 + t.s
IsTime(t) == t = [d |-> t.d, s |-> t.s] /\ t.d \in Int /\ t.s \in Nat /\ t.s < 86400

\* Adding seconds to a time.
LEMMA LaterTime ==
  ASSUME NEW t, t.d \in Int, t.s \in Int, NEW x \in Int
  PROVE  IsTime(T!Later(t, x)) /\ Total(T!Later(t, x)) = Total(t) + x
  <1> DEFINE q == (t.s + x) \div 86400
             r == (t.s + x) % 86400
             u == T!Later(t, x)
  <1>1. q \in Int /\ r \in Nat /\ r < 86400 /\ t.s + x = q * 86400 + r
    BY SMTT(20)
  <1>2. u = [d |-> t.d + q, s |-> r]
    BY DayLengthIs, SMTT(20) DEF T!Later
  <1> HIDE DEF q, r, u
  <1>3. u.d = t.d + q /\ u.s = r /\ u = [d |-> u.d, s |-> u.s]
    BY <1>2, SMTT(20)
  <1>4. Total(u) = Total(t) + x
    BY <1>1, <1>3, SMTT(20) DEF Total
  <1>5. IsTime(u)
    BY <1>1, <1>3, SMTT(20) DEF IsTime
  <1> QED BY <1>4, <1>5 DEF u

\* A time is its number of seconds.
LEMMA SameTime ==
  ASSUME NEW t, NEW u, IsTime(t), IsTime(u), Total(t) = Total(u)
  PROVE  t = u
  <1> DEFINE x == t.d
             y == t.s
             z == u.d
             w == u.s
  <1>1. /\ x \in Int /\ y \in Nat /\ y < 86400 /\ z \in Int /\ w \in Nat /\ w < 86400
        /\ x * 86400 + y = z * 86400 + w
    BY SMTT(20) DEF IsTime, Total
  <1>2. t = [d |-> x, s |-> y] /\ u = [d |-> z, s |-> w]
    BY SMTT(20) DEF IsTime
  <1> HIDE DEF x, y, z, w
  <1>3. x = z /\ y = w
    BY <1>1, SMTT(20)
  <1> QED BY <1>2, <1>3, SMTT(20)

-----------------------------------------------------------------------------
(* Timestamps.                                                             *)

\* The timestamp of a day of a year, in a month, and a second of the day; of a
\* day of the exFAT calendar.
Fields(y, k, m, s) ==
  [year |-> y % 128, month |-> m, day |-> k - Start(y, m) + 1,
   hour |-> s \div 3600, min |-> (s % 3600) \div 60,
   twosec |-> (s % 60) \div 2, cs |-> (s % 2) * 100]

YearOf(n) == (4 * n) \div 1461

Stamped(n, s) ==
  LET y == YearOf(n)
      k == n - NewYear(y)
  IN Fields(y, k, T!month_of(y, k), s)

\* The day and the second a timestamp names.
DayOf(f) == NewYear(f.year) + Start(f.year, f.month) + f.day - 1
SecondOf(f) == f.hour * 3600 + f.min * 60 + f.twosec * 2 + f.cs \div 100

\* The local time that is stored.
Stored(t, tz) ==
  LET local == T!Later([d |-> t.d - 3652, s |-> t.s], -tz)
  IN IF local.d < 0 THEN [d |-> 0, s |-> 0] ELSE local

\* exfat_unix2exfat() stores the local time.
LEMMA StampStored ==
  ASSUME NEW t, IsTime(t)
  PROVE  T!exfat_unix2exfat(t) = Stamped(Stored(t, exfat_timezone).d, Stored(t, exfat_timezone).s)
  <1>1. [t EXCEPT !.d = @ - T!EPOCH_DIFF_DAYS] = [d |-> t.d - 3652, s |-> t.s]
    BY EpochIs, SMTT(20) DEF IsTime
  <1> DEFINE u == Stored(t, exfat_timezone)
             y == YearOf(u.d)
             k == u.d - NewYear(y)
             m == T!month_of(y, k)
             local == T!Later([t EXCEPT !.d = @ - T!EPOCH_DIFF_DAYS], -exfat_timezone)
             v == IF local.d < 0 THEN [d |-> 0, s |-> 0] ELSE local
  <1>2. u = v
    BY <1>1 DEF Stored
  <1> DEFINE yv == (4 * v.d) \div 1461
             kv == v.d - (yv * 365 + T!LEAP_YEARS(yv))
             mv == T!month_of(yv, kv)
  <1>3. T!exfat_unix2exfat(t) =
          [year |-> yv % 128, month |-> mv,
           day |-> kv - (T!days_in_year[mv] + T!leap_sub(yv, mv)) + 1,
           hour |-> v.s \div 3600, min |-> (v.s % 3600) \div 60,
           twosec |-> T!Seconds(v.s).twosec, cs |-> T!Seconds(v.s).cs]
    BY DEF T!exfat_unix2exfat
  <1> HIDE DEF u, v
  <1>4. yv = y /\ kv = k /\ mv = m
    BY <1>2 DEF YearOf, NewYear
  <1>5. T!Seconds(v.s).twosec = (u.s % 60) \div 2 /\ T!Seconds(v.s).cs = (u.s % 2) * 100
    BY <1>2 DEF T!Seconds
  <1> HIDE DEF y, k, m, yv, kv, mv
  <1>6. T!exfat_unix2exfat(t) = Fields(y, k, m, u.s)
    BY <1>2, <1>3, <1>4, <1>5 DEF Fields, Start
  <1> QED BY <1>6 DEF Stamped, y, k, m, u

\* A timestamp it writes fits its bit fields, is one that exfat_exfat2unix()
\* accepts, and names the day and the second it was made from.
LEMMA StampGood ==
  ASSUME NEW n \in Nat, NEW s \in Nat, s < 86400
  PROVE  LET f == Stamped(n, s) IN
         /\ f \in T!Timestamp /\ ~ T!BadStamp(f)
         /\ f.year = YearOf(n) % 128 /\ f.month \in 1 .. 12
         /\ NewYear(YearOf(n)) + Start(YearOf(n), f.month) + f.day - 1 = n
         /\ SecondOf(f) = s
  <1> DEFINE y == YearOf(n)
             k == n - NewYear(y)
             m == T!month_of(y, k)
             e == k - Start(y, m) + 1
             f == Stamped(n, s)
             h == s \div 3600
             o == (s % 3600) \div 60
             w == (s % 60) \div 2
             odd == s % 2
             z == odd * 100
  <1>1. y \in Nat /\ k \in Nat /\ k <= 364 + Leap(y)
    BY YearFound DEF YearOf
  <1>2. f = [year |-> y % 128, month |-> m, day |-> e, hour |-> h, min |-> o,
             twosec |-> w, cs |-> z]
    <2>1. f = Fields(y, k, m, s)
      BY DEF Stamped
    <2> HIDE DEF f, y, k, m
    <2> QED BY <2>1 DEF Fields
  <1>3. /\ h \in 0 .. 23 /\ o \in 0 .. 59 /\ w \in 0 .. 29 /\ z \in {0, 100}
        /\ h * 3600 + o * 60 + w * 2 + z \div 100 = s
    <2>1. Reads(s, h, o, w, odd)
      BY Clock
    <2> HIDE DEF h, o, w, odd
    <2>2. /\ h \in 0 .. 23 /\ o \in 0 .. 59 /\ w \in 0 .. 29 /\ odd \in 0 .. 1
          /\ s = h * 3600 + o * 60 + w * 2 + odd
      BY <2>1 DEF Reads
    <2>3. z \in {0, 100} /\ z \div 100 = odd
      BY <2>2
    <2> QED BY <2>2, <2>3, SMTT(20)
  <1> HIDE DEF f, h, o, w, z
  <1>4. y % 128 \in 0 .. 127
    BY <1>1
  <1> DEFINE yy == y % 128
  <1> HIDE DEF y, k, yy
  <1>5. m \in 1 .. 12 /\ InMonth(y, m, k)
    <2>1. PICK j \in 1 .. 12 : InMonth(y, j, k)
      BY <1>1, MonthFound
    <2>2. m = j
      BY <1>1, <2>1, MonthIs
    <2> QED BY <2>1, <2>2
  <1>6. e \in 1 .. 31
    <2> HIDE DEF m
    <2> QED BY <1>1, <1>5, Starts DEF InMonth
  <1>7. Start(y, m) \in Nat /\ NewYear(y) \in Int /\ k = n - NewYear(y)
    <2>1. NewYear(y) \in Int
      BY <1>1 DEF NewYear, T!LEAP_YEARS
    <2> QED BY <1>5, <2>1, StartType DEF k
  <1> DEFINE v == Start(y, m)
             x == NewYear(y)
  <1>8. x + v + e - 1 = n
    <2>1. e = k - v + 1 /\ v \in Nat /\ x \in Int /\ k = n - x
      BY <1>7
    <2> HIDE DEF e, v, x
    <2> QED BY <2>1
  <1> HIDE DEF m, e
  <1>9. /\ f.year = yy /\ f.month = m /\ f.day = e /\ f.hour = h /\ f.min = o
        /\ f.twosec = w /\ f.cs = z
    BY <1>2 DEF yy
  <1>10. f \in T!Timestamp
    <2>1. yy \in 0 .. 127
      BY <1>4 DEF yy
    <2>2. f = [year |-> yy, month |-> m, day |-> e, hour |-> h, min |-> o,
             twosec |-> w, cs |-> z]
      BY <1>2 DEF yy
    <2> QED BY <1>3, <1>5, <1>6, <2>1, <2>2 DEF T!Timestamp
  <1>11. ~ T!BadStamp(f)
    BY <1>3, <1>5, <1>6, <1>9 DEF T!BadStamp
  <1>12. SecondOf(f) = s
    BY <1>3, <1>9 DEF SecondOf
  <1>13. NewYear(y) + Start(y, f.month) + f.day - 1 = n
    BY <1>8, <1>9
  <1> QED BY <1>5, <1>9, <1>10, <1>11, <1>12, <1>13 DEF f, y, yy

\* A timestamp with a proper date is the one its day and its second have, but
\* for hundredths.
LEMMA StampIs ==
  ASSUME NEW f \in T!Timestamp, ~ T!BadStamp(f),
         InMonth(f.year, f.month, Start(f.year, f.month) + f.day - 1),
         f.day <= 31
  PROVE  /\ DayOf(f) \in Nat /\ SecondOf(f) \in Nat /\ SecondOf(f) < 86400
         /\ Stamped(DayOf(f), SecondOf(f)) = [f EXCEPT !.cs = (@ \div 100) * 100]
  <1> DEFINE y == f.year
             m == f.month
             k == Start(y, m) + f.day - 1
             n == NewYear(y) + k
             s == SecondOf(f)
  <1>1. /\ y \in 0 .. 127 /\ m \in 1 .. 12 /\ f.day \in 1 .. 31 /\ f.hour \in 0 .. 23
        /\ f.min \in 0 .. 59 /\ f.twosec \in 0 .. 29 /\ f.cs \in 0 .. 199
    BY DEF T!Timestamp, T!BadStamp
  <1>2. f.cs \div 100 \in 0 .. 1
    BY <1>1
  <1>3. /\ s \in Nat /\ s < 86400
        /\ s \div 3600 = f.hour /\ (s % 3600) \div 60 = f.min
        /\ (s % 60) \div 2 = f.twosec /\ s % 2 = f.cs \div 100
    <2> DEFINE h == f.hour
               o == f.min
               w == f.twosec
               odd == f.cs \div 100
    <2>1. s = h * 3600 + o * 60 + w * 2 + odd
      BY DEF SecondOf
    <2>2. h \in 0 .. 23 /\ o \in 0 .. 59 /\ w \in 0 .. 29 /\ odd \in 0 .. 1
      BY <1>1, <1>2
    <2> HIDE DEF s, h, o, w, odd
    <2>3. s \in Nat /\ s < 86400 /\ Reads(s, h, o, w, odd)
      BY <2>1, <2>2, SMTT(20) DEF Reads
    <2> QED BY <2>3 DEF Reads, h, o, w, odd
  <1>4. y \in Nat /\ NewYear(y) \in Nat
    BY <1>1 DEF NewYear, T!LEAP_YEARS
  <1>5. Start(y, m) \in Nat /\ k \in Nat
    BY <1>1, StartType
  <1>6. k <= 364 + Leap(y)
    <2> HIDE DEF y, m
    <2> QED BY <1>1, Starts DEF InMonth, y, m
  <1>7. YearOf(n) = y
    BY <1>4, <1>5, <1>6, YearIs DEF YearOf
  <1>8. n \in Nat /\ n - NewYear(y) = k /\ DayOf(f) = n
    <2> DEFINE v == Start(y, m)
               x == NewYear(y)
               e == f.day
    <2>1. v \in Nat /\ x \in Nat /\ e \in Nat /\ e >= 1 /\ k = v + e - 1 /\ n = x + k
      BY <1>1, <1>4, <1>5
    <2>2. DayOf(f) = x + v + e - 1
      BY DEF DayOf
    <2> HIDE DEF v, x, e, k, n
    <2>3. k \in Nat /\ n \in Nat /\ n - x = k /\ n = x + v + e - 1
      BY <2>1
    <2> QED BY <2>2, <2>3 DEF x
  <1>9. T!month_of(y, k) = m
    BY <1>1, <1>5, MonthIs
  <1>10. Stamped(n, s) =
           [year |-> y % 128, month |-> m, day |-> k - Start(y, m) + 1,
            hour |-> f.hour, min |-> f.min, twosec |-> f.twosec,
            cs |-> (f.cs \div 100) * 100]
    <2> HIDE DEF n, s, y, m, k
    <2>1. Stamped(n, s) = Fields(y, k, m, s)
      BY <1>7, <1>8, <1>9 DEF Stamped
    <2> QED BY <1>3, <2>1 DEF Fields
  <1>11. y % 128 = y /\ k - Start(y, m) + 1 = f.day
    BY <1>1, <1>5
  <1>12. [f EXCEPT !.cs = (@ \div 100) * 100] =
           [year |-> y, month |-> m, day |-> f.day, hour |-> f.hour,
            min |-> f.min, twosec |-> f.twosec, cs |-> (f.cs \div 100) * 100]
    BY DEF T!Timestamp
  <1> HIDE DEF y, m, k, n
  <1> QED BY <1>3, <1>8, <1>10, <1>11, <1>12 DEF s

\* The local time, counted from 1980; a time before that is the epoch.
LEMMA StoredTime ==
  ASSUME NEW t, IsTime(t), NEW tz \in Int
  PROVE  LET u == Stored(t, tz) IN
         /\ u.d \in Nat /\ u.s \in Nat /\ u.s < 86400
         /\ Total(u) = IF Total(t) < 3652 * 86400 + tz THEN 0
                       ELSE Total(t) - 3652 * 86400 - tz
  <1> DEFINE r == [d |-> t.d - 3652, s |-> t.s]
             local == T!Later(r, -tz)
             u == Stored(t, tz)
  <1>1. r.d = t.d - 3652 /\ r.s = t.s /\ r.d \in Int /\ r.s \in Int /\ -tz \in Int
    BY SMTT(20) DEF IsTime
  <1>2. u = IF local.d < 0 THEN [d |-> 0, s |-> 0] ELSE local
    BY DEF Stored
  <1>3. IsTime(local) /\ Total(local) = Total(r) + (-tz)
    <2> HIDE DEF r
    <2> QED BY <1>1, LaterTime
  <1> HIDE DEF r, local, u
  <1> DEFINE x == t.d
             y == t.s
             z == local.d
             w == local.s
  <1>4. /\ x \in Int /\ y \in Nat /\ y < 86400 /\ z \in Int /\ w \in Nat /\ w < 86400
        /\ Total(t) = x * 86400 + y /\ Total(local) = z * 86400 + w
        /\ Total(r) = (x - 3652) * 86400 + y
    BY <1>1, <1>3, SMTT(20) DEF IsTime, Total
  <1>5. CASE z < 0
    <2>1. u.d = 0 /\ u.s = 0
      BY <1>2, <1>5, SMTT(20)
    <2>2. Total(u) = 0
      BY <2>1, SMTT(20) DEF Total
    <2> HIDE DEF x, y, z, w
    <2>3. Total(t) < 3652 * 86400 + tz
      BY <1>3, <1>4, <1>5, SMTT(20)
    <2> QED BY <2>1, <2>2, <2>3, SMTT(20) DEF u
  <1>6. CASE ~ (z < 0)
    <2>1. u = local
      BY <1>2, <1>6
    <2> HIDE DEF x, y, z, w
    <2>2. z \in Nat /\ ~ (Total(t) < 3652 * 86400 + tz)
          /\ Total(local) = Total(t) - 3652 * 86400 - tz
      BY <1>3, <1>4, <1>6, SMTT(20)
    <2> QED BY <1>4, <2>1, <2>2, SMTT(20) DEF u, z, w
  <1> QED BY <1>5, <1>6

\* exfat_exfat2unix() returns a time, the one the timestamp names.
LEMMA Loaded ==
  ASSUME NEW f \in T!Timestamp, exfat_timezone \in Int
  PROVE  LET t == T!exfat_exfat2unix(f) IN
         /\ IsTime(t)
         /\ ~ T!BadStamp(f) =>
              Total(t) = (3652 + DayOf(f)) * 86400 + SecondOf(f) + exfat_timezone
  <1> DEFINE t == T!exfat_exfat2unix(f)
  <1>1. CASE T!BadStamp(f)
    <2>1. t = [d |-> 0, s |-> 0]
      BY <1>1 DEF T!exfat_exfat2unix
    <2> QED BY <1>1, <2>1, SMTT(20) DEF IsTime
  <1>2. CASE ~ T!BadStamp(f)
    <2>1. /\ f.year \in 0 .. 127 /\ f.month \in 1 .. 12 /\ f.day \in 1 .. 31
          /\ f.hour \in 0 .. 23 /\ f.min \in 0 .. 59 /\ f.twosec \in 0 .. 29
          /\ f.cs \in 0 .. 199
      BY <1>2 DEF T!Timestamp, T!BadStamp
    <2> DEFINE plus == IF T!IS_LEAP_YEAR(f.year) /\ f.month > 2 THEN 1 ELSE 0
               r == [d |-> T!EPOCH_DIFF_DAYS + f.year * 365 + T!LEAP_YEARS(f.year)
                             + T!days_in_year[f.month] + f.day - 1 + plus,
                     s |-> f.hour * 3600 + f.min * 60 + f.twosec * 2 + f.cs \div 100]
    <2>2. t = T!Later(r, exfat_timezone)
      BY <1>2 DEF T!exfat_exfat2unix
    <2>3. plus = T!leap_sub(f.year, f.month)
      BY <2>1 DEF T!leap_sub
    <2>4. /\ NewYear(f.year) \in Int /\ T!LEAP_YEARS(f.year) \in Int
          /\ f.year * 365 \in Int
      BY <2>1 DEF NewYear, T!LEAP_YEARS
    <2>5. T!days_in_year[f.month] \in Int /\ T!leap_sub(f.year, f.month) \in Int
      BY <2>1, Table DEF T!leap_sub
    <2>6. SecondOf(f) \in Int
      <3> DEFINE h == f.hour
                 o == f.min
                 w == f.twosec
                 x == f.cs
      <3>1. h \in Int /\ o \in Int /\ w \in Int /\ x \in Int
        BY <2>1
      <3>2. SecondOf(f) = h * 3600 + o * 60 + w * 2 + x \div 100
        BY DEF SecondOf
      <3> HIDE DEF h, o, w, x
      <3> QED BY <3>1, <3>2, SMTT(20)
    <2>7. r.s = SecondOf(f)
      BY DEF SecondOf
    <2>8. r.d = 3652 + DayOf(f) /\ DayOf(f) \in Int
      <3> DEFINE y == f.year * 365
                 z == T!LEAP_YEARS(f.year)
                 m == T!days_in_year[f.month]
                 p == T!leap_sub(f.year, f.month)
                 e == f.day
      <3>1. y \in Int /\ z \in Int /\ m \in Int /\ p \in Int /\ e \in Int
        BY <2>1, <2>4, <2>5
      <3>2. DayOf(f) = y + z + (m + p) + e - 1
        BY DEF DayOf, NewYear, Start
      <3>3. r.d = T!EPOCH_DIFF_DAYS + y + z + m + e - 1 + plus
        OBVIOUS
      <3> HIDE DEF y, z, m, e, r, plus
      <3>4. r.d = 3652 + y + z + m + e - 1 + p
        BY <2>3, <3>3, EpochIs
      <3> HIDE DEF p
      <3> QED BY <3>1, <3>2, <3>4, SMTT(20)
    <2> HIDE DEF r, t
    <2>9. r.d \in Int /\ r.s \in Int
      BY <2>6, <2>7, <2>8, SMTT(20)
    <2>10. IsTime(t) /\ Total(t) = Total(r) + exfat_timezone
      BY <2>2, <2>9, LaterTime
    <2>11. Total(r) = (3652 + DayOf(f)) * 86400 + SecondOf(f)
      BY <2>7, <2>8, SMTT(20) DEF Total
    <2> QED BY <2>10, <2>11, SMTT(20) DEF t
  <1> QED BY <1>1, <1>2

-----------------------------------------------------------------------------
(* The Gregorian calendar.                                                 *)

\* Until 2099 every fourth year is leap.
LEMMA GregorianLeap ==
  ASSUME NEW y \in Nat, y < 120
  PROVE  T!Gregorian(1980 + y) <=> T!IS_LEAP_YEAR(y)
  BY SMTT(20) DEF T!Gregorian, T!IS_LEAP_YEAR

\* The months in the reference are those of the table.
LEMMA MonthLengths ==
  ASSUME NEW y \in Nat, y < 120
  PROVE  \A m \in 1 .. 11 : Start(y, m + 1) = Start(y, m) + T!MonthLength(1980 + y, m)
  <1> DEFINE L(m) == T!MonthLength(1980 + y, m)
  <1>1. L(2) = 28 + Leap(y)
    BY GregorianLeap DEF T!MonthLength, Leap
  <1>2. /\ L(1) = 31 /\ L(3) = 31 /\ L(4) = 30 /\ L(5) = 31 /\ L(6) = 30 /\ L(7) = 31
        /\ L(8) = 31 /\ L(9) = 30 /\ L(10) = 31 /\ L(11) = 30
    BY DEF T!MonthLength
  <1> HIDE DEF L
  <1>3. \A m \in 1 .. 11 : Start(y, m + 1) = Start(y, m) + L(m)
    BY <1>1, <1>2, Starts
  <1> QED BY <1>3 DEF L

\* The leap days before a year.
LeapsTo(x) == (x - 1) \div 4 - (x - 1) \div 100 + (x - 1) \div 400

\* The lengths of the months, added up.
Sums(S, year) ==
  /\ S[1] = 0 /\ \A k \in 1 .. 12 : S[k] \in Int
  /\ \A k \in 1 .. 11 : S[k + 1] = S[k] + T!MonthLength(year, k)

\* The reference calendar with these sums.
LEMMA DayNumberWith ==
  ASSUME NEW year, NEW m \in 1 .. 12, NEW e, NEW S, Sums(S, year)
  PROVE  T!DayNumber(year, m, e) =
           (year - 1970) * 365 + LeapsTo(year) - LeapsTo(1970) + S[m] + e - 1
  <1>0. /\ S[1] = 0 /\ \A k \in 1 .. 12 : S[k] \in Int
        /\ \A k \in 1 .. 11 : S[k + 1] = S[k] + T!MonthLength(year, k)
    BY DEF Sums
  <1> DEFINE L(k) == T!MonthLength(year, k)
             F(g) == [k \in 1 .. 12 |-> IF k = 1 THEN 0 ELSE g[k - 1] + L(k - 1)]
             f == CHOOSE g : g = F(g)
             h == [k \in 1 .. 12 |-> S[k]]
  <1>1. h = F(h)
    <2>1. ASSUME NEW k \in 1 .. 12 PROVE h[k] = F(h)[k]
      <3>1. CASE k = 1
        BY <1>0, <3>1
      <3>2. CASE k # 1
        <4>1. k - 1 \in 1 .. 11 /\ k - 1 \in 1 .. 12 /\ (k - 1) + 1 = k
          BY <3>2
        <4>2. S[k] = S[k - 1] + L(k - 1)
          <5>1. S[(k - 1) + 1] = S[k - 1] + L(k - 1)
            BY <1>0, <4>1
          <5> QED BY <4>1, <5>1
        <4>3. F(h)[k] = S[k - 1] + L(k - 1)
          <5> HIDE DEF L
          <5> QED BY <3>2, <4>1
        <4> HIDE DEF L, F
        <4> QED BY <4>2, <4>3
      <3> QED BY <3>1, <3>2
    <2> DEFINE z == F(h)
    <2>2. h = [k \in 1 .. 12 |-> h[k]] /\ z = [k \in 1 .. 12 |-> z[k]]
      <3> HIDE DEF L
      <3> QED OBVIOUS
    <2> HIDE DEF h, F, z
    <2> QED BY <2>1, <2>2 DEF z
  <1>2. f = F(f)
    <2> HIDE DEF F, h
    <2> QED BY <1>1
  <1>3. f[1] = 0 /\ \A k \in 2 .. 12 : f[k] = f[k - 1] + L(k - 1)
    <2> HIDE DEF f, L
    <2>1. \A k \in 1 .. 12 : f[k] = IF k = 1 THEN 0 ELSE f[k - 1] + L(k - 1)
      BY <1>2
    <2> QED BY <2>1
  <1> HIDE DEF f, L
  <1>4. f[1] = S[1] /\ \A k \in 1 .. 11 : f[k + 1] = f[k] + L(k)
    BY <1>0, <1>3
  <1>5. \A k \in 1 .. 11 : f[k] = S[k] => f[k + 1] = S[k + 1]
    BY <1>0, <1>4 DEF L
  <1>6. f[m] = S[m]
    BY <1>4, <1>5
  <1>7. T!DayNumber(year, m, e) =
          (year - 1970) * 365 + LeapsTo(year) - LeapsTo(1970) + f[m] + e - 1
    BY DEF T!DayNumber, f, F, L, LeapsTo
  <1> QED BY <1>6, <1>7

\* Until 2099 the reference and the table agree on the number of a day.
LEMMA DayNumberIs ==
  ASSUME NEW y \in Nat, y < 120, NEW m \in 1 .. 12, NEW e \in Int
  PROVE  T!DayNumber(1980 + y, m, e) = 3652 + NewYear(y) + Start(y, m) + e - 1
  <1> DEFINE S == [k \in 1 .. 12 |-> Start(y, k)]
             year == 1980 + y
             x == LeapsTo(year)
             w == LeapsTo(1970)
             v == T!LEAP_YEARS(y)
             p == Start(y, m)
  <1>1. /\ S[1] = 0 /\ year \in Int /\ \A k \in 1 .. 12 : S[k] \in Int
        /\ \A k \in 1 .. 11 : S[k + 1] = S[k] + T!MonthLength(year, k)
    BY Starts, StartType, MonthLengths
  <1>0. Sums(S, year)
    <2> HIDE DEF year, S
    <2> QED BY <1>1 DEF Sums
  <1>2. T!DayNumber(year, m, e) = (year - 1970) * 365 + x - w + p + e - 1
    <2>0. S[m] = p
      OBVIOUS
    <2> HIDE DEF year, S, p
    <2>1. T!DayNumber(year, m, e) =
            (year - 1970) * 365 + LeapsTo(year) - LeapsTo(1970) + S[m] + e - 1
      BY <1>0, DayNumberWith, SMTT(20)
    <2> QED BY <2>0, <2>1
  <1>3. w = 477 /\ x = (1979 + y) \div 4 - 15 /\ v = (1979 + y) \div 4 - 494
    BY SMTT(20) DEF LeapsTo, T!LEAP_YEARS
  <1>4. v \in Int /\ NewYear(y) = y * 365 + v /\ p \in Int
    BY StartType DEF T!LEAP_YEARS, NewYear
  <1> HIDE DEF x, w, v, p
  <1>5. x \in Int /\ x - w = v + 2 /\ w \in Int
    BY <1>3, SMTT(20)
  <1>6. (year - 1970) * 365 + x - w + p + e - 1 = 3652 + (y * 365 + v) + p + e - 1
    BY <1>4, <1>5, SMTT(20)
  <1> QED BY <1>2, <1>4, <1>6, SMTT(20) DEF p

\* The first day of 2100, the limit of the property.
LEMMA Day2100 == T!DayNumber(2100, 1, 1) = 47482
  <1> DEFINE S == [k \in 1 .. 12 |-> T!days_in_year[k]]
             L(k) == T!MonthLength(2100, k)
  <1>1. ~ T!Gregorian(2100)
    BY SMTT(20) DEF T!Gregorian
  <1>2. L(2) = 28
    BY <1>1 DEF T!MonthLength
  <1>3. /\ L(1) = 31 /\ L(3) = 31 /\ L(4) = 30 /\ L(5) = 31 /\ L(6) = 30 /\ L(7) = 31
        /\ L(8) = 31 /\ L(9) = 30 /\ L(10) = 31 /\ L(11) = 30
    BY DEF T!MonthLength
  <1> HIDE DEF L
  <1>4. /\ S[1] = 0 /\ \A k \in 1 .. 12 : S[k] \in Int
        /\ \A k \in 1 .. 11 : S[k + 1] = S[k] + L(k)
    BY <1>2, <1>3, Table
  <1> HIDE DEF S
  <1>5. T!DayNumber(2100, 1, 1) =
          (2100 - 1970) * 365 + LeapsTo(2100) - LeapsTo(1970) + S[1] + 1 - 1
    <2>1. Sums(S, 2100)
      BY <1>4 DEF Sums, L
    <2> QED BY <2>1, DayNumberWith, SMTT(20)
  <1>6. LeapsTo(2100) = 509 /\ LeapsTo(1970) = 477
    BY SMTT(20) DEF LeapsTo
  <1> QED BY <1>4, <1>5, <1>6, SMTT(20)

-----------------------------------------------------------------------------
(* A file's time.                                                          *)

\* What is stored of a time.
StampOf(t, tz) == Stamped(Stored(t, tz).d, Stored(t, tz).s)

\* The time t is the one that the timestamp f names in a time zone.
Names(f, tz, t) ==
  ~ T!BadStamp(f) => Total(t) = (3652 + DayOf(f)) * 86400 + SecondOf(f) + tz

\* The timestamp in the entry is the one of the time the file was given, or
\* the one it was found with, and the node has the time it names.
TimeInv ==
  /\ exfat_timezone \in Zones /\ zone \in Zones
  /\ stamp \in T!Timestamp /\ found \in T!Timestamp
  /\ IsTime(mtime) /\ IsTime(given)
  /\ pc \in {"dirty", "stored", "loaded", "rewritten"}
  /\ pc = "dirty" => mtime = given /\ found = T!NoStamp
  /\ pc \in {"stored", "loaded"} =>
       /\ given # T!None => stamp = StampOf(given, zone)
       /\ found # T!NoStamp => stamp = found
  /\ pc = "loaded" => Names(stamp, exfat_timezone, mtime)
  /\ pc = "rewritten" =>
       /\ stamp = StampOf(mtime, exfat_timezone)
       /\ found # T!NoStamp => Names(found, exfat_timezone, mtime)

\* A time zone.
LEMMA ZoneType == \A z \in Zones : z \in Int /\ -86400 < z /\ z < 86400
  <1>1. \A z \in Zones : z \in Int /\ -T!DayLength < z /\ z < T!DayLength
    BY TimesAssumption
  <1> QED BY <1>1, DayLengthIs, SMTT(20)

\* A time given to a file.
LEMMA TimeType == \A t \in Times : IsTime(t)
  <1> SUFFICES ASSUME NEW t \in Times PROVE IsTime(t)
    OBVIOUS
  <1>1. T!DayLength \in Int
    BY DayLengthIs, SMTT(20)
  <1>2. /\ t = [d |-> t.d, s |-> t.s] /\ t.d \in Int /\ t.s \in Nat
        /\ t.s < T!DayLength
    BY <1>1, TimesAssumption
  <1> QED BY <1>2, DayLengthIs, SMTT(20) DEF IsTime

\* A timestamp that is written is a good one.
LEMMA StampOfType ==
  ASSUME NEW t, IsTime(t), NEW tz \in Int
  PROVE  StampOf(t, tz) \in T!Timestamp /\ ~ T!BadStamp(StampOf(t, tz))
  <1> DEFINE n == Stored(t, tz).d
             s == Stored(t, tz).s
  <1>1. n \in Nat /\ s \in Nat /\ s < 86400
    BY StoredTime
  <1> HIDE DEF n, s
  <1>2. Stamped(n, s) \in T!Timestamp /\ ~ T!BadStamp(Stamped(n, s))
    BY <1>1, StampGood
  <1> QED BY <1>2 DEF StampOf, n, s

\* No timestamp.
LEMMA NoStampType == T!NoStamp \in T!Timestamp
  BY DEF T!NoStamp, T!Timestamp

\* No time.
LEMMA NoneTime == IsTime(T!None)
  BY SMTT(20) DEF T!None, IsTime

\* A file has a time or a timestamp.
LEMMA TimeInit == T!Init => TimeInv
  <1> SUFFICES ASSUME T!Init PROVE TimeInv
    OBVIOUS
  <1>1. exfat_timezone \in Zones /\ zone \in Zones
    BY DEF T!Init
  <1>2. CASE /\ mtime \in Times /\ given = mtime /\ found = T!NoStamp
             /\ stamp = T!NoStamp /\ pc = "dirty"
    BY <1>1, <1>2, TimeType, NoStampType DEF TimeInv
  <1>3. CASE /\ stamp \in Stamps /\ found = stamp /\ given = T!None
             /\ mtime = T!None /\ pc = "stored"
    BY <1>1, <1>3, NoneTime, TimesAssumption DEF TimeInv
  <1> QED BY <1>2, <1>3 DEF T!Init

\* Flushing, loading, writing again and another time zone preserve it.
LEMMA TimeStep ==
  ASSUME TimeInv, T!Next
  PROVE  TimeInv'
  <1>0. exfat_timezone \in Int /\ exfat_timezone \in Zones
    BY ZoneType DEF TimeInv
  <1>1. CASE T!Flush
    <2>1. /\ pc = "dirty" /\ pc' = "stored" /\ zone' = exfat_timezone
          /\ UNCHANGED <<exfat_timezone, mtime, given, found>>
          /\ stamp' = T!exfat_unix2exfat(mtime)
      BY <1>1 DEF T!Flush
    <2>2. IsTime(mtime) /\ mtime = given /\ found = T!NoStamp
      BY <2>1 DEF TimeInv
    <2>3. stamp' = StampOf(mtime, exfat_timezone)
      BY <2>1, <2>2, StampStored DEF StampOf
    <2>4. stamp' \in T!Timestamp
      BY <1>0, <2>2, <2>3, StampOfType
    <2> QED BY <1>0, <2>1, <2>2, <2>3, <2>4 DEF TimeInv
  <1>2. CASE T!Load
    <2>1. /\ pc = "stored" /\ pc' = "loaded" /\ mtime' = T!exfat_exfat2unix(stamp)
          /\ UNCHANGED <<exfat_timezone, stamp, zone, given, found>>
      BY <1>2 DEF T!Load
    <2>2. stamp \in T!Timestamp
      BY DEF TimeInv
    <2>3. IsTime(mtime') /\ Names(stamp, exfat_timezone, mtime')
      BY <1>0, <2>1, <2>2, Loaded DEF Names
    <2> QED BY <2>1, <2>3 DEF TimeInv
  <1>3. CASE T!Rewrite
    <2>1. /\ pc = "loaded" /\ pc' = "rewritten" /\ stamp' = T!exfat_unix2exfat(mtime)
          /\ zone' = exfat_timezone
          /\ UNCHANGED <<exfat_timezone, mtime, given, found>>
      BY <1>3 DEF T!Rewrite
    <2>2. IsTime(mtime)
      BY DEF TimeInv
    <2>3. stamp' = StampOf(mtime, exfat_timezone)
      BY <2>1, <2>2, StampStored DEF StampOf
    <2>4. stamp' \in T!Timestamp
      BY <1>0, <2>2, <2>3, StampOfType
    <2>5. found # T!NoStamp => Names(found, exfat_timezone, mtime)
      BY <2>1 DEF TimeInv
    <2> QED BY <1>0, <2>1, <2>3, <2>4, <2>5 DEF TimeInv
  <1>4. CASE T!exfat_tzset
    <2>1. /\ pc = "stored" /\ exfat_timezone' \in Zones
          /\ UNCHANGED <<mtime, stamp, zone, given, found, pc>>
      BY <1>4 DEF T!exfat_tzset
    <2> QED BY <2>1 DEF TimeInv
  <1> QED BY <1>1, <1>2, <1>3, <1>4 DEF T!Next

\* A date in a 128-year span is read as it was meant.
LEMMA StampNames ==
  ASSUME NEW t, IsTime(t), NEW tz \in Int, YearOf(Stored(t, tz).d) < 128
  PROVE  LET f == StampOf(t, tz) IN
         /\ f.year = YearOf(Stored(t, tz).d) /\ f.month \in 1 .. 12 /\ f.day \in Int
         /\ ~ T!BadStamp(f)
         /\ DayOf(f) = Stored(t, tz).d /\ SecondOf(f) = Stored(t, tz).s
  <1> DEFINE n == Stored(t, tz).d
             s == Stored(t, tz).s
             y == YearOf(n)
             f == Stamped(n, s)
  <1>1. n \in Nat /\ s \in Nat /\ s < 86400
    BY StoredTime
  <1> HIDE DEF n, s
  <1>2. y \in Nat
    BY <1>1, YearFound DEF YearOf
  <1>3. y < 128
    BY DEF n
  <1>4. y % 128 = y
    <2> HIDE DEF y
    <2> QED BY <1>2, <1>3
  <1>5. /\ f \in T!Timestamp /\ ~ T!BadStamp(f)
        /\ f.year = y % 128 /\ f.month \in 1 .. 12
        /\ NewYear(y) + Start(y, f.month) + f.day - 1 = n
        /\ SecondOf(f) = s
    BY <1>1, StampGood
  <1> HIDE DEF y, f
  <1>6. f.day \in Int
    BY <1>5 DEF T!Timestamp
  <1>7. DayOf(f) = n
    BY <1>4, <1>5 DEF DayOf
  <1>8. f = StampOf(t, tz)
    BY DEF StampOf, f, n, s
  <1> QED BY <1>4, <1>5, <1>6, <1>7, <1>8 DEF n, s, y

\* Times are ordered by their number of seconds.
LEMMA BeforeIs ==
  ASSUME NEW t, NEW u, IsTime(t), IsTime(u)
  PROVE  T!Before(t, u) <=> Total(t) < Total(u)
  <1> DEFINE x == t.d
             y == t.s
             z == u.d
             w == u.s
  <1>1. x \in Int /\ y \in Nat /\ y < 86400 /\ z \in Int /\ w \in Nat /\ w < 86400
    BY SMTT(20) DEF IsTime
  <1>2. T!Before(t, u) <=> x < z \/ (x = z /\ y < w)
    BY DEF T!Before
  <1>3. Total(t) = x * 86400 + y /\ Total(u) = z * 86400 + w
    BY DEF Total
  <1> HIDE DEF x, y, z, w
  <1> QED BY <1>1, <1>2, <1>3, SMTT(20)

\* The epoch in a time zone.
LEMMA EpochTime ==
  ASSUME NEW tz \in Int
  PROVE  IsTime(T!Epoch(tz)) /\ Total(T!Epoch(tz)) = 3652 * 86400 + tz
  <1> DEFINE r == [d |-> T!EPOCH_DIFF_DAYS, s |-> 0]
  <1>1. r.d = 3652 /\ r.s = 0
    BY EpochIs, SMTT(20)
  <1>2. T!Epoch(tz) = T!Later(r, tz)
    BY DEF T!Epoch
  <1> HIDE DEF r
  <1>3. Total(r) = 3652 * 86400 + 0
    BY <1>1, SMTT(20) DEF Total
  <1>4. IsTime(T!Later(r, tz)) /\ Total(T!Later(r, tz)) = Total(r) + tz
    BY <1>1, LaterTime, SMTT(20)
  <1> QED BY <1>2, <1>3, <1>4, SMTT(20)

\* The time that is loaded: the days fit the 128 years of a timestamp, so that
\* the year is not cut off.
LEMMA LocalTime ==
  ASSUME TimeInv
  PROVE  T!LocalTimeKept
  <1> SUFFICES ASSUME pc = "loaded", given # T!None, given.d < T!LastDay
               PROVE  LET stored == IF T!Before(given, T!Epoch(zone)) THEN T!Epoch(zone)
                                    ELSE given
                      IN mtime = T!Later(stored, exfat_timezone - zone)
    BY DEF T!LocalTimeKept
  <1> DEFINE stored == IF T!Before(given, T!Epoch(zone)) THEN T!Epoch(zone) ELSE given
             tz == exfat_timezone
             S == Stored(given, zone)
             n == S.d
             s == S.s
             g == Total(given)
  <1>1. /\ IsTime(given) /\ IsTime(mtime) /\ stamp = StampOf(given, zone)
        /\ Names(stamp, tz, mtime)
    BY DEF TimeInv
  <1>2. /\ zone \in Int /\ -86400 < zone /\ zone < 86400
        /\ tz \in Int /\ tz - zone \in Int
    BY ZoneType, SMTT(20) DEF TimeInv
  <1>3. /\ n \in Nat /\ s \in Nat /\ s < 86400
        /\ Total(S) = IF g < 3652 * 86400 + zone THEN 0 ELSE g - 3652 * 86400 - zone
    BY <1>1, <1>2, StoredTime
  <1>4. Total(S) = n * 86400 + s
    BY DEF Total
  <1>5. g \in Int /\ g < 50403 * 86400
    <2>1. T!LastDay = 50403
      BY EpochIs, SMTT(20) DEF T!LastDay
    <2> DEFINE x == given.d
               y == given.s
    <2>2. x \in Int /\ y \in Nat /\ y < 86400 /\ x < 50403 /\ g = x * 86400 + y
      BY <1>1, <2>1, SMTT(20) DEF IsTime, Total
    <2> HIDE DEF x, y, g
    <2> QED BY <2>2, SMTT(20)
  <1> HIDE DEF g, n, s, S
  <1>6. n < 46752
    BY <1>2, <1>3, <1>4, <1>5, SMTT(20)
  <1>7. YearOf(n) < 128
    BY <1>3, <1>6, SMTT(20) DEF YearOf
  <1>8. ~ T!BadStamp(stamp) /\ DayOf(stamp) = n /\ SecondOf(stamp) = s
    <2>1. YearOf(Stored(given, zone).d) < 128
      BY <1>7 DEF n, S
    <2> QED BY <1>1, <1>2, <2>1, StampNames DEF n, s, S
  <1>9. Total(mtime) = (3652 + n) * 86400 + s + tz
    BY <1>1, <1>8 DEF Names
  <1>10. /\ IsTime(stored)
         /\ Total(stored) = IF g < 3652 * 86400 + zone THEN 3652 * 86400 + zone ELSE g
    <2>1. /\ IsTime(T!Epoch(zone)) /\ Total(T!Epoch(zone)) = 3652 * 86400 + zone
      BY <1>2, EpochTime
    <2>2. T!Before(given, T!Epoch(zone)) <=> g < 3652 * 86400 + zone
      BY <1>1, <2>1, BeforeIs DEF g
    <2>3. CASE T!Before(given, T!Epoch(zone))
      BY <2>1, <2>2, <2>3, SMTT(20)
    <2>4. CASE ~ T!Before(given, T!Epoch(zone))
      BY <1>1, <2>2, <2>4, SMTT(20) DEF g
    <2> QED BY <2>3, <2>4
  <1> HIDE DEF stored, tz
  <1>11. /\ IsTime(T!Later(stored, tz - zone))
         /\ Total(T!Later(stored, tz - zone)) = Total(stored) + (tz - zone)
    <2>1. stored.d \in Int /\ stored.s \in Int
      BY <1>10, SMTT(20) DEF IsTime
    <2> QED BY <1>2, <2>1, LaterTime
  <1>12. Total(T!Later(stored, tz - zone)) = Total(mtime)
    BY <1>2, <1>3, <1>4, <1>5, <1>9, <1>10, <1>11, SMTT(20)
  <1>13. mtime = T!Later(stored, tz - zone)
    BY <1>1, <1>11, <1>12, SameTime
  <1> QED BY <1>13 DEF stored, tz

\* The date that is stored.
LEMMA Calendar ==
  ASSUME TimeInv
  PROVE  T!CalendarTo2100
  <1> DEFINE L == T!Later(given, -zone)
             day == L.d
  <1> SUFFICES ASSUME pc = "stored", given # T!None, ~ T!Before(given, T!Epoch(zone)),
                      day < T!DayNumber(2100, 1, 1)
               PROVE  T!DayNumber(1980 + stamp.year, stamp.month, stamp.day) = day
    BY DEF T!CalendarTo2100
  <1> DEFINE S == Stored(given, zone)
             n == S.d
             s == S.s
             g == Total(given)
             y == YearOf(n)
  <1>1. IsTime(given) /\ stamp = StampOf(given, zone)
    BY DEF TimeInv
  <1>2. zone \in Int /\ -zone \in Int
    BY ZoneType, SMTT(20) DEF TimeInv
  <1>3. /\ n \in Nat /\ s \in Nat /\ s < 86400
        /\ Total(S) = IF g < 3652 * 86400 + zone THEN 0 ELSE g - 3652 * 86400 - zone
    BY <1>1, <1>2, StoredTime
  <1>4. Total(S) = n * 86400 + s
    BY DEF Total
  <1>5. IsTime(L) /\ Total(L) = g + (-zone)
    <2>1. given.d \in Int /\ given.s \in Int
      BY <1>1, SMTT(20) DEF IsTime
    <2> QED BY <1>2, <2>1, LaterTime
  <1>6. ~ (g < 3652 * 86400 + zone)
    BY <1>1, <1>2, EpochTime, BeforeIs
  <1>7. g \in Int
    BY <1>1, SMTT(20) DEF IsTime, Total
  <1> DEFINE w == L.s
  <1>8. day \in Int /\ w \in Nat /\ w < 86400 /\ Total(L) = day * 86400 + w
    BY <1>5, SMTT(20) DEF IsTime, Total
  <1>9. day < 47482
    BY Day2100
  <1> HIDE DEF g, n, s, S, L, day, w
  <1>10. day = 3652 + n
    BY <1>2, <1>3, <1>4, <1>5, <1>6, <1>7, <1>8, SMTT(20)
  <1>11. y \in Nat /\ y < 120
    BY <1>3, <1>9, <1>10, SMTT(20) DEF YearOf
  <1>12. /\ stamp.year = y /\ stamp.month \in 1 .. 12 /\ stamp.day \in Int
         /\ DayOf(stamp) = n
    <2>1. YearOf(Stored(given, zone).d) < 128
      BY <1>11, SMTT(20) DEF n, S
    <2> QED BY <1>1, <1>2, <2>1, StampNames DEF n, S
  <1> HIDE DEF y
  <1> DEFINE m == stamp.month
             e == stamp.day
             p == Start(y, m)
             x == NewYear(y)
  <1>13. T!DayNumber(1980 + y, m, e) = 3652 + x + p + e - 1
    BY <1>11, <1>12, DayNumberIs
  <1>14. n = x + p + e - 1 /\ p \in Int /\ x \in Int /\ e \in Int
    <2>1. x \in Int
      BY <1>11 DEF NewYear, T!LEAP_YEARS
    <2> QED BY <1>12, <2>1, StartType DEF DayOf
  <1> HIDE DEF p, x
  <1>15. 3652 + x + p + e - 1 = day
    BY <1>10, <1>14, SMTT(20)
  <1> QED BY <1>12, <1>13, <1>15

\* The timestamp that is written again.
LEMMA StampAgain ==
  ASSUME TimeInv
  PROVE  T!StampKept
  <1> SUFFICES ASSUME pc = "rewritten", found # T!NoStamp
               PROVE  IF T!Proper(found) THEN stamp = [found EXCEPT !.cs = (@ \div 100) * 100]
                      ELSE ~ T!BadStamp(stamp)
    BY DEF T!StampKept
  <1> DEFINE tz == exfat_timezone
  <1>1. /\ IsTime(mtime) /\ stamp = StampOf(mtime, tz) /\ Names(found, tz, mtime)
        /\ found \in T!Timestamp
    BY DEF TimeInv
  <1>2. tz \in Int
    BY ZoneType DEF TimeInv
  <1>3. ~ T!BadStamp(stamp)
    BY <1>1, <1>2, StampOfType
  <1>4. ASSUME T!Proper(found)
        PROVE  stamp = [found EXCEPT !.cs = (@ \div 100) * 100]
    <2> DEFINE y == found.year
               m == found.month
               e == found.day
               S == Stored(mtime, tz)
               n == S.d
               s == S.s
               g == Total(mtime)
               dn == DayOf(found)
               sn == SecondOf(found)
    <2>1. /\ ~ T!BadStamp(found) /\ y < 120 /\ e <= T!MonthLength(1980 + y, m)
      BY <1>4 DEF T!Proper
    <2>2. y \in Nat /\ m \in 1 .. 12 /\ e \in 1 .. 31
      BY <1>1, <2>1 DEF T!Timestamp, T!BadStamp
    <2>3. InMonth(y, m, Start(y, m) + e - 1)
      <3>1. Start(y, m) \in Nat
        BY <2>2, StartType
      <3>2. m # 12 => /\ Start(y, m + 1) = Start(y, m) + T!MonthLength(1980 + y, m)
                      /\ Start(y, m + 1) \in Nat
        BY <2>1, <2>2, MonthLengths, StartType
      <3>3. T!MonthLength(1980 + y, m) \in Int
        BY DEF T!MonthLength
      <3> HIDE DEF y, m, e
      <3> QED BY <2>1, <2>2, <3>1, <3>2, <3>3 DEF InMonth
    <2>4. /\ dn \in Nat /\ sn \in Nat /\ sn < 86400
          /\ Stamped(dn, sn) = [found EXCEPT !.cs = (@ \div 100) * 100]
      BY <1>1, <2>1, <2>2, <2>3, StampIs
    <2>5. g = (3652 + dn) * 86400 + sn + tz
      BY <1>1, <2>1 DEF Names
    <2>6. /\ n \in Nat /\ s \in Nat /\ s < 86400
          /\ Total(S) = IF g < 3652 * 86400 + tz THEN 0 ELSE g - 3652 * 86400 - tz
      BY <1>1, <1>2, StoredTime
    <2>7. Total(S) = n * 86400 + s
      BY DEF Total
    <2> HIDE DEF g, n, s, S, dn, sn, tz
    <2>8. n = dn /\ s = sn
      BY <1>2, <2>4, <2>5, <2>6, <2>7, SMTT(20)
    <2>9. stamp = Stamped(n, s)
      BY <1>1 DEF StampOf, n, s, S
    <2> QED BY <2>4, <2>8, <2>9
  <1> QED BY <1>3, <1>4

\* For every time, every timestamp and every time zone: what was stored is
\* loaded to the second, with the date of the Gregorian calendar, and what was
\* found is written back.
THEOREM TimesKeptHolds == Spec => []TimesKept
  <1> DEFINE Inv == part = "time" => TimeInv
  <1>1. Init => Inv
    BY TimeInit DEF Init
  <1>2. Inv /\ [Next]_vars => Inv'
    <2> SUFFICES ASSUME Inv, [Next]_vars, part' = "time" PROVE TimeInv'
      OBVIOUS
    <2>1. CASE Time
      BY <2>1, TimeStep DEF Time
    <2>2. CASE UNCHANGED vars
      BY <2>2 DEF vars, time, TimeInv
    <2> QED BY <2>1, <2>2 DEF Next, Utf, Walks, Mkfs, Reconstruct
  <1>3. Inv => TimesKept
    <2> SUFFICES ASSUME TimeInv PROVE T!TypeOK /\ T!LocalTimeKept
                                      /\ T!CalendarTo2100 /\ T!StampKept
      BY DEF TimesKept
    <2>1. T!TypeOK
      BY DEF TimeInv, T!TypeOK
    <2> QED BY <2>1, LocalTime, Calendar, StampAgain
  <1> QED BY <1>1, <1>2, <1>3, PTL DEF Spec
=============================================================================
