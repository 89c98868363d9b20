-------------------------------- MODULE Utf ---------------------------------
(***************************************************************************)
(* The conversion of names between UTF-8 and UTF-16 (utf.c) and            *)
(* exfat_get_name() (utils.c).  A step is one iteration of the loop of a   *)
(* conversion.  A name is converted and the result is converted back.      *)
(***************************************************************************)
EXTENDS Integers, Sequences, SequencesExt

CONSTANTS
  NameMax,     \* UTF-16 units in a name: EXFAT_NAME_MAX, EXFAT_ENAME_MAX
  Utf16Names,  \* the names on the device, of NameMax units
  Utf8Names    \* the names the kernel passes

VARIABLES
  job,  \* the conversion: its direction "utf8" or "utf16", in, insize, outsize
  pos,  \* inp - input
  out,  \* what has been written to output
  rc,   \* "run", "ok", "EILSEQ" or "ENAMETOOLONG"
  orig  \* the conversion that is being converted back, or NoJob

vars == <<job, pos, out, rc, orig>>

UINT8_MAX == 255
UINT16_MAX == 65535
char == 0 .. UINT8_MAX
le16_t == 0 .. UINT16_MAX

NoJob == [to |-> "none", in |-> <<>>, insize |-> 0, outsize |-> 0]

\* mutant: two bytes per unit
ToUtf8Short(name) == [to |-> "utf8", in |-> name, insize |-> NameMax,
                      outsize |-> 2 * NameMax + 1]

\* exfat_get_name(), and the label: a buffer for three bytes per unit
ToUtf8(name) == [to |-> "utf8", in |-> name, insize |-> NameMax,
                 outsize |-> 3 * NameMax + 1]
\* lookup and label: a buffer for NameMax units and the terminator
ToUtf16(name) == [to |-> "utf16", in |-> name, insize |-> Len(name),
                  outsize |-> NameMax + 1]

Init ==
  /\ job \in {ToUtf8(n) : n \in Utf16Names} \cup {ToUtf16(n) : n \in Utf8Names}
  /\ pos = 0 /\ out = <<>> /\ rc = "run" /\ orig = NoJob

-----------------------------------------------------------------------------
(* One character.                                                          *)

NULL == <<>>
Limits == <<127, 2047, 65535, 2097151, 67108863, 2147483647>>
Leads == <<0, 192, 224, 240, 248, 252>>
\* 6 * (i - 1) bits
Shifts == <<1, 64, 4096, 262144, 16777216, 1073741824>>

\* mutant: the low bits are not masked out
wchar_to_utf8Unmasked(wc, outsize) ==
  LET n == CHOOSE k \in 1 .. 6 : wc <= Limits[k]
                                 /\ \A j \in 1 .. k - 1 : wc > Limits[j]
  IN IF outsize < n THEN NULL
     ELSE [i \in 1 .. n |-> IF i = 1 THEN Leads[n] + wc \div Shifts[n]
                            ELSE 128 + wc \div Shifts[n - i + 1]]

wchar_to_utf8(wc, outsize) ==
  LET n == CHOOSE k \in 1 .. 6 : wc <= Limits[k]
                                 /\ \A j \in 1 .. k - 1 : wc > Limits[j]
  IN IF outsize < n THEN NULL
     ELSE [i \in 1 .. n |-> IF i = 1 THEN Leads[n] + wc \div Shifts[n]
                            ELSE 128 + ((wc \div Shifts[n - i + 1]) % 64)]

\* mutant: 0x10000 is forgotten
utf16_to_wcharLow(in, p, insize) ==
  LET unit == in[p + 1]
  IN IF unit \div 1024 # 54 THEN [wc |-> unit, len |-> 1]
     ELSE IF insize < 2 \/ in[p + 2] \div 1024 # 55 THEN [wc |-> 0, len |-> 0]
     ELSE [wc |-> (unit % 1024) * 1024 + (in[p + 2] % 1024), len |-> 2]

\* len = 0 stands for NULL
utf16_to_wchar(in, p, insize) ==
  LET unit == in[p + 1]
  IN IF unit \div 1024 # 54 THEN [wc |-> unit, len |-> 1]
     ELSE IF insize < 2 \/ in[p + 2] \div 1024 # 55 THEN [wc |-> 0, len |-> 0]
     ELSE [wc |-> (unit % 1024) * 1024 + (in[p + 2] % 1024) + 65536, len |-> 2]

\* the bits in a character of n bytes
utf8_bits(in, p, n) ==
  LET value[i \in 1 .. 6] == IF i = 1 THEN in[p + 1] - Leads[n]
                             ELSE value[i - 1] * 64 + (in[p + i] % 64)
  IN value[n]

utf8_to_wchar(in, p, insize) ==
  LET byte == in[p + 1]
      tops == <<127, 223, 239, 247, 251, 253>>
      fits == {n \in 1 .. 6 : Leads[n] <= byte /\ byte <= tops[n] /\ insize >= n}
      n == CHOOSE n \in fits : TRUE
  IN IF fits = {} THEN [wc |-> 0, len |-> 0]
     ELSE [wc |-> utf8_bits(in, p, n), len |-> n]

\* mutant: the low surrogate comes first
wchar_to_utf16Swapped(wc, outsize) ==
  IF wc <= 65535 THEN IF outsize = 0 THEN NULL ELSE <<wc>>
  ELSE IF outsize < 2 THEN NULL
  ELSE LET low == wc - 65536
       IN <<56320 + (low % 1024), 55296 + ((low \div 1024) % 1024)>>

wchar_to_utf16(wc, outsize) ==
  IF wc <= 65535 THEN IF outsize = 0 THEN NULL ELSE <<wc>>
  ELSE IF outsize < 2 THEN NULL
  ELSE LET low == wc - 65536
       IN <<55296 + ((low \div 1024) % 1024), 56320 + (low % 1024)>>

-----------------------------------------------------------------------------
(* The loops.                                                              *)

\* mutant: the terminator is always written
TerminateAlways == rc' = "ok" /\ out' = Append(out, 0)

\* The terminator after the loop
Terminate ==
  IF Len(out) >= job.outsize THEN rc' = "ENAMETOOLONG" /\ UNCHANGED out
  ELSE rc' = "ok" /\ out' = Append(out, 0)

utf16_to_utf8 ==
  LET c == utf16_to_wchar(job.in, pos, job.insize - pos)
      bytes == wchar_to_utf8(c.wc, job.outsize - Len(out))
  IN /\ job.to = "utf8" /\ rc = "run" /\ UNCHANGED <<job, orig>>
     /\ IF pos >= job.insize THEN Terminate /\ UNCHANGED pos
        ELSE IF c.len = 0 THEN rc' = "EILSEQ" /\ UNCHANGED <<pos, out>>
        ELSE IF bytes = NULL THEN rc' = "ENAMETOOLONG" /\ UNCHANGED <<pos, out>>
        ELSE /\ pos' = pos + c.len /\ out' = out \o bytes
             /\ rc' = IF c.wc = 0 THEN "ok" ELSE "run"

\* A null character breaks the loop, and the terminator follows it.
utf8_to_utf16 ==
  LET c == utf8_to_wchar(job.in, pos, job.insize - pos)
      units == wchar_to_utf16(c.wc, job.outsize - Len(out))
  IN /\ job.to = "utf16" /\ rc = "run" /\ UNCHANGED <<job, orig>>
     /\ IF pos >= job.insize THEN Terminate /\ UNCHANGED pos
        ELSE IF c.len = 0 THEN rc' = "EILSEQ" /\ UNCHANGED <<pos, out>>
        ELSE IF units = NULL THEN rc' = "ENAMETOOLONG" /\ UNCHANGED <<pos, out>>
        ELSE /\ rc' = "run" /\ out' = out \o units
             /\ pos' = IF c.wc = 0 THEN job.insize ELSE pos + c.len

utf16_length(units) == CHOOSE i \in 0 .. Len(units) - 1 :
                         units[i + 1] = 0 /\ \A j \in 1 .. i : units[j] # 0

\* The result is converted back: a name is kept in an array of NameMax units
\* padded with zeros, a path has no terminator.
ConvertBack ==
  /\ rc = "ok" /\ orig = NoJob /\ orig' = job
  /\ rc' = "run" /\ pos' = 0 /\ out' = <<>>
  /\ job' = IF job.to = "utf8" THEN ToUtf16(SubSeq(out, 1, Len(out) - 1))
            ELSE LET n == utf16_length(out)
                 IN ToUtf8([i \in 1 .. NameMax |-> IF i <= n THEN out[i] ELSE 0])

Next == utf16_to_utf8 \/ utf8_to_utf16 \/ ConvertBack

Spec == Init /\ [][Next]_vars

-----------------------------------------------------------------------------
(* Properties.                                                             *)

\* The variables have the types of what they model.
TypeOK ==
  /\ pos \in 0 .. job.insize /\ rc \in {"run", "ok", "EILSEQ", "ENAMETOOLONG"}
  /\ Range(out) \subseteq IF job.to = "utf8" THEN char ELSE le16_t

\* No conversion writes past the end of its buffer or reads past the end of
\* its input, and one that succeeds has left a terminator.
InBuffer ==
  /\ Len(out) <= job.outsize
  /\ rc = "ok" => out # <<>> /\ Last(out) = 0

\* Three bytes per unit are enough for every name on the device, as the
\* comment on EXFAT_UTF8_NAME_BUFFER_MAX argues.
NameFits == job.to = "utf8" => rc # "ENAMETOOLONG"

Until0(s) == IF \E i \in DOMAIN s : s[i] = 0
             THEN SubSeq(s, 1, (CHOOSE i \in DOMAIN s : s[i] = 0
                                  /\ \A j \in 1 .. i - 1 : s[j] # 0) - 1)
             ELSE s

\* A name read from the device can be passed back by the kernel and is then
\* the same name, surrogate pairs included.
RoundTrip ==
  orig.to = "utf8" /\ rc # "run" => rc = "ok" /\ Until0(out) = Until0(orig.in)

\* Characters of each length in both encodings, as Unicode defines them.
Known == {[utf8 |-> <<65>>, utf16 |-> <<65>>],
          [utf8 |-> <<195, 169>>, utf16 |-> <<233>>],
          [utf8 |-> <<226, 130, 172>>, utf16 |-> <<8364>>],
          [utf8 |-> <<240, 159, 152, 128>>, utf16 |-> <<55357, 56832>>]}

\* Strings of these characters are converted to what the standard says.
Standard ==
  job.to = "utf16" /\ rc = "ok" =>
    \A a, b \in Known : job.in = a.utf8 \o b.utf8 =>
      Until0(out) = a.utf16 \o b.utf16
=============================================================================
