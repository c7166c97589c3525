------------------------------ MODULE MmConfig ------------------------------
(***************************************************************************)
(* The configuration store of the demo (src/mmconfig/mmconfig.c): a       *)
(* read-only table of key/value strings, mm_configs (configs.c), and the   *)
(* typed reads over it.  It has no state of its own: every write fails     *)
(* (mmconfig_write_update_node_list), so each function is an operator from *)
(* its arguments and the table to its result.                              *)
(*                                                                         *)
(* A C string is the sequence of its character codes, without the          *)
(* terminating NUL.  A result is a record: status is the MMCONFIG_ code    *)
(* ("OK" for MMCONFIG_OK), and the other fields are what the function      *)
(* returns or writes through its pointers.                                 *)
(***************************************************************************)
EXTENDS Integers, SequencesExt

CONSTANTS
    MaxKeyLen,    \* MMCONFIG_MAX_KEYLEN (mmconfig.h)
    MmConfigs,    \* mm_configs: a sequence of [key, value], ended by Null
    Null,         \* a NULL key or value
    KeyChars      \* the character codes the checked keys are made of

ASSUME MaxKeyLen \in Nat \ {0}

\* character codes the functions test for
ZERO == 48
UPPER_X == 88
LOWER_X == 120
MINUS == 45
UNDERSCORE == 95
DOT == 46
STAR == 42

DecDigits == 48..57
HexDigits == DecDigits \cup 97..102 \cup 65..70

IsAlpha(c) == c \in 65..90 \cup 97..122
IsAlnum(c) == IsAlpha(c) \/ c \in DecDigits

(***************************************************************************)
(* Unsigned integers wider than TLC's are sequences of 16-bit limbs, most  *)
(* significant first: the uint64_t accumulator has four, a uint32_t two.   *)
(***************************************************************************)
LIMB == 65536

\* num * base + digit, the carry out of the top limb lost
MulAdd(num, base, digit) ==
    FoldRight(LAMBDA limb, acc :
                  LET v == limb * base + acc.carry
                  IN  [limbs |-> <<v % LIMB>> \o acc.limbs, carry |-> v \div LIMB],
              num, [limbs |-> <<>>, carry |-> digit]).limbs

Result(status, value) == [status |-> status, value |-> value]
Err(status) == Result(status, Null)

HexValue(c) ==
    CASE c \in DecDigits -> c - 48
      [] c \in 97..102   -> c - 87
      [] c \in 65..70    -> c - 55

(* num = num * base + digit in the uint64_t accumulator *)
Accumulate(base, digits) ==
    FoldLeft(LAMBDA num, c : MulAdd(num, base, HexValue(c)), <<0, 0, 0, 0>>, digits)

(***************************************************************************)
(* mmconfig_str_to_uint: a "0x"/"0X" prefix selects hexadecimal.  Any      *)
(* other character is an error.  The range check runs after the loop: at   *)
(* most 10 characters, prefix included, and num > 4294967295 when a limb   *)
(* above the low two is set.  The value is the low 32 bits.                *)
(***************************************************************************)
(* Mutant: the accumulated value is not compared with 4294967295. *)
StrToUintNoRange(s) ==
    LET hex    == Len(s) >= 2 /\ s[1] = ZERO /\ s[2] \in {LOWER_X, UPPER_X}
        digits == IF hex THEN SubSeq(s, 3, Len(s)) ELSE s
    IN  IF \E i \in DOMAIN digits :
              digits[i] \notin (IF hex THEN HexDigits ELSE DecDigits)
        THEN Err("INCORRECT_TYPE")
        ELSE LET num == Accumulate(IF hex THEN 16 ELSE 10, digits)
             IN  IF Len(s) > 10 THEN Err("INCORRECT_TYPE")
                 ELSE Result("OK", SubSeq(num, 3, 4))

StrToUint(s) ==
    LET hex    == Len(s) >= 2 /\ s[1] = ZERO /\ s[2] \in {LOWER_X, UPPER_X}
        digits == IF hex THEN SubSeq(s, 3, Len(s)) ELSE s
    IN  IF \E i \in DOMAIN digits :
              digits[i] \notin (IF hex THEN HexDigits ELSE DecDigits)
        THEN Err("INCORRECT_TYPE")
        ELSE LET num == Accumulate(IF hex THEN 16 ELSE 10, digits)
             IN  IF Len(s) > 10 \/ num[1] # 0 \/ num[2] # 0
                 THEN Err("INCORRECT_TYPE")
                 ELSE Result("OK", SubSeq(num, 3, 4))

(***************************************************************************)
(* mmconfig_str_to_int: an optional '-', then the unsigned conversion and  *)
(* the bound of each sign, num > 0x80000000 or num > 0x7FFFFFFF.  Within   *)
(* them, *val = sign * num, computed in unsigned 32-bit arithmetic and     *)
(* converted to int, is -num or num.                                       *)
(***************************************************************************)
Above(u, hi, lo) == u[1] > hi \/ (u[1] = hi /\ u[2] > lo)
SignedValue(neg, u) == IF neg THEN (-u[1]) * LIMB - u[2] ELSE u[1] * LIMB + u[2]

(* Mutant: the negative bound excludes 0x80000000 itself. *)
StrToIntOffByOne(s) ==
    LET neg == Len(s) >= 1 /\ s[1] = MINUS
        r   == StrToUint(IF neg THEN Tail(s) ELSE s)
    IN  CASE r.status # "OK"                       -> r
          [] neg /\ Above(r.value, 32767, 65535)   -> Err("INCORRECT_TYPE")
          [] ~neg /\ Above(r.value, 32767, 65535)  -> Err("INCORRECT_TYPE")
          [] OTHER -> Result("OK", SignedValue(neg, r.value))

StrToInt(s) ==
    LET neg == Len(s) >= 1 /\ s[1] = MINUS
        r   == StrToUint(IF neg THEN Tail(s) ELSE s)
    IN  CASE r.status # "OK"                       -> r
          [] neg /\ Above(r.value, 32768, 0)       -> Err("INCORRECT_TYPE")
          [] ~neg /\ Above(r.value, 32767, 65535)  -> Err("INCORRECT_TYPE")
          [] OTHER -> Result("OK", SignedValue(neg, r.value))

ValidateKeyCharacter(c) ==
    IF IsAlnum(c) \/ c \in {UNDERSCORE, DOT} THEN "OK" ELSE "INVALID_KEY"

(***************************************************************************)
(* mmconfig_validate_key: the length as strnlen(key, MAX + 1) sees it, an  *)
(* alphabetic first character, and then the first character that fails;   *)
(* a '*' fails as a wildcard only in the last position.                    *)
(***************************************************************************)
(* Mutant: a '*' is taken for a wildcard wherever it stands. *)
ValidateKeyWildcardAnywhere(key) ==
    LET keyLen == Min({Len(key), MaxKeyLen + 1})
        bad    == {i \in 2..keyLen : ValidateKeyCharacter(key[i]) # "OK"}
    IN  CASE keyLen > MaxKeyLen \/ keyLen = 0 -> "INVALID_KEY"
          [] ~IsAlpha(key[1])                -> "INVALID_KEY"
          [] bad = {}                        -> "OK"
          [] key[Min(bad)] = STAR            -> "WILDCARD_KEY"
          [] OTHER                           -> "INVALID_KEY"

ValidateKey(key) ==
    LET keyLen == Min({Len(key), MaxKeyLen + 1})
        bad    == {i \in 2..keyLen : ValidateKeyCharacter(key[i]) # "OK"}
    IN  CASE keyLen > MaxKeyLen \/ keyLen = 0 -> "INVALID_KEY"
          [] ~IsAlpha(key[1])                -> "INVALID_KEY"
          [] bad = {}                        -> "OK"
          [] key[Min(bad)] = STAR /\ Min(bad) = keyLen -> "WILDCARD_KEY"
          [] OTHER                           -> "INVALID_KEY"

\* the entries the lookup loop visits: those before the first NULL
Visited ==
    LET ends == {i \in DOMAIN MmConfigs :
                   Null \in {MmConfigs[i].key, MmConfigs[i].value}}
    IN  IF ends = {} THEN DOMAIN MmConfigs ELSE 1..(Min(ends) - 1)

(***************************************************************************)
(* mmconfig_read_data: the key is validated, then the first entry with an  *)
(* equal key (strcmp) gives its value and strlen + 1.                      *)
(***************************************************************************)
(* Mutant: the length returned leaves out the terminator. *)
ReadDataStrlen(key) ==
    LET hits == {i \in Visited : MmConfigs[i].key = key}
    IN  CASE ValidateKey(key) # "OK" -> [status |-> "INVALID_KEY", len |-> 0, data |-> <<>>]
          [] hits = {}               -> [status |-> "NOT_FOUND", len |-> 0, data |-> <<>>]
          [] OTHER -> LET v == MmConfigs[Min(hits)].value
                      IN  [status |-> "OK", len |-> Len(v), data |-> v]

ReadData(key) ==
    LET hits == {i \in Visited : MmConfigs[i].key = key}
    IN  CASE ValidateKey(key) # "OK" -> [status |-> "INVALID_KEY", len |-> 0, data |-> <<>>]
          [] hits = {}               -> [status |-> "NOT_FOUND", len |-> 0, data |-> <<>>]
          [] OTHER -> LET v == MmConfigs[Min(hits)].value
                      IN  [status |-> "OK", len |-> Len(v) + 1, data |-> v]

(***************************************************************************)
(* The typed reads.  Each one also tests for a zero length and for a       *)
(* missing terminator at data[retval - 1]; both tests look at the length   *)
(* and the NUL that strlen found, so neither fails and they are left out.  *)
(* "copied" is what memcpy writes: the value and its terminator.           *)
(***************************************************************************)
ReadString(key, hasBuffer, bufsize) ==
    LET r == ReadData(key)
    IN  CASE r.status # "OK"               -> [status |-> r.status, copied |-> <<>>]
          [] hasBuffer /\ r.len > bufsize  -> [status |-> "INSUFFICIENT_MEMORY", copied |-> <<>>]
          [] OTHER -> [status |-> "OK", len |-> r.len,
                       copied |-> IF hasBuffer
                                  THEN SubSeq(r.data \o <<0>>, 1, r.len) ELSE <<>>]

\* mmconfig_read_uint32 and mmconfig_read_int: the conversion of the value
ReadUint32(key) ==
    LET r == ReadData(key)
    IN  IF r.status # "OK" THEN Err(r.status) ELSE StrToUint(r.data)

ReadInt(key) ==
    LET r == ReadData(key)
    IN  IF r.status # "OK" THEN Err(r.status) ELSE StrToInt(r.data)

\* strcasecmp against a lower-case word
Lower(c) == IF c \in 65..90 THEN c + 32 ELSE c
EqualsIgnoringCase(s, word) == Len(s) = Len(word) /\ \A i \in DOMAIN s : Lower(s[i]) = word[i]
TRUE_WORD == <<116, 114, 117, 101>>
FALSE_WORD == <<102, 97, 108, 115, 101>>

(***************************************************************************)
(* mmconfig_read_bool: the one-byte value (the empty string) is a          *)
(* single-byte bool and returns its length 1 ("RET_1"), not MMCONFIG_OK;   *)
(* then "true" and "false" in any case, then any integer, non-zero being   *)
(* true.                                                                   *)
(***************************************************************************)
ReadBool(key) ==
    LET r == ReadData(key)
        i == StrToInt(r.data)
    IN  CASE r.status # "OK"                      -> Err(r.status)
          [] r.len = 1                            -> Result("RET_1", FALSE)
          [] EqualsIgnoringCase(r.data, TRUE_WORD)  -> Result("OK", TRUE)
          [] EqualsIgnoringCase(r.data, FALSE_WORD) -> Result("OK", FALSE)
          [] i.status = "OK"                      -> Result("OK", i.value # 0)
          [] OTHER                                -> Err("INCORRECT_TYPE")

WriteUpdateNodeList == "FULL"

\* mmconfig_alloc_and_load: the results malloc may lead to
AllocAndLoad(key) ==
    LET r == ReadData(key)
    IN  IF r.status # "OK" THEN {Err(r.status)}
        ELSE {Result("OK", r.len), Err("INSUFFICIENT_MEMORY")}

\* mmconfig_read_bytes: the bytes copied from offset into the buffer
ReadBytes(key, hasBuffer, buffsize, offset) ==
    LET r == ReadData(key)
    IN  CASE r.status # "OK"    -> Err(r.status)
          [] offset > r.len     -> Err("OUT_OF_BOUNDS")
          [] ~hasBuffer         -> Result("OK", r.len)
          [] OTHER              -> Result("OK", Min({buffsize, r.len - offset}))

-----------------------------------------------------------------------------
(***************************************************************************)
(* Reference definitions: numerals rendered from numbers by division, and *)
(* the key syntax stated as a set.  A number is a limb sequence of any     *)
(* length, most significant first.                                         *)
(***************************************************************************)
\* quotient and remainder of a limb number by a small divisor
DivMod(n, d) ==
    FoldLeft(LAMBDA acc, limb :
                 LET cur == acc.r * LIMB + limb
                 IN  [q |-> Append(acc.q, cur \div d), r |-> cur % d],
             [q |-> <<>>, r |-> 0], n)

IsZero(n) == \A i \in DOMAIN n : n[i] = 0

RECURSIVE DigitsOf(_, _)
DigitsOf(n, base) ==
    IF IsZero(n) THEN <<>>
    ELSE LET qr == DivMod(n, base) IN DigitsOf(qr.q, base) \o <<qr.r>>

\* the digits of n in base, "0" for zero, with the letters from letterBase
Numeral(n, base, letterBase) ==
    LET ds == IF IsZero(n) THEN <<0>> ELSE DigitsOf(n, base)
    IN  [i \in DOMAIN ds |-> IF ds[i] < 10 THEN 48 + ds[i] ELSE letterBase + ds[i]]

\* the decimal, 0x lower-case and 0X upper-case numerals of n
Numerals(n) == {Numeral(n, 10, 0),
                <<ZERO, LOWER_X>> \o Numeral(n, 16, 87),
                <<ZERO, UPPER_X>> \o Numeral(n, 16, 55)}

\* n below 2^32, and as the two limbs of a uint32_t
FitsUint32(n) == \A i \in DOMAIN n : i <= Len(n) - 2 => n[i] = 0
AsUint32(n) == IF Len(n) = 1 THEN <<0, n[1]>> ELSE SubSeq(n, Len(n) - 1, Len(n))

KeyTail == {c \in 0..127 : IsAlnum(c)} \cup {UNDERSCORE, DOT}
WellFormedKey(k) ==
    Len(k) \in 1..MaxKeyLen /\ IsAlpha(k[1]) /\ \A i \in 2..Len(k) : k[i] \in KeyTail

\* magnitudes at the edges of 32 and 64 bits and of the ten-character limit
Uint32Edges ==
    { <<0>>, <<9>>, <<10>>, <<15>>, <<16>>,
      <<32767, 65535>>,          \* 2^31 - 1
      <<32768, 0>>,              \* 2^31
      <<65535, 65535>>,          \* 2^32 - 1
      <<1, 0, 0>>,               \* 2^32
      <<1, 0, 1>>,               \* 2^32 + 1
      <<2, 21515, 58367>>,       \* 9999999999
      <<2, 21515, 58368>>,       \* 10^10
      <<1, 0, 0, 0, 0>>,         \* 2^64
      <<1, 0, 0, 0, 5>> }        \* 2^64 + 5, which the accumulator wraps to 5

-----------------------------------------------------------------------------
(***************************************************************************)
(* The calls checked: one call of a conversion, of key validation or of    *)
(* read_string on each bounded input, chosen at boot; the caller takes its *)
(* result and goes on.                                                     *)
(***************************************************************************)
VARIABLE call

\* the first entry of each key, the one read_data finds
FirstEntries ==
    {j \in Visited : \A e \in Visited : e < j => MmConfigs[e].key # MmConfigs[j].key}

Done == [fn |-> "none", s |-> <<>>, n |-> <<0>>, neg |-> FALSE, b |-> 0]

Calls ==
    UNION {{[fn |-> "str_to_uint", s |-> s, n |-> n, neg |-> FALSE, b |-> 0] :
                s \in Numerals(n)} : n \in Uint32Edges}
    \cup
    UNION {{[fn |-> "str_to_int", s |-> IF neg THEN <<MINUS>> \o s ELSE s, n |-> n,
             neg |-> neg, b |-> 0] : s \in Numerals(n), neg \in BOOLEAN} : n \in Uint32Edges}
    \cup
    {[fn |-> "validate_key", s |-> k, n |-> <<0>>, neg |-> FALSE, b |-> 0] :
        k \in BoundedSeq(KeyChars, MaxKeyLen + 1)}
    \cup
    UNION {{[fn |-> "read_string", s |-> MmConfigs[j].key, n |-> <<j>>, neg |-> FALSE, b |-> b] :
                b \in 0..(Len(MmConfigs[j].value) + 2)} : j \in FirstEntries}

ConfigReturn == call # Done /\ call' = Done

-----------------------------------------------------------------------------
(* mmconfig_str_to_uint accepts the decimal and hexadecimal numerals of    *)
(* every value below 2^32 and returns that value, and rejects every value  *)
(* from 2^32 on, also where the uint64_t accumulator wraps.                *)
Uint32ParseCorrect ==
    call.fn = "str_to_uint" =>
        StrToUint(call.s) = IF FitsUint32(call.n) THEN Result("OK", AsUint32(call.n))
                            ELSE Err("INCORRECT_TYPE")

(* mmconfig_str_to_int accepts exactly the numerals of the int range,      *)
(* INT_MIN included, with or without a minus sign, and returns their value *)
Int32ParseCorrect ==
    call.fn = "str_to_int" =>
        LET u      == AsUint32(call.n)
            inside == FitsUint32(call.n) /\ (u[1] < 32768 \/ (call.neg /\ u = <<32768, 0>>))
        IN  StrToInt(call.s) = IF inside THEN Result("OK", SignedValue(call.neg, u))
                               ELSE Err("INCORRECT_TYPE")

(* mmconfig_validate_key accepts exactly the well-formed keys, and reports *)
(* a wildcard exactly for a well-formed key followed by one final '*'.     *)
KeyValidationCorrect ==
    call.fn = "validate_key" =>
        ValidateKey(call.s) =
            CASE WellFormedKey(call.s) -> "OK"
              [] Len(call.s) \in 2..MaxKeyLen /\ Last(call.s) = STAR
                 /\ WellFormedKey(Front(call.s)) -> "WILDCARD_KEY"
              [] OTHER -> "INVALID_KEY"

(* mmconfig_read_string, when it succeeds with a buffer, writes the whole  *)
(* value and its terminator and no more than bufsize bytes, and its result *)
(* is the number of bytes written; a buffer that holds them is accepted.   *)
ReadStringFits ==
    call.fn = "read_string" =>
        LET value == MmConfigs[call.n[1]].value
            r     == ReadString(call.s, TRUE, call.b)
        IN  /\ r.status = "OK" =>
                   /\ r.copied = value \o <<0>>
                   /\ Len(r.copied) <= call.b
                   /\ r.len = Len(r.copied)
            /\ ValidateKey(call.s) = "OK" /\ call.b > Len(value) => r.status = "OK"
=============================================================================
