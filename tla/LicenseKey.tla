----------------------------- MODULE LicenseKey -----------------------------
(***************************************************************************)
(* The check character of a license key, the only thing that stops a       *)
(* mistyped key before it costs one of the few activations an hour.  A     *)
(* character is its place in CHARSET; I, L and O are not in CHARSET, yet   *)
(* the pattern of validateKeyFormat lets them pass, and indexOf makes each *)
(* of them -1.                                                             *)
(***************************************************************************)
EXTENDS Integers, Sequences, SequencesExt

CONSTANTS CharCount,  \* MOD, the length of CHARSET
          KeyLength   \* characters of a key without the check character

ASSUME LicenseKeyAssumption == CharCount \in Nat \ {0} /\ KeyLength \in Nat

VARIABLES issuedKey,  \* a key the vendor has generated
          typedKey    \* what an administrator types

keyVars == <<issuedKey, typedKey>>

Char == 0..CharCount - 1
NotInCharset == -1
Undefined == -2

Sum(s) ==
  LET sum[n \in 0..Len(s)] == IF n = 0 THEN 0 ELSE sum[n - 1] + s[n]
  IN  sum[Len(s)]

\* (Defect for a mutant run: the characters of the last group are left out.)
MutantChecksumChar(s) == Sum(SubSeq(s, 1, KeyLength - 1)) % CharCount

\* CHARSET[sum % MOD]; the remainder of a negative sum is negative.
ChecksumChar(s) == IF Sum(s) < 0 THEN Undefined ELSE Sum(s) % CharCount

GenerateLicenseKey(s) == Append(s, ChecksumChar(s))

ValidateKeyFormat(k) == Last(k) = ChecksumChar(Front(k))

KeyInit ==
  /\ \E s \in [1..KeyLength -> Char] : issuedKey = GenerateLicenseKey(s)
  /\ typedKey = issuedKey

\* One character is read or typed wrong, as anything the pattern lets pass.
Mistype ==
  /\ \E n \in 1..KeyLength + 1, c \in Char \cup {NotInCharset} :
       typedKey' = [issuedKey EXCEPT ![n] = c]
  /\ UNCHANGED issuedKey

KeyNext == Mistype

KeySpec == KeyInit /\ [][KeyNext]_keyVars

-----------------------------------------------------------------------------
Wrong == {n \in DOMAIN issuedKey : typedKey[n] # issuedKey[n]}

\* A key is accepted as it was issued, and with one wrong character it is refused,
\* unless the wrong one is an I, L or O in the place of the last character of
\* CHARSET, whose value -1 is congruent to.
OneTypoIsCaught ==
  ValidateKeyFormat(typedKey) <=>
    \A n \in Wrong : /\ typedKey[n] = NotInCharset
                     /\ issuedKey[n] = CharCount - 1
                     /\ n <= KeyLength
                     /\ Sum(Front(typedKey)) >= 0
=============================================================================
