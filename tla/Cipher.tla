------------------------------- MODULE Cipher -------------------------------
(***************************************************************************)
(* internal/crypto: the envelope, its marker, the Cipher and the blind      *)
(* index, on abstract strings; and the DEK set of internal/kms.             *)
(*                                                                         *)
(* A string is what Parse can tell of it: a text without the sentinel       *)
(* "$KKP$", "$KKP$=" and another string, a well-formed envelope, "$KKP$"    *)
(* and anything else, or a lowered string that had the sentinel ("$kkp$..." *)
(* does not have it any more).  AES is ideal: a ciphertext is its key, its  *)
(* associated data and its plaintext, and opens only with the same key and  *)
(* associated data.  The nonce of AES-GCM, which would only make equal      *)
(* plaintexts differ, is left out: nothing compares such ciphertexts.       *)
(***************************************************************************)
EXTENDS Naturals

CONSTANTS
  Texts,  \* strings that do not begin with the sentinel
  Lower   \* strings.ToLower on them

ASSUME LowerAssumption ==
  /\ Lower \in [Texts -> Texts]
  /\ \A x \in Texts : Lower[Lower[x]] = Lower[x]

NULL == [kind |-> "null"]
Text(x) == [kind |-> "text", of |-> x]
Escaped(v) == [kind |-> "escaped", of |-> v]
Malformed(x) == [kind |-> "malformed", of |-> x]
Lowered(v) == [kind |-> "lowered", of |-> v]

\* A string without the sentinel stays one; one with it loses it.
NormalizeLowercase(v) ==
  CASE v.kind \in {"null", "lowered"} -> v
    [] v.kind = "text" -> Text(Lower[v.of])
    [] OTHER -> Lowered(v)

-----------------------------------------------------------------------------
(* The marker.                                                              *)

HasSentinel(v) == v.kind \in {"escaped", "envelope", "malformed"}

\* An envelope of the format this version writes.
Marshal(scheme, version, ciphertext) ==
  [kind |-> "envelope", scheme |-> scheme, version |-> version, ciphertext |-> ciphertext]

\* Parse: "envelope", "plaintext" (ok = false) or "error".
Parse(v) ==
  IF ~HasSentinel(v) \/ v.kind = "escaped" THEN "plaintext"
  ELSE IF v.kind = "envelope" THEN "envelope" ELSE "error"

Escape(v) == IF HasSentinel(v) THEN Escaped(v) ELSE v

Unescape(v) == IF v.kind = "escaped" THEN v.of ELSE v

-----------------------------------------------------------------------------
(* The Cipher: a key version, one key per scheme ("d" for AES-SIV, "n" for  *)
(* AES-GCM) and the blind-index key, 0 when there is none.                  *)

NoCipher == [version |-> 0, d |-> 0, n |-> 0, index |-> 0]

Failed == [kind |-> "failed"]

NewCipher(version, d, n, index) == [version |-> version, d |-> d, n |-> n, index |-> index]

Encrypt(c, scheme, v, aad) == Marshal(scheme, c.version, [key |-> c[scheme], aad |-> aad, of |-> v])

\* Mutant: an envelope that does not open is passed through.
Decrypt_PassesUnopened(c, v, aad) ==
  CASE Parse(v) = "error" -> Failed
    [] Parse(v) = "plaintext" -> Unescape(v)
    [] OTHER -> IF /\ v.version = c.version
                   /\ v.ciphertext.key = c[v.scheme] /\ v.ciphertext.aad = aad
                THEN v.ciphertext.of ELSE v

Decrypt(c, v, aad) ==
  CASE Parse(v) = "error" -> Failed
    [] Parse(v) = "plaintext" -> Unescape(v)
    [] OTHER -> IF /\ v.version = c.version
                   /\ v.ciphertext.key = c[v.scheme] /\ v.ciphertext.aad = aad
                THEN v.ciphertext.of ELSE Failed

\* The HMAC of a value in its column.
Compute(c, v, aad) == [kind |-> "hash", key |-> c.index, aad |-> aad, of |-> v]

-----------------------------------------------------------------------------
(* The DEK set: the keys wrapped under a KEK.                               *)

Wrap(kek, key) == [kek |-> kek, key |-> key]

NoWrap == [kek |-> 0, key |-> 0]

Opens(kek, w) == w.kek = kek

NoSet == [version |-> 0, d |-> NoWrap, n |-> NoWrap, index |-> NoWrap]

\* Three fresh keys, counted from k.
GenerateDEKSet(kek, version, k) ==
  [version |-> version, d |-> Wrap(kek, k), n |-> Wrap(kek, k + 1), index |-> Wrap(kek, k + 2)]

\* The cipher of a DEK set; NoCipher when a key does not open.
OpenCipher(kek, set) ==
  IF Opens(kek, set.d) /\ Opens(kek, set.n) /\ (set.index = NoWrap \/ Opens(kek, set.index))
  THEN NewCipher(set.version, set.d.key, set.n.key, set.index.key)
  ELSE NoCipher

\* The two DEKs re-wrapped under another KEK.  The set is built without the
\* blind-index key.
RotateKEK(old, new, set) ==
  IF Opens(old, set.d) /\ Opens(old, set.n)
  THEN [version |-> set.version, d |-> Wrap(new, set.d.key), n |-> Wrap(new, set.n.key),
        index |-> NoWrap]
  ELSE NoSet
=============================================================================
