---------------------------- MODULE VaultCrypto ----------------------------
(***************************************************************************)
(* The vault's cryptography, symbolically: src/crypto/mod.rs,              *)
(* src/kdf/mod.rs and the keys of src/record/mod.rs.  A derived key is a   *)
(* record of all that went into it, so two keys are equal exactly when     *)
(* their inputs are; a sealed box opens under the key that sealed it, and  *)
(* only whole.  A file's bytes are a sequence of fields, so that a prefix  *)
(* of a file is a file cut short at a field.                               *)
(***************************************************************************)
EXTENDS Sequences, Naturals

CONSTANTS
  Passphrase,    \* passphrases as they are typed
  Nfc(_),        \* the normal form of a passphrase
  NoKey          \* what a host that has no key passes for one

ASSUME NfcAssumption ==
  \A p \in Passphrase : Nfc(p) \in Passphrase /\ Nfc(Nfc(p)) = Nfc(p)

CoreError == {"InvalidInput", "DecryptFailed", "UnsupportedFormat", "KdfFailed"}

Ok(v) == [ok |-> TRUE, val |-> v]
Err(e) == [ok |-> FALSE, err |-> e]

(* Parameters of a key derivation; the salt is a sequence of bytes. *)
Descriptor(version, salt, iterations) ==
  [kdfVersion |-> version, salt |-> salt, iterations |-> iterations]

(* Mutant: the passphrase is used as it is typed. *)
Normalized_AsTyped(passphrase) == passphrase

Normalized(passphrase) == Nfc(passphrase)

Pbkdf2(text, salt, iterations) ==
  [text |-> text, salt |-> salt, iterations |-> iterations]

(* Mutant: the parameters are not looked at. *)
DeriveVaultKey_Unchecked(passphrase, kdf, KDF_VERSION) ==
  Ok(Pbkdf2(Normalized(passphrase), kdf.salt, kdf.iterations))

(* KDF_VERSION is the version the caller's build of the core understands. *)
DeriveVaultKey(passphrase, kdf, KDF_VERSION) ==
  IF kdf.kdfVersion # KDF_VERSION THEN Err("UnsupportedFormat")
  ELSE IF kdf.salt = <<>> \/ kdf.iterations = 0 THEN Err("KdfFailed")
  ELSE Ok(Pbkdf2(Normalized(passphrase), kdf.salt, kdf.iterations))

(* A key is 32 bytes or it is not a key. *)
AsKey32(key) == key # NoKey

HkdfSubkey(master, info) == [master |-> master, info |-> info]

Cclip(master) == HkdfSubkey(master, "clipysi/v1/cclip")
Dedupe(master) == HkdfSubkey(master, "clipysi/v1/dedupe")

(* nonce, ciphertext, tag: the tag binds all three. *)
LocalSeal(key, nonce, plaintext) ==
  <<[nonce |-> nonce],
    [hides |-> plaintext, under |-> key],
    [tag |-> plaintext, of |-> nonce, by |-> key]>>

(* Mutant: the tag is not compared, and a missing one not noticed. *)
LocalOpen_Unauthenticated(key, combined) ==
  IF Len(combined) < 2 THEN Err("DecryptFailed") ELSE Ok(combined[2].hides)

(* A short box, another key or a box that is not what the key sealed. *)
LocalOpen(key, combined) ==
  IF /\ Len(combined) >= 3
     /\ combined = LocalSeal(key, combined[1].nonce, combined[2].hides)
    THEN Ok(combined[2].hides)
    ELSE Err("DecryptFailed")

ContentHash(key, payload) == [hmac |-> payload, by |-> key]

ComputeSyncHash(vaultKey, payload) ==
  IF AsKey32(vaultKey) THEN Ok(ContentHash(Dedupe(vaultKey), payload))
  ELSE Err("InvalidInput")

============================================================================
