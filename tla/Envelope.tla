------------------------------ MODULE Envelope ------------------------------
(***************************************************************************)
(* The vault's files, src/record/mod.rs and their FFI: a record or a       *)
(* tombstone is `length, JSON header, has_body flag, body`; vault.json is  *)
(* one JSON value, which no prefix of it is.  A body is the plaintext of   *)
(* PlainLayout sealed by VaultCrypto.                                      *)
(***************************************************************************)
EXTENDS PlainLayout, VaultCrypto

CONSTANT VERIFIER_PLAINTEXT   \* the public constant the verifier seals

ASSUME VerifierAssumption == VERIFIER_PLAINTEXT \in Seq(Byte)

(***************************************************************************)
(* Record bodies                                                           *)
(***************************************************************************)
SealRecord(vaultKey, nonce, plaintext) ==
  IF AsKey32(vaultKey)
    THEN Ok(LocalSeal(Cclip(vaultKey), nonce, EncodePlaintext(plaintext)))
    ELSE Err("InvalidInput")

OpenRecord(vaultKey, body) ==
  LET opened == LocalOpen(Cclip(vaultKey), body)
      texts  == DecodePlaintext(opened.val)
  IN  IF ~AsKey32(vaultKey) THEN Err("InvalidInput")
      ELSE IF ~opened.ok THEN opened
      ELSE IF texts = {} THEN Err("UnsupportedFormat")
      ELSE Ok(CHOOSE text \in texts : TRUE)

(***************************************************************************)
(* Envelopes.  A body, an Option, is a sequence of at most one box.        *)
(***************************************************************************)
Header(version, deleted, syncHash) ==
  [formatVersion |-> version, deleted |-> deleted, syncHash |-> syncHash]

EncodeEnvelope(env) ==
  <<[length |-> 1], [header |-> env.header], [hasBody |-> Len(env.body)]>>
    \o (IF env.body = <<>> THEN <<>> ELSE env.body[1])

BodyOf(bytes) ==
  IF bytes[3].hasBody = 0 THEN <<>> ELSE <<SubSeq(bytes, 4, Len(bytes))>>

(* The length prefix, the header it announces and the flag are all there. *)
Whole(bytes) == Len(bytes) >= 3

(* The flag says that there is a body or that there is none. *)
FlagIsKnown(bytes) == bytes[3].hasBody \in {0, 1}

(* A body is present exactly when the record is not deleted. *)
TombstoneInvariant(header, body) == (body # <<>>) # header.deleted

DecodeEnvelope(bytes, RECORD_FORMAT_VERSION) ==
  IF ~Whole(bytes) THEN Err("UnsupportedFormat")
  ELSE LET header == bytes[2].header
           body   == BodyOf(bytes)
       IN  IF header.formatVersion = RECORD_FORMAT_VERSION
                /\ FlagIsKnown(bytes)
                /\ TombstoneInvariant(header, body)
             THEN Ok([header |-> header, body |-> body])
             ELSE Err("UnsupportedFormat")

(* The exported encoder refuses what its own decoder would refuse. *)
EncodeChecked(env, RECORD_FORMAT_VERSION) ==
  LET bytes   == EncodeEnvelope(env)
      decoded == DecodeEnvelope(bytes, RECORD_FORMAT_VERSION)
  IN  IF decoded.ok THEN Ok(bytes) ELSE decoded

(***************************************************************************)
(* vault.json                                                              *)
(***************************************************************************)
MakeVaultManifest(vaultKey, kdf, nonce, VAULT_FORMAT_VERSION) ==
  IF AsKey32(vaultKey)
    THEN Ok([formatVersion |-> VAULT_FORMAT_VERSION, kdf |-> kdf,
             verifier |-> LocalSeal(Cclip(vaultKey), nonce, VERIFIER_PLAINTEXT)])
    ELSE Err("InvalidInput")

EncodeManifest(manifest) == <<[json |-> manifest], [end |-> TRUE]>>

DecodeManifest(bytes, VAULT_FORMAT_VERSION) ==
  IF Len(bytes) = 2 /\ bytes[1].json.formatVersion = VAULT_FORMAT_VERSION
    THEN Ok(bytes[1].json)
    ELSE Err("UnsupportedFormat")

(* Mutant: any key of the right length is the vault's. *)
VerifyPassphrase_AnyKey(vaultKey, manifest) == AsKey32(vaultKey)

VerifyPassphrase(vaultKey, manifest) ==
  /\ AsKey32(vaultKey)
  /\ LocalOpen(Cclip(vaultKey), manifest.verifier) = Ok(VERIFIER_PLAINTEXT)

(* The descriptor is handed out as it is, whatever its version. *)
ManifestKdf(bytes, VAULT_FORMAT_VERSION) ==
  LET manifest == DecodeManifest(bytes, VAULT_FORMAT_VERSION)
  IN  IF manifest.ok THEN Ok(manifest.val.kdf) ELSE manifest

============================================================================
