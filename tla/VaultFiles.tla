----------------------------- MODULE VaultFiles -----------------------------
(***************************************************************************)
(* Devices that share a vault folder.  One creates vault.json from a       *)
(* passphrase; the others read it, derive the key from what their user     *)
(* types and check it against the verifier.  Devices with the key publish  *)
(* sealed records, and tombstones, which need no key to be read.  The      *)
(* provider delivers a file in pieces, so a device may read one that is    *)
(* not all there.  Devices may run builds of the core of other versions.   *)
(* The codec and the cryptography are Envelope; the shell that calls them  *)
(* and the provider are outside the core.                                  *)
(***************************************************************************)
EXTENDS Envelope, FiniteSets

CONSTANTS
  Device,
  Id,          \* record ids
  Text,        \* plaintexts users copy
  Payload,     \* what shells hash: a clip's type and content, no more
  CanonicalPayload,  \* CanonicalPayload[t]: what the shell hashes of t
  App,         \* builds of the core: their [record, vault, kdf] versions
  Fleet,       \* which devices may run which builds
  Kdf          \* key derivation parameters a shell may choose

ASSUME AppAssumption ==
  App \subseteq [record : Nat, vault : Nat, kdf : Nat] /\ Fleet \subseteq [Device -> App]

(* What users copy has lengths that their prefixes hold. *)
ASSUME TextAssumption == Text \subseteq RecordPlaintext

(* The shell makes the payload; plaintexts that differ in title or source  *)
(* bundle only have the same one.                                          *)
ASSUME PayloadAssumption == CanonicalPayload \in [Text -> Payload]

ASSUME KdfAssumption == \A k \in Kdf : k.iterations \in Nat

(* What a host passes for lack of a key is no key that is derived. *)
ASSUME NoKeyAssumption ==
  \A text \in Passphrase, k \in Kdf : NoKey # Pbkdf2(text, k.salt, k.iterations)

VARIABLES
  app,         \* app[d]: the build d runs
  vaultJson,   \* the bytes of vault.json, none before it is created
  chosen,      \* the passphrase the vault was created with, as <<p>>
  shown,       \* shown[d]: how much of vault.json the provider shows d
  kdf,         \* kdf[d]: the descriptor d got from vault.json, as <<k>>
  key,         \* key[d]: the vault key d holds
  tried,       \* tried[d]: the passphrase d was last given a verdict on, as <<p>>
  reply,       \* reply[d]: the verdict, or the error that came instead
  file,        \* file[p]: the bytes of the file with path p
  wrote,       \* wrote[i]: the plaintext of record i, as <<t>>
  sent,        \* sent[d][p]: how much of a file the provider shows d
  got          \* got[d][i]: what d made of record i

vaultVars == <<app, vaultJson, chosen, shown, kdf, key, tried, reply>>
fileVars == <<file, wrote, sent, got>>
vars == <<vaultVars, fileVars>>

Path == {"records", "tombs"} \X Id

(* What reading gives: an answer, and the plaintext where there is one. *)
Answer == {"unread", "live", "deleted"} \cup CoreError
Result(answer, text) == [is |-> answer, text |-> text]

Init ==
  /\ app \in Fleet
  /\ vaultJson = <<>> /\ chosen = <<>>
  /\ shown = [d \in Device |-> 0]
  /\ kdf = [d \in Device |-> <<>>]
  /\ key = [d \in Device |-> NoKey]
  /\ tried = [d \in Device |-> <<>>]
  /\ reply = [d \in Device |-> "none"]
  /\ file = [p \in Path |-> <<>>]
  /\ wrote = [i \in Id |-> <<>>]
  /\ sent = [d \in Device |-> [p \in Path |-> 0]]
  /\ got = [d \in Device |-> [i \in Id |-> Result("unread", <<>>)]]

(***************************************************************************)
(* The vault                                                               *)
(***************************************************************************)

(* The first device makes the vault with parameters its shell chooses. *)
Create(d, p, k) ==
  LET derived  == DeriveVaultKey(p, k, app[d].kdf)
      manifest == MakeVaultManifest(derived.val, k, 0, app[d].vault)
  IN  /\ vaultJson = <<>>
      /\ IF derived.ok
           THEN /\ tried' = [tried EXCEPT ![d] = <<p>>]
                /\ vaultJson' = EncodeManifest(manifest.val)
                /\ chosen' = <<p>>
                /\ shown' = [shown EXCEPT ![d] = Len(vaultJson')]
                /\ key' = [key EXCEPT ![d] = derived.val]
                /\ reply' = [reply EXCEPT ![d] = "right"]
           ELSE /\ reply' = [reply EXCEPT ![d] = derived.err]
                /\ UNCHANGED <<vaultJson, chosen, shown, key, tried>>
      /\ UNCHANGED <<app, kdf, fileVars>>

(* The provider shows a device more of vault.json. *)
ShowVault(d) ==
  /\ shown[d] < Len(vaultJson)
  /\ shown' = [shown EXCEPT ![d] = @ + 1]
  /\ UNCHANGED <<app, vaultJson, chosen, kdf, key, tried, reply, fileVars>>

Visible(d) == SubSeq(vaultJson, 1, shown[d])

(* Mutant: a vault that could not be read is not looked at again. *)
ReadVault_Once(d) ==
  LET answer == ManifestKdf(Visible(d), app[d].vault)
  IN  /\ shown[d] > 0 /\ key[d] = NoKey /\ kdf[d] = <<>> /\ reply[d] = "none"
      /\ IF answer.ok
           THEN kdf' = [kdf EXCEPT ![d] = <<answer.val>>] /\ UNCHANGED reply
           ELSE reply' = [reply EXCEPT ![d] = answer.err] /\ UNCHANGED kdf
      /\ UNCHANGED <<app, vaultJson, chosen, shown, key, tried, fileVars>>

(* A device asks for the parameters of an existing vault. *)
ReadVault(d) ==
  LET answer == ManifestKdf(Visible(d), app[d].vault)
  IN  /\ shown[d] > 0 /\ key[d] = NoKey /\ kdf[d] = <<>>
      /\ IF answer.ok
           THEN kdf' = [kdf EXCEPT ![d] = <<answer.val>>] /\ UNCHANGED reply
           ELSE reply' = [reply EXCEPT ![d] = answer.err] /\ UNCHANGED kdf
      /\ UNCHANGED <<app, vaultJson, chosen, shown, key, tried, fileVars>>

(* The user types a passphrase: derive the key, then ask the verifier. *)
Unlock(d, p) ==
  LET derived == DeriveVaultKey(p, kdf[d][1], app[d].kdf)
      right   == VerifyPassphrase(derived.val, DecodeManifest(Visible(d), app[d].vault).val)
  IN  /\ kdf[d] # <<>> /\ key[d] = NoKey
      /\ IF derived.ok
           THEN /\ tried' = [tried EXCEPT ![d] = <<p>>]
                /\ reply' = [reply EXCEPT ![d] = IF right THEN "right" ELSE "wrong"]
                /\ key' = IF right THEN [key EXCEPT ![d] = derived.val] ELSE key
           ELSE /\ reply' = [reply EXCEPT ![d] = derived.err]
                /\ UNCHANGED <<key, tried>>
      /\ UNCHANGED <<app, vaultJson, chosen, shown, kdf, fileVars>>

(***************************************************************************)
(* Records and tombstones                                                  *)
(***************************************************************************)

(* Write an envelope, if the encoder gives its bytes, and keep the result. *)
Write(d, p, env, result) ==
  LET bytes == EncodeChecked(env, app[d].record)
  IN  /\ bytes.ok
      /\ file' = [file EXCEPT ![p] = bytes.val]
      /\ sent' = [sent EXCEPT ![d][p] = Len(bytes.val)]
      /\ got' = [got EXCEPT ![d][p[2]] = result]
      /\ UNCHANGED vaultVars

(* A device publishes what its user copied.  The nonce is used once. *)
Publish(d, i, text) ==
  LET body == SealRecord(key[d], i, text)
      hash == ComputeSyncHash(key[d], CanonicalPayload[text])
  IN  /\ wrote[i] = <<>>
      /\ body.ok /\ hash.ok
      /\ Write(d, <<"records", i>>,
               [header |-> Header(app[d].record, FALSE, hash.val), body |-> <<body.val>>],
               Result("live", <<text>>))
      /\ wrote' = [wrote EXCEPT ![i] = <<text>>]

(* A device that has the record deletes it, and says so to the others. *)
Delete(d, i) ==
  LET hash == ComputeSyncHash(key[d], CanonicalPayload[wrote[i][1]])
  IN  /\ got[d][i].is = "live"
      /\ Write(d, <<"tombs", i>>,
               [header |-> Header(app[d].record, TRUE, hash.val), body |-> <<>>],
               Result("deleted", <<>>))
      /\ UNCHANGED wrote

(* The provider shows a device more of a file. *)
Deliver(d, p) ==
  /\ sent[d][p] < Len(file[p])
  /\ sent' = [sent EXCEPT ![d][p] = @ + 1]
  /\ UNCHANGED <<vaultVars, file, wrote, got>>

(* Mutant: a device without a key reads nothing, tombstones included. *)
ReadResult_KeyFirst(d, bytes) ==
  LET env == DecodeEnvelope(bytes, app[d].record)
  IN  IF ~env.ok THEN Result(env.err, <<>>)
      ELSE IF ~AsKey32(key[d]) THEN Result("InvalidInput", <<>>)
      ELSE IF env.val.header.deleted THEN Result("deleted", <<>>)
      ELSE LET text == OpenRecord(key[d], env.val.body[1])
           IN  IF text.ok THEN Result("live", <<text.val>>) ELSE Result(text.err, <<>>)

(* What the core makes of bytes a device hands it. *)
ReadResult(d, bytes) ==
  LET env == DecodeEnvelope(bytes, app[d].record)
  IN  IF ~env.ok THEN Result(env.err, <<>>)
      ELSE IF env.val.header.deleted THEN Result("deleted", <<>>)
      ELSE LET text == OpenRecord(key[d], env.val.body[1])
           IN  IF text.ok THEN Result("live", <<text.val>>) ELSE Result(text.err, <<>>)

(* Mutant: what a record's file says overrides what was known. *)
Read_Reopens(d, p) ==
  /\ sent[d][p] > 0
  /\ got' = [got EXCEPT ![d][p[2]] = ReadResult(d, SubSeq(file[p], 1, sent[d][p]))]
  /\ UNCHANGED <<vaultVars, file, wrote, sent>>

(* A device reads a file as far as it is there, and again if that failed. *)
Read(d, p) ==
  LET result == ReadResult(d, SubSeq(file[p], 1, sent[d][p]))
  IN  /\ sent[d][p] > 0
      /\ got[d][p[2]].is # "deleted"
      /\ got[d][p[2]].is = "live" => result.is = "deleted"
      /\ got' = [got EXCEPT ![d][p[2]] = result]
      /\ UNCHANGED <<vaultVars, file, wrote, sent>>

Next ==
  \E d \in Device :
    \/ \E p \in Passphrase : Unlock(d, p) \/ \E k \in Kdf : Create(d, p, k)
    \/ ShowVault(d)
    \/ ReadVault(d)
    \/ \E i \in Id : Delete(d, i) \/ \E t \in Text : Publish(d, i, t)
    \/ \E p \in Path : Deliver(d, p) \/ Read(d, p)

Spec == Init /\ [][Next]_vars

(* What the user typed is the vault's passphrase, in some normal form. *)
IsRight(p) == \E c \in Range(chosen) : Nfc(p) = Nfc(c)

(***************************************************************************)
(* The provider shows everything in the end; a shell that could not read a *)
(* file reads it again; and a user who is asked for the passphrase types   *)
(* it in the end, in some form.                                            *)
(***************************************************************************)
Provides == \E d \in Device : ShowVault(d) \/ \E p \in Path : Deliver(d, p)
Reads(d) == ReadVault(d) \/ \E p \in Path : Read(d, p)
TypesRight(d) == \E p \in Passphrase : IsRight(p) /\ Unlock(d, p)

Fairness ==
  /\ WF_vars(Provides)
  /\ \A d \in Device : WF_vars(Reads(d)) /\ WF_vars(TypesRight(d))

FairSpec == Spec /\ Fairness

(***************************************************************************)
(* Properties                                                              *)
(***************************************************************************)

(* The shape of the state; a key in use was derived with a salt and with   *)
(* at least one iteration, by parameters its device understands.           *)
TypeOK ==
  /\ app \in [Device -> App]
  /\ \A d \in Device :
       /\ key[d] # NoKey =>
            /\ key[d].salt # <<>> /\ key[d].iterations > 0
            /\ vaultJson[1].json.kdf.kdfVersion = app[d].kdf
       /\ shown[d] <= Len(vaultJson)
       /\ reply[d] \in {"none", "right", "wrong"} \cup CoreError
       /\ \A p \in Path : sent[d][p] <= Len(file[p])
       /\ \A i \in Id : got[d][i].is \in Answer /\ got[d][i].text \in Seq(Text)

(***************************************************************************)
(* A passphrase is accepted exactly when it is the vault's, in whatever    *)
(* Unicode form the platform's keyboard gave it, by a build that           *)
(* understands the vault: the normalisation of derive_vault_key and the    *)
(* verifier of verify_passphrase together.                                 *)
(***************************************************************************)
PassphraseDecides ==
  \A d \in Device :
    /\ reply[d] = "right" => Nfc(tried[d][1]) = Nfc(chosen[1])
    /\ reply[d] = "wrong" => Nfc(tried[d][1]) # Nfc(chosen[1])

(***************************************************************************)
(* What a device shows for a record is what its author copied, field by    *)
(* field, whichever device reads it and whenever.                          *)
(***************************************************************************)
OpenedAsPublished ==
  \A d \in Device, i \in Id : got[d][i].is = "live" => got[d][i].text = wrote[i]

(***************************************************************************)
(* Nothing is made of a file that is not all there: a device that took a   *)
(* record for live or deleted had the whole file that says so.             *)
(***************************************************************************)
NothingFromPartialFiles ==
  \A d \in Device, i \in Id :
    LET p == <<IF got[d][i].is = "live" THEN "records" ELSE "tombs", i>>
    IN  got[d][i].is \in {"live", "deleted"} =>
          file[p] # <<>> /\ sent[d][p] = Len(file[p])

(***************************************************************************)
(* The sync_hash in a record's or a tombstone's header is the one that any *)
(* device with a key computes for a copy of its own of the same content,   *)
(* whatever app or title it has there, and for no other content:           *)
(* merge_decide finds duplicates and wipes by it.                          *)
(***************************************************************************)
DedupeAgrees ==
  \A d \in Device, p \in Path, c \in Payload :
    key[d] # NoKey /\ file[p] # <<>> =>
      ( file[p][2].header.syncHash = ComputeSyncHash(key[d], c).val
          <=> c = CanonicalPayload[wrote[p[2]][1]] )

(***************************************************************************)
(* open_record opens what seal_record made ("Open a sealed body produced   *)
(* by `seal_record`"), on every device with a key and a build that reads   *)
(* the file, as long as the record has no more representations than        *)
(* decode_plaintext's cap.  One that has more, which neither seal_record   *)
(* nor the envelope refuses, can be opened by nobody, its author included. *)
(***************************************************************************)
OpensWithinCap ==
  \A d \in Device, i \in Id :
    LET bytes == SubSeq(file[<<"records", i>>], 1, sent[d][<<"records", i>>])
        env   == DecodeEnvelope(bytes, app[d].record)
    IN  ( /\ key[d] # NoKey
          /\ wrote[i] # <<>> /\ bytes = file[<<"records", i>>]
          /\ env.ok )
        => ( OpenRecord(key[d], env.val.body[1]).ok
               <=> Len(wrote[i][1].representations) <= MaxRepresentations )

(***************************************************************************)
(* What the files say of record ids is a two-phase set, the promise that   *)
(* SyncFolder builds on: an id is added once, and what a device takes for  *)
(* deleted never comes back, whatever is read in pieces, by whatever       *)
(* builds, with or without a key.                                          *)
(***************************************************************************)
Ids == INSTANCE TwoPhaseSet WITH
  Replica <- Device,
  Element <- Id,
  added   <- {i \in Id : file[<<"records", i>>] # <<>>},
  removed <- {i \in Id : file[<<"tombs", i>>] # <<>>},
  known   <- [d \in Device |-> {i \in Id : got[d][i].is \in {"live", "deleted"}}],
  gone    <- [d \in Device |-> {i \in Id : got[d][i].is = "deleted"}]

FilesAreTwoPhaseSet == Ids!TPSSpec

(***************************************************************************)
(* A user who knows the passphrase gets into the vault, from a keyboard    *)
(* that composes and from one that does not, however late the provider     *)
(* shows vault.json and however often a wrong passphrase is typed first,   *)
(* if the device's build knows the formats of the vault.                   *)
(***************************************************************************)
Understands(d) ==
  IF vaultJson = <<>> THEN FALSE
  ELSE LET manifest == vaultJson[1].json
       IN  manifest.formatVersion = app[d].vault /\ manifest.kdf.kdfVersion = app[d].kdf

KnowersGetIn == []<>(\A d \in Device : Understands(d) => key[d] # NoKey)

(***************************************************************************)
(* What was copied reaches every device that has a key and a build of the  *)
(* record's version, although reading it fails as long as it is not all    *)
(* there; and its deletion reaches every device of that version, one that  *)
(* never had the passphrase included.                                      *)
(***************************************************************************)
SameVersion(d, p) ==
  IF file[p] = <<>> THEN FALSE ELSE file[p][2].header.formatVersion = app[d].record

Readable(d, i) ==
  /\ key[d] # NoKey /\ SameVersion(d, <<"records", i>>)
  /\ \A t \in Range(wrote[i]) : Len(t.representations) <= MaxRepresentations

FilesReachDevices ==
  []<>(\A d \in Device, i \in Id :
         /\ Readable(d, i) => got[d][i].is \in {"live", "deleted"}
         /\ SameVersion(d, <<"tombs", i>>) => got[d][i].is = "deleted")

(***************************************************************************)
(* The FFI says of manifest_kdf that an unknown KDF kind or version is an  *)
(* unsupportedFormat: no device is given a descriptor of another version.  *)
(***************************************************************************)
UnknownKdfRefused ==
  \A d \in Device : kdf[d] # <<>> => kdf[d][1].kdfVersion = app[d].kdf

============================================================================
