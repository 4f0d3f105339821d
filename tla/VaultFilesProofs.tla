-------------------------- MODULE VaultFilesProofs --------------------------
(***************************************************************************)
(* Proofs about VaultFiles, for any devices, builds, passphrases, normal   *)
(* forms and parameters: the passphrase decides, and nothing is made of    *)
(* part of a file.                                                         *)
(***************************************************************************)
EXTENDS VaultFiles, LayoutProofs

(* A box opens under the key that sealed it, and under no other. *)
LEMMA OpensWhatWasSealed ==
  ASSUME NEW mine, NEW other, NEW nonce, NEW text
  PROVE  /\ LocalOpen(mine, LocalSeal(other, nonce, text)) = Ok(text) <=> mine = other
         /\ mine # other =>
              LocalOpen(mine, LocalSeal(other, nonce, text)) = Err("DecryptFailed")
<1> DEFINE box == LocalSeal(other, nonce, text)
<1>1. /\ Len(box) = 3 /\ box[1].nonce = nonce
      /\ box[2].hides = text /\ box[3].by = other
  BY DEF LocalSeal
<1>2. LocalSeal(mine, nonce, text)[3].by = mine
  BY DEF LocalSeal
<1>3. CASE mine = other
  BY <1>1, <1>3 DEF LocalOpen
<1>4. CASE mine # other
  <2>1. LocalOpen(mine, box) = Err("DecryptFailed")
    BY <1>1, <1>2, <1>4 DEF LocalOpen
  <2>2. Err("DecryptFailed") # Ok(text)
    BY DEF Err, Ok
  <2> QED BY <1>4, <2>1, <2>2
<1> QED BY <1>3, <1>4

(* A key that derive_vault_key gives is a key, and tells the normal form   *)
(* of the passphrase.                                                      *)
DerivedKey(p, k) == Pbkdf2(Nfc(p), k.salt, k.iterations)

LEMMA DerivedIsKey ==
  ASSUME NEW p \in Passphrase, NEW k \in Kdf
  PROVE  AsKey32(DerivedKey(p, k))
BY NfcAssumption, NoKeyAssumption DEF DerivedKey, AsKey32

LEMMA DerivationTellsPassphrase ==
  ASSUME NEW p, NEW q, NEW k
  PROVE  Cclip(DerivedKey(p, k)) = Cclip(DerivedKey(q, k)) <=> Nfc(p) = Nfc(q)
<1>1. \A x, y : Cclip(x) = Cclip(y) => x = y
  BY DEF Cclip, HkdfSubkey
<1>2. DerivedKey(p, k) = DerivedKey(q, k) => Nfc(p) = Nfc(q)
  BY DEF DerivedKey, Pbkdf2
<1> QED BY <1>1, <1>2 DEF DerivedKey

LEMMA Derivation ==
  ASSUME NEW p, NEW k, NEW v
  PROVE  LET derived == DeriveVaultKey(p, k, v) IN
           IF derived.ok THEN derived.val = DerivedKey(p, k)
           ELSE derived.err \notin {"right", "wrong"}
BY DEF DeriveVaultKey, DerivedKey, Normalized, Ok, Err

----------------------------------------------------------------------------
(* vault.json, once it is there, is the manifest of the chosen passphrase. *)
Manifest(v, p, k) ==
  [formatVersion |-> v, kdf |-> k,
   verifier |-> LocalSeal(Cclip(DerivedKey(p, k)), 0, VERIFIER_PLAINTEXT)]

VaultShape ==
  /\ app \in [Device -> App]
  /\ shown \in [Device -> Nat]
  /\ kdf \in [Device -> {<<>>} \cup {<<k>> : k \in Kdf}]
  /\ tried \in [Device -> {<<>>} \cup {<<p>> : p \in Passphrase}]
  /\ DOMAIN reply = Device

VaultIsMade ==
  \/ vaultJson = <<>> /\ chosen = <<>>
  \/ \E p \in Passphrase, k \in Kdf, v \in Nat :
       vaultJson = EncodeManifest(Manifest(v, p, k)) /\ chosen = <<p>>

(* A device with a descriptor has seen all of vault.json, and has its own. *)
DescriptorIsTheVaults ==
  \A d \in Device : kdf[d] # <<>> =>
    /\ vaultJson # <<>> /\ shown[d] = 2
    /\ kdf[d] = <<vaultJson[1].json.kdf>>
    /\ app[d].vault = vaultJson[1].json.formatVersion

ShownIsThere == \A d \in Device : shown[d] <= Len(vaultJson)

NoVerdictBefore ==
  vaultJson = <<>> => \A d \in Device : reply[d] \notin {"right", "wrong"}

VaultInv ==
  /\ VaultShape /\ VaultIsMade /\ ShownIsThere /\ DescriptorIsTheVaults
  /\ NoVerdictBefore /\ PassphraseDecides

LEMMA ManifestFields ==
  ASSUME NEW m
  PROVE  /\ Len(EncodeManifest(m)) = 2 /\ EncodeManifest(m) # <<>>
         /\ EncodeManifest(m)[1].json = m
BY DEF EncodeManifest

(* What a device sees of vault.json decodes only if it is all there. *)
LEMMA VisibleManifest ==
  ASSUME VaultInv, NEW d \in Device
  PROVE  /\ Len(Visible(d)) = shown[d]
         /\ shown[d] = 2 => Visible(d)[1] = vaultJson[1]
<1>1. shown[d] \in Nat
  BY DEF VaultInv, VaultShape
<1>2. \A i \in 1 .. shown[d] : vaultJson[i] \in {vaultJson[j] : j \in 1 .. shown[d]}
  OBVIOUS
<1> QED BY <1>1, <1>2, SubSeqProperties DEF Visible


LEMMA InitVault == Init => VaultInv
BY AppAssumption
   DEF Init, VaultInv, VaultShape, VaultIsMade, ShownIsThere, DescriptorIsTheVaults,
       NoVerdictBefore, PassphraseDecides

(* The first device's vault is made of the key it derived. *)
LEMMA CreateVault ==
  ASSUME VaultInv, NEW d \in Device, NEW p \in Passphrase, NEW k \in Kdf, Create(d, p, k)
  PROVE  VaultInv'
<1> DEFINE derived == DeriveVaultKey(p, k, app[d].kdf)
           manifest == MakeVaultManifest(derived.val, k, 0, app[d].vault)
<1>1. vaultJson = <<>> /\ app' = app /\ kdf' = kdf
  BY DEF Create
<1>2. \A e \in Device : kdf[e] = <<>> /\ reply[e] \notin {"right", "wrong"} /\ shown[e] = 0
  <2>1. Len(<<>>) = 0
    OBVIOUS
  <2> QED BY <1>1, <2>1 DEF VaultInv, VaultShape, DescriptorIsTheVaults, NoVerdictBefore, ShownIsThere
<1>3. CASE derived.ok
  <2>1. derived.val = DerivedKey(p, k)
    BY <1>3, Derivation
  <2>2. manifest.val = Manifest(app[d].vault, p, k)
    BY <2>1, DerivedIsKey DEF MakeVaultManifest, Manifest, Ok
  <2>3. /\ vaultJson' = EncodeManifest(Manifest(app[d].vault, p, k))
        /\ chosen' = <<p>> /\ tried' = [tried EXCEPT ![d] = <<p>>]
        /\ shown' = [shown EXCEPT ![d] = Len(vaultJson')]
        /\ reply' = [reply EXCEPT ![d] = "right"]
    BY <1>3, <2>2 DEF Create
  <2>4. Len(vaultJson') = 2 /\ vaultJson' # <<>>
    BY <2>3, ManifestFields
  <2>5. app[d].vault \in Nat
    BY AppAssumption DEF VaultInv, VaultShape
  <2>6. VaultShape'
    BY <1>1, <2>3, <2>4 DEF VaultInv, VaultShape
  <2>7. VaultIsMade'
    BY <2>3, <2>5 DEF VaultIsMade
  <2>8. ShownIsThere'
    BY <1>2, <2>3, <2>4 DEF ShownIsThere, VaultInv, VaultShape
  <2>9. DescriptorIsTheVaults' /\ NoVerdictBefore'
    BY <1>1, <1>2, <2>4 DEF DescriptorIsTheVaults, NoVerdictBefore
  <2>10. PassphraseDecides'
    BY <1>1, <1>2, <2>3 DEF PassphraseDecides, VaultInv, VaultShape
  <2> QED BY <2>6, <2>7, <2>8, <2>9, <2>10 DEF VaultInv
<1>4. CASE ~derived.ok
  <2>1. derived.err \notin {"right", "wrong"}
    BY <1>4, Derivation
  <2>2. /\ reply' = [reply EXCEPT ![d] = derived.err]
        /\ UNCHANGED <<vaultJson, chosen, shown, tried>>
    BY <1>4 DEF Create
  <2>3. VaultShape' /\ VaultIsMade' /\ ShownIsThere' /\ DescriptorIsTheVaults'
    BY <1>1, <2>2
       DEF VaultInv, VaultShape, VaultIsMade, ShownIsThere, DescriptorIsTheVaults
  <2>4. \A e \in Device : reply'[e] \notin {"right", "wrong"}
    BY <1>2, <2>1, <2>2 DEF VaultInv, VaultShape
  <2> QED BY <2>3, <2>4 DEF VaultInv, NoVerdictBefore, PassphraseDecides
<1> QED BY <1>3, <1>4

LEMMA ShowVaultStep ==
  ASSUME VaultInv, NEW d \in Device, ShowVault(d)
  PROVE  VaultInv'
<1>1. /\ shown[d] < Len(vaultJson) /\ shown' = [shown EXCEPT ![d] = @ + 1]
      /\ UNCHANGED <<app, vaultJson, chosen, kdf, tried, reply>>
  BY DEF ShowVault
<1>2. vaultJson # <<>> => Len(vaultJson) = 2
  BY ManifestFields DEF VaultInv, VaultIsMade
<1>3. VaultShape' /\ ShownIsThere'
  <2>1. Len(vaultJson) \in Nat
    <3>1. CASE vaultJson = <<>>
      BY <3>1
    <3> QED BY <1>2, <3>1
  <2> QED BY <1>1, <2>1 DEF VaultInv, VaultShape, ShownIsThere
<1>4. ASSUME NEW e \in Device, kdf[e] # <<>> PROVE shown'[e] = shown[e]
  <2>1. vaultJson # <<>> /\ shown[e] = 2
    BY <1>4 DEF VaultInv, DescriptorIsTheVaults
  <2>2. shown[d] < 2
    BY <1>1, <1>2, <2>1
  <2>3. e # d
    BY <2>1, <2>2
  <2> QED BY <1>1, <2>3 DEF VaultInv, VaultShape
<1>5. DescriptorIsTheVaults'
  BY <1>1, <1>4 DEF VaultInv, DescriptorIsTheVaults
<1>6. VaultIsMade' /\ NoVerdictBefore' /\ PassphraseDecides'
  BY <1>1 DEF VaultInv, VaultIsMade, NoVerdictBefore, PassphraseDecides
<1> QED BY <1>3, <1>5, <1>6 DEF VaultInv

(* The parameters a device gets are those of a vault.json that is all there. *)
LEMMA ReadVaultStep ==
  ASSUME VaultInv, NEW d \in Device, ReadVault(d)
  PROVE  VaultInv'
<1> DEFINE answer == ManifestKdf(Visible(d), app[d].vault)
<1>1. UNCHANGED <<app, vaultJson, chosen, shown, tried>> /\ shown[d] > 0
  BY DEF ReadVault
<1>2. VaultIsMade' /\ ShownIsThere'
  BY <1>1 DEF VaultInv, VaultIsMade, ShownIsThere
<1>3. CASE answer.ok
  <2>1. kdf' = [kdf EXCEPT ![d] = <<answer.val>>] /\ reply' = reply
    BY <1>3 DEF ReadVault
  <2>2. /\ Len(Visible(d)) = 2
        /\ Visible(d)[1].json.formatVersion = app[d].vault
        /\ answer.val = Visible(d)[1].json.kdf
    BY <1>3 DEF ManifestKdf, DecodeManifest, Ok, Err
  <2>3. shown[d] = 2 /\ Visible(d)[1] = vaultJson[1]
    BY <2>2, VisibleManifest
  <2>4. vaultJson # <<>>
    <3>1. Len(<<>>) = 0
      OBVIOUS
    <3> QED BY <2>3, <3>1 DEF VaultInv, ShownIsThere
  <2>5. vaultJson[1].json.kdf \in Kdf
    <3>1. PICK p \in Passphrase, k \in Kdf, v \in Nat :
            vaultJson = EncodeManifest(Manifest(v, p, k))
      BY <2>4 DEF VaultInv, VaultIsMade
    <3>2. vaultJson[1].json = Manifest(v, p, k)
      BY <3>1, ManifestFields
    <3> QED BY <3>2 DEF Manifest
  <2>6. VaultShape'
    BY <1>1, <2>1, <2>2, <2>3, <2>5 DEF VaultInv, VaultShape
  <2>7. DescriptorIsTheVaults'
    BY <1>1, <2>1, <2>2, <2>3, <2>4 DEF VaultInv, VaultShape, DescriptorIsTheVaults
  <2>8. NoVerdictBefore' /\ PassphraseDecides'
    BY <1>1, <2>1 DEF VaultInv, NoVerdictBefore, PassphraseDecides
  <2> QED BY <1>2, <2>6, <2>7, <2>8 DEF VaultInv
<1>4. CASE ~answer.ok
  <2>1. reply' = [reply EXCEPT ![d] = answer.err] /\ kdf' = kdf
    BY <1>4 DEF ReadVault
  <2>2. answer.err \notin {"right", "wrong"}
    BY <1>4 DEF ManifestKdf, DecodeManifest, Ok, Err
  <2>3. VaultShape' /\ DescriptorIsTheVaults'
    BY <1>1, <2>1 DEF VaultInv, VaultShape, DescriptorIsTheVaults
  <2>4. NoVerdictBefore' /\ PassphraseDecides'
    BY <1>1, <2>1, <2>2 DEF VaultInv, VaultShape, NoVerdictBefore, PassphraseDecides
  <2> QED BY <1>2, <2>3, <2>4 DEF VaultInv
<1> QED BY <1>3, <1>4

(* The verifier opens under the key of the chosen passphrase only. *)
LEMMA VerifierDecides ==
  ASSUME NEW p \in Passphrase, NEW q \in Passphrase, NEW k \in Kdf, NEW v \in Nat
  PROVE  VerifyPassphrase(DerivedKey(p, k), Manifest(v, q, k)) <=> Nfc(p) = Nfc(q)
<1>1. Manifest(v, q, k).verifier = LocalSeal(Cclip(DerivedKey(q, k)), 0, VERIFIER_PLAINTEXT)
  BY DEF Manifest
<1>2. VerifyPassphrase(DerivedKey(p, k), Manifest(v, q, k))
        <=> Cclip(DerivedKey(p, k)) = Cclip(DerivedKey(q, k))
  BY <1>1, DerivedIsKey, OpensWhatWasSealed DEF VerifyPassphrase
<1> QED BY <1>2, DerivationTellsPassphrase

LEMMA UnlockStep ==
  ASSUME VaultInv, NEW d \in Device, NEW p \in Passphrase, Unlock(d, p)
  PROVE  VaultInv'
<1> DEFINE derived == DeriveVaultKey(p, kdf[d][1], app[d].kdf)
           decoded == DecodeManifest(Visible(d), app[d].vault)
           right   == VerifyPassphrase(derived.val, decoded.val)
<1>1. /\ UNCHANGED <<app, vaultJson, chosen, shown, kdf>>
      /\ tried' = IF derived.ok THEN [tried EXCEPT ![d] = <<p>>] ELSE tried
      /\ reply' = [reply EXCEPT ![d] = IF derived.ok THEN IF right THEN "right" ELSE "wrong"
                                       ELSE derived.err]
      /\ kdf[d] # <<>>
  BY DEF Unlock
<1>2. /\ vaultJson # <<>> /\ shown[d] = 2
      /\ kdf[d] = <<vaultJson[1].json.kdf>>
      /\ app[d].vault = vaultJson[1].json.formatVersion
  BY <1>1 DEF VaultInv, DescriptorIsTheVaults
<1>3. PICK q \in Passphrase, k \in Kdf, v \in Nat :
        vaultJson = EncodeManifest(Manifest(v, q, k)) /\ chosen = <<q>>
  BY <1>2 DEF VaultInv, VaultIsMade
<1>4. vaultJson[1].json = Manifest(v, q, k) /\ kdf[d][1] = k
  BY <1>2, <1>3, ManifestFields DEF Manifest
<1>5. decoded.val = Manifest(v, q, k)
  BY <1>2, <1>4, VisibleManifest DEF DecodeManifest, Ok
<1>6. derived.ok => (right <=> Nfc(p) = Nfc(q))
  BY <1>4, <1>5, Derivation, VerifierDecides
<1>7. ~derived.ok => derived.err \notin {"right", "wrong"}
  BY Derivation
<1>8. VaultShape' /\ VaultIsMade' /\ ShownIsThere' /\ DescriptorIsTheVaults' /\ NoVerdictBefore'
  BY <1>1, <1>2
     DEF VaultInv, VaultShape, VaultIsMade, ShownIsThere, DescriptorIsTheVaults, NoVerdictBefore
<1>9. PassphraseDecides'
  <2>1. chosen' = <<q>> /\ (derived.ok => tried'[d] = <<p>>)
    BY <1>1, <1>3 DEF VaultInv, VaultShape
  <2>2. /\ reply'[d] = "right" => derived.ok /\ Nfc(p) = Nfc(q)
        /\ reply'[d] = "wrong" => derived.ok /\ Nfc(p) # Nfc(q)
    BY <1>1, <1>6, <1>7 DEF VaultInv, VaultShape
  <2>3. \A e \in Device \ {d} : reply'[e] = reply[e] /\ tried'[e] = tried[e]
    BY <1>1 DEF VaultInv, VaultShape
  <2> QED BY <1>1, <2>1, <2>2, <2>3 DEF VaultInv, PassphraseDecides
<1> QED BY <1>8, <1>9 DEF VaultInv

LEMMA StepVault == VaultInv /\ [Next]_vars => VaultInv'
<1> SUFFICES ASSUME VaultInv, [Next]_vars PROVE VaultInv'
  OBVIOUS
<1>1. CASE UNCHANGED vaultVars
  BY <1>1 DEF vaultVars, VaultInv, VaultShape, VaultIsMade, ShownIsThere,
              DescriptorIsTheVaults, NoVerdictBefore, PassphraseDecides
<1>2. ASSUME NEW d \in Device, NEW p \in Passphrase, Unlock(d, p) PROVE VaultInv'
  BY <1>2, UnlockStep
<1>3. ASSUME NEW d \in Device, NEW p \in Passphrase, NEW k \in Kdf, Create(d, p, k)
      PROVE  VaultInv'
  BY <1>3, CreateVault
<1>4. ASSUME NEW d \in Device, ShowVault(d) \/ ReadVault(d) PROVE VaultInv'
  BY <1>4, ShowVaultStep, ReadVaultStep
<1>5. ASSUME NEW d \in Device, NEW i \in Id, Delete(d, i) PROVE UNCHANGED vaultVars
  BY <1>5 DEF Delete, Write
<1>6. ASSUME NEW d \in Device, NEW i \in Id, NEW t \in Text, Publish(d, i, t)
      PROVE  UNCHANGED vaultVars
  BY <1>6 DEF Publish, Write
<1>7. ASSUME NEW d \in Device, NEW p \in Path, Deliver(d, p) \/ Read(d, p)
      PROVE  UNCHANGED vaultVars
  BY <1>7 DEF Deliver, Read
<1>8. CASE UNCHANGED vars
  BY <1>1, <1>8 DEF vars
<1> QED BY <1>1, <1>2, <1>3, <1>4, <1>5, <1>6, <1>7, <1>8 DEF Next

(* A device's verdict on what its user typed is right when it says so and  *)
(* wrong when it says so, for every normal form, every build and every     *)
(* choice of parameters: derive_vault_key and verify_passphrase.           *)
THEOREM PassphraseIsDecided == Spec => []PassphraseDecides
<1>1. VaultInv => PassphraseDecides
  BY DEF VaultInv
<1> QED BY InitVault, StepVault, <1>1, PTL DEF Spec

----------------------------------------------------------------------------
(* The fields of an envelope, and how many there are. *)
LEMMA TombstoneFields ==
  ASSUME NEW h
  PROVE  LET bytes == EncodeEnvelope([header |-> h, body |-> <<>>])
         IN  Len(bytes) = 3 /\ bytes[2].header = h
<1> DEFINE a == [length |-> 1]
           b == [header |-> h]
           c == [hasBody |-> Len(<<>>)]
<1>1. <<a, b, c>> \in Seq({a, b, c})
  OBVIOUS
<1>2. <<a, b, c>> \o <<>> = <<a, b, c>>
  BY <1>1, ConcatEmptySeq
<1> QED BY <1>2 DEF EncodeEnvelope

LEMMA ThreeAndThree ==
  ASSUME NEW S, NEW s \in Seq(S), NEW t \in Seq(S), Len(s) = 3, Len(t) = 3
  PROVE  Len(s \o t) = 6 /\ (s \o t)[2] = s[2]
<1>1. Len(s \o t) = Len(s) + Len(t)
  BY ConcatProperties
<1>2. \A i \in 1 .. Len(s) + Len(t) :
        (s \o t)[i] = IF i <= Len(s) THEN s[i] ELSE t[i - Len(s)]
  BY ConcatProperties
<1> QED BY <1>1, <1>2

LEMMA RecordFields ==
  ASSUME NEW h, NEW k, NEW n, NEW t
  PROVE  LET bytes == EncodeEnvelope([header |-> h, body |-> <<LocalSeal(k, n, t)>>])
         IN  Len(bytes) = 6 /\ bytes[2].header = h
<1> DEFINE box == LocalSeal(k, n, t)
           a == [length |-> 1]
           b == [header |-> h]
           c == [hasBody |-> Len(<<box>>)]
           S == {a, b, c, box[1], box[2], box[3]}
<1>1. <<a, b, c>> \in Seq(S)
  OBVIOUS
<1>2. box \in Seq(S) /\ Len(box) = 3
  BY DEF LocalSeal
<1>3. Len(<<a, b, c>>) = 3 /\ <<a, b, c>>[2] = b /\ b.header = h
  OBVIOUS
<1>4. EncodeEnvelope([header |-> h, body |-> <<box>>]) = <<a, b, c>> \o box
  BY DEF EncodeEnvelope
<1> HIDE DEF a, b, c, box
<1>5. Len(<<a, b, c>> \o box) = 6 /\ (<<a, b, c>> \o box)[2].header = h
  BY <1>1, <1>2, <1>3, ThreeAndThree
<1> QED BY <1>4, <1>5 DEF box

LEMMA OkFields ==
  ASSUME NEW v
  PROVE  Ok(v).ok = TRUE /\ Ok(v).val = v
BY DEF Ok

LEMMA ErrFields ==
  ASSUME NEW e
  PROVE  Err(e).ok = FALSE /\ Err(e).err = e
BY DEF Err

(* Bytes that are not an envelope of the format have one error, whatever   *)
(* is wrong with them.                                                     *)
LEMMA DecodeFails ==
  ASSUME NEW bytes, NEW v, ~DecodeEnvelope(bytes, v).ok
  PROVE  DecodeEnvelope(bytes, v).err = "UnsupportedFormat"
<1> DEFINE header == bytes[2].header
           body   == BodyOf(bytes)
           fits   == /\ header.formatVersion = v /\ FlagIsKnown(bytes)
                     /\ TombstoneInvariant(header, body)
           good   == Ok([header |-> header, body |-> body])
           bad    == Err("UnsupportedFormat")
<1>1. DecodeEnvelope(bytes, v) = IF ~Whole(bytes) THEN bad ELSE IF fits THEN good ELSE bad
  BY DEF DecodeEnvelope
<1>2. good.ok = TRUE /\ bad.err = "UnsupportedFormat"
  BY OkFields, ErrFields
<1> HIDE DEF header, body, fits, good, bad
<1> QED BY <1>1, <1>2

(* A box that does not open has one of three errors.                       *)
LEMMA OpenFails ==
  ASSUME NEW k, NEW box, ~OpenRecord(k, box).ok
  PROVE  OpenRecord(k, box).err \in {"InvalidInput", "DecryptFailed", "UnsupportedFormat"}
<1> DEFINE opened == LocalOpen(Cclip(k), box)
           texts  == DecodePlaintext(opened.val)
           good   == Ok(CHOOSE text \in texts : TRUE)
           refused == Err("InvalidInput")
           bad    == Err("UnsupportedFormat")
<1>1. OpenRecord(k, box) =
        IF ~AsKey32(k) THEN refused
        ELSE IF ~opened.ok THEN opened ELSE IF texts = {} THEN bad ELSE good
  BY DEF OpenRecord
<1>2. good.ok = TRUE /\ refused.err = "InvalidInput" /\ bad.err = "UnsupportedFormat"
  BY OkFields, ErrFields
<1>3. ~opened.ok => opened.err = "DecryptFailed"
  <2> DEFINE isSealed == /\ Len(box) >= 3
                         /\ box = LocalSeal(Cclip(k), box[1].nonce, box[2].hides)
             opens    == Ok(box[2].hides)
             failed   == Err("DecryptFailed")
  <2>1. opened = IF isSealed THEN opens ELSE failed
    BY DEF LocalOpen
  <2>2. opens.ok = TRUE /\ failed.err = "DecryptFailed"
    BY OkFields, ErrFields
  <2> HIDE DEF isSealed, opens, failed, opened
  <2> QED BY <2>1, <2>2
<1> HIDE DEF opened, texts, good, refused, bad
<1> QED BY <1>1, <1>2, <1>3, Zenon

(* A prefix of a file that is taken for a tombstone has three fields, and  *)
(* one that is taken for a record has six.                                 *)
LEMMA ReadNeedsTheFile ==
  ASSUME NEW d \in Device, NEW f, NEW n \in Nat,
         n > 0 => f[2].header.deleted \in BOOLEAN
  PROVE  LET is == ReadResult(d, SubSeq(f, 1, n)).is
         IN  /\ is = "deleted" => n >= 3 /\ f[2].header.deleted
             /\ is = "live" => n >= 6 /\ ~f[2].header.deleted
<1> DEFINE bytes == SubSeq(f, 1, n)
           env   == DecodeEnvelope(bytes, app[d].record)
           box   == SubSeq(bytes, 4, n)
           text  == OpenRecord(key[d], env.val.body[1])
<1>1. Len(bytes) = n /\ \A i \in 1 .. n : bytes[i] = f[i]
  BY SubSeqProperties, \A i \in 1 .. n : f[i] \in {f[j] : j \in 1 .. n}
<1>2. Len(box) = IF 4 <= n THEN n - 3 ELSE 0
  BY SubSeqProperties, \A i \in 4 .. n : bytes[i] \in {bytes[j] : j \in 4 .. n}
<1>3. CASE ~env.ok
  <2>1. env.err = "UnsupportedFormat"
    BY <1>3, DecodeFails
  <2> QED BY <1>3, <2>1 DEF ReadResult, Result
<1>4. CASE env.ok
  <2>1. Whole(bytes) /\ TombstoneInvariant(bytes[2].header, BodyOf(bytes))
    BY <1>4 DEF DecodeEnvelope, Ok, Err
  <2>2. env.val.header = bytes[2].header /\ env.val.body = BodyOf(bytes)
    BY <1>4 DEF DecodeEnvelope, Ok, Err
  <2>3. n >= 3 /\ bytes[2] = f[2]
    BY <1>1, <2>1 DEF Whole
  <2>4. CASE f[2].header.deleted
    BY <1>4, <2>2, <2>3, <2>4 DEF ReadResult, Result
  <2>5. CASE ~f[2].header.deleted
    <3>1. env.val.body[1] = box
      <4>1. BodyOf(bytes) # <<>>
        <5>1. bytes[2].header.deleted = FALSE
          BY <2>3, <2>5
        <5>2. (BodyOf(bytes) # <<>>) # FALSE
          BY <2>1, <5>1 DEF TombstoneInvariant
        <5> QED BY <5>2, Zenon
      <4>2. BodyOf(bytes) = <<SubSeq(bytes, 4, Len(bytes))>>
        BY <4>1 DEF BodyOf
      <4>3. BodyOf(bytes) = <<box>>
        BY <1>1, <4>2
      <4> QED BY <2>2, <4>3
    <3>2. text.ok => n >= 6
      <4>1. text.ok => LocalOpen(Cclip(key[d]), box).ok
        BY <3>1 DEF OpenRecord, Err
      <4>2. LocalOpen(Cclip(key[d]), box).ok => Len(box) >= 3
        BY DEF LocalOpen, Err
      <4> QED BY <1>2, <4>1, <4>2
    <3>3. ~text.ok => text.err \in {"InvalidInput", "DecryptFailed", "UnsupportedFormat"}
      BY OpenFails
    <3>4. ReadResult(d, bytes).is = IF text.ok THEN "live" ELSE text.err
      BY <1>4, <2>2, <2>3, <2>5 DEF ReadResult, Result
    <3> QED BY <2>5, <3>2, <3>3, <3>4
  <2> QED BY <2>4, <2>5
<1> QED BY <1>3, <1>4

----------------------------------------------------------------------------
(* A file that is there is a whole envelope of the kind its path says.     *)
Fields(p) == IF p[1] = "records" THEN 6 ELSE 3

FilesAreWhole ==
  \A p \in Path : file[p] # <<>> =>
    Len(file[p]) = Fields(p) /\ file[p][2].header.deleted = (p[1] = "tombs")

FileShape ==
  /\ DOMAIN file = Path
  /\ sent \in [Device -> [Path -> Nat]]
  /\ DOMAIN got = Device /\ \A d \in Device : DOMAIN got[d] = Id

SentIsThere == \A d \in Device, p \in Path : sent[d][p] <= Len(file[p])

(* What a device made of a record is justified by a file it has whole.     *)
Justifies(p, is) == is = IF p[1] = "records" THEN "live" ELSE "deleted"

GotFromWholeFiles ==
  \A d \in Device, p \in Path :
    Justifies(p, got[d][p[2]].is) => file[p] # <<>> /\ sent[d][p] = Len(file[p])

FilesInv == FilesAreWhole /\ FileShape /\ SentIsThere /\ GotFromWholeFiles

LEMMA PathPair ==
  ASSUME NEW p \in Path
  PROVE  p[1] \in {"records", "tombs"} /\ p[2] \in Id /\ p = <<p[1], p[2]>>
BY DEF Path

LEMMA InitFiles == Init => FilesInv
BY PathPair
   DEF Init, Result, FilesInv, FilesAreWhole, FileShape, SentIsThere, GotFromWholeFiles,
       Justifies

(* Writing a whole envelope, again or for the first time, keeps what the   *)
(* others have.                                                            *)
LEMMA WriteStep ==
  ASSUME FilesInv, NEW d \in Device, NEW p \in Path, NEW bytes, NEW result,
         bytes # <<>>, Len(bytes) = Fields(p),
         bytes[2].header.deleted = (p[1] = "tombs"),
         Justifies(p, result.is),
         file' = [file EXCEPT ![p] = bytes],
         sent' = [sent EXCEPT ![d][p] = Len(bytes)],
         got' = [got EXCEPT ![d][p[2]] = result]
  PROVE  FilesInv'
<1>1. /\ file'[p] = bytes /\ \A q \in Path \ {p} : file'[q] = file[q]
      /\ DOMAIN file' = Path
  BY DEF FilesInv, FileShape
<1>2. Fields(p) \in Nat /\ Len(bytes) \in Nat
  BY DEF Fields
<1>3. /\ sent' \in [Device -> [Path -> Nat]]
      /\ sent'[d][p] = Len(bytes)
      /\ \A e \in Device, q \in Path : e # d \/ q # p => sent'[e][q] = sent[e][q]
  BY <1>2 DEF FilesInv, FileShape
<1>4. /\ DOMAIN got' = Device /\ \A e \in Device : DOMAIN got'[e] = Id
      /\ got'[d][p[2]] = result
      /\ \A e \in Device, i \in Id : e # d \/ i # p[2] => got'[e][i] = got[e][i]
  BY PathPair DEF FilesInv, FileShape
<1>5. \A e \in Device : file[p] # <<>> => sent[e][p] <= Len(bytes)
  BY DEF FilesInv, FilesAreWhole, SentIsThere
<1>6. \A e \in Device : file[p] = <<>> => sent[e][p] = 0
  <2>1. Len(<<>>) = 0
    OBVIOUS
  <2> QED BY <2>1 DEF FilesInv, SentIsThere, FileShape
<1>7. FilesAreWhole' /\ FileShape'
  BY <1>1, <1>3, <1>4 DEF FilesInv, FilesAreWhole, FileShape
<1>8. SentIsThere'
  BY <1>1, <1>2, <1>3, <1>5, <1>6 DEF FilesInv, SentIsThere
<1>9. GotFromWholeFiles'
  <2> SUFFICES ASSUME NEW e \in Device, NEW q \in Path, Justifies(q, got'[e][q[2]].is)
               PROVE  file'[q] # <<>> /\ sent'[e][q] = Len(file'[q])
    BY DEF GotFromWholeFiles
  <2>1. CASE q = p /\ e = d
    BY <1>1, <1>3, <2>1
  <2>2. CASE q = p /\ e # d
    <3>1. Justifies(p, got[e][p[2]].is)
      BY <1>4, <2>2, PathPair
    <3>2. file[p] # <<>> /\ sent[e][p] = Len(file[p])
      BY <3>1 DEF FilesInv, GotFromWholeFiles
    <3> QED BY <1>1, <1>3, <2>2, <3>2 DEF FilesInv, FilesAreWhole
  <2>3. CASE q # p
    <3>1. Justifies(q, got[e][q[2]].is)
      <4>1. CASE e = d /\ q[2] = p[2]
        <5>1. q[1] # p[1]
          BY <2>3, <4>1, PathPair
        <5> QED BY <1>4, <4>1, <5>1, PathPair DEF Justifies
      <4>2. CASE ~(e = d /\ q[2] = p[2])
        BY <1>4, <4>2, PathPair
      <4> QED BY <4>1, <4>2
    <3> QED BY <1>1, <1>3, <2>3, <3>1 DEF FilesInv, GotFromWholeFiles
  <2> QED BY <2>1, <2>2, <2>3
<1> QED BY <1>7, <1>8, <1>9 DEF FilesInv

LEMMA CheckedBytes ==
  ASSUME NEW env, NEW v, EncodeChecked(env, v).ok
  PROVE  EncodeChecked(env, v).val = EncodeEnvelope(env)
BY DEF EncodeChecked, Ok

LEMMA PublishFiles ==
  ASSUME FilesInv, NEW d \in Device, NEW i \in Id, NEW t \in Text, Publish(d, i, t)
  PROVE  FilesInv'
<1> DEFINE p == <<"records", i>>
           body == SealRecord(key[d], i, t)
           hash == ComputeSyncHash(key[d], CanonicalPayload[t])
           env == [header |-> Header(app[d].record, FALSE, hash.val), body |-> <<body.val>>]
           bytes == EncodeEnvelope(env)
<1>1. body.ok /\ Write(d, p, env, Result("live", <<t>>))
  BY DEF Publish
<1>2. body.val = LocalSeal(Cclip(key[d]), i, EncodePlaintext(t))
  BY <1>1 DEF SealRecord, Ok, Err
<1>3. Len(bytes) = 6 /\ bytes[2].header = Header(app[d].record, FALSE, hash.val)
  <2> DEFINE header == Header(app[d].record, FALSE, hash.val)
             clip == Cclip(key[d])
             plain == EncodePlaintext(t)
  <2>1. bytes = EncodeEnvelope([header |-> header, body |-> <<LocalSeal(clip, i, plain)>>])
    BY <1>2
  <2> HIDE DEF header, bytes, clip, plain
  <2>2. Len(bytes) = 6 /\ bytes[2].header = header
    BY <2>1, RecordFields
  <2> QED BY <2>2 DEF header
<1>4. p \in Path /\ p[1] = "records" /\ p[2] = i
  BY DEF Path
<1>5. /\ file' = [file EXCEPT ![p] = bytes]
      /\ sent' = [sent EXCEPT ![d][p] = Len(bytes)]
      /\ got' = [got EXCEPT ![d][p[2]] = Result("live", <<t>>)]
  BY <1>1, CheckedBytes DEF Write
<1>6. bytes # <<>>
  BY <1>3
<1>7. bytes[2].header.deleted = FALSE
  BY <1>3 DEF Header
<1>8. Fields(p) = 6 /\ Justifies(p, Result("live", <<t>>).is)
  BY <1>4 DEF Fields, Justifies, Result
<1> HIDE DEF p, bytes
<1> QED BY <1>3, <1>4, <1>5, <1>6, <1>7, <1>8, WriteStep

LEMMA DeleteFiles ==
  ASSUME FilesInv, NEW d \in Device, NEW i \in Id, Delete(d, i)
  PROVE  FilesInv'
<1> DEFINE p == <<"tombs", i>>
           hash == ComputeSyncHash(key[d], CanonicalPayload[wrote[i][1]])
           env == [header |-> Header(app[d].record, TRUE, hash.val), body |-> <<>>]
           bytes == EncodeEnvelope(env)
<1>1. Write(d, p, env, Result("deleted", <<>>))
  BY DEF Delete
<1>2. Len(bytes) = 3 /\ bytes[2].header = Header(app[d].record, TRUE, hash.val)
  BY TombstoneFields
<1>3. p \in Path /\ p[1] = "tombs" /\ p[2] = i
  BY DEF Path
<1>4. /\ file' = [file EXCEPT ![p] = bytes]
      /\ sent' = [sent EXCEPT ![d][p] = Len(bytes)]
      /\ got' = [got EXCEPT ![d][p[2]] = Result("deleted", <<>>)]
  BY <1>1, CheckedBytes DEF Write
<1>5. bytes # <<>> /\ bytes[2].header.deleted = TRUE
  BY <1>2 DEF Header
<1>6. Fields(p) = 3 /\ Justifies(p, Result("deleted", <<>>).is)
  BY <1>3 DEF Fields, Justifies, Result
<1> HIDE DEF p, bytes
<1> QED BY <1>2, <1>3, <1>4, <1>5, <1>6, WriteStep

(* The provider showing a device one more field of p takes away no file    *)
(* that a result rests on: p itself was not there in full.                 *)
LEMMA DeliverStep ==
  ASSUME FilesInv, NEW d \in Device, NEW p \in Path, Deliver(d, p)
  PROVE  FilesInv'
<1>1. UNCHANGED <<file, got>> /\ sent[d][p] < Len(file[p])
      /\ sent' = [sent EXCEPT ![d][p] = @ + 1]
  BY DEF Deliver
<1>2. /\ sent' \in [Device -> [Path -> Nat]]
      /\ sent'[d][p] = sent[d][p] + 1
      /\ \A e \in Device, q \in Path : e # d \/ q # p => sent'[e][q] = sent[e][q]
  BY <1>1 DEF FilesInv, FileShape
<1>3. file[p] # <<>>
  <2>1. sent[d][p] \in Nat
    BY DEF FilesInv, FileShape
  <2>2. Len(<<>>) = 0
    OBVIOUS
  <2> QED BY <1>1, <2>1, <2>2
<1>4. Len(file[p]) \in Nat
  BY <1>3 DEF FilesInv, FilesAreWhole, Fields
<1>5. sent'[d][p] <= Len(file[p])
  BY <1>1, <1>2, <1>4 DEF FilesInv, FileShape
<1>6. ~Justifies(p, got[d][p[2]].is)
  BY <1>1, <1>4 DEF FilesInv, FileShape, GotFromWholeFiles
<1>7. FilesAreWhole' /\ FileShape' /\ SentIsThere'
  BY <1>1, <1>2, <1>5 DEF FilesInv, FilesAreWhole, FileShape, SentIsThere
<1>8. GotFromWholeFiles'
  BY <1>1, <1>2, <1>6 DEF FilesInv, GotFromWholeFiles
<1> QED BY <1>7, <1>8 DEF FilesInv

(* What a device makes of a prefix is live or deleted only when the prefix *)
(* is the file: the field count of the kind its header says leaves no room *)
(* for a shorter one.                                                      *)
LEMMA ReadStep ==
  ASSUME FilesInv, NEW d \in Device, NEW p \in Path, Read(d, p)
  PROVE  FilesInv'
<1> DEFINE n == sent[d][p]
           result == ReadResult(d, SubSeq(file[p], 1, n))
<1>1. /\ UNCHANGED <<file, sent>> /\ n > 0
      /\ got' = [got EXCEPT ![d][p[2]] = result]
  BY DEF Read
<1>2. n \in Nat /\ n <= Len(file[p])
  BY DEF FilesInv, FileShape, SentIsThere
<1>3. file[p] # <<>>
  <2>1. Len(<<>>) = 0
    OBVIOUS
  <2> QED BY <1>1, <1>2, <2>1
<1>4. Len(file[p]) = Fields(p) /\ file[p][2].header.deleted = (p[1] = "tombs")
  BY <1>3 DEF FilesInv, FilesAreWhole
<1>5. /\ result.is = "deleted" => n >= 3 /\ file[p][2].header.deleted
      /\ result.is = "live" => n >= 6 /\ ~file[p][2].header.deleted
  BY <1>2, <1>4, ReadNeedsTheFile
<1> HIDE DEF result
<1>6. /\ result.is = "deleted" => p[1] = "tombs" /\ n = Len(file[p])
      /\ result.is = "live" => p[1] = "records" /\ n = Len(file[p])
  <2>1. /\ result.is = "deleted" => p[1] = "tombs"
        /\ result.is = "live" => p[1] # "tombs"
    BY <1>4, <1>5, Zenon
  <2>2. p[1] \in {"records", "tombs"}
    BY PathPair
  <2>3. Len(file[p]) = IF p[1] = "records" THEN 6 ELSE 3
    BY <1>4 DEF Fields
  <2>4. /\ result.is = "deleted" => n >= 3
        /\ result.is = "live" => n >= 6
    BY <1>5, Zenon
  <2> HIDE DEF n
  <2> QED BY <1>2, <2>1, <2>2, <2>3, <2>4
<1>7. /\ DOMAIN got' = Device /\ \A e \in Device : DOMAIN got'[e] = Id
      /\ got'[d][p[2]] = result
      /\ \A e \in Device, i \in Id : e # d \/ i # p[2] => got'[e][i] = got[e][i]
  BY <1>1, PathPair DEF FilesInv, FileShape
<1>8. FilesAreWhole' /\ FileShape' /\ SentIsThere'
  BY <1>1, <1>7 DEF FilesInv, FilesAreWhole, FileShape, SentIsThere
<1>9. GotFromWholeFiles'
  <2> SUFFICES ASSUME NEW e \in Device, NEW q \in Path, Justifies(q, got'[e][q[2]].is)
               PROVE  file[q] # <<>> /\ sent[e][q] = Len(file[q])
    BY <1>1 DEF GotFromWholeFiles
  <2>1. CASE e = d /\ q[2] = p[2]
    <3>1. Justifies(q, result.is)
      BY <1>7, <2>1
    <3>2. q[1] = p[1] /\ n = Len(file[p])
      BY <1>6, <3>1, PathPair DEF Justifies
    <3>3. q = p
      BY <2>1, <3>2, PathPair
    <3> QED BY <1>3, <2>1, <3>2, <3>3
  <2>2. CASE ~(e = d /\ q[2] = p[2])
    BY <1>7, <2>2, PathPair DEF FilesInv, GotFromWholeFiles
  <2> QED BY <2>1, <2>2
<1> QED BY <1>8, <1>9 DEF FilesInv

LEMMA StepFiles == FilesInv /\ [Next]_vars => FilesInv'
<1> SUFFICES ASSUME FilesInv, [Next]_vars PROVE FilesInv'
  OBVIOUS
<1>1. CASE UNCHANGED fileVars
  BY <1>1 DEF fileVars, FilesInv, FilesAreWhole, FileShape, SentIsThere, GotFromWholeFiles
<1>2. ASSUME NEW d \in Device, NEW p \in Passphrase, Unlock(d, p) PROVE UNCHANGED fileVars
  BY <1>2 DEF Unlock
<1>3. ASSUME NEW d \in Device, NEW p \in Passphrase, NEW k \in Kdf, Create(d, p, k)
      PROVE  UNCHANGED fileVars
  BY <1>3 DEF Create
<1>4. ASSUME NEW d \in Device, ShowVault(d) \/ ReadVault(d) PROVE UNCHANGED fileVars
  BY <1>4 DEF ShowVault, ReadVault
<1>5. ASSUME NEW d \in Device, NEW i \in Id, Delete(d, i) PROVE FilesInv'
  BY <1>5, DeleteFiles
<1>6. ASSUME NEW d \in Device, NEW i \in Id, NEW t \in Text, Publish(d, i, t)
      PROVE  FilesInv'
  BY <1>6, PublishFiles
<1>7. ASSUME NEW d \in Device, NEW p \in Path, Deliver(d, p) \/ Read(d, p)
      PROVE  FilesInv'
  BY <1>7, DeliverStep, ReadStep
<1>8. CASE UNCHANGED vars
  BY <1>1, <1>8 DEF vars
<1> QED BY <1>1, <1>2, <1>3, <1>4, <1>5, <1>6, <1>7, <1>8 DEF Next

(* A device that took a record for live or deleted had the whole file that *)
(* says so, however the provider cuts files into pieces: decode_envelope   *)
(* and open_record refuse every prefix.                                    *)
THEOREM PartialFilesSayNothing == Spec => []NothingFromPartialFiles
<1>1. FilesInv => NothingFromPartialFiles
  <2> SUFFICES ASSUME FilesInv, NEW d \in Device, NEW i \in Id
               PROVE  LET p == <<IF got[d][i].is = "live" THEN "records" ELSE "tombs", i>>
                      IN  got[d][i].is \in {"live", "deleted"} =>
                            file[p] # <<>> /\ sent[d][p] = Len(file[p])
    BY DEF NothingFromPartialFiles
  <2>1. CASE got[d][i].is = "live"
    <3>1. <<"records", i>> \in Path
      BY DEF Path
    <3> QED BY <2>1, <3>1 DEF FilesInv, GotFromWholeFiles, Justifies
  <2>2. CASE got[d][i].is = "deleted"
    <3>1. <<"tombs", i>> \in Path
      BY DEF Path
    <3> QED BY <2>2, <3>1 DEF FilesInv, GotFromWholeFiles, Justifies
  <2> QED BY <2>1, <2>2
<1> QED BY InitFiles, StepFiles, <1>1, PTL DEF Spec

----------------------------------------------------------------------------
(* The box of a record's file, and what the file decodes to when all of it *)
(* is there.                                                               *)
LEMMA RecordBox ==
  ASSUME NEW h, NEW k, NEW n, NEW t
  PROVE  LET bytes == EncodeEnvelope([header |-> h, body |-> <<LocalSeal(k, n, t)>>])
         IN  /\ SubSeq(bytes, 1, 6) = bytes
             /\ SubSeq(bytes, 4, 6) = LocalSeal(k, n, t)
             /\ bytes[3].hasBody = 1
<1> DEFINE box == LocalSeal(k, n, t)
           a == [length |-> 1]
           b == [header |-> h]
           c == [hasBody |-> Len(<<box>>)]
           start == <<a, b, c>>
           bytes == EncodeEnvelope([header |-> h, body |-> <<box>>])
           S == {a, b, c, box[1], box[2], box[3]}
<1>1. start \in Seq(S) /\ Len(start) = 3 /\ start[3] = c /\ c.hasBody = 1
  OBVIOUS
<1>2. box \in Seq(S) /\ Len(box) = 3
  BY DEF LocalSeal
<1>3. bytes = start \o box
  BY DEF EncodeEnvelope
<1> HIDE DEF a, b, c, box, start, bytes, S
<1>4. /\ bytes \in Seq(S) /\ Len(bytes) = 6
      /\ \A i \in 1 .. 6 : bytes[i] = IF i <= 3 THEN start[i] ELSE box[i - 3]
  <2>1. start \o box \in Seq(S) /\ Len(start \o box) = Len(start) + Len(box)
    BY <1>1, <1>2, ConcatProperties
  <2>2. \A i \in 1 .. Len(start) + Len(box) :
          (start \o box)[i] = IF i <= Len(start) THEN start[i] ELSE box[i - Len(start)]
    BY <1>1, <1>2, ConcatProperties
  <2> QED BY <1>1, <1>2, <1>3, <2>1, <2>2
<1>5. SubSeq(bytes, 1, 6) = bytes
  <2>1. \A i \in 1 .. 6 : bytes[i] \in S
    BY <1>4, ElementOfSeq
  <2>2. /\ SubSeq(bytes, 1, 6) \in Seq(S) /\ Len(SubSeq(bytes, 1, 6)) = 6
        /\ \A i \in 1 .. 6 : SubSeq(bytes, 1, 6)[i] = bytes[i]
    BY <2>1, SubSeqProperties
  <2> QED BY <1>4, <2>2, SeqEqual
<1>6. SubSeq(bytes, 4, 6) = box
  <2>1. \A i \in 4 .. 6 : bytes[i] \in S
    BY <1>4, ElementOfSeq
  <2>2. /\ SubSeq(bytes, 4, 6) \in Seq(S) /\ Len(SubSeq(bytes, 4, 6)) = 3
        /\ \A i \in 1 .. 3 : SubSeq(bytes, 4, 6)[i] = bytes[i + 3]
    BY <2>1, SubSeqProperties
  <2>3. \A i \in 1 .. 3 : SubSeq(bytes, 4, 6)[i] = box[i]
    BY <1>4, <2>2
  <2> QED BY <1>2, <2>2, <2>3, SeqEqual
<1>7. bytes[3].hasBody = 1
  BY <1>1, <1>4
<1> QED BY <1>5, <1>6, <1>7 DEF bytes, box

(* What decode_envelope makes of all of a record's file.                   *)
LEMMA DecodedRecord ==
  ASSUME NEW h, NEW k, NEW n, NEW t, NEW v
  PROVE  LET env == DecodeEnvelope(EncodeEnvelope([header |-> h, body |-> <<LocalSeal(k, n, t)>>]), v)
         IN  env.ok => env.val = [header |-> h, body |-> <<LocalSeal(k, n, t)>>]
<1> DEFINE box == LocalSeal(k, n, t)
           bytes == EncodeEnvelope([header |-> h, body |-> <<box>>])
<1>1. Len(bytes) = 6 /\ bytes[2].header = h
  BY RecordFields
<1>2. SubSeq(bytes, 4, 6) = box /\ bytes[3].hasBody = 1
  BY RecordBox
<1> HIDE DEF bytes, box
<1>3. BodyOf(bytes) = <<box>>
  BY <1>1, <1>2 DEF BodyOf
<1>4. DecodeEnvelope(bytes, v).ok =>
        DecodeEnvelope(bytes, v).val = [header |-> h, body |-> <<box>>]
  BY <1>1, <1>3 DEF DecodeEnvelope, Ok, Err
<1> QED BY <1>4 DEF bytes, box

(* A key opens what it sealed if it reads back, and nothing else.          *)
LEMMA OpenSealed ==
  ASSUME NEW mine, NEW other, NEW n, NEW t, ReadsBack(t)
  PROVE  LET text == OpenRecord(mine, LocalSeal(Cclip(other), n, EncodePlaintext(t)))
         IN  /\ text.ok => text.val = t /\ AsKey32(mine)
             /\ AsKey32(mine) /\ mine = other =>
                  (text.ok <=> Len(t.representations) <= MaxRepresentations)
<1> DEFINE bytes == EncodePlaintext(t)
           opened == LocalOpen(Cclip(mine), LocalSeal(Cclip(other), n, bytes))
           text == OpenRecord(mine, LocalSeal(Cclip(other), n, bytes))
<1>1. /\ Cclip(mine) = Cclip(other) => opened = Ok(bytes)
      /\ Cclip(mine) # Cclip(other) => opened = Err("DecryptFailed")
  BY OpensWhatWasSealed
<1>2. DecodePlaintext(bytes) = IF Len(t.representations) <= MaxRepresentations THEN {t} ELSE {}
  BY DEF ReadsBack
<1>3. (CHOOSE x \in {t} : TRUE) = t
  OBVIOUS
<1>4. CASE Cclip(mine) = Cclip(other)
  <2>1. opened.ok /\ opened.val = bytes
    BY <1>1, <1>4 DEF Ok
  <2> HIDE DEF bytes, opened
  <2>2. text = IF ~AsKey32(mine) THEN Err("InvalidInput")
               ELSE IF DecodePlaintext(bytes) = {} THEN Err("UnsupportedFormat")
               ELSE Ok(CHOOSE x \in DecodePlaintext(bytes) : TRUE)
    BY <2>1 DEF OpenRecord, opened, bytes
  <2>3. AsKey32(mine) => text = IF Len(t.representations) <= MaxRepresentations
                                   THEN Ok(t) ELSE Err("UnsupportedFormat")
    <3>1. CASE Len(t.representations) <= MaxRepresentations
      <4>1. DecodePlaintext(bytes) = {t} /\ {t} # {}
        BY <1>2, <3>1 DEF bytes
      <4> QED BY <1>3, <2>2, <3>1, <4>1
    <3>2. CASE ~(Len(t.representations) <= MaxRepresentations)
      BY <1>2, <2>2, <3>2 DEF bytes
    <3> QED BY <3>1, <3>2
  <2> HIDE DEF text
  <2>4. text.ok => text.val = t /\ AsKey32(mine)
    BY <2>2, <2>3 DEF Ok, Err
  <2>5. AsKey32(mine) => (text.ok <=> Len(t.representations) <= MaxRepresentations)
    <3>1. Ok(t).ok = TRUE /\ Err("UnsupportedFormat").ok = FALSE
      BY DEF Ok, Err
    <3> QED BY <2>3, <3>1, Zenon
  <2> QED BY <2>4, <2>5 DEF text, bytes
<1>5. CASE Cclip(mine) # Cclip(other)
  <2>1. ~opened.ok /\ mine # other
    BY <1>1, <1>5 DEF Err
  <2>2. ~text.ok
    BY <1>1, <1>5, <2>1 DEF OpenRecord, Err
  <2> QED BY <2>1, <2>2
<1> QED BY <1>4, <1>5

----------------------------------------------------------------------------
(* Every key in use is the one vault.json was made with, by parameters     *)
(* that its device's build accepted.                                       *)
VaultKdf == vaultJson[1].json.kdf
VaultKey == DerivedKey(chosen[1], VaultKdf)

KeysAreTheVaults ==
  /\ DOMAIN key = Device
  /\ \A d \in Device : key[d] # NoKey =>
       /\ vaultJson # <<>> /\ key[d] = VaultKey
       /\ VaultKdf.salt # <<>> /\ VaultKdf.iterations > 0
       /\ VaultKdf.kdfVersion = app[d].kdf

RepliesAreKnown ==
  \A d \in Device : reply[d] \in {"none", "right", "wrong"} \cup CoreError

KeyInv == VaultInv /\ KeysAreTheVaults /\ RepliesAreKnown

LEMMA InitKeys == Init => KeyInv
BY InitVault DEF Init, KeyInv, KeysAreTheVaults, RepliesAreKnown

(* A derivation that succeeds was given parameters of its own version, a   *)
(* salt and an iteration.                                                  *)
LEMMA DerivationChecks ==
  ASSUME NEW p \in Passphrase, NEW k \in Kdf, NEW v
  PROVE  LET derived == DeriveVaultKey(p, k, v)
         IN  /\ derived.ok => k.kdfVersion = v /\ k.salt # <<>> /\ k.iterations > 0
             /\ ~derived.ok => derived.err \in CoreError
BY KdfAssumption DEF DeriveVaultKey, Ok, Err, CoreError

LEMMA CreateKeys ==
  ASSUME KeyInv, NEW d \in Device, NEW p \in Passphrase, NEW k \in Kdf, Create(d, p, k)
  PROVE  KeyInv'
<1> DEFINE derived == DeriveVaultKey(p, k, app[d].kdf)
           manifest == MakeVaultManifest(derived.val, k, 0, app[d].vault)
<1>1. vaultJson = <<>> /\ app' = app
  BY DEF Create
<1>2. \A e \in Device : key[e] = NoKey
  BY <1>1 DEF KeyInv, KeysAreTheVaults
<1>3. VaultInv'
  BY CreateVault DEF KeyInv
<1>4. CASE derived.ok
  <2>1. derived.val = DerivedKey(p, k)
    BY <1>4, Derivation
  <2>2. manifest.val = Manifest(app[d].vault, p, k)
    BY <2>1, DerivedIsKey DEF MakeVaultManifest, Manifest, Ok
  <2>3. /\ vaultJson' = EncodeManifest(Manifest(app[d].vault, p, k))
        /\ chosen' = <<p>>
        /\ key' = [key EXCEPT ![d] = DerivedKey(p, k)]
        /\ reply' = [reply EXCEPT ![d] = "right"]
    BY <1>4, <2>1, <2>2 DEF Create
  <2>4. vaultJson' # <<>> /\ vaultJson'[1].json = Manifest(app[d].vault, p, k)
    BY <2>3, ManifestFields
  <2>5. VaultKdf' = k /\ VaultKey' = DerivedKey(p, k)
    BY <2>3, <2>4 DEF VaultKdf, VaultKey, Manifest
  <2>6. k.kdfVersion = app[d].kdf /\ k.salt # <<>> /\ k.iterations > 0
    BY <1>4, DerivationChecks
  <2>7. KeysAreTheVaults'
    BY <1>1, <1>2, <2>3, <2>4, <2>5, <2>6 DEF KeyInv, KeysAreTheVaults
  <2>8. RepliesAreKnown'
    BY <2>3 DEF KeyInv, RepliesAreKnown, VaultInv, VaultShape
  <2> QED BY <1>3, <2>7, <2>8 DEF KeyInv
<1>5. CASE ~derived.ok
  <2>1. derived.err \in CoreError
    BY <1>5, DerivationChecks
  <2>2. UNCHANGED <<vaultJson, chosen, key>> /\ reply' = [reply EXCEPT ![d] = derived.err]
    BY <1>5 DEF Create
  <2>3. KeysAreTheVaults' /\ RepliesAreKnown'
    BY <1>1, <2>1, <2>2
       DEF KeyInv, KeysAreTheVaults, VaultKdf, VaultKey, RepliesAreKnown, VaultInv, VaultShape
  <2> QED BY <1>3, <2>3 DEF KeyInv
<1> QED BY <1>4, <1>5

LEMMA ReadVaultKeys ==
  ASSUME KeyInv, NEW d \in Device, ReadVault(d)
  PROVE  KeyInv'
<1> DEFINE answer == ManifestKdf(Visible(d), app[d].vault)
<1>1. UNCHANGED <<app, vaultJson, chosen, key>>
  BY DEF ReadVault
<1>2. reply' = reply \/ (~answer.ok /\ reply' = [reply EXCEPT ![d] = answer.err])
  BY DEF ReadVault
<1>3. ~answer.ok => answer.err \in CoreError
  BY DEF ManifestKdf, DecodeManifest, Ok, Err, CoreError
<1>4. VaultInv'
  BY ReadVaultStep DEF KeyInv
<1>5. KeysAreTheVaults' /\ RepliesAreKnown'
  BY <1>1, <1>2, <1>3
     DEF KeyInv, KeysAreTheVaults, VaultKdf, VaultKey, RepliesAreKnown, VaultInv, VaultShape
<1> QED BY <1>4, <1>5 DEF KeyInv

(* A key that the verifier accepts is the vault's, whatever form of the    *)
(* passphrase it was derived from.                                         *)
LEMMA UnlockKeys ==
  ASSUME KeyInv, NEW d \in Device, NEW p \in Passphrase, Unlock(d, p)
  PROVE  KeyInv' /\ \A e \in Device : key[e] # NoKey => key'[e] = key[e]
<1> DEFINE derived == DeriveVaultKey(p, kdf[d][1], app[d].kdf)
           decoded == DecodeManifest(Visible(d), app[d].vault)
           right   == VerifyPassphrase(derived.val, decoded.val)
<1>1. /\ UNCHANGED <<app, vaultJson, chosen>>
      /\ reply' = [reply EXCEPT ![d] = IF derived.ok THEN IF right THEN "right" ELSE "wrong"
                                       ELSE derived.err]
      /\ key' = IF derived.ok /\ right THEN [key EXCEPT ![d] = derived.val] ELSE key
      /\ kdf[d] # <<>> /\ key[d] = NoKey
  BY DEF Unlock
<1>2. /\ vaultJson # <<>> /\ shown[d] = 2
      /\ kdf[d] = <<vaultJson[1].json.kdf>>
      /\ app[d].vault = vaultJson[1].json.formatVersion
  BY <1>1 DEF KeyInv, VaultInv, DescriptorIsTheVaults
<1>3. PICK q \in Passphrase, k \in Kdf, v \in Nat :
        vaultJson = EncodeManifest(Manifest(v, q, k)) /\ chosen = <<q>>
  BY <1>2 DEF KeyInv, VaultInv, VaultIsMade
<1>4. vaultJson[1].json = Manifest(v, q, k) /\ kdf[d][1] = k /\ VaultKdf = k
      /\ VaultKey = DerivedKey(q, k)
  BY <1>2, <1>3, ManifestFields DEF Manifest, VaultKdf, VaultKey
<1>5. decoded.val = Manifest(v, q, k)
  BY <1>2, <1>4, VisibleManifest DEF DecodeManifest, Ok, KeyInv
<1>6. derived.ok =>
        /\ derived.val = DerivedKey(p, k)
        /\ right => Nfc(p) = Nfc(q)
        /\ k.kdfVersion = app[d].kdf /\ k.salt # <<>> /\ k.iterations > 0
  BY <1>4, <1>5, Derivation, VerifierDecides, DerivationChecks
<1>7. derived.ok /\ right => derived.val = VaultKey
  BY <1>4, <1>6 DEF DerivedKey
<1>8. ~derived.ok => derived.err \in CoreError
  BY <1>4, DerivationChecks
<1>9. VaultInv'
  BY UnlockStep DEF KeyInv
<1>10. KeysAreTheVaults'
  <2>1. VaultKdf' = VaultKdf /\ VaultKey' = VaultKey /\ vaultJson' # <<>>
    BY <1>1, <1>2 DEF VaultKdf, VaultKey
  <2>2. CASE derived.ok /\ right
    <3>1. key' = [key EXCEPT ![d] = VaultKey]
      BY <1>1, <1>7, <2>2
    <3> QED BY <1>1, <1>4, <1>6, <2>1, <2>2, <3>1 DEF KeyInv, KeysAreTheVaults
  <2>3. CASE ~(derived.ok /\ right)
    <3>1. key' = key
      BY <1>1, <2>3
    <3> QED BY <1>1, <2>1, <3>1 DEF KeyInv, KeysAreTheVaults
  <2> QED BY <2>2, <2>3
<1>11. RepliesAreKnown'
  BY <1>1, <1>8 DEF KeyInv, RepliesAreKnown, VaultInv, VaultShape
<1>12. \A e \in Device : key[e] # NoKey => key'[e] = key[e]
  BY <1>1 DEF KeyInv, KeysAreTheVaults
<1> QED BY <1>9, <1>10, <1>11, <1>12 DEF KeyInv

LEMMA StepKeys == KeyInv /\ [Next]_vars => KeyInv'
<1> SUFFICES ASSUME KeyInv, [Next]_vars PROVE KeyInv'
  OBVIOUS
<1> USE DEF KeyInv
<1>1. CASE UNCHANGED <<app, vaultJson, chosen, key, reply>>
  <2>1. VaultInv'
    BY StepVault
  <2> QED BY <1>1, <2>1 DEF KeysAreTheVaults, VaultKdf, VaultKey, RepliesAreKnown
<1>2. ASSUME NEW d \in Device, NEW p \in Passphrase, Unlock(d, p) PROVE KeyInv'
  BY <1>2, UnlockKeys
<1>3. ASSUME NEW d \in Device, NEW p \in Passphrase, NEW k \in Kdf, Create(d, p, k)
      PROVE  KeyInv'
  BY <1>3, CreateKeys
<1>4. ASSUME NEW d \in Device, ReadVault(d) PROVE KeyInv'
  BY <1>4, ReadVaultKeys
<1>5. ASSUME NEW d \in Device, ShowVault(d) PROVE KeyInv'
  BY <1>1, <1>5 DEF ShowVault
<1>6. ASSUME NEW d \in Device, NEW i \in Id, Delete(d, i) PROVE UNCHANGED vaultVars
  BY <1>6 DEF Delete, Write
<1>7. ASSUME NEW d \in Device, NEW i \in Id, NEW t \in Text, Publish(d, i, t)
      PROVE  UNCHANGED vaultVars
  BY <1>7 DEF Publish, Write
<1>8. ASSUME NEW d \in Device, NEW p \in Path, Deliver(d, p) \/ Read(d, p)
      PROVE  UNCHANGED vaultVars
  BY <1>8 DEF Deliver, Read
<1> QED BY <1>1, <1>2, <1>3, <1>4, <1>5, <1>6, <1>7, <1>8 DEF Next, vars, vaultVars

----------------------------------------------------------------------------
(* What the files of a record are, down to the key and the hash.           *)
HashOf(t) == ContentHash(Dedupe(VaultKey), CanonicalPayload[t])

RecordFile(i, t, v) ==
  EncodeEnvelope([header |-> Header(v, FALSE, HashOf(t)),
                  body |-> <<LocalSeal(Cclip(VaultKey), i, EncodePlaintext(t))>>])

TombFile(t, v) == EncodeEnvelope([header |-> Header(v, TRUE, HashOf(t)), body |-> <<>>])

Unwritten(i) ==
  wrote[i] = <<>> /\ file[<<"records", i>>] = <<>> /\ file[<<"tombs", i>>] = <<>>

Written(i) ==
  \E t \in Text :
    /\ vaultJson # <<>> /\ wrote[i] = <<t>>
    /\ \E v \in Nat : file[<<"records", i>>] = RecordFile(i, t, v)
    /\ \/ file[<<"tombs", i>>] = <<>>
       \/ \E v \in Nat : file[<<"tombs", i>>] = TombFile(t, v)

FilesAreSealed == DOMAIN wrote = Id /\ \A i \in Id : Unwritten(i) \/ Written(i)

LiveHasKey == \A d \in Device, i \in Id : got[d][i].is = "live" => key[d] # NoKey

SealInv == KeyInv /\ FilesInv /\ FilesAreSealed /\ LiveHasKey

LEMMA InitSeal == Init => SealInv
<1> SUFFICES ASSUME Init PROVE SealInv
  OBVIOUS
<1>1. \A i \in Id : <<"records", i>> \in Path /\ <<"tombs", i>> \in Path
  BY DEF Path
<1>2. FilesAreSealed /\ LiveHasKey
  BY <1>1 DEF Init, FilesAreSealed, Unwritten, LiveHasKey, Result
<1> QED BY <1>2, InitKeys, InitFiles DEF SealInv

(* Who reads a record as live has a key. *)
LEMMA LiveNeedsKey ==
  ASSUME NEW d \in Device, NEW bytes, ReadResult(d, bytes).is = "live"
  PROVE  key[d] # NoKey
<1> DEFINE env  == DecodeEnvelope(bytes, app[d].record)
           text == OpenRecord(key[d], env.val.body[1])
<1>1. ~env.ok => env.err = "UnsupportedFormat"
  BY DEF DecodeEnvelope, Ok, Err
<1>2. env.ok /\ ~env.val.header.deleted
  BY <1>1 DEF ReadResult, Result
<1>3. ~AsKey32(key[d]) => text = Err("InvalidInput")
  BY DEF OpenRecord
<1>4. ~AsKey32(key[d]) => ReadResult(d, bytes).is = "InvalidInput"
  BY <1>2, <1>3 DEF ReadResult, Result, Err
<1> QED BY <1>4 DEF AsKey32

(* A vault, once made, keeps its key, and so the files stay what they are. *)
LEMMA SealedStays ==
  ASSUME SealInv, KeyInv', FilesInv', UNCHANGED fileVars,
         UNCHANGED <<vaultJson, chosen>> \/ vaultJson = <<>>,
         \A d \in Device : key[d] # NoKey => key'[d] # NoKey
  PROVE  SealInv'
<1>1. ASSUME NEW i \in Id, Written(i) PROVE Written(i)'
  <2>1. vaultJson # <<>> /\ UNCHANGED <<vaultJson, chosen>>
    BY <1>1 DEF Written
  <2>2. VaultKey' = VaultKey
    BY <2>1 DEF VaultKey, VaultKdf
  <2> QED BY <1>1, <2>1, <2>2 DEF Written, RecordFile, TombFile, HashOf, fileVars
<1>2. \A i \in Id : Unwritten(i) => Unwritten(i)'
  BY DEF Unwritten, fileVars
<1>3. FilesAreSealed' /\ LiveHasKey'
  BY <1>1, <1>2 DEF SealInv, FilesAreSealed, LiveHasKey, fileVars
<1> QED BY <1>3 DEF SealInv

(* The files of one record do not touch those of another. *)
LEMMA OtherFilesStay ==
  ASSUME SealInv, NEW i \in Id, NEW j \in Id, i # j, NEW bytes, NEW kind,
         UNCHANGED vaultVars, file' = [file EXCEPT ![<<kind, i>>] = bytes],
         wrote'[j] = wrote[j]
  PROVE  Unwritten(j)' \/ Written(j)'
<1>1. file'[<<"records", j>>] = file[<<"records", j>>] /\ file'[<<"tombs", j>>] = file[<<"tombs", j>>]
  BY DEF SealInv, FilesInv, FileShape, Path
<1>2. VaultKey' = VaultKey /\ vaultJson' = vaultJson
  BY DEF vaultVars, VaultKey, VaultKdf
<1>3. CASE Unwritten(j)
  BY <1>1, <1>3 DEF Unwritten
<1>4. CASE Written(j)
  BY <1>1, <1>2, <1>4 DEF Written, RecordFile, TombFile, HashOf
<1> QED BY <1>3, <1>4 DEF SealInv, FilesAreSealed

LEMMA PublishSeal ==
  ASSUME SealInv, NEW d \in Device, NEW i \in Id, NEW t \in Text, Publish(d, i, t)
  PROVE  SealInv'
<1> DEFINE p == <<"records", i>>
           body == SealRecord(key[d], i, t)
           hash == ComputeSyncHash(key[d], CanonicalPayload[t])
           env == [header |-> Header(app[d].record, FALSE, hash.val), body |-> <<body.val>>]
<1>1. body.ok /\ Write(d, p, env, Result("live", <<t>>)) /\ wrote[i] = <<>>
      /\ wrote' = [wrote EXCEPT ![i] = <<t>>]
  BY DEF Publish
<1>2. key[d] # NoKey
  BY <1>1 DEF SealRecord, Err, AsKey32
<1>3. vaultJson # <<>> /\ key[d] = VaultKey
  BY <1>2 DEF SealInv, KeyInv, KeysAreTheVaults
<1>4. body.val = LocalSeal(Cclip(VaultKey), i, EncodePlaintext(t)) /\ hash.val = HashOf(t)
  BY <1>2, <1>3 DEF SealRecord, ComputeSyncHash, HashOf, AsKey32, Ok
<1>5. /\ UNCHANGED vaultVars
      /\ file' = [file EXCEPT ![p] = RecordFile(i, t, app[d].record)]
      /\ got' = [got EXCEPT ![d][i] = Result("live", <<t>>)]
  <2>1. env = [header |-> Header(app[d].record, FALSE, HashOf(t)),
               body |-> <<LocalSeal(Cclip(VaultKey), i, EncodePlaintext(t))>>]
    BY <1>4
  <2>2. EncodeEnvelope(env) = RecordFile(i, t, app[d].record)
    BY <2>1 DEF RecordFile
  <2> QED BY <1>1, <2>2, CheckedBytes DEF Write
<1>6. app[d].record \in Nat
  BY AppAssumption DEF SealInv, KeyInv, VaultInv, VaultShape
<1>7. file'[<<"records", i>>] = RecordFile(i, t, app[d].record)
      /\ file'[<<"tombs", i>>] = file[<<"tombs", i>>]
  BY <1>5 DEF SealInv, FilesInv, FileShape, Path
<1>8. file[<<"tombs", i>>] = <<>>
  <2>1. ~Written(i)
    BY <1>1, Len(<<>>) = 0, \A x : Len(<<x>>) = 1 DEF Written
  <2> QED BY <2>1 DEF SealInv, FilesAreSealed, Unwritten
<1>9. VaultKey' = VaultKey /\ vaultJson' = vaultJson /\ key' = key
  BY <1>5 DEF vaultVars, VaultKey, VaultKdf
<1>10. Written(i)'
  <2>1. wrote'[i] = <<t>>
    BY <1>1 DEF SealInv, FilesAreSealed
  <2>2. RecordFile(i, t, app[d].record)' = RecordFile(i, t, app[d].record)
    BY <1>5, <1>9 DEF vaultVars, RecordFile, HashOf
  <2> HIDE DEF p, body, hash, env
  <2>3. file'[<<"records", i>>] = RecordFile(i, t, app[d].record)'
    BY <1>7, <2>2
  <2>4. app'[d].record \in Nat
    BY <1>5, <1>6 DEF vaultVars
  <2> QED BY <1>3, <1>7, <1>8, <1>9, <2>1, <2>3, <2>4 DEF Written
<1>11. \A j \in Id \ {i} : Unwritten(j)' \/ Written(j)'
  <2> SUFFICES ASSUME NEW j \in Id \ {i} PROVE Unwritten(j)' \/ Written(j)'
    OBVIOUS
  <2>1. wrote'[j] = wrote[j]
    BY <1>1
  <2> QED BY <1>5, <2>1, OtherFilesStay
<1>12. LiveHasKey'
  BY <1>2, <1>5, <1>9 DEF SealInv, LiveHasKey, FilesInv, FileShape
<1>13. KeyInv' /\ FilesInv'
  BY <1>5, PublishFiles, StepKeys DEF SealInv, Next
<1>14. DOMAIN wrote' = Id
  BY <1>1 DEF SealInv, FilesAreSealed
<1> QED BY <1>10, <1>11, <1>12, <1>13, <1>14 DEF SealInv, FilesAreSealed

LEMMA DeleteSeal ==
  ASSUME SealInv, NEW d \in Device, NEW i \in Id, Delete(d, i)
  PROVE  SealInv'
<1> DEFINE p == <<"tombs", i>>
           hash == ComputeSyncHash(key[d], CanonicalPayload[wrote[i][1]])
           env == [header |-> Header(app[d].record, TRUE, hash.val), body |-> <<>>]
<1>1. /\ got[d][i].is = "live" /\ Write(d, p, env, Result("deleted", <<>>))
      /\ wrote' = wrote
  BY DEF Delete
<1>2. file[<<"records", i>>] # <<>>
  <2>1. <<"records", i>> \in Path
    BY DEF Path
  <2> QED BY <1>1, <2>1 DEF SealInv, FilesInv, GotFromWholeFiles, Justifies
<1>3. key[d] # NoKey
  BY <1>1 DEF SealInv, LiveHasKey
<1>4. vaultJson # <<>> /\ key[d] = VaultKey
  BY <1>3 DEF SealInv, KeyInv, KeysAreTheVaults
<1>5. PICK t \in Text, v \in Nat : wrote[i] = <<t>> /\ file[<<"records", i>>] = RecordFile(i, t, v)
  BY <1>2 DEF SealInv, FilesAreSealed, Unwritten, Written
<1>6. hash.val = HashOf(t)
  BY <1>3, <1>4, <1>5 DEF ComputeSyncHash, HashOf, AsKey32, Ok
<1>7. /\ UNCHANGED vaultVars
      /\ file' = [file EXCEPT ![p] = TombFile(t, app[d].record)]
      /\ got' = [got EXCEPT ![d][i] = Result("deleted", <<>>)]
  BY <1>1, <1>6, CheckedBytes DEF Write, TombFile
<1>8. app[d].record \in Nat
  BY AppAssumption DEF SealInv, KeyInv, VaultInv, VaultShape
<1>9. file'[<<"tombs", i>>] = TombFile(t, app[d].record)
      /\ file'[<<"records", i>>] = file[<<"records", i>>]
  BY <1>7 DEF SealInv, FilesInv, FileShape, Path
<1>10. VaultKey' = VaultKey /\ vaultJson' = vaultJson /\ key' = key
  BY <1>7 DEF vaultVars, VaultKey, VaultKdf
<1> HIDE DEF p, hash, env
<1>11. Written(i)'
  <2>1. RecordFile(i, t, v)' = RecordFile(i, t, v)
    BY <1>10 DEF RecordFile, HashOf
  <2>2. TombFile(t, app[d].record)' = TombFile(t, app[d].record)
    BY <1>7, <1>10 DEF vaultVars, TombFile, HashOf
  <2>3. app'[d].record \in Nat
    BY <1>7, <1>8 DEF vaultVars
  <2> QED BY <1>1, <1>4, <1>5, <1>9, <1>10, <2>1, <2>2, <2>3 DEF Written
<1>12. \A j \in Id \ {i} : Unwritten(j)' \/ Written(j)'
  <2> SUFFICES ASSUME NEW j \in Id \ {i} PROVE Unwritten(j)' \/ Written(j)'
    OBVIOUS
  <2> QED BY <1>1, <1>7, OtherFilesStay DEF p
<1>13. LiveHasKey'
  BY <1>7, <1>10 DEF SealInv, LiveHasKey, FilesInv, FileShape, Result
<1>14. KeyInv' /\ FilesInv'
  BY <1>7, DeleteFiles, StepKeys DEF SealInv, Next
<1> QED BY <1>1, <1>11, <1>12, <1>13, <1>14 DEF SealInv, FilesAreSealed

LEMMA ReadSeal ==
  ASSUME SealInv, NEW d \in Device, NEW p \in Path, Read(d, p)
  PROVE  SealInv'
<1> DEFINE result == ReadResult(d, SubSeq(file[p], 1, sent[d][p]))
<1>1. UNCHANGED <<vaultVars, file, wrote>> /\ got' = [got EXCEPT ![d][p[2]] = result]
  BY DEF Read
<1>2. VaultKey' = VaultKey /\ vaultJson' = vaultJson /\ key' = key
  BY <1>1 DEF vaultVars, VaultKey, VaultKdf
<1>3. FilesAreSealed'
  BY <1>1, <1>2 DEF SealInv, FilesAreSealed, Unwritten, Written, RecordFile, TombFile, HashOf
<1>4. result.is = "live" => key[d] # NoKey
  BY LiveNeedsKey
<1> HIDE DEF result
<1>5. LiveHasKey'
  BY <1>1, <1>2, <1>4, PathPair DEF SealInv, LiveHasKey, FilesInv, FileShape
<1>6. KeyInv' /\ FilesInv'
  BY ReadStep, StepKeys DEF SealInv, Next
<1> QED BY <1>3, <1>5, <1>6 DEF SealInv

LEMMA StepSeal == SealInv /\ [Next]_vars => SealInv'
<1> SUFFICES ASSUME SealInv, [Next]_vars PROVE SealInv'
  OBVIOUS
<1>1. KeyInv' /\ FilesInv'
  BY StepKeys, StepFiles DEF SealInv
<1>2. CASE UNCHANGED <<vaultJson, chosen, key, fileVars>>
  BY <1>1, <1>2, SealedStays
<1>3. ASSUME NEW d \in Device, NEW p \in Passphrase, Unlock(d, p) PROVE SealInv'
  <2>1. \A e \in Device : key[e] # NoKey => key'[e] = key[e]
    BY <1>3, UnlockKeys DEF SealInv
  <2>2. UNCHANGED <<vaultJson, chosen, fileVars>>
    BY <1>3 DEF Unlock
  <2> QED BY <1>1, <2>1, <2>2, SealedStays
<1>4. ASSUME NEW d \in Device, NEW p \in Passphrase, NEW k \in Kdf, Create(d, p, k)
      PROVE  SealInv'
  <2>1. vaultJson = <<>> /\ UNCHANGED fileVars
    BY <1>4 DEF Create
  <2>2. \A e \in Device : key[e] = NoKey
    BY <2>1 DEF SealInv, KeyInv, KeysAreTheVaults
  <2> QED BY <1>1, <2>1, <2>2, SealedStays
<1>5. ASSUME NEW d \in Device, ShowVault(d) \/ ReadVault(d) PROVE SealInv'
  BY <1>2, <1>5 DEF ShowVault, ReadVault
<1>6. ASSUME NEW d \in Device, NEW i \in Id, Delete(d, i) PROVE SealInv'
  BY <1>6, DeleteSeal
<1>7. ASSUME NEW d \in Device, NEW i \in Id, NEW t \in Text, Publish(d, i, t)
      PROVE  SealInv'
  BY <1>7, PublishSeal
<1>8. ASSUME NEW d \in Device, NEW p \in Path, Deliver(d, p) PROVE SealInv'
  <2>1. UNCHANGED <<vaultVars, file, wrote, got>>
    BY <1>8 DEF Deliver
  <2>2. FilesAreSealed' /\ LiveHasKey'
    BY <2>1 DEF vaultVars, SealInv, FilesAreSealed, Unwritten, Written, RecordFile, TombFile,
                HashOf, VaultKey, VaultKdf, LiveHasKey
  <2> QED BY <1>1, <2>2 DEF SealInv
<1>9. ASSUME NEW d \in Device, NEW p \in Path, Read(d, p) PROVE SealInv'
  BY <1>9, ReadSeal
<1>10. CASE UNCHANGED vars
  BY <1>2, <1>10 DEF vars, vaultVars
<1> QED BY <1>3, <1>4, <1>5, <1>6, <1>7, <1>8, <1>9, <1>10 DEF Next

----------------------------------------------------------------------------
(* Read as a set of ids, the files are a two-phase set. *)
Added == {i \in Id : file[<<"records", i>>] # <<>>}
Removed == {i \in Id : file[<<"tombs", i>>] # <<>>}
Known == [d \in Device |-> {i \in Id : got[d][i].is \in {"live", "deleted"}}]
Gone == [d \in Device |-> {i \in Id : got[d][i].is = "deleted"}]

(* A result that is an error tells a device nothing. *)
LEMMA ResultKinds ==
  ASSUME SealInv, NEW d \in Device, NEW i \in Id, NEW result,
         got' = [got EXCEPT ![d][i] = result]
  PROVE  /\ result.is \in {"live", "deleted"} => Known' = [Known EXCEPT ![d] = @ \cup {i}]
         /\ result.is \notin {"live", "deleted"} /\ i \notin Known[d] => Known' = Known
         /\ result.is = "deleted" => Gone' = [Gone EXCEPT ![d] = @ \cup {i}]
         /\ result.is # "deleted" /\ i \notin Gone[d] => Gone' = Gone
<1>1. /\ DOMAIN got' = Device
      /\ got'[d][i] = result
      /\ \A e \in Device, j \in Id : e # d \/ j # i => got'[e][j] = got[e][j]
  BY DEF SealInv, FilesInv, FileShape
<1>2. Known' = [e \in Device |-> {j \in Id : got'[e][j].is \in {"live", "deleted"}}]
      /\ Gone' = [e \in Device |-> {j \in Id : got'[e][j].is = "deleted"}]
  BY DEF Known, Gone
<1>3. result.is = "deleted" => Gone' = [Gone EXCEPT ![d] = @ \cup {i}]
  <2> SUFFICES ASSUME result.is = "deleted" PROVE Gone' = [Gone EXCEPT ![d] = @ \cup {i}]
    OBVIOUS
  <2>1. \A e \in Device : Gone'[e] = IF e = d THEN Gone[d] \cup {i} ELSE Gone[e]
    BY <1>1, <1>2 DEF Gone
  <2> QED BY <1>2, <2>1 DEF Gone
<1>4. result.is # "deleted" /\ i \notin Gone[d] => Gone' = Gone
  <2> SUFFICES ASSUME result.is # "deleted", i \notin Gone[d] PROVE Gone' = Gone
    OBVIOUS
  <2>1. \A e \in Device : Gone'[e] = Gone[e]
    BY <1>1, <1>2 DEF Gone
  <2> QED BY <1>2, <2>1 DEF Gone
<1>5. result.is \in {"live", "deleted"} => Known' = [Known EXCEPT ![d] = @ \cup {i}]
  <2> SUFFICES ASSUME result.is \in {"live", "deleted"}
               PROVE  Known' = [Known EXCEPT ![d] = @ \cup {i}]
    OBVIOUS
  <2>1. \A e \in Device : Known'[e] = IF e = d THEN Known[d] \cup {i} ELSE Known[e]
    BY <1>1, <1>2 DEF Known
  <2> QED BY <1>2, <2>1 DEF Known
<1>6. result.is \notin {"live", "deleted"} /\ i \notin Known[d] => Known' = Known
  <2> SUFFICES ASSUME result.is \notin {"live", "deleted"}, i \notin Known[d]
               PROVE  Known' = Known
    OBVIOUS
  <2>1. \A e \in Device : Known'[e] = Known[e]
    BY <1>1, <1>2 DEF Known
  <2> QED BY <1>2, <2>1 DEF Known
<1> QED BY <1>3, <1>4, <1>5, <1>6

LEMMA PublishIsAdd ==
  ASSUME SealInv, NEW d \in Device, NEW i \in Id, NEW t \in Text, Publish(d, i, t)
  PROVE  Ids!Add(d, i)
<1>1. /\ wrote[i] = <<>> /\ got' = [got EXCEPT ![d][i] = Result("live", <<t>>)]
      /\ \E bytes : file' = [file EXCEPT ![<<"records", i>>] = bytes]
  BY DEF Publish, Write
<1>0. Result("live", <<t>>).is = "live"
  BY DEF Result
<1>2. Unwritten(i)
  <2>1. ~Written(i)
    BY <1>1, Len(<<>>) = 0, \A x : Len(<<x>>) = 1 DEF Written
  <2> QED BY <2>1 DEF SealInv, FilesAreSealed
<1>3. file'[<<"records", i>>] # <<>>
  <2>1. FilesInv' /\ <<"records", i>> \in Path
    BY PublishFiles DEF SealInv, Path
  <2>2. got'[d][i].is = "live"
    BY <1>1 DEF SealInv, FilesInv, FileShape, Result
  <2> QED BY <2>1, <2>2 DEF FilesInv, GotFromWholeFiles, Justifies
<1>4. Added' = Added \cup {i} /\ Removed' = Removed
  BY <1>1, <1>3 DEF Added, Removed, SealInv, FilesInv, FileShape, Path
<1>5. i \notin Added
  BY <1>2 DEF Added, Unwritten
<1>6. \A e \in Device : got[e][i].is \notin {"live", "deleted"}
  BY <1>2 DEF Unwritten, SealInv, FilesInv, GotFromWholeFiles, Justifies, Path
<1>7. Known' = [Known EXCEPT ![d] = @ \cup {i}]
  BY <1>0, <1>1, ResultKinds
<1>8. Gone' = Gone
  <2>1. i \notin Gone[d]
    BY <1>6 DEF Gone
  <2> QED BY <1>0, <1>1, <2>1, ResultKinds
<1> QED BY <1>4, <1>5, <1>7, <1>8 DEF Ids!Add, Added, Removed, Known, Gone

LEMMA DeleteIsRemove ==
  ASSUME SealInv, NEW d \in Device, NEW i \in Id, Delete(d, i)
  PROVE  Ids!Remove(d, i)
<1>1. /\ got[d][i].is = "live"
      /\ got' = [got EXCEPT ![d][i] = Result("deleted", <<>>)]
      /\ \E bytes : file' = [file EXCEPT ![<<"tombs", i>>] = bytes]
  BY DEF Delete, Write
<1>0. Result("deleted", <<>>).is = "deleted"
  BY DEF Result
<1>2. FilesInv' /\ <<"tombs", i>> \in Path
  BY DeleteFiles DEF SealInv, Path
<1>3. got'[d][i].is = "deleted"
  BY <1>1 DEF SealInv, FilesInv, FileShape, Result
<1>4. file'[<<"tombs", i>>] # <<>>
  BY <1>2, <1>3 DEF FilesInv, GotFromWholeFiles, Justifies
<1>5. Removed' = Removed \cup {i} /\ Added' = Added
  BY <1>1, <1>4 DEF Added, Removed, SealInv, FilesInv, FileShape, Path
<1>6. i \in Known[d] \ Gone[d]
  BY <1>1 DEF Known, Gone
<1>7. Gone' = [Gone EXCEPT ![d] = @ \cup {i}]
  BY <1>0, <1>1, ResultKinds
<1>8. Known' = Known
  <2>1. Known' = [Known EXCEPT ![d] = Known[d] \cup {i}]
    BY <1>0, <1>1, ResultKinds
  <2>2. Known[d] \cup {i} = Known[d]
    BY <1>6
  <2> QED BY <2>1, <2>2 DEF Known
<1> QED BY <1>5, <1>6, <1>7, <1>8 DEF Ids!Remove, Added, Removed, Known, Gone

LEMMA ReadIsLearn ==
  ASSUME SealInv, NEW d \in Device, NEW p \in Path, Read(d, p)
  PROVE  Ids!Learn(d, p[2]) \/ Ids!LearnRemoval(d, p[2])
           \/ UNCHANGED <<Added, Removed, Known, Gone>>
<1> DEFINE result == ReadResult(d, SubSeq(file[p], 1, sent[d][p]))
           i == p[2]
<1>1. /\ got[d][i].is # "deleted"
      /\ got[d][i].is = "live" => result.is = "deleted"
      /\ got' = [got EXCEPT ![d][i] = result] /\ file' = file
  BY DEF Read
<1> HIDE DEF result
<1>2. i \in Id /\ Added' = Added /\ Removed' = Removed
  BY <1>1, PathPair DEF Added, Removed
<1>3. FilesInv' /\ got'[d][i] = result
  BY <1>1, <1>2, ReadStep DEF SealInv, FilesInv, FileShape
<1>4. i \notin Gone[d]
  BY <1>1 DEF Gone
<1>5. CASE result.is = "live"
  <2>1. i \in Added
    BY <1>1, <1>2, <1>3, <1>5 DEF FilesInv, GotFromWholeFiles, Justifies, Added, Path
  <2>2. i \notin Known[d]
    BY <1>1, <1>5 DEF Known
  <2>3. Known' = [Known EXCEPT ![d] = @ \cup {i}]
    BY <1>1, <1>2, <1>5, ResultKinds
  <2>4. Gone' = Gone
    BY <1>1, <1>2, <1>4, <1>5, ResultKinds
  <2>5. Ids!Learn(d, i)
    BY <1>2, <2>1, <2>2, <2>3, <2>4 DEF Ids!Learn, Added, Removed, Known, Gone
  <2> QED BY <2>5
<1>6. CASE result.is = "deleted"
  <2>1. i \in Removed
    BY <1>1, <1>2, <1>3, <1>6 DEF FilesInv, GotFromWholeFiles, Justifies, Removed, Path
  <2>2. Known' = [Known EXCEPT ![d] = @ \cup {i}]
    BY <1>1, <1>2, <1>6, ResultKinds
  <2>3. Gone' = [Gone EXCEPT ![d] = @ \cup {i}]
    BY <1>1, <1>2, <1>6, ResultKinds
  <2>4. Ids!LearnRemoval(d, i)
    BY <1>2, <1>4, <2>1, <2>2, <2>3 DEF Ids!LearnRemoval, Added, Removed, Known, Gone
  <2> QED BY <2>4
<1>7. CASE result.is \notin {"live", "deleted"}
  <2>1. i \notin Known[d]
    BY <1>1, <1>7 DEF Known
  <2>2. Known' = Known
    BY <1>1, <1>2, <1>7, <2>1, ResultKinds
  <2>3. Gone' = Gone
    BY <1>1, <1>2, <1>4, <1>7, ResultKinds
  <2> QED BY <1>2, <2>2, <2>3
<1> QED BY <1>5, <1>6, <1>7

LEMMA StepTwoPhase ==
  SealInv /\ [Next]_vars => [Ids!TPSNext]_<<Added, Removed, Known, Gone>>
<1> SUFFICES ASSUME SealInv, [Next]_vars
             PROVE  [Ids!TPSNext]_<<Added, Removed, Known, Gone>>
  OBVIOUS
<1>1. CASE UNCHANGED <<file, got>>
  BY <1>1 DEF Added, Removed, Known, Gone
<1>2. ASSUME NEW d \in Device, NEW p \in Passphrase, Unlock(d, p)
      PROVE  UNCHANGED <<file, got>>
  BY <1>2 DEF Unlock, fileVars
<1>3. ASSUME NEW d \in Device, NEW p \in Passphrase, NEW k \in Kdf, Create(d, p, k)
      PROVE  UNCHANGED <<file, got>>
  BY <1>3 DEF Create, fileVars
<1>4. ASSUME NEW d \in Device, ShowVault(d) \/ ReadVault(d) PROVE UNCHANGED <<file, got>>
  BY <1>4 DEF ShowVault, ReadVault, fileVars
<1>5. ASSUME NEW d \in Device, NEW i \in Id, Delete(d, i) PROVE Ids!TPSNext
  BY <1>5, DeleteIsRemove DEF Ids!TPSNext
<1>6. ASSUME NEW d \in Device, NEW i \in Id, NEW t \in Text, Publish(d, i, t)
      PROVE  Ids!TPSNext
  BY <1>6, PublishIsAdd DEF Ids!TPSNext
<1>7. ASSUME NEW d \in Device, NEW p \in Path, Deliver(d, p) PROVE UNCHANGED <<file, got>>
  BY <1>7 DEF Deliver
<1>8. ASSUME NEW d \in Device, NEW p \in Path, Read(d, p)
      PROVE  [Ids!TPSNext]_<<Added, Removed, Known, Gone>>
  BY <1>8, ReadIsLearn, PathPair DEF Ids!TPSNext
<1>9. CASE UNCHANGED vars
  BY <1>1, <1>9 DEF vars, fileVars
<1> QED BY <1>1, <1>2, <1>3, <1>4, <1>5, <1>6, <1>7, <1>8, <1>9 DEF Next

(* Whatever is read in pieces, by whatever builds and with or without a    *)
(* key: an id is added once, and once a device takes it for deleted it     *)
(* stays so.  This is the folder that SyncFolder's rules are given.        *)
THEOREM FilesImplementTwoPhaseSet == Spec => FilesAreTwoPhaseSet
<1>1. Init => Ids!TPSInit
  <2> SUFFICES ASSUME Init PROVE Ids!TPSInit
    OBVIOUS
  <2>1. Added = {} /\ Removed = {}
    BY DEF Init, Added, Removed, Path
  <2>2. Known = [d \in Device |-> {}] /\ Gone = [d \in Device |-> {}]
    BY DEF Init, Known, Gone, Result
  <2> QED BY <2>1, <2>2 DEF Ids!TPSInit, Added, Removed, Known, Gone
<1>2. SealInv /\ [Next]_vars => [Ids!TPSNext]_(Ids!tpsVars)
  BY StepTwoPhase DEF Ids!tpsVars, Added, Removed, Known, Gone
<1> QED BY <1>1, <1>2, InitSeal, StepSeal, PTL DEF Spec, FilesAreTwoPhaseSet, Ids!TPSSpec

----------------------------------------------------------------------------
(* What was written within the cap is read back, and no two texts are      *)
(* written alike.                                                          *)
LEMMA TextsReadBack == \A t \in Text : ReadsBack(t)
BY TextAssumption, WrittenReadsBack

(* What a device holds of a record is its author's text, or none. *)
ResultIsTyped(d, i) ==
  /\ got[d][i].is \in Answer
  /\ got[d][i].text \in Seq(Text)
  /\ got[d][i].is = "live" => got[d][i].text = wrote[i]

ReadInv == SealInv /\ \A d \in Device, i \in Id : ResultIsTyped(d, i)

LEMMA ReadKinds ==
  ASSUME NEW d \in Device, NEW bytes
  PROVE  LET result == ReadResult(d, bytes)
         IN  /\ result.is \in Answer
             /\ result.is # "live" => result.text = <<>>
<1> DEFINE env  == DecodeEnvelope(bytes, app[d].record)
           text == OpenRecord(key[d], env.val.body[1])
<1>1. ~env.ok => env.err = "UnsupportedFormat"
  BY DecodeFails
<1>2. ~text.ok => text.err \in {"InvalidInput", "DecryptFailed", "UnsupportedFormat"}
  BY OpenFails
<1> HIDE DEF env, text
<1>3. ReadResult(d, bytes) =
        IF ~env.ok THEN Result(env.err, <<>>)
        ELSE IF env.val.header.deleted THEN Result("deleted", <<>>)
        ELSE IF text.ok THEN Result("live", <<text.val>>) ELSE Result(text.err, <<>>)
  BY DEF ReadResult, env, text
<1> QED BY <1>1, <1>2, <1>3 DEF Result, Answer, CoreError

(* What reads as live is the text that was written. *)
LEMMA ReadIsPublished ==
  ASSUME SealInv, NEW d \in Device, NEW p \in Path, file[p] # <<>>,
         ReadResult(d, SubSeq(file[p], 1, sent[d][p])).is = "live"
  PROVE  \E t \in Text :
           /\ wrote[p[2]] = <<t>>
           /\ ReadResult(d, SubSeq(file[p], 1, sent[d][p])).text = <<t>>
<1> DEFINE n == sent[d][p]
           i == p[2]
<1>1. n \in Nat /\ n <= Len(file[p]) /\ Len(file[p]) = Fields(p)
      /\ file[p][2].header.deleted = (p[1] = "tombs")
  BY DEF SealInv, FilesInv, FileShape, SentIsThere, FilesAreWhole
<1>2. n >= 6 /\ ~file[p][2].header.deleted
  BY <1>1, ReadNeedsTheFile
<1>3. p[1] = "records"
  BY <1>1, <1>2, PathPair
<1>4. n = 6 /\ p = <<"records", i>> /\ i \in Id
  BY <1>1, <1>2, <1>3, PathPair DEF Fields
<1>5. PICK t \in Text, v \in Nat : wrote[i] = <<t>> /\ file[p] = RecordFile(i, t, v)
  BY <1>4 DEF SealInv, FilesAreSealed, Unwritten, Written
<1> DEFINE h == Header(v, FALSE, HashOf(t))
           k == Cclip(VaultKey)
           x == EncodePlaintext(t)
           bytes == EncodeEnvelope([header |-> h, body |-> <<LocalSeal(k, i, x)>>])
           env == DecodeEnvelope(bytes, app[d].record)
           text == OpenRecord(key[d], LocalSeal(k, i, x))
<1>6. file[p] = bytes
  BY <1>5 DEF RecordFile
<1>7. SubSeq(file[p], 1, n) = bytes
  <2> HIDE DEF h, k, x
  <2>1. SubSeq(bytes, 1, 6) = bytes
    BY RecordBox
  <2> QED BY <1>4, <1>6, <2>1
<1>8. env.ok => env.val = [header |-> h, body |-> <<LocalSeal(k, i, x)>>]
  <2> HIDE DEF h, k, x
  <2> QED BY DecodedRecord
<1>9. text.ok => text.val = t
  <2>1. ReadsBack(t)
    BY TextsReadBack
  <2> QED BY <2>1, OpenSealed
<1>10. ~env.ok => env.err = "UnsupportedFormat"
  BY DecodeFails
<1>11. ~text.ok => text.err \in {"InvalidInput", "DecryptFailed", "UnsupportedFormat"}
  BY OpenFails
<1>12. h.deleted = FALSE
  BY DEF Header
<1> HIDE DEF h, k, x, bytes, env, text
<1>13. ReadResult(d, bytes) =
         IF ~env.ok THEN Result(env.err, <<>>)
         ELSE IF text.ok THEN Result("live", <<text.val>>) ELSE Result(text.err, <<>>)
  <2>1. CASE ~env.ok
    BY <2>1 DEF ReadResult, env
  <2>2. CASE env.ok
    <3>1. env.val.header = h /\ env.val.body[1] = LocalSeal(k, i, x)
      BY <1>8, <2>2
    <3> QED BY <1>12, <2>2, <3>1 DEF ReadResult, env, text
  <2> QED BY <2>1, <2>2
<1>14. ReadResult(d, bytes).is = "live"
  BY <1>7
<1>15. env.ok
  <2> SUFFICES ASSUME ~env.ok PROVE FALSE
    OBVIOUS
  <2>1. ReadResult(d, bytes) = Result("UnsupportedFormat", <<>>)
    BY <1>10, <1>13
  <2> QED BY <1>14, <2>1 DEF Result
<1>16. text.ok
  <2> SUFFICES ASSUME ~text.ok PROVE FALSE
    OBVIOUS
  <2>1. ReadResult(d, bytes) = Result(text.err, <<>>)
    BY <1>13, <1>15
  <2> QED BY <1>11, <1>14, <2>1 DEF Result
<1>17. ReadResult(d, bytes).text = <<t>>
  <2>1. ReadResult(d, bytes) = Result("live", <<t>>)
    BY <1>9, <1>13, <1>15, <1>16
  <2> QED BY <2>1 DEF Result
<1> QED BY <1>5, <1>7, <1>17

LEMMA InitRead == Init => ReadInv
<1> SUFFICES ASSUME Init PROVE ReadInv
  OBVIOUS
<1>1. ASSUME NEW d \in Device, NEW i \in Id PROVE ResultIsTyped(d, i)
  <2>1. got[d][i].is = "unread" /\ got[d][i].text = <<>>
    BY DEF Init, Result
  <2> QED BY <2>1 DEF ResultIsTyped, Answer
<1> QED BY <1>1, InitSeal DEF ReadInv

LEMMA StepRead == ReadInv /\ [Next]_vars => ReadInv'
<1> SUFFICES ASSUME ReadInv, [Next]_vars PROVE ReadInv'
  OBVIOUS
<1>1. SealInv /\ SealInv'
  BY StepSeal DEF ReadInv
<1>2. CASE UNCHANGED <<got, wrote>>
  BY <1>1, <1>2 DEF ReadInv, ResultIsTyped
<1>3. ASSUME NEW d \in Device, NEW i \in Id, NEW result,
             got' = [got EXCEPT ![d][i] = result],
             \A j \in Id \ {i} : wrote'[j] = wrote[j],
             \A e \in Device \ {d} : got[e][i].is = "live" => wrote'[i] = wrote[i],
             result.is \in Answer, result.text \in Seq(Text),
             result.is = "live" => result.text = wrote'[i]
      PROVE  ReadInv'
  <2>1. /\ got'[d][i] = result
        /\ \A e \in Device, j \in Id : e # d \/ j # i => got'[e][j] = got[e][j]
    BY <1>1, <1>3 DEF SealInv, FilesInv, FileShape
  <2>2. ASSUME NEW e \in Device, NEW j \in Id PROVE ResultIsTyped(e, j)'
    <3>1. ResultIsTyped(e, j)
      BY DEF ReadInv
    <3>2. CASE e = d /\ j = i
      BY <1>3, <2>1, <3>2 DEF ResultIsTyped
    <3>3. CASE j # i
      BY <1>3, <2>1, <3>1, <3>3 DEF ResultIsTyped
    <3>4. CASE e # d /\ j = i
      BY <1>3, <2>1, <3>1, <3>4 DEF ResultIsTyped
    <3> QED BY <3>2, <3>3, <3>4
  <2> QED BY <1>1, <2>2 DEF ReadInv
<1>4. ASSUME NEW d \in Device, NEW p \in Passphrase, Unlock(d, p)
      PROVE  UNCHANGED <<got, wrote>>
  BY <1>4 DEF Unlock, fileVars
<1>5. ASSUME NEW d \in Device, NEW p \in Passphrase, NEW k \in Kdf, Create(d, p, k)
      PROVE  UNCHANGED <<got, wrote>>
  BY <1>5 DEF Create, fileVars
<1>6. ASSUME NEW d \in Device, ShowVault(d) \/ ReadVault(d) PROVE UNCHANGED <<got, wrote>>
  BY <1>6 DEF ShowVault, ReadVault, fileVars
<1>7. ASSUME NEW d \in Device, NEW i \in Id, Delete(d, i) PROVE ReadInv'
  <2> DEFINE result == Result("deleted", <<>>)
  <2>1. got' = [got EXCEPT ![d][i] = result] /\ wrote' = wrote
    BY <1>7 DEF Delete, Write
  <2>2. result.is = "deleted" /\ result.text = <<>>
    BY DEF Result
  <2> HIDE DEF result
  <2>3. result.is \in Answer /\ result.text \in Seq(Text)
    BY <2>2 DEF Answer
  <2> QED BY <1>3, <2>1, <2>2, <2>3
<1>8. ASSUME NEW d \in Device, NEW i \in Id, NEW t \in Text, Publish(d, i, t)
      PROVE  ReadInv'
  <2> DEFINE result == Result("live", <<t>>)
  <2>1. /\ got' = [got EXCEPT ![d][i] = result]
        /\ wrote[i] = <<>> /\ wrote' = [wrote EXCEPT ![i] = <<t>>]
    BY <1>8 DEF Publish, Write
  <2>2. result.is = "live" /\ result.text = <<t>>
    BY DEF Result
  <2> HIDE DEF result
  <2>3. result.is \in Answer /\ result.text \in Seq(Text)
    BY <2>2 DEF Answer
  <2>4. wrote'[i] = <<t>> /\ \A j \in Id \ {i} : wrote'[j] = wrote[j]
    BY <1>1, <2>1 DEF SealInv, FilesAreSealed
  <2>5. ~Written(i)
    BY <2>1, Len(<<>>) = 0, \A x : Len(<<x>>) = 1 DEF Written
  <2>6. Unwritten(i) /\ <<"records", i>> \in Path
    BY <1>1, <2>5 DEF SealInv, FilesAreSealed, Path
  <2>7. \A e \in Device : got[e][i].is # "live"
    BY <1>1, <2>6 DEF SealInv, FilesInv, GotFromWholeFiles, Justifies, Unwritten
  <2>8. \A e \in Device \ {d} : got[e][i].is = "live" => wrote'[i] = wrote[i]
    BY <2>7
  <2>9. result.is = "live" => result.text = wrote'[i]
    BY <2>2, <2>4
  <2>10. got' = [got EXCEPT ![d][i] = result]
    BY <2>1
  <2> QED BY <1>3, <2>3, <2>4, <2>8, <2>9, <2>10
<1>9. ASSUME NEW d \in Device, NEW p \in Path, Deliver(d, p) PROVE UNCHANGED <<got, wrote>>
  BY <1>9 DEF Deliver
<1>10. ASSUME NEW d \in Device, NEW p \in Path, Read(d, p) PROVE ReadInv'
  <2> DEFINE result == ReadResult(d, SubSeq(file[p], 1, sent[d][p]))
  <2>1. sent[d][p] > 0 /\ got' = [got EXCEPT ![d][p[2]] = result] /\ wrote' = wrote
    BY <1>10 DEF Read
  <2>2. result.is \in Answer /\ (result.is # "live" => result.text = <<>>)
    BY ReadKinds
  <2>3. file[p] # <<>>
    BY <1>1, <2>1, Len(<<>>) = 0 DEF SealInv, FilesInv, SentIsThere, FileShape
  <2>4. result.is = "live" => \E t \in Text : wrote[p[2]] = <<t>> /\ result.text = <<t>>
    BY <1>1, <2>3, ReadIsPublished
  <2> HIDE DEF result
  <2>5. result.text \in Seq(Text) /\ (result.is = "live" => result.text = wrote[p[2]])
    <3>1. CASE result.is = "live"
      <4>1. PICK t \in Text : wrote[p[2]] = <<t>> /\ result.text = <<t>>
        BY <2>4, <3>1
      <4>2. <<t>> \in Seq(Text)
        OBVIOUS
      <4>3. result.text \in Seq(Text)
        BY <4>1, <4>2, Zenon
      <4>4. result.text = wrote[p[2]]
        BY <4>1, Zenon
      <4> QED BY <4>3, <4>4
    <3>2. CASE result.is # "live"
      <4>1. <<>> \in Seq(Text)
        OBVIOUS
      <4> QED BY <2>2, <3>2, <4>1, Zenon
    <3> QED BY <3>1, <3>2
  <2>6. p[2] \in Id
    BY PathPair
  <2>7. result.is = "live" => result.text = wrote'[p[2]]
    BY <2>1, <2>5
  <2>8. \A j \in Id : wrote'[j] = wrote[j]
    BY <2>1
  <2>9. got' = [got EXCEPT ![d][p[2]] = result]
    BY <2>1
  <2> DEFINE i == p[2]
  <2>10. /\ i \in Id /\ got' = [got EXCEPT ![d][i] = result]
         /\ result.is = "live" => result.text = wrote'[i]
    BY <2>6, <2>7, <2>9
  <2> HIDE DEF i
  <2> QED BY ONLY <1>3, <2>2, <2>5, <2>8, <2>10, d \in Device
<1>11. CASE UNCHANGED vars
  BY <1>2, <1>11 DEF vars, fileVars
<1> QED BY <1>2, <1>4, <1>5, <1>6, <1>7, <1>8, <1>9, <1>10, <1>11 DEF Next

(* A record opens as its author's text on every device, whoever wrote it   *)
(* with whatever form of the passphrase.                                   *)
THEOREM RecordsOpenAsPublished == Spec => []OpenedAsPublished
<1>1. ReadInv => OpenedAsPublished
  BY DEF ReadInv, ResultIsTyped, OpenedAsPublished
<1> QED BY InitRead, StepRead, <1>1, PTL DEF Spec

(* The shape of the vault's state; a key in use came from parameters that  *)
(* its build accepts.                                                      *)
THEOREM VaultTypes == Spec => []TypeOK
<1>1. ReadInv => TypeOK
  <2> SUFFICES ASSUME ReadInv PROVE TypeOK
    OBVIOUS
  <2>1. app \in [Device -> App]
    BY DEF ReadInv, SealInv, KeyInv, VaultInv, VaultShape
  <2>2. ASSUME NEW d \in Device, key[d] # NoKey
        PROVE  /\ key[d].salt # <<>> /\ key[d].iterations > 0
               /\ vaultJson[1].json.kdf.kdfVersion = app[d].kdf
    BY <2>2 DEF ReadInv, SealInv, KeyInv, KeysAreTheVaults, VaultKey, VaultKdf, DerivedKey, Pbkdf2
  <2>3. ASSUME NEW d \in Device
        PROVE  /\ shown[d] <= Len(vaultJson)
               /\ reply[d] \in {"none", "right", "wrong"} \cup CoreError
               /\ \A p \in Path : sent[d][p] <= Len(file[p])
               /\ \A i \in Id : got[d][i].is \in Answer /\ got[d][i].text \in Seq(Text)
    BY DEF ReadInv, SealInv, KeyInv, VaultInv, ShownIsThere, RepliesAreKnown, FilesInv,
           SentIsThere, ResultIsTyped
  <2> QED BY <2>1, <2>2, <2>3 DEF TypeOK
<1> QED BY InitRead, StepRead, <1>1, PTL DEF Spec

(* The sync_hash in a header is the one any device with the key computes   *)
(* for the payload of what the record holds, and for no other payload: in  *)
(* a vault there is one key, and a tombstone's author has the record.      *)
THEOREM HashesAgree == Spec => []DedupeAgrees
<1>1. SealInv => DedupeAgrees
  <2> SUFFICES ASSUME SealInv, NEW d \in Device, NEW p \in Path, NEW c \in Payload,
                      key[d] # NoKey, file[p] # <<>>
               PROVE  file[p][2].header.syncHash = ComputeSyncHash(key[d], c).val
                        <=> c = CanonicalPayload[wrote[p[2]][1]]
    BY DEF DedupeAgrees
  <2>1. key[d] = VaultKey
    BY DEF SealInv, KeyInv, KeysAreTheVaults
  <2>2. ComputeSyncHash(key[d], c).val = ContentHash(Dedupe(VaultKey), c)
    BY <2>1 DEF ComputeSyncHash, AsKey32, Ok
  <2>3. PICK u \in Text : /\ wrote[p[2]] = <<u>>
                          /\ file[p][2].header.syncHash = HashOf(u)
    <3>1. Written(p[2])
      BY PathPair DEF SealInv, FilesAreSealed, Unwritten
    <3>2. PICK u \in Text, v \in Nat :
            /\ wrote[p[2]] = <<u>>
            /\ file[p] = RecordFile(p[2], u, v) \/ file[p] = TombFile(u, v)
      BY <3>1, PathPair DEF Written
    <3>3. CASE file[p] = RecordFile(p[2], u, v)
      <4> DEFINE h == Header(v, FALSE, HashOf(u))
                 k == Cclip(VaultKey)
                 x == EncodePlaintext(u)
      <4>1. file[p] = EncodeEnvelope([header |-> h, body |-> <<LocalSeal(k, p[2], x)>>])
        BY <3>3 DEF RecordFile
      <4>2. h.syncHash = HashOf(u)
        BY DEF Header
      <4> HIDE DEF h, k, x
      <4>3. file[p][2].header = h
        BY <4>1, RecordFields
      <4> QED BY <3>2, <4>2, <4>3
    <3>4. CASE file[p] = TombFile(u, v)
      <4> DEFINE h == Header(v, TRUE, HashOf(u))
      <4>1. h.syncHash = HashOf(u)
        BY DEF Header
      <4>2. file[p] = EncodeEnvelope([header |-> h, body |-> <<>>])
        BY <3>4 DEF TombFile
      <4> HIDE DEF h
      <4>3. file[p][2].header = h
        BY <4>2, TombstoneFields
      <4> QED BY <3>2, <4>1, <4>3
    <3> QED BY <3>2, <3>3, <3>4
  <2>4. wrote[p[2]][1] = u
    BY <2>3
  <2>5. HashOf(u) = ContentHash(Dedupe(VaultKey), c) <=> c = CanonicalPayload[u]
    BY DEF HashOf, ContentHash
  <2> QED BY <2>2, <2>3, <2>4, <2>5
<1> QED BY InitSeal, StepSeal, <1>1, PTL DEF Spec

(* A record opens on every device with the key that has all of it and a    *)
(* build of its version, if and only if it is within the reader's cap.     *)
THEOREM CapDecidesOpening == Spec => []OpensWithinCap
<1>1. SealInv => OpensWithinCap
  <2> SUFFICES ASSUME SealInv, NEW d \in Device, NEW i \in Id, key[d] # NoKey, wrote[i] # <<>>,
                      SubSeq(file[<<"records", i>>], 1, sent[d][<<"records", i>>])
                        = file[<<"records", i>>],
                      DecodeEnvelope(file[<<"records", i>>], app[d].record).ok
               PROVE  OpenRecord(key[d], DecodeEnvelope(file[<<"records", i>>], app[d].record).val.body[1]).ok
                        <=> Len(wrote[i][1].representations) <= MaxRepresentations
    BY DEF OpensWithinCap
  <2>1. key[d] = VaultKey
    BY DEF SealInv, KeyInv, KeysAreTheVaults
  <2>2. PICK t \in Text, v \in Nat :
          wrote[i] = <<t>> /\ file[<<"records", i>>] = RecordFile(i, t, v)
    BY DEF SealInv, FilesAreSealed, Unwritten, Written
  <2> DEFINE h == Header(v, FALSE, HashOf(t))
             k == Cclip(VaultKey)
             x == EncodePlaintext(t)
             box == LocalSeal(k, i, x)
  <2>3. file[<<"records", i>>] = EncodeEnvelope([header |-> h, body |-> <<box>>])
    BY <2>2 DEF RecordFile
  <2>4. DecodeEnvelope(file[<<"records", i>>], app[d].record).val.body[1] = box
    <3> HIDE DEF h, k, x
    <3>1. DecodeEnvelope(EncodeEnvelope([header |-> h, body |-> <<box>>]), app[d].record).val
            = [header |-> h, body |-> <<box>>]
      BY <2>3, DecodedRecord
    <3> HIDE DEF box
    <3> QED BY <2>3, <3>1
  <2>5. OpenRecord(key[d], box).ok <=> Len(t.representations) <= MaxRepresentations
    <3>1. ReadsBack(t) /\ AsKey32(key[d])
      BY TextsReadBack DEF AsKey32
    <3> QED BY <2>1, <3>1, OpenSealed
  <2>6. wrote[i][1] = t
    BY <2>2
  <2> HIDE DEF box
  <2> QED BY <2>4, <2>5, <2>6
<1> QED BY InitSeal, StepSeal, <1>1, PTL DEF Spec

============================================================================
