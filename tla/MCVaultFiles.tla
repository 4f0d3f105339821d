---------------------------- MODULE MCVaultFiles ----------------------------
(* Two devices of three builds; a passphrase in two normal forms and       *)
(* another one; a text with a source bundle, and one of too many parts,    *)
(* copies of the same content both, beside which there is other content.   *)
EXTENDS VaultFiles

MCNfc(p) == IF p = "decomposed" THEN "composed" ELSE p

MCVerifier == <<1>>

Part == [uttype |-> <<0>>, data |-> <<2>>]
Bundled == Plaintext(<<1>>, <<0>>, <<<<1>>>>, FALSE, <<Part>>)
Long == Plaintext(<<1>>, <<0>>, <<>>, FALSE, <<Part, Part>>)

MCText == {Bundled, Long}
MCPayload == {"hello clip", "another clip"}
MCCanonicalPayload == [t \in MCText |-> "hello clip"]

Build(record, kdfVersion) == [record |-> record, vault |-> 1, kdf |-> kdfVersion]
MCApp == {Build(1, 1), Build(2, 1), Build(1, 2)}

(* Device 1 runs the first build, device 2 any: which of two devices has   *)
(* which build does not matter, for either may create the vault.           *)
MCFleet == {f \in [{1, 2} -> MCApp] : f[1] = Build(1, 1)}

MCKdf == {Descriptor(1, <<7>>, 1), Descriptor(1, <<>>, 1), Descriptor(1, <<7>>, 0),
          Descriptor(2, <<7>>, 1)}
============================================================================
