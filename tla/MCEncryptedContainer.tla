------------------------ MODULE MCEncryptedContainer ------------------------
(* Small instance of EncryptedContainer. *)
EXTENDS EncryptedContainer, TLC

\* Keys and body keys are interchangeable; used by invariant runs only.
Interchangeable == Permutations(Key) \cup Permutations(CipherKey) \cup Permutations(Payload)
=============================================================================
