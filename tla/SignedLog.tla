------------------------------ MODULE SignedLog ------------------------------
(***************************************************************************)
(* The values that the signed append log is made of, shared by the SQLite  *)
(* and the Pebble backend: content addresses, signatures and log entries.  *)
(*                                                                         *)
(* BLAKE3 is modelled as an injective constructor and Ed25519 as a         *)
(* constructor that only the holder of the key applies.  The timestamp of  *)
(* an entry is left out: it is signed, and nothing else ever reads it.     *)
(***************************************************************************)
EXTENDS Naturals, Sequences

\* The content address of a byte string.
Hash(data) == <<"blake3", data>>

\* The sentinel that entry 0 links to; no content address equals it.
GENESIS_PREV_HASH == <<"genesis", 0>>

Sign(key, message) == <<"ed25519", key, message>>

Verify(key, message, signature) == signature = Sign(key, message)

\* The tuple an entry's signature covers.
SignatureMessage(seq, signer, entryHash, prevHash) ==
    <<seq, signer, entryHash, prevHash>>

\* The entry that append builds once it has read the count and the link.
LogEntry(seq, signer, payload, prevHash) ==
    [ seq           |-> seq,
      signer_pubkey |-> signer,
      entry_hash    |-> Hash(payload),
      prev_log_hash |-> prevHash,
      signature     |-> Sign(signer, SignatureMessage(seq, signer, Hash(payload), prevHash)),
      payload       |-> payload ]

verify_entry(entry) ==
    /\ Hash(entry.payload) = entry.entry_hash
    /\ Verify(entry.signer_pubkey,
              SignatureMessage(entry.seq, entry.signer_pubkey,
                               entry.entry_hash, entry.prev_log_hash),
              entry.signature)

\* The walk of verify_history over rows in seq order: every entry verifies and
\* links to the content address of the one before it.
ChainVerifies(rows) ==
    \A i \in DOMAIN rows :
        /\ verify_entry(rows[i])
        /\ rows[i].prev_log_hash =
               IF i = 1 THEN GENESIS_PREV_HASH ELSE rows[i - 1].entry_hash
==============================================================================
