----------------------------- MODULE MCHashTable -----------------------------
(***************************************************************************)
(* HashTable for the model checker: two keys, two payloads of different    *)
(* lengths, and the hash values that put the keys where a run wants them.  *)
(***************************************************************************)
EXTENDS HashTable, TLC

CONSTANTS k1, k2, v1, v2

(* Payload lengths that make a value, its placeholder and a tombstone
   three different sizes. *)
MCValLen == (v1 :> 9) @@ (v2 :> 20)

(* "aaa" and "xzmnvflr": lengths of which one is a multiple of the pointer
   size and one is not; hashes 193409700 and -750959766, both in bucket 0
   whatever the bucket count (2 or 3). *)
KeysCollide ==
    (k1 :> <<97, 97, 97>>) @@ (k2 :> <<120, 122, 109, 110, 118, 102, 108, 114>>)

(* "aab" and "woixzhsd": hashes 193409703 and -206648983.  The keys share
   bucket 1 of 2 and part with 3 buckets (0 and 1); with 2 stripe mutexes
   they then hang on different mutexes. *)
KeysSpread ==
    (k1 :> <<97, 97, 98>>) @@ (k2 :> <<119, 111, 105, 120, 122, 104, 115, 100>>)

(* How add is called: by a client (dirty, value stored), and also by warmup
   (clean, value left on disk). *)
ClientAdd == {<<TRUE, TRUE>>}
WarmupAdd == {<<TRUE, TRUE>>, <<FALSE, FALSE>>}

(* The callers are interchangeable. *)
ThreadSymmetry == Permutations(Threads)

=============================================================================
