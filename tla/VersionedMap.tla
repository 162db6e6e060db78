---------------------------- MODULE VersionedMap ----------------------------
(***************************************************************************)
(* What the hash table of a vbucket promises its callers: a map from key   *)
(* to the current version of the key, on which every call takes effect at  *)
(* one instant between its invocation and its return ("per-key operations  *)
(* are linearized by the stripe lock").                                    *)
(*                                                                         *)
(* A version is a value with a CAS, or a tombstone with a CAS; a value may  *)
(* be locked.  A lock is given to one caller, who is told the CAS of the   *)
(* value; it ends when a set names that CAS, when unlockKey names it, or   *)
(* by itself ("locks expire passively").  Buckets, chains, stripe mutexes, *)
(* resizes, memory accounting and residency are not part of the promise:   *)
(* evict and restore leave every version as it is.  Neither is expiry: the *)
(* module states the promise for records that do not expire.               *)
(***************************************************************************)
EXTENDS Integers

CONSTANTS
    Keys,       \* the keys
    Lengths,    \* what tells two values apart: their lengths
    CasValues,  \* the CAS values there are (0: none)
    Clients,    \* the callers
    Absent,     \* the version of a key that has no record
    Idle        \* the request of a caller that is not calling

VARIABLES
    records,    \* records[k]: the current version of key k
    pending     \* pending[c]: the request of caller c that has not returned

vars == <<records, pending>>

Live(len, cas) ==
    [deleted |-> FALSE, len |-> len, cas |-> cas, locked |-> FALSE]
Tombstone(cas) ==
    [deleted |-> TRUE, len |-> 0, cas |-> cas, locked |-> FALSE]

Versions ==
    [deleted : BOOLEAN, len : Lengths \cup {0}, cas : CasValues,
     locked : BOOLEAN]

isLive(rec)   == rec # Absent /\ ~rec.deleted
isLocked(rec) == rec # Absent /\ rec.locked

Locked(rec)   == [rec EXCEPT !.locked = TRUE]
Unlocked(rec) == [rec EXCEPT !.locked = FALSE]

Readers == {"find", "evict", "restore"}

Requests ==
    [kind : {"set", "add", "softDelete", "del", "addUnlessThere",
             "getLocked", "unlockKey"} \cup Readers,
     key : Keys, len : Lengths \cup {0}, cas : CasValues]

(* A request that names a CAS is for the version with that CAS; a request
   on a locked value must name its CAS. *)
Matches(rec, req) ==
    IF isLocked(rec) THEN req.cas = rec.cas
    ELSE req.cas = 0 \/ (rec # Absent /\ req.cas = rec.cas)

(* The CAS values a new value in the place of rec may get: none is 0, and
   one that follows a value is larger than the CAS of that value; one that
   follows a tombstone may be the CAS of the tombstone. *)
Fresh(rec) ==
    {c \in CasValues \ {0} :
        rec # Absent => c > rec.cas \/ (rec.deleted /\ c = rec.cas)}

Stored(rec, req) == {Live(req.len, c) : c \in Fresh(rec)}

(* The versions a key with version rec may have once req has taken effect. *)
Outcomes(rec, req) ==
    CASE req.kind = "set" ->
            IF Matches(rec, req) THEN Stored(rec, req) ELSE {rec}
      [] req.kind = "add" ->               \* refused for want of memory, too
            IF isLive(rec) THEN {rec} ELSE {rec} \cup Stored(rec, req)
      [] req.kind = "softDelete" ->
            IF isLive(rec) /\ ~isLocked(rec) /\ Matches(rec, req)
            THEN {Tombstone(rec.cas + 1)} ELSE {rec}
      [] req.kind = "del" -> IF isLocked(rec) THEN {rec} ELSE {Absent}
      [] req.kind = "addUnlessThere" ->
            IF rec = Absent
            THEN {Live(req.len, req.cas), Tombstone(req.cas + 1)}
            ELSE {rec}
      [] req.kind = "getLocked" ->
            IF isLive(rec) /\ ~isLocked(rec) THEN {Locked(rec)} ELSE {rec}
      [] req.kind = "unlockKey" ->
            IF isLocked(rec) /\ req.cas = rec.cas
            THEN {Unlocked(rec)} ELSE {rec}
      [] req.kind \in Readers -> {rec}

Init ==
    /\ records = [k \in Keys |-> Absent]
    /\ pending = [c \in Clients |-> Idle]

(* c calls with some request. *)
Invoke(c) ==
    /\ pending[c] = Idle
    /\ pending'[c] \in Requests
    /\ pending' = [pending EXCEPT ![c] = pending'[c]]
    /\ UNCHANGED records

(* The request of c takes effect and c returns. *)
Respond(c) ==
    /\ pending[c] # Idle
    /\ \E new \in Outcomes(records[pending[c].key], pending[c]) :
          records' = [records EXCEPT ![pending[c].key] = new]
    /\ pending' = [pending EXCEPT ![c] = Idle]

(* Time passes, and the locks whose time it was run out. *)
Timeout ==
    /\ \E over \in SUBSET {k \in Keys : isLocked(records[k])} :
          records' = [k \in Keys |-> IF k \in over THEN Unlocked(records[k])
                                     ELSE records[k]]
    /\ UNCHANGED pending

Next ==
    \/ \E c \in Clients : Invoke(c) \/ Respond(c)
    \/ Timeout

Spec == Init /\ [][Next]_vars

TypeOK ==
    /\ records \in [Keys -> Versions \cup {Absent}]
    /\ pending \in [Clients -> Requests \cup {Idle}]

=============================================================================
