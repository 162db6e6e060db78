---------------------------- MODULE StoredValue ----------------------------
(***************************************************************************)
(* The in-memory record of one key (class StoredValue, stored-value.hh).   *)
(*                                                                         *)
(* A record is a TLA+ record; every method of the class is an operator     *)
(* that takes the record (and the clock reading the method takes) and      *)
(* yields the record after the call.  The memory accounting a method does  *)
(* through increaseCurrentSize/reduceCurrentSize is the difference of      *)
(* size() before and after; module HashTable applies it to the counters.   *)
(*                                                                         *)
(* Left out: the client flags (stored and returned, never read by the      *)
(* table) and the key bytes (a key is a model value with a length).        *)
(***************************************************************************)
EXTENDS Integers

CONSTANTS
    Keys,       \* the keys clients use
    Values,     \* the value payloads clients store
    NoValue,    \* the NULL value handle of a logically deleted record
    KeyLen,     \* KeyLen[k]: length of key k in bytes (< 256)
    ValLen,     \* ValLen[v]: length of payload v in bytes
    Small       \* TRUE: records are of the small variety (no CAS, no expiry,
                \* no lock, always resident)

----------------------------------------------------------------------------
(* Layout on an LP64 build, from the field comments of the class. *)

PtrSize    == 8      \* size of a pointer
HandleSize == 16     \* sizeof(value_t)
BlobLen    == 4      \* sizeof(blobval): what an ejected value is replaced by

sizeOf(small) == 47 + (IF small THEN 2 ELSE 24)

(* Row id of a record the persistence layer has not seen, and of one that
   was handed to it and waits for its id. *)
NoId      == -1
PendingId == -2

(* An ejected value: a placeholder that remembers only the length of the
   payload it stands for. *)
Blob(n) == [len |-> n]
Blobs   == {Blob(ValLen[v]) : v \in Values}

(* value->length() of a handle that is not NULL. *)
length(val) == IF val \in Values THEN ValLen[val] ELSE BlobLen

(* The alignment size() adds to a length n: min(P, P - n % P), P = PtrSize. *)
Padding(n) == PtrSize - (n % PtrSize)

----------------------------------------------------------------------------
(* Observers *)

isDirty(sv)    == sv.dirty
isClean(sv)    == ~isDirty(sv)
isDeleted(sv)  == sv.value = NoValue
isResident(sv) == Small \/ sv.resident
getExptime(sv) == IF Small THEN 0 ELSE sv.exptime
getCas(sv)     == IF Small THEN 0 ELSE sv.cas
getDataAge(sv) == sv.dirtiness * 4
hasKey(sv, k)  == sv.key = k
hasId(sv)      == sv.id > 0
isPendingId(sv) == sv.id = PendingId

isExpired(sv, asOf) == getExptime(sv) # 0 /\ getExptime(sv) < asOf

(* What isLocked(curtime) returns. *)
isLocked(sv, curtime) ==
    ~Small /\ sv.locked /\ curtime <= sv.lock_expiry

(* What isLocked(curtime) leaves behind: a lock whose time has passed is
   cleared by the first call that looks at it. *)
afterIsLocked(sv, curtime) ==
    IF ~Small /\ sv.locked /\ curtime > sv.lock_expiry
    THEN [sv EXCEPT !.locked = FALSE]
    ELSE sv

size(sv) ==
    LET vallen == IF isDeleted(sv) THEN 0 ELSE length(sv.value)
    IN  sizeOf(Small) + KeyLen[sv.key] + vallen + HandleSize
            + Padding(vallen) + Padding(KeyLen[sv.key])

valLength(sv) ==
    IF isDeleted(sv) THEN 0
    ELSE IF isResident(sv) THEN ValLen[sv.value]
    ELSE sv.value.len

----------------------------------------------------------------------------
(* Mutators *)

markDirty(sv, curtime) ==
    [sv EXCEPT !.dirtiness = curtime \div 4, !.dirty = TRUE]

markClean(sv) == [sv EXCEPT !.dirty = FALSE]

clearPendingId(sv) ==
    IF isPendingId(sv) THEN [sv EXCEPT !.id = NoId] ELSE sv

(* Faulty variant: the record stays clean. *)
reDirtyStaysClean(sv, dataAge) ==
    clearPendingId([sv EXCEPT !.dirtiness = dataAge \div 4])

reDirty(sv, dataAge) ==
    clearPendingId([sv EXCEPT !.dirtiness = dataAge \div 4, !.dirty = TRUE])

(* Faulty variant: a pending id is taken for an id the record has. *)
setIdUnlessPending(sv, to) ==
    IF isPendingId(sv) THEN sv ELSE [sv EXCEPT !.id = to]

setId(sv, to)       == [sv EXCEPT !.id = to]

(* setId and setPendingId assert what the caller must establish: setId that
   the record has no id before and has one after, setPendingId that it has
   none and waits for none. *)
canSetId(sv, to)    == ~hasId(sv) /\ hasId(setId(sv, to))
canSetPendingId(sv) == ~hasId(sv) /\ ~isPendingId(sv)
setPendingId(sv)    == [sv EXCEPT !.id = PendingId]
clearId(sv)         == [sv EXCEPT !.id = NoId]

setCas(sv, c) == IF Small THEN sv ELSE [sv EXCEPT !.cas = c]

setExptime(sv, tim, curtime) ==
    IF Small THEN sv ELSE markDirty([sv EXCEPT !.exptime = tim], curtime)

lock(sv, expiry) ==
    IF Small THEN sv ELSE [sv EXCEPT !.locked = TRUE, !.lock_expiry = expiry]

unlock(sv) ==
    IF Small THEN sv ELSE [sv EXCEPT !.locked = FALSE, !.lock_expiry = 0]

(* Faulty variant: setValue that does not mark the record resident. *)
setValueAsIs(sv, v, newExp, theCas, curtime) ==
    [sv EXCEPT !.value      = v,
               !.cas        = theCas,
               !.exptime    = newExp,
               !.dirtiness  = curtime \div 4,
               !.dirty      = TRUE]

setValue(sv, v, newExp, theCas, curtime) ==
    markDirty([sv EXCEPT !.value    = v,
                         !.resident = TRUE,
                         !.cas      = IF Small THEN @ ELSE theCas,
                         !.exptime  = IF Small THEN @ ELSE newExp],
              curtime)

(* Faulty variant: a deletion that leaves the CAS as it is. *)
delKeepsCas(sv, curtime) ==
    [sv EXCEPT !.value = NoValue, !.dirtiness = curtime \div 4, !.dirty = TRUE]

(* Logical deletion: the value goes, the record stays as a tombstone with
   the next CAS. *)
del(sv, curtime) ==
    LET gone == markDirty([sv EXCEPT !.value = NoValue], curtime)
    IN  setCas(gone, getCas(gone) + 1)

(* The constructor.  itm is the Item handed to the table. *)
NewStoredValue(itm, setDirty, curtime) ==
    LET fresh == [key         |-> itm.key,
                  value       |-> itm.value,
                  id          |-> itm.id,
                  dirtiness   |-> 0,
                  dirty       |-> FALSE,
                  cas         |-> IF Small THEN 0 ELSE itm.cas,
                  exptime     |-> IF Small THEN 0 ELSE itm.exptime,
                  locked      |-> FALSE,
                  resident    |-> TRUE,
                  lock_expiry |-> 0]
    IN  IF setDirty THEN markDirty(fresh, curtime) ELSE markClean(fresh)

(* Eviction.  ejectValue swaps the payload of a resident, live record of the
   full variety for a placeholder; restoreValue puts a payload back. *)
canEject(sv) == ~Small /\ isResident(sv) /\ ~isDeleted(sv)
ejectValue(sv) ==
    [sv EXCEPT !.value = Blob(ValLen[@]), !.resident = FALSE]

canRestore(sv) == ~isResident(sv) /\ ~isDeleted(sv)
restoreValue(sv, v) ==
    [sv EXCEPT !.value = v, !.resident = TRUE]

============================================================================
