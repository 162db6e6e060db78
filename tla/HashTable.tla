------------------------------ MODULE HashTable ------------------------------
(***************************************************************************)
(* The lock-striped hash table of one vbucket (class HashTable,            *)
(* stored-value.hh) under concurrent callers.                              *)
(*                                                                         *)
(* A bucket is the sequence of the records of its chain, head first.  A    *)
(* call takes two steps: Begin fixes its arguments and computes the bucket *)
(* from the bucket count it reads (for set, after the unlocked space       *)
(* check); the step named after the operation takes the stripe mutex,      *)
(* finds the bucket still valid, runs the body and lets the mutex go.      *)
(* Relock is the other outcome of getLockedBucket: the table was resized   *)
(* in between and the bucket is computed again.  add is cut once more,     *)
(* between its space check and its store, so that the mutex it holds and   *)
(* the accountant it reads meanwhile are both visible.                     *)
(*                                                                         *)
(* The bodies of Item::setCas, hasAvailableSpace, increaseCurrentSize,     *)
(* reduceCurrentSize, ejectValue, restoreValue and resize, and the callers *)
(* that lock, unlock, evict and restore a record, are not part of the      *)
(* sources at hand; they follow the specification of the engine.           *)
(***************************************************************************)
EXTENDS Integers, Sequences, FiniteSets, SequencesExt, Bitwise

CONSTANTS
    Keys, Values, NoValue, ValLen, Small,  \* see StoredValue
    KeyBytes,       \* KeyBytes[k]: the bytes of key k, a sequence of 0..255
    CharSigned,     \* TRUE: char is a signed type on this build
    Threads,        \* the threads that call into the table
    NoThread,       \* owner of a free mutex
    Idle,           \* the call of a thread that is not in the table
    Kinds,          \* the operations the threads call
    BucketCounts,   \* the bucket counts resize may choose
    InitSize,       \* bucket count the table is created with
    NumLocks,       \* n_locks
    MaxDataSize,    \* the ceiling of the memory accountant
    FirstCas,       \* the first CAS the generator hands out
    MaxCas,         \* bound: the last CAS the generator hands out
    CasArgs,        \* the CAS values clients supply (0: none)
    RestoreCas,     \* the CAS values of the items of a backup
    Epoch,          \* ep_real_time() - ep_current_time()
    MaxTime,        \* bound: the last reading of ep_current_time()
    Exptimes,       \* the expiry times clients supply (0: never)
    LockTimeout,    \* how long a lock is granted for
    AddModes,       \* the <<isDirty, storeVal>> pairs add is called with
    MaxResizes,     \* bound: number of resizes
    CounterMod      \* size_t arithmetic is modulo this (stands for 2^64)

VARIABLES
    values,               \* values[b]: the chain of bucket b
    size,                 \* number of buckets
    mutexes,              \* mutexes[m]: the thread holding stripe mutex m
    numItems,             \* records linked into the table
    numNonResidentItems,  \* records whose value is ejected
    numResizes,
    memSize,              \* bytes of the records of this table
    currentSize,          \* bytes the memory accountant has charged
    casCounter,           \* the next CAS of the generator
    now,                  \* ep_current_time()
    pc,                   \* pc[t]: where thread t is in its call
    call,                 \* call[t]: the call thread t is making
    superseded            \* history: superseded[k] is the set of CAS values
                          \* of versions of k that have been replaced

KeyLen == [k \in Keys |-> Len(KeyBytes[k])]

SV == INSTANCE StoredValue

table    == <<values, size, numResizes>>
counters == <<numItems, numNonResidentItems, memSize, currentSize>>
threads  == <<pc, call, mutexes>>
vars     == <<values, size, mutexes, numItems, numNonResidentItems,
              numResizes, memSize, currentSize, casCounter, now, pc, call,
              superseded>>

KindsAll == {"find", "set", "add", "softDelete", "del", "addUnlessThere",
             "getLocked", "unlockKey", "evict", "restore"}

(* What each kind of call carries besides the key. *)
TakesValue == {"set", "add", "addUnlessThere"}
TakesCas   == {"set", "softDelete", "unlockKey"}
DrawsCas   == {"set", "add"}

Calls ==
    [kind : KindsAll, key : Keys, value : Values \cup {NoValue},
     cas : Nat, bucket : Nat, found : BOOLEAN]

----------------------------------------------------------------------------
(* Hashing and striping *)

(* An int holds 32 bits; here it is a pair <<high, low>> of halves of 16
   bits, as its pattern, and Int32 is the value of the pattern. *)
Half == 65536

Int32(h) == (IF h[1] < Half \div 2 THEN h[1] ELSE h[1] - Half) * Half + h[2]

(* (h << 5) + h, wrapping. *)
Times33(h) ==
    LET low == h[2] * 33
    IN  <<(h[1] * 33 + low \div Half) % Half, low % Half>>

(* The pattern a char widens to: a signed char above 127 is negative. *)
Widened(c) ==
    IF CharSigned /\ c > 127 THEN <<Half - 1, Half - 256 + c>> ELSE <<0, c>>

(* hash(): h = ((h << 5) + h) ^ str[i], from 5381. *)
hash(str) ==
    Int32(FoldLeft(LAMBDA h, c : LET w == Widened(c)
                                 IN  <<Times33(h)[1] ^^ w[1],
                                       Times33(h)[2] ^^ w[2]>>,
                   <<0, 5381>>, str))

Hash == [k \in Keys |-> hash(KeyBytes[k])]

AbsInt(n) == IF n < 0 THEN -n ELSE n

(* h % size as C computes it: the remainder has the sign of h. *)
Remainder(h, sz) == IF h < 0 THEN -((-h) % sz) ELSE h % sz

(* Faulty variant: the remainder of a negative hash is the bucket. *)
getBucketSigned(h, sz) == Remainder(h, sz)

getBucketForHash(h, sz) == AbsInt(Remainder(h, sz))

mutexForBucket(b) == b % NumLocks

BucketOf(k) == getBucketForHash(Hash[k], size)

----------------------------------------------------------------------------
(* The chain of a bucket *)

(* Index in chain b of the record unlocked_find returns, 0 for NULL: the
   first record of the key, unless it is a tombstone nobody asked for. *)
unlocked_find(key, b, wantsDeleted) ==
    LET i == SelectInSeq(values[b], LAMBDA sv : SV!hasKey(sv, key))
    IN  IF i # 0 /\ (wantsDeleted \/ ~SV!isDeleted(values[b][i])) THEN i ELSE 0

Put(b, i, sv) == [values EXCEPT ![b][i] = sv]
Push(b, sv)   == [values EXCEPT ![b] = <<sv>> \o @]
Unlink(b, i)  == [values EXCEPT ![b] = RemoveAt(@, i)]

AllRecords == UNION {ToSet(values[b]) : b \in DOMAIN values}

----------------------------------------------------------------------------
(* Clocks, the CAS generator, the memory accountant *)

RealTime == Epoch + now

(* Item::setCas() takes the next value of a process-wide counter. *)
nextCas == casCounter

(* The Item a call stores, with the CAS and the expiry it ends up with. *)
ItemOf(c, cas, exptime) ==
    [key |-> c.key, value |-> c.value, cas |-> cas, exptime |-> exptime,
     id |-> SV!NoId]

(* The factory: a record of the table's variety for an item. *)
valFact(itm, setDirty) == SV!NewStoredValue(itm, setDirty, now)

(* The size the record of an item would have. *)
WouldBeSize(c) == SV!size(valFact(ItemOf(c, 0, 0), TRUE))

hasAvailableSpace(c) == currentSize + WouldBeSize(c) <= MaxDataSize

(* Faulty variant: the accountant is charged and the table's memSize is
   forgotten. *)
ChargeAccountantOnly(by) ==
    /\ currentSize' = currentSize + by
    /\ UNCHANGED memSize

(* increaseCurrentSize/reduceCurrentSize: the accountant and the table's
   own counter move together. *)
Charge(by) ==
    /\ currentSize' = currentSize + by
    /\ memSize' = memSize + by

(* Faulty variant: setValue charges the new size and forgets to give back
   the old one. *)
RechargeNewOnly(old, new) ==
    /\ currentSize' = currentSize + SV!size(new)
    /\ memSize' = memSize + SV!size(new)

(* A record is replaced in place: setValue, del, ejectValue, restoreValue
   charge the difference of size(). *)
Recharge(old, new) == Charge(SV!size(new) - SV!size(old))

(* --numNonResidentItems on a size_t. *)
Decrement(n) == (n - 1) % CounterMod

----------------------------------------------------------------------------
(* History *)

(* The version of old stops being the current one of its key. *)
Supersede(old) ==
    superseded' = [superseded EXCEPT ![old.key] =
                      IF SV!isDeleted(old) \/ SV!getCas(old) = 0
                      THEN @ ELSE @ \cup {SV!getCas(old)}]

----------------------------------------------------------------------------
(* Entering and leaving the table *)

InFlight(kinds) ==
    {t \in Threads : pc[t] = "locking" /\ call[t].kind \in kinds}

(* The arguments a call of this kind may carry. *)
WellFormed(kind, value, cas) ==
    /\ kind \in Kinds
    /\ value \in (IF kind \in TakesValue THEN Values ELSE {NoValue})
    /\ cas \in (IF kind \in TakesCas THEN CasArgs
                ELSE IF kind = "addUnlessThere" THEN RestoreCas ELSE {0})
    \* bound MaxCas: every call that will draw a CAS finds one left
    /\ kind \in DrawsCas => casCounter + Cardinality(InFlight(DrawsCas)) <= MaxCas

(* What the restore hands to addUnlessThere: the store keeps the keys that
   were deleted while it restores (restore.itemsDeleted) and skips them, so
   a version that was replaced or removed is not brought back. *)
Restorable(key, cas) == cas \notin superseded[key]

Begin(t, kind, key, value, cas) ==
    LET c == [kind |-> kind, key |-> key, value |-> value, cas |-> cas,
              bucket |-> BucketOf(key), found |-> FALSE]
    IN  /\ pc[t] = "idle"
        /\ WellFormed(kind, value, cas)
        /\ kind = "addUnlessThere" => Restorable(key, cas)
        /\ kind = "set" => hasAvailableSpace(c)
        /\ pc' = [pc EXCEPT ![t] = "locking"]
        /\ call' = [call EXCEPT ![t] = c]
        /\ UNCHANGED <<table, counters, mutexes, casCounter, now, superseded>>

(* set returns NOMEM before it looks at the table. *)
SetNoMem(t, key, value, cas) ==
    /\ pc[t] = "idle"
    /\ WellFormed("set", value, cas)
    /\ ~hasAvailableSpace([key |-> key, value |-> value])
    /\ UNCHANGED vars

(* Faulty variant: a caller that does not wait for the mutex. *)
MutexIgnored(t) == TRUE

MutexFree(t) == mutexes[mutexForBucket(call[t].bucket)] = NoThread

(* Faulty variant: the bucket is computed once, outside the loop. *)
RelockSameBucket(t) ==
    /\ pc[t] = "locking"
    /\ call[t].bucket # BucketOf(call[t].key)
    /\ UNCHANGED vars

(* getLockedBucket took the mutex and the bucket is no longer the key's:
   let go and compute it again. *)
Relock(t) ==
    /\ pc[t] = "locking"
    /\ MutexFree(t)
    /\ call[t].bucket # BucketOf(call[t].key)
    /\ call' = [call EXCEPT ![t].bucket = BucketOf(call[t].key)]
    /\ UNCHANGED <<table, counters, mutexes, pc, casCounter, now, superseded>>

(* Faulty variant: getLockedBucket without the second look at the bucket. *)
LockedUnchecked(t, kind) ==
    /\ pc[t] = "locking"
    /\ call[t].kind = kind
    /\ mutexes[mutexForBucket(call[t].bucket)] = NoThread

(* getLockedBucket returns to a call of this kind with the mutex held. *)
Locked(t, kind) ==
    /\ pc[t] = "locking"
    /\ call[t].kind = kind
    /\ MutexFree(t)
    /\ call[t].bucket = BucketOf(call[t].key)

(* The call returns; the LockHolder lets the mutex go. *)
Return(t) ==
    /\ pc' = [pc EXCEPT ![t] = "idle"]
    /\ call' = [call EXCEPT ![t] = Idle]
    /\ mutexes' = [m \in DOMAIN mutexes |->
                      IF mutexes[m] = t THEN NoThread ELSE mutexes[m]]


----------------------------------------------------------------------------
(* Operations of the sources *)

find(t) ==
    /\ Locked(t, "find")
    /\ Return(t)
    /\ UNCHANGED <<table, counters, casCounter, now, superseded>>

(* Faulty variant: the CAS of the caller is compared only when the record
   is locked. *)
setDeniedWhenLocked(v, cas) ==
    SV!isLocked(v, now) /\ cas # SV!getCas(v)

(* set turns down a call on a record it updates in place: IS_LOCKED when
   the record is locked and the caller does not name its CAS, INVALID_CAS
   when the caller names another CAS than the record has. *)
setDenied(v, cas) ==
    IF SV!isLocked(v, now) THEN cas # SV!getCas(v)
    ELSE cas # 0 /\ cas # SV!getCas(v)

(* Faulty variant: a set that names the CAS of a locked record and leaves
   the lock on it. *)
openedKeepsLock(v) == SV!afterIsLocked(v, now)

(* The record set goes on to update: "allow operation", the lock taken
   off. *)
opened(v) ==
    IF SV!isLocked(v, now) THEN SV!unlock(v) ELSE SV!afterIsLocked(v, now)

set(t) ==
    /\ Locked(t, "set")
    /\ LET c       == call[t]
           b       == c.bucket
           i       == unlocked_find(c.key, b, TRUE)
           v       == values[b][i]
           inPlace == i # 0 /\ ~SV!isExpired(v, RealTime)
           denied  == setDenied(v, c.cas)
       IN  \/ /\ ~inPlace /\ c.cas # 0               \* NOT_FOUND
              /\ UNCHANGED <<table, counters, casCounter, superseded>>
           \/ /\ inPlace /\ denied                   \* IS_LOCKED, INVALID_CAS
              /\ values' = Put(b, i, SV!afterIsLocked(v, now))
              /\ UNCHANGED <<size, numResizes, counters, casCounter, superseded>>
           \/ /\ inPlace /\ ~denied                  \* WAS_CLEAN, WAS_DIRTY
              /\ \E exptime \in Exptimes :
                    LET new == SV!setValue(opened(v), c.value, exptime,
                                           nextCas, now)
                    IN  values' = Put(b, i, new) /\ Recharge(v, new)
              /\ numNonResidentItems' =
                    IF SV!isResident(v) THEN numNonResidentItems
                    ELSE Decrement(numNonResidentItems)
              /\ casCounter' = casCounter + 1
              /\ Supersede(v)
              /\ UNCHANGED <<size, numResizes, numItems>>
           \/ /\ ~inPlace /\ c.cas = 0               \* a new record at the head
              /\ \E exptime \in Exptimes :
                    LET new == valFact(ItemOf(c, nextCas, exptime), TRUE)
                    IN  values' = Push(b, new) /\ Charge(SV!size(new))
              /\ numItems' = numItems + 1
              /\ casCounter' = casCounter + 1
              /\ IF i # 0 THEN Supersede(v) ELSE UNCHANGED superseded
              /\ UNCHANGED <<size, numResizes, numNonResidentItems>>
    /\ Return(t)
    /\ UNCHANGED now

(* add up to its space check: ADD_EXISTS and ADD_NOMEM return, otherwise the
   call goes on to store with the mutex held and its CAS drawn. *)
add(t) ==
    /\ Locked(t, "add")
    /\ LET c      == call[t]
           i      == unlocked_find(c.key, c.bucket, TRUE)
           v      == values[c.bucket][i]
           exists == i # 0 /\ ~SV!isDeleted(v) /\ ~SV!isExpired(v, RealTime)
       IN  \/ /\ exists
              /\ Return(t)
              /\ UNCHANGED casCounter
           \/ /\ ~exists /\ ~hasAvailableSpace(c)
              /\ casCounter' = casCounter + 1
              /\ Return(t)
           \/ /\ ~exists /\ hasAvailableSpace(c)
              /\ casCounter' = casCounter + 1
              /\ pc' = [pc EXCEPT ![t] = "adding"]
              /\ call' = [call EXCEPT ![t].cas = nextCas, ![t].found = i # 0]
              /\ mutexes' = [mutexes EXCEPT ![mutexForBucket(c.bucket)] = t]
    /\ UNCHANGED <<table, counters, now, superseded>>

(* The rest of add: ADD_UNDEL over a tombstone or an expired record,
   ADD_SUCCESS with a new record; the value is ejected at once when the
   caller does not want it stored. *)
addStore(t) ==
    /\ pc[t] = "adding"
    /\ \E exptime \in Exptimes, mode \in AddModes :
          LET c      == call[t]
              isDirty  == mode[1]
              storeVal == mode[2]
              b      == c.bucket
              i      == unlocked_find(c.key, b, TRUE)
              v      == values[b][i]
              redone == SV!setValue(v, c.value, exptime, c.cas, now)
              stored == IF ~c.found
                        THEN valFact(ItemOf(c, c.cas, exptime), isDirty)
                        ELSE IF isDirty THEN SV!markDirty(redone, now)
                        ELSE SV!markClean(redone)
              eject  == ~storeVal /\ SV!canEject(stored)
              kept   == IF eject THEN SV!ejectValue(stored) ELSE stored
          IN  /\ IF ~c.found
                 THEN /\ values' = Push(b, kept)
                      /\ Charge(SV!size(kept))
                      /\ numItems' = numItems + 1
                      /\ UNCHANGED superseded
                 ELSE /\ values' = Put(b, i, kept)
                      /\ Recharge(v, kept)
                      /\ Supersede(v)
                      /\ UNCHANGED numItems
              /\ numNonResidentItems' =
                    IF eject THEN (numNonResidentItems + 1) % CounterMod
                    ELSE numNonResidentItems
    /\ Return(t)
    /\ UNCHANGED <<size, numResizes, casCounter, now>>

(* Faulty variant: softDelete that does not ask whether the record is
   locked. *)
softDeletesLocked(v, cas) ==
    /\ ~SV!isExpired(v, RealTime)
    /\ cas = 0 \/ cas = SV!getCas(v)

(* unlocked_softDelete, once it has found the live record v. *)
softDeletes(v, cas) ==
    /\ ~SV!isExpired(v, RealTime)
    /\ ~SV!isLocked(v, now)
    /\ cas = 0 \/ cas = SV!getCas(v)

unlocked_softDelete(v, cas) ==
    IF SV!isExpired(v, RealTime) THEN SV!del(v, now)
    ELSE IF softDeletes(v, cas) THEN SV!del(SV!unlock(v), now)
    ELSE SV!afterIsLocked(v, now)

softDelete(t) ==
    /\ Locked(t, "softDelete")
    /\ LET c   == call[t]
           b   == c.bucket
           i   == unlocked_find(c.key, b, FALSE)
           v   == values[b][i]
           new == unlocked_softDelete(v, c.cas)
       IN  IF i = 0
           THEN UNCHANGED <<values, counters, superseded>>
           ELSE /\ values' = Put(b, i, new)
                /\ Recharge(v, new)
                /\ numNonResidentItems' =
                      IF softDeletes(v, c.cas) /\ ~SV!isResident(v)
                      THEN Decrement(numNonResidentItems)
                      ELSE numNonResidentItems
                /\ IF SV!isDeleted(new) THEN Supersede(v)
                   ELSE UNCHANGED superseded
                /\ UNCHANGED numItems
    /\ Return(t)
    /\ UNCHANGED <<size, numResizes, casCounter, now>>

(* The record unlocked_del asks whether the one at position i is a
   tombstone: the record itself at the head of the chain, the record in
   front of it further down. *)
DelAsks(chain, i) == IF i = 1 THEN chain[1] ELSE chain[i - 1]

(* unlocked_del refuses a live record that is locked. *)
delRefused(chain, i) ==
    ~SV!isDeleted(DelAsks(chain, i)) /\ SV!isLocked(chain[i], now)

del(t) ==
    /\ Locked(t, "del")
    /\ LET c == call[t]
           b == c.bucket
           i == SelectInSeq(values[b], LAMBDA sv : SV!hasKey(sv, c.key))
       IN  IF i = 0 \/ delRefused(values[b], i)
           THEN UNCHANGED <<values, counters, superseded>>
           ELSE /\ values' = Unlink(b, i)
                /\ Charge(- SV!size(values[b][i]))
                /\ numItems' = numItems - 1
                /\ Supersede(values[b][i])
                /\ UNCHANGED numNonResidentItems
    /\ Return(t)
    /\ UNCHANGED <<size, numResizes, casCounter, now>>

(* Restore from a backup: the item goes in only when the key has no record
   at all, as a value or (op = queue_op_del) as a tombstone. *)
addUnlessThere(t) ==
    /\ Locked(t, "addUnlessThere")
    /\ LET c == call[t]
           b == c.bucket
       IN  IF unlocked_find(c.key, b, TRUE) # 0
           THEN UNCHANGED <<values, counters, superseded>>
           ELSE \E exptime \in Exptimes, isDel \in BOOLEAN :
                  LET new  == valFact(ItemOf(c, c.cas, exptime), TRUE)
                      kept == IF isDel THEN unlocked_softDelete(new, c.cas)
                              ELSE new
                  IN  /\ values' = Push(b, kept)
                      /\ Charge(SV!size(kept))
                      /\ numItems' = numItems + 1
                      /\ UNCHANGED <<numNonResidentItems, superseded>>
    /\ Return(t)
    /\ UNCHANGED <<size, numResizes, casCounter, now>>


----------------------------------------------------------------------------
(* Operations the specification of the engine describes *)

(* A client locks the live record of a key for LockTimeout. *)
getLocked(t) ==
    /\ Locked(t, "getLocked")
    /\ LET c == call[t]
           i == unlocked_find(c.key, c.bucket, FALSE)
           v == values[c.bucket][i]
       IN  IF i = 0 \/ SV!isExpired(v, RealTime) \/ SV!isLocked(v, now)
           THEN UNCHANGED values
           ELSE values' = Put(c.bucket, i, SV!lock(v, now + LockTimeout))
    /\ Return(t)
    /\ UNCHANGED <<size, numResizes, counters, casCounter, now, superseded>>

(* The holder of the lock gives it back, naming the CAS it was given. *)
unlockKey(t) ==
    /\ Locked(t, "unlockKey")
    /\ LET c == call[t]
           i == unlocked_find(c.key, c.bucket, FALSE)
           v == values[c.bucket][i]
       IN  IF i = 0
           THEN UNCHANGED values
           ELSE values' = Put(c.bucket, i,
                    IF SV!isLocked(v, now) /\ c.cas = SV!getCas(v)
                    THEN SV!unlock(v) ELSE SV!afterIsLocked(v, now))
    /\ Return(t)
    /\ UNCHANGED <<size, numResizes, counters, casCounter, now, superseded>>

(* The pager ejects the value of a record. *)
evict(t) ==
    /\ Locked(t, "evict")
    /\ LET c == call[t]
           i == unlocked_find(c.key, c.bucket, FALSE)
           v == values[c.bucket][i]
       IN  IF i = 0 \/ ~SV!canEject(v)
           THEN UNCHANGED <<values, counters>>
           ELSE /\ values' = Put(c.bucket, i, SV!ejectValue(v))
                /\ Recharge(v, SV!ejectValue(v))
                /\ numNonResidentItems' = (numNonResidentItems + 1) % CounterMod
                /\ UNCHANGED numItems
    /\ Return(t)
    /\ UNCHANGED <<size, numResizes, casCounter, now, superseded>>

(* A background fetch completes: the payload read from disk, of the length
   the placeholder remembers, is put back. *)
restore(t) ==
    /\ Locked(t, "restore")
    /\ LET c == call[t]
           i == unlocked_find(c.key, c.bucket, FALSE)
           v == values[c.bucket][i]
       IN  IF i = 0 \/ ~SV!canRestore(v)
           THEN UNCHANGED <<values, counters>>
           ELSE /\ \E val \in Values :
                      /\ ValLen[val] = SV!valLength(v)
                      /\ values' = Put(c.bucket, i, SV!restoreValue(v, val))
                      /\ Recharge(v, SV!restoreValue(v, val))
                /\ numNonResidentItems' = Decrement(numNonResidentItems)
                /\ UNCHANGED numItems
    /\ Return(t)
    /\ UNCHANGED <<size, numResizes, casCounter, now, superseded>>

(* The chain of bucket b after a resize to `to` buckets: the old buckets in
   order, each chain from its head, every record pushed onto the head of
   its new chain. *)
Rehashed(to, b) ==
    LET old == FlattenSeq([n \in 1..size |-> values[n - 1]])
    IN  Reverse(SelectSeq(old,
                    LAMBDA sv : getBucketForHash(Hash[sv.key], to) = b))

(* resize holds every mutex while it moves the records. *)
resize(to) ==
    /\ to \in BucketCounts \ {size}
    /\ numResizes < MaxResizes
    /\ \A m \in DOMAIN mutexes : mutexes[m] = NoThread
    /\ size' = to
    /\ values' = [b \in 0..(to - 1) |-> Rehashed(to, b)]
    /\ numResizes' = numResizes + 1
    /\ UNCHANGED <<counters, threads, casCounter, now, superseded>>

(* A second passes. *)
Tick ==
    /\ now < MaxTime
    /\ now' = now + 1
    /\ UNCHANGED <<table, counters, threads, casCounter, superseded>>

----------------------------------------------------------------------------

Init ==
    /\ size = InitSize
    /\ values = [b \in 0..(InitSize - 1) |-> <<>>]
    /\ mutexes = [m \in 0..(NumLocks - 1) |-> NoThread]
    /\ numItems = 0
    /\ numNonResidentItems = 0
    /\ numResizes = 0
    /\ memSize = 0
    /\ currentSize = 0
    /\ casCounter = FirstCas
    /\ now = 0
    /\ pc = [t \in Threads |-> "idle"]
    /\ call = [t \in Threads |-> Idle]
    /\ superseded = [k \in Keys |-> {}]

Enter(t) ==
    \E key \in Keys, value \in Values \cup {NoValue}, cas \in CasArgs \cup RestoreCas :
        \/ \E kind \in Kinds : Begin(t, kind, key, value, cas)
        \/ SetNoMem(t, key, value, cas)

Step(t) ==
    \/ Enter(t)
    \/ Relock(t)
    \/ find(t)
    \/ set(t)
    \/ add(t)
    \/ addStore(t)
    \/ softDelete(t)
    \/ del(t)
    \/ addUnlessThere(t)
    \/ getLocked(t)
    \/ unlockKey(t)
    \/ evict(t)
    \/ restore(t)

Next ==
    \/ \E t \in Threads : Step(t)
    \/ \E to \in BucketCounts : resize(to)
    \/ Tick

Spec == Init /\ [][Next]_vars

(* What a thread does once it is in the table. *)
Leave(t) ==
    \/ Relock(t) \/ find(t) \/ set(t) \/ add(t) \/ addStore(t)
    \/ softDelete(t) \/ del(t) \/ addUnlessThere(t) \/ getLocked(t)
    \/ unlockKey(t) \/ evict(t) \/ restore(t)

(* A thread that can take its mutex again and again gets it in the end. *)
FairSpec == Spec /\ \A t \in Threads : SF_vars(Leave(t))


----------------------------------------------------------------------------
(* Types *)

StoredValues ==
    [key : Keys, value : Values \cup {NoValue} \cup SV!Blobs, id : {SV!NoId},
     dirtiness : 0..(MaxTime \div 4), dirty : BOOLEAN,
     cas : 0..(MaxCas + 1), exptime : Exptimes \cup {0},
     locked : BOOLEAN, resident : BOOLEAN,
     lock_expiry : 0..(MaxTime + LockTimeout)]

TypeOK ==
    /\ size \in BucketCounts
    /\ DOMAIN values = 0..(size - 1)
    /\ \A b \in DOMAIN values : values[b] \in Seq(StoredValues)
    /\ mutexes \in [0..(NumLocks - 1) -> Threads \cup {NoThread}]
    /\ numItems \in Nat
    /\ numNonResidentItems \in 0..(CounterMod - 1)
    /\ numResizes \in 0..MaxResizes
    /\ memSize \in Nat
    /\ currentSize \in Nat
    /\ casCounter \in FirstCas..(MaxCas + 1)
    /\ now \in 0..MaxTime
    /\ pc \in [Threads -> {"idle", "locking", "adding"}]
    /\ \A t \in Threads :
          IF pc[t] = "idle" THEN call[t] = Idle ELSE call[t] \in Calls
    /\ superseded \in [Keys -> SUBSET (1..(MaxCas + 1))]


----------------------------------------------------------------------------
(* What callers see *)

(* The first record of key k in its chain, tombstone or not: the one every
   operation works on. *)
First(k) ==
    LET chain == values[BucketOf(k)]
        i     == SelectInSeq(chain, LAMBDA sv : SV!hasKey(sv, k))
    IN  IF i = 0 THEN {} ELSE {chain[i]}

(* The record of k a reader gets a value from. *)
Current(k) ==
    {r \in First(k) : ~SV!isDeleted(r) /\ ~SV!isExpired(r, RealTime)}

(* What identifies the content of a record to a client. *)
VersionOf(r) == <<SV!valLength(r), SV!getCas(r)>>

(* t returns from a call of one of these kinds in this step. *)
Returns(t, kinds) ==
    pc[t] # "idle" /\ call[t].kind \in kinds /\ pc'[t] = "idle"

----------------------------------------------------------------------------
(* Properties *)

(* A CAS names one version of a key for good.  The CAS of the record that
   set, add and softDelete work on is never one that an earlier version of
   the key had: set and add draw from the generator, del() moves a tombstone
   one past the CAS of the value it buries, and the record that reappears
   when unlocked_del unlinks the one shadowing it is expired. *)
CasNeverReused ==
    \A k \in Keys : \A r \in First(k) :
        ~SV!isExpired(r, RealTime) => SV!getCas(r) \notin superseded[k]

(* Optimistic concurrency: a set or softDelete that names the CAS of a
   version that has since been replaced (by another set, a delete, an
   expiry followed by a new value) leaves what readers see of the key as
   it is, whatever happened to the key in between. *)
StaleTokenNeverWins ==
    [][\A t \in Threads, k \in Keys :
          /\ Returns(t, {"set", "softDelete"})
          /\ call[t].key = k
          /\ call[t].cas \in superseded[k]
          => {VersionOf(r) : r \in Current(k)}'
               = {VersionOf(r) : r \in Current(k)}]_vars

(* While a client holds the lock on a record (getLocked, until unlockKey or
   LockTimeout), the value and the CAS of the key change only by a set that
   names the CAS of the locked record; softDelete, add, unlocked_del and a
   set without that CAS leave it alone. *)
LockedRecordProtected ==
    [][\A k \in Keys : \A r \in Current(k) :
          SV!isLocked(r, now) =>
             \/ {VersionOf(n) : n \in First(k)}' = {VersionOf(r)}
             \/ \E t \in Threads :
                   /\ Returns(t, {"set"})
                   /\ call[t].key = k
                   /\ call[t].cas = SV!getCas(r)]_vars


(* The records of the table, bucket by bucket. *)
Linked == FlattenSeq([n \in 1..size |-> values[n - 1]])

(* The largest record a call can ask the accountant for. *)
MaxRecordSize ==
    Max({WouldBeSize([key |-> k, value |-> v]) : k \in Keys, v \in Values})

(* The counters say what is in the chains: the accountant and the table's
   memSize hold the sum of size() over the linked records, numItems their
   number, through every setValue, del(), ejectValue, restoreValue and
   unlink, shadowed and expired records included. *)
AccountingConsistent ==
    /\ memSize = FoldLeft(LAMBDA sum, sv : sum + SV!size(sv), 0, Linked)
    /\ currentSize = memSize
    /\ numItems = Len(Linked)

(* Every record hangs in the bucket its key hashes to under the current
   bucket count, although callers compute the bucket before they hold the
   mutex and resize may change the count in between (getLockedBucket). *)
RecordsHomed ==
    \A b \in DOMAIN values : \A i \in DOMAIN values[b] :
        BucketOf(values[b][i].key) = b

(* A key has one record that counts: a second record of the key further
   down the chain is an expired one that set has put a new record in front
   of.  Two callers that both miss the key never both link a record. *)
ShadowedRecordsExpired ==
    \A b \in DOMAIN values : \A i, j \in DOMAIN values[b] :
        i < j /\ values[b][i].key = values[b][j].key
            => SV!isExpired(values[b][j], RealTime)

(* set and add charge the accountant only after hasAvailableSpace said
   yes; set asks before it holds the mutex, and callers on other stripes
   ask meanwhile, so the ceiling can be overrun, but by no more than the
   records of the other callers in flight. *)
CeilingOverrunBounded ==
    currentSize <= MaxDataSize + (Cardinality(Threads) - 1) * MaxRecordSize


(* A record that is not resident holds a placeholder and a resident one a
   payload, so valLength() never reads the bytes of a payload as a length:
   setValue over an ejected record, add over a tombstone that was ejected
   before it was deleted, and restoreValue all make it resident again. *)
EjectedIffPlaceholder ==
    \A i \in DOMAIN Linked :
        ~SV!isDeleted(Linked[i]) =>
            (SV!isResident(Linked[i]) <=> Linked[i].value \in Values)

(* Every call returns: getLockedBucket gets out of its loop however the
   table is resized under it, and no caller keeps a mutex. *)
CallsReturn ==
    \A t \in Threads : pc[t] # "idle" ~> pc[t] = "idle"


----------------------------------------------------------------------------
(* The table as a map of versions *)

(* What a caller can tell of the record of a key, and of a call. *)
VersionedRecord(k) ==
    IF First(k) = {} THEN NoValue
    ELSE LET r == CHOOSE r \in First(k) : TRUE
         IN  [deleted |-> SV!isDeleted(r), len |-> SV!valLength(r),
              cas |-> SV!getCas(r), locked |-> SV!isLocked(r, now)]

Request(c) ==
    IF c = Idle THEN Idle
    ELSE [kind |-> c.kind, key |-> c.key,
          len |-> IF c.value = NoValue THEN 0 ELSE ValLen[c.value],
          cas |-> IF c.kind = "add" THEN 0 ELSE c.cas]

VM == INSTANCE VersionedMap WITH
          Lengths   <- {ValLen[v] : v \in Values},
          CasValues <- 0..(MaxCas + 1),
          Clients   <- Threads,
          Absent    <- NoValue,
          records   <- [k \in Keys |-> VersionedRecord(k)],
          pending   <- [t \in Threads |-> Request(call[t])]

(* The table implements the map of versions: whatever the callers, the
   resizes and the chains do (getLockedBucket computing the bucket before it
   holds the mutex, add keeping the mutex over two steps, resize relinking
   every record), the version of a key changes only when a call on that key
   returns, and then to what that call, taken alone, makes of it.  With
   locks, evictions and the clock: a lock is taken by getLocked alone, is
   lost to a set or an unlockKey that names the CAS or to the clock and
   to nothing else (isLocked clearing the flag lazily, setValue, ejectValue
   and restoreValue rewriting the record), and a value that is ejected or
   brought back is the version it was. *)
ImplementsVersionedMap == VM!Spec

----------------------------------------------------------------------------
(* What the sources promise and do not keep *)

(* A key has one record: set over an expired record replaces it ("treat
   as absent and overwrite"), as add does. *)
NoDuplicateKeys ==
    \A i, j \in DOMAIN Linked : Linked[i].key = Linked[j].key => i = j

(* numNonResidentItems is "the number of non-resident items within this
   hash table" (getNumNonResidentItems): the live records whose value is
   ejected. *)
NonResidentCountExact ==
    numNonResidentItems =
        Cardinality({i \in DOMAIN Linked :
                        ~SV!isDeleted(Linked[i]) /\ ~SV!isResident(Linked[i])})

============================================================================
