------------------------------ MODULE Flusher ------------------------------
(***************************************************************************)
(* Persistence of one vbucket (class EventuallyPersistentStore, ep.hh):    *)
(* callers change records and queue them, the flusher thread takes the     *)
(* queue in batches, writes each dirty record to the backend inside the    *)
(* transaction of module TransactionContext, and the callbacks of a        *)
(* committed transaction give the records their row ids or mark them dirty *)
(* again.                                                                  *)
(*                                                                         *)
(* The table is the map from keys to records that module HashTable is      *)
(* shown to implement; a record is a record of module StoredValue.  A      *)
(* queued item is its key: the flusher reads the record when it writes.    *)
(*                                                                         *)
(* Defined in ep.hh and translated from there: shouldPreemptFlush,         *)
(* hasSeparateRODispatcher, invokeOnLockedStoredValue, BGFetchCounter, the *)
(* members of the store, and what the transaction context defines.  The    *)
(* bodies of set, deleteItem, queueDirty, beginFlush, flushSome, flushOne, *)
(* flushOneDelOrSet, completeFlush, requeueRejectedItems and of the        *)
(* persistence callbacks are not among the sources; they follow the        *)
(* specification of the engine.  The backend gives every new row an id it  *)
(* has not given before, and reports an update of a row that is not there  *)
(* as a failure.                                                           *)
(***************************************************************************)
EXTENDS Integers, Sequences, FiniteSets, SequencesExt

CONSTANTS
    Keys, Values, NoValue,
    Clients,               \* the threads that change records
    TxnSizes,              \* the transaction sizes an administrator may set
                           \* (setTxnSize refuses none: 0 is one of them)
    SeparateRODispatcher,  \* dispatcher != roDispatcher
    PreemptAfter,          \* the 100 of shouldPreemptFlush, scaled
    SizeMod,               \* stands for 2^64: remaining() is a size_t
    MaxCas,                \* bound: CAS values callers are given
    MaxFailures,           \* bound: writes the backend fails
    MaxFetches             \* bound: background fetches at a time

VARIABLES
    ht,                    \* ht[k]: the record of key k, or NoRecord
    nextCas,
    unqueued,              \* unqueued[c]: the key client c has changed and
                           \* not queued yet, or NoValue
    queue,                 \* the items queued for the flusher
    writing,
    rejectQueue,
    remaining, txnSize, intxn, uncommittedItems, transactionCallbacks,
    disk,                  \* disk[r]: the row with id r, or NoRow
    lastRowId,
    bgFetchQueue,
    pc,                    \* where the flusher thread is
    tsz, completed,        \* the locals of flushSome
    replay,                \* the callbacks commit() has still to run
    resume,                \* where the flusher goes on after them
    failures,
    aborted,               \* an assert has failed
    commitDue              \* history: commitSoon was called on an open
                           \* transaction that is not committed yet

SV == INSTANCE StoredValue
        WITH KeyLen <- [k \in Keys |-> 1], ValLen <- [v \in Values |-> 1],
             Small <- FALSE
TC == INSTANCE TransactionContext

tctx     == <<remaining, txnSize, intxn, uncommittedItems, transactionCallbacks>>
callers  == <<ht, nextCas, unqueued, queue>>
driver   == <<pc, tsz, completed, replay, resume>>
backend  == <<disk, lastRowId, failures>>
vars     == <<callers, writing, rejectQueue, tctx, backend, bgFetchQueue,
              driver, aborted, commitDue>>

NoRecord == [key |-> NoValue]
NoRow    == [key |-> NoValue]
RowIds   == 1..MaxCas
Row(sv)  == [key |-> sv.key, value |-> sv.value, cas |-> sv.cas]
Dirty(k) == ht[k] # NoRecord /\ SV!isDirty(ht[k])

----------------------------------------------------------------------------
(* Callers *)

(* queueDirty, after the table has let go of the record. *)
queueDirty(c) ==
    /\ unqueued[c] # NoValue
    /\ queue' = Append(queue, unqueued[c])
    /\ unqueued' = [unqueued EXCEPT ![c] = NoValue]
    /\ UNCHANGED <<ht, nextCas, writing, rejectQueue, tctx, backend,
                   bgFetchQueue, driver, aborted, commitDue>>

(* What a caller's change leaves for everybody else. *)
Changed(c, k, sv) ==
    /\ unqueued[c] = NoValue
    /\ nextCas <= MaxCas
    /\ ht' = [ht EXCEPT ![k] = sv]
    /\ nextCas' = nextCas + 1
    /\ unqueued' = [unqueued EXCEPT ![c] = k]
    /\ UNCHANGED <<queue, writing, rejectQueue, tctx, backend, bgFetchQueue,
                   driver, aborted, commitDue>>

(* set: a new record, or a new value for the record there is (a tombstone
   included); the record keeps its row id. *)
set(c, k, v) ==
    Changed(c, k,
        IF ht[k] = NoRecord
        THEN SV!NewStoredValue([key |-> k, value |-> v, id |-> SV!NoId,
                                cas |-> nextCas, exptime |-> 0], TRUE, 0)
        ELSE SV!setValue(ht[k], v, 0, nextCas, 0))

(* deleteItem: the record becomes a dirty tombstone. *)
deleteItem(c, k) ==
    /\ ht[k] # NoRecord
    /\ ~SV!isDeleted(ht[k])
    /\ Changed(c, k, SV!del(ht[k], 0))

(* BGFetchCounter: a background fetch counts itself in when it is scheduled
   and out when it is done. *)
BGFetchCounter(by) ==
    /\ bgFetchQueue + by \in 0..MaxFetches
    /\ bgFetchQueue' = bgFetchQueue + by
    /\ UNCHANGED <<callers, writing, rejectQueue, tctx, backend, driver,
                   aborted, commitDue>>

(* An administrator asks for a commit, or for another transaction size. *)
commitSoon ==
    /\ TC!commitSoon
    /\ commitDue' = (commitDue \/ intxn)
    /\ UNCHANGED <<callers, writing, rejectQueue, backend, bgFetchQueue,
                   driver, aborted>>

setTxnSize(to) ==
    /\ TC!setTxnSize(to)
    /\ UNCHANGED <<callers, writing, rejectQueue, backend, bgFetchQueue,
                   driver, aborted, commitDue>>

----------------------------------------------------------------------------
(* The flusher thread *)

hasSeparateRODispatcher == SeparateRODispatcher

shouldPreemptFlush(done) ==
    /\ done > PreemptAfter
    /\ bgFetchQueue > 0
    /\ ~hasSeparateRODispatcher

(* Faulty variant: the method is invoked on a copy of the record. *)
invokeOnCopy(k, f, arg) == ht

(* The table after method f has been invoked with arg on the record of k,
   if there is one (the vbucket is there). *)
invokeOnLockedStoredValue(k, f, arg) ==
    LET mem_fun(v) == CASE f = "setId"   -> SV!setId(v, arg)
                        [] f = "reDirty" -> SV!reDirty(v, arg)
                        [] f = "clearId" -> SV!clearId(v)
    IN  IF ht[k] = NoRecord THEN ht ELSE [ht EXCEPT ![k] = mem_fun(@)]

(* The flusher goes on at "to", and is the only one to move. *)
Goto(to) == pc' = to /\ UNCHANGED <<nextCas, unqueued, bgFetchQueue>>

(* The flusher has nothing at hand but the incoming queue. *)
NextBatch == IF writing = <<>> THEN "completeFlush" ELSE "flushSome"

(* beginFlush: the queued items become the flusher's own. *)
beginFlush ==
    /\ pc = "idle"
    /\ queue # <<>> \/ rejectQueue # <<>>
    /\ writing' = queue
    /\ queue' = <<>>
    /\ Goto(IF queue = <<>> THEN "completeFlush" ELSE "flushSome")
    /\ UNCHANGED <<ht, rejectQueue, tctx, backend, tsz, completed, replay,
                   resume, aborted, commitDue>>

(* Faulty variant: a batch that is given up when no transaction begins. *)
dropBatch == <<>>

(* A batch that cannot be written waits among the rejects. *)
rejectBatch == rejectQueue \o writing

(* flushSome, up to its loop: without a transaction the batch is rejected. *)
flushSome ==
    /\ pc = "flushSome"
    /\ \E begun \in BOOLEAN :
          /\ begun \/ failures < MaxFailures
          /\ TC!enter(begun)
          /\ failures' = IF intxn' THEN failures ELSE failures + 1
    /\ IF intxn'
       THEN /\ tsz' = TC!remainingUpdates'
            /\ completed' = 0
            /\ Goto("flushOne")
            /\ UNCHANGED <<writing, rejectQueue>>
       ELSE /\ rejectQueue' = rejectBatch
            /\ writing' = <<>>
            /\ Goto("completeFlush")
            /\ UNCHANGED <<tsz, completed>>
    /\ UNCHANGED <<ht, queue, disk, lastRowId, replay, resume, aborted,
                   commitDue>>

(* The write of a record handed to the backend, and what its callback will
   need. *)
Staged(op, sv) ==
    /\ TC!addUncommittedItem(sv.key)
    /\ TC!addCallback([op |-> op, id |-> sv.id, key |-> sv.key,
                       value |-> sv.value, cas |-> sv.cas])
    /\ UNCHANGED <<remaining, txnSize, intxn>>

(* Faulty variant: a record is written although its row id is pending. *)
writesPending(sv) == FALSE

(* The record was handed to the backend and waits for its row id. *)
mustWait(sv) == SV!isPendingId(sv)

(* flushOneDelOrSet, under the lock of the record's bucket.  The item of a
   record that is gone or clean has nothing to write. *)
superseded(k) ==
    /\ ~Dirty(k)
    /\ UNCHANGED <<ht, rejectQueue, tctx, aborted>>

waitsForId(k) ==
    /\ rejectQueue' = Append(rejectQueue, k)
    /\ UNCHANGED <<ht, tctx, aborted>>

(* A tombstone: its row is deleted; one that never had a row goes at once. *)
persistDelete(k) ==
    /\ IF SV!hasId(ht[k])
       THEN ht' = [ht EXCEPT ![k] = SV!markClean(@)] /\ Staged("del", ht[k])
       ELSE ht' = [ht EXCEPT ![k] = NoRecord] /\ UNCHANGED tctx
    /\ UNCHANGED <<rejectQueue, aborted>>

(* A value: the record is clean from here on, and waits for its row id when
   it has none.  setPendingId asserts that it may. *)
persistSet(k) ==
    /\ ht' = [ht EXCEPT ![k] = IF SV!hasId(@) THEN SV!markClean(@)
                               ELSE SV!setPendingId(SV!markClean(@))]
    /\ aborted' = (~SV!hasId(ht[k]) /\ ~SV!canSetPendingId(ht[k]))
    /\ Staged("set", ht[k])
    /\ UNCHANGED rejectQueue

flushOneDelOrSet(k) ==
    \/ superseded(k)
    \/ /\ Dirty(k)
       /\ IF mustWait(ht[k]) THEN waitsForId(k)
          ELSE IF SV!isDeleted(ht[k]) THEN persistDelete(k)
          ELSE persistSet(k)

(* flushOne: one turn of the loop of flushSome. *)
flushOne ==
    /\ pc = "flushOne"
    /\ completed < tsz
    /\ writing # <<>>
    /\ ~shouldPreemptFlush(completed)
    /\ flushOneDelOrSet(Head(writing))
    /\ writing' = Tail(writing)
    /\ completed' = completed + 1
    /\ Goto("flushOne")
    /\ UNCHANGED <<queue, backend, tsz, replay, resume, commitDue>>

(* The loop of flushSome is over. *)
endLoop ==
    /\ pc = "flushOne"
    /\ ~(completed < tsz /\ writing # <<>> /\ ~shouldPreemptFlush(completed))
    /\ Goto("commit")
    /\ UNCHANGED <<ht, queue, writing, rejectQueue, tctx, backend, tsz,
                   completed, replay, resume, aborted, commitDue>>

(* commit() of the transaction context, with the flusher's part: the
   callbacks are run before the flusher goes on at "after". *)
Commit(after) ==
    /\ replay' = transactionCallbacks
    /\ resume' = after
    /\ commitDue' = FALSE
    /\ Goto(IF transactionCallbacks = <<>> THEN after ELSE "callbacks")

(* flushSome after its loop: the transaction is committed unless the flusher
   gives way to a background fetch. *)
commitUnlessPreempted ==
    /\ pc = "commit"
    /\ IF shouldPreemptFlush(completed)
       THEN Goto("leave") /\ UNCHANGED <<tctx, replay, resume, commitDue>>
       ELSE TC!commit /\ Commit("leave")
    /\ UNCHANGED <<ht, queue, writing, rejectQueue, backend, tsz, completed,
                   aborted>>

(* flushSome, its last statement: tctx.leave(completed). *)
leave ==
    /\ pc = "leave"
    /\ TC!leave(completed)
    /\ IF TC!leaveCommits(completed) THEN Commit(NextBatch)
       ELSE Goto(NextBatch) /\ UNCHANGED <<replay, resume, commitDue>>
    /\ UNCHANGED <<ht, queue, writing, rejectQueue, backend, tsz, completed,
                   aborted>>

(* The commit of the periodic snapshot, between two flushes. *)
commit ==
    /\ pc = "idle"
    /\ intxn
    /\ TC!commit
    /\ Commit("idle")
    /\ UNCHANGED <<ht, queue, writing, rejectQueue, backend, tsz, completed,
                   aborted>>

(* completeFlush: requeueRejectedItems puts the rejects back in the queue. *)
completeFlush ==
    /\ pc = "completeFlush"
    /\ queue' = queue \o rejectQueue
    /\ rejectQueue' = <<>>
    /\ Goto("idle")
    /\ UNCHANGED <<ht, writing, tctx, backend, tsz, completed, replay, resume,
                   aborted, commitDue>>

----------------------------------------------------------------------------
(* The callbacks of a committed transaction *)

(* The write failed: the record is dirty again and its item is rejected. *)
redirty(cb) ==
    /\ ht' = invokeOnLockedStoredValue(cb.key, "reDirty", 0)
    /\ rejectQueue' = Append(rejectQueue, cb.key)
    /\ UNCHANGED <<disk, lastRowId, aborted>>

(* A new row: the record learns its id.  setId asserts that it has none
   before and one after. *)
inserted(cb) ==
    LET r == lastRowId + 1 IN
    /\ disk' = [disk EXCEPT ![r] = Row(cb)]
    /\ lastRowId' = r
    /\ ht' = invokeOnLockedStoredValue(cb.key, "setId", r)
    /\ aborted' = (ht[cb.key] # NoRecord /\ ~SV!canSetId(ht[cb.key], r))
    /\ UNCHANGED rejectQueue

updated(cb) ==
    /\ disk' = [disk EXCEPT ![cb.id] = Row(cb)]
    /\ UNCHANGED <<ht, lastRowId, rejectQueue, aborted>>

(* The row is gone: a tombstone goes with it, a record that lives again
   forgets the id. *)
deleted(cb) ==
    /\ disk' = [disk EXCEPT ![cb.id] = NoRow]
    /\ ht' = IF ht[cb.key] # NoRecord /\ SV!isDeleted(ht[cb.key])
             THEN [ht EXCEPT ![cb.key] = NoRecord]
             ELSE invokeOnLockedStoredValue(cb.key, "clearId", 0)
    /\ UNCHANGED <<lastRowId, rejectQueue, aborted>>

(* What the backend did with the write of cb. *)
succeeded(cb) ==
    CASE cb.op = "del"   -> deleted(cb)
      [] cb.id \in RowIds -> updated(cb)
      [] OTHER           -> inserted(cb)

(* The backend cannot but fail: the row to update is not there. *)
rowMissing(cb) == cb.op = "set" /\ cb.id \in RowIds /\ disk[cb.id] = NoRow

(* The next callback of the committed transaction. *)
callback ==
    /\ pc = "callbacks"
    /\ LET cb == Head(replay) IN
          \/ ~rowMissing(cb) /\ succeeded(cb) /\ UNCHANGED failures
          \/ rowMissing(cb) /\ redirty(cb) /\ UNCHANGED failures
          \/ /\ ~rowMissing(cb)
             /\ failures < MaxFailures
             /\ failures' = failures + 1
             /\ redirty(cb)
    /\ replay' = Tail(replay)
    /\ Goto(IF Tail(replay) = <<>> THEN resume ELSE "callbacks")
    /\ UNCHANGED <<queue, writing, tctx, tsz, completed, resume, commitDue>>

----------------------------------------------------------------------------
Init ==
    /\ ht = [k \in Keys |-> NoRecord]
    /\ nextCas = 1
    /\ unqueued = [c \in Clients |-> NoValue]
    /\ queue = <<>> /\ writing = <<>> /\ rejectQueue = <<>>
    /\ TC!Init
    /\ disk = [r \in RowIds |-> NoRow]
    /\ lastRowId = 0
    /\ bgFetchQueue = 0
    /\ pc = "idle" /\ tsz = 0 /\ completed = 0
    /\ replay = <<>> /\ resume = "idle"
    /\ failures = 0
    /\ aborted = FALSE
    /\ commitDue = FALSE

FlusherStep ==
    \/ beginFlush \/ flushSome \/ flushOne \/ endLoop
    \/ commitUnlessPreempted \/ leave \/ callback \/ completeFlush
    \/ commit

Next ==
    /\ ~aborted
    /\ \/ \E c \in Clients, k \in Keys :
             (\E v \in Values : set(c, k, v)) \/ deleteItem(c, k)
       \/ \E c \in Clients : queueDirty(c)
       \/ \E by \in {1, -1} : BGFetchCounter(by)
       \/ commitSoon
       \/ \E to \in TxnSizes : setTxnSize(to)
       \/ FlusherStep

Spec == Init /\ [][Next]_vars

(* The flusher is a task of the dispatcher that runs for ever, the periodic
   snapshot comes round, and a caller that has changed a record returns
   from queueDirty. *)
FairSpec ==
    /\ Spec
    /\ WF_vars(FlusherStep)
    /\ \A c \in Clients : WF_vars(queueDirty(c))

----------------------------------------------------------------------------
(* Properties *)

MaxTxnSize == Max(TxnSizes)

Records ==
    [key : Keys, value : Values \cup {NoValue}, dirty : BOOLEAN,
     id : RowIds \cup {SV!NoId, SV!PendingId}, cas : 0..(MaxCas + 1),
     dirtiness : {0}, exptime : {0}, locked : {FALSE}, lock_expiry : {0},
     resident : {TRUE}]

TypeOK ==
    /\ ht \in [Keys -> Records \cup {NoRecord}]
    /\ \A k \in Keys : ht[k] # NoRecord => ht[k].key = k
    /\ nextCas \in 1..(MaxCas + 1)
    /\ unqueued \in [Clients -> Keys \cup {NoValue}]
    /\ {queue, writing, rejectQueue, uncommittedItems} \subseteq Seq(Keys)
    /\ remaining \in -MaxTxnSize..MaxTxnSize
    /\ tsz \in 0..MaxTxnSize
    /\ txnSize \in TxnSizes
    /\ intxn \in BOOLEAN
    /\ Len(transactionCallbacks) = Len(uncommittedItems)
    /\ Len(transactionCallbacks) <= MaxTxnSize
    /\ lastRowId \in 0..MaxCas
    /\ bgFetchQueue \in 0..MaxFetches
    /\ pc \in {"idle", "flushSome", "flushOne", "commit", "leave",
               "callbacks", "completeFlush"}
    /\ completed \in 0..MaxTxnSize
    /\ failures \in 0..MaxFailures

(* No assertion of the record fails: setPendingId and setId are only called
   on a record that has no row id ("It is an error to set an ID on an item
   that already has one"), whatever callers do to the record between the
   write and its callback, and the id setId is given is one that hasId
   takes for an id. *)
AssertionsHold == ~aborted

(* Every row on disk is the row its key's record points to: no key has two
   rows, and no row is left behind by a record that was deleted, given a new
   id or written again while its first write was on its way. *)
RowsOwned ==
    \A r \in RowIds :
       disk[r] # NoRow =>
          ht[disk[r].key] # NoRecord /\ ht[disk[r].key].id = r

(* A write of the record of k is in a transaction or among the callbacks of
   a committed one. *)
Outstanding(k) ==
    \E cb \in ToSet(transactionCallbacks \o replay) : cb.key = k

Persisted(k) ==
    /\ ~SV!isDeleted(ht[k])
    /\ SV!hasId(ht[k])
    /\ disk[ht[k].id] = Row(ht[k])

(* markClean is not believed too early: a record that is clean, and of which
   no write is outstanding, is on disk with the value and the CAS it has in
   memory, also after failed writes and after a deletion that crossed a
   new value. *)
CleanMeansPersisted ==
    \A k \in Keys :
       ht[k] # NoRecord /\ SV!isClean(ht[k]) /\ ~Outstanding(k) => Persisted(k)

(* No change is lost on its way to the flusher: the key of a dirty record is
   with the caller that changed it, queued, in the flusher's batch or among
   the rejects, through failed transactions and failed writes. *)
DirtyIsQueued ==
    \A k \in Keys :
       Dirty(k) =>
          \/ \E c \in Clients : unqueued[c] = k
          \/ k \in ToSet(queue \o writing \o rejectQueue)

(* commitSoon is honoured: once it was called on an open transaction, the
   leave() of the flushSome under way commits, although the flusher was
   giving way to a background fetch with room left in the transaction. *)
CommitSoonHonoured ==
    [][pc = "leave" /\ pc' # "leave" /\ commitDue => ~intxn']_vars

(* Everything is persisted in the end, if the transaction size is positive
   in the end: when callers have stopped, every record reaches the disk and
   stays there, whatever writes failed, were rejected for a pending id or
   waited in a transaction the flusher left open.  setTxnSize takes any int.
   While the size is 0 every batch of flushSome is empty and the flusher
   turns without writing; it must pick up where it was once the size is
   positive again, with nothing lost and no transaction left open. *)
EventuallyPersisted ==
    <>[](txnSize > 0) =>
        <>[](\A k \in Keys :
                ht[k] # NoRecord => SV!isClean(ht[k]) /\ Persisted(k))

=============================================================================
