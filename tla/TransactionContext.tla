------------------------- MODULE TransactionContext -------------------------
(***************************************************************************)
(* The transaction the persistence driver wraps its backend writes in      *)
(* (class TransactionContext, ep.hh).  The context is Closed or Open       *)
(* (intxn); while it is open it counts down the writes the transaction may *)
(* still take (_remaining) and collects the items written and the          *)
(* callbacks to run once the transaction is committed.                     *)
(*                                                                         *)
(* The constructor, remaining, commitSoon, setTxnSize, addCallback and the *)
(* getters are defined in ep.hh.  enter, leave, commit and                 *)
(* addUncommittedItem are only declared there: their bodies follow the     *)
(* comments of the declarations and the specification of the engine.       *)
(*                                                                         *)
(* Every operation is an action on the variables of the context alone; the *)
(* module that owns the backend (Flusher) conjoins what the call does to   *)
(* the rest of the store.                                                  *)
(***************************************************************************)
EXTENDS Integers, Sequences

CONSTANTS
    TxnSizes,      \* the transaction sizes the store is configured with
    SizeMod        \* stands for 2^64, the number of values of a size_t

VARIABLES
    remaining,             \* _remaining
    txnSize,
    intxn,
    uncommittedItems,
    transactionCallbacks

tctx == <<remaining, txnSize, intxn, uncommittedItems, transactionCallbacks>>

(* TransactionContext(stats, ks): the constructor leaves txnSize to the
   store, which sets it from its configuration before the flusher runs. *)
Init ==
    /\ remaining = 0
    /\ intxn = FALSE
    /\ txnSize \in TxnSizes
    /\ uncommittedItems = <<>>
    /\ transactionCallbacks = <<>>

(* remaining(): the int _remaining, returned as a size_t. *)
remainingUpdates        == remaining % SizeMod

getTxnSize              == txnSize
getNumUncommittedItems  == Len(uncommittedItems)

(* enter(): "will (when necessary) begin the transaction and reset the
   counter of remaining items".  begun is what the backend answers to
   begin(); the call returns intxn'. *)
enter(begun) ==
    /\ intxn' = (intxn \/ begun)
    /\ remaining' = IF intxn THEN remaining ELSE txnSize
    /\ UNCHANGED <<txnSize, uncommittedItems, transactionCallbacks>>

(* Faulty variant: a commit that keeps what it has committed. *)
commitKeepsItems ==
    /\ intxn' = FALSE
    /\ remaining' = txnSize
    /\ UNCHANGED <<txnSize, uncommittedItems, transactionCallbacks>>

(* commit(): the backend commits, the callbacks are run (by the caller, who
   takes transactionCallbacks as it is before this step), and the context is
   Closed with a fresh counter. *)
commit ==
    /\ intxn' = FALSE
    /\ remaining' = txnSize
    /\ uncommittedItems' = <<>>
    /\ transactionCallbacks' = <<>>
    /\ UNCHANGED txnSize

(* Whether leave(completed) commits. *)
leaveCommits(completed) == intxn /\ remaining - completed <= 0

(* leave(completed): "When the number of updates completed exceeds the
   number permitted per transaction, a transaction will be closed and
   reopened." *)
leave(completed) ==
    IF leaveCommits(completed) THEN commit
    ELSE /\ remaining' = remaining - completed
         /\ UNCHANGED <<txnSize, intxn, uncommittedItems, transactionCallbacks>>

(* Faulty variant: a request that is forgotten. *)
commitWhenFull ==
    UNCHANGED tctx

(* commitSoon(): "Request a commit occur at the next opportunity." *)
commitSoon ==
    /\ remaining' = 0
    /\ UNCHANGED <<txnSize, intxn, uncommittedItems, transactionCallbacks>>

(* setTxnSize(to); the backend's processTxnSizeChange has no state here. *)
setTxnSize(to) ==
    /\ txnSize' = to
    /\ UNCHANGED <<remaining, intxn, uncommittedItems, transactionCallbacks>>

(* addUncommittedItem(item) and addCallback(cb): the driver calls the two
   together for every write it hands to the backend. *)
addUncommittedItem(item) == uncommittedItems' = Append(uncommittedItems, item)
addCallback(cb) == transactionCallbacks' = Append(transactionCallbacks, cb)

=============================================================================
