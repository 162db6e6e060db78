--------------------------- MODULE TableLifeCycle ---------------------------
(***************************************************************************)
(* The life of a hash table (class HashTable, stored-value.hh) from its    *)
(* constructor to the end of its destructor, with the visitors that walk   *)
(* it meanwhile: VisitorTracker counts them, the destructor clears the     *)
(* table and polls the count before it frees the buckets and the mutexes.  *)
(*                                                                         *)
(* A record is what a visitor asks of it: its size() and whether it is     *)
(* resident.  A walk visits one bucket per step, under the stripe mutex of *)
(* that bucket; a caller that stores a record holds the mutex of its       *)
(* bucket, clear holds every mutex.  No step keeps a mutex, so the mutexes *)
(* themselves are not part of the state.                                   *)
(*                                                                         *)
(* The bodies of visit, visitDepth and clear are not among the sources;    *)
(* they follow the specification of the engine.  Walks begin only while    *)
(* the table is alive: whoever calls visit holds the table until the       *)
(* VisitorTracker has counted the call.                                    *)
(***************************************************************************)
EXTENDS Integers, Sequences, FiniteSets, SequencesExt

CONSTANTS
    Visitors,      \* the threads that walk the table
    Shapes,        \* "items": visit with a HashTableStatVisitor,
                   \* "depth": visitDepth with a HashTableDepthStatVisitor
    NumBuckets,    \* size
    Records,       \* the records there are: [size, resident]
    MaxDepth       \* bound: no record is linked to a chain of this length

VARIABLES
    values,        \* values[b]: the chain of bucket b
    activeState,
    visitors,      \* the count VisitorTracker keeps
    life,          \* "alive", "clearing" (in the destructor, records gone),
                   \* "freed" (values and mutexes given back)
    walk,          \* walk[v]: the walk of visitor v, NoWalk outside of it
    disturbed      \* history: the visitors whose walk a caller has crossed

vars == <<values, activeState, visitors, life, walk, disturbed>>

Buckets == 0..(NumBuckets - 1)
NoWalk  == [shape |-> "none"]

----------------------------------------------------------------------------
(* The visitors *)

(* HashTableStatVisitor() and what visit(v) adds to it. *)
HashTableStatVisitor ==
    [numNonResident |-> 0, numTotal |-> 0, memSize |-> 0, cacheSize |-> 0]

(* Faulty variant: the bytes of an ejected record count as cached. *)
visitAllCached(st, v) ==
    [numTotal       |-> st.numTotal + 1,
     memSize        |-> st.memSize + v.size,
     cacheSize      |-> st.cacheSize + v.size,
     numNonResident |-> st.numNonResident + (IF v.resident THEN 0 ELSE 1)]

visitRecord(st, v) ==
    [numTotal       |-> st.numTotal + 1,
     memSize        |-> st.memSize + v.size,
     cacheSize      |-> st.cacheSize + (IF v.resident THEN v.size ELSE 0),
     numNonResident |-> st.numNonResident + (IF v.resident THEN 0 ELSE 1)]

(* HashTableDepthStatVisitor(). *)
HashTableDepthStatVisitor == [size |-> 0, memUsed |-> 0, min |-> -1, max |-> 0]

(* Faulty variant: the smallest depth without the special case of -1. *)
visitDepthPlainMin(st, depth, mem) ==
    [min     |-> Min({st.min, depth}),
     max     |-> Max({st.max, depth}),
     size    |-> st.size + depth,
     memUsed |-> st.memUsed + mem]

(* visit(bucket, depth, mem): -1 stands for "no depth seen yet". *)
visitDepthOf(st, depth, mem) ==
    [min     |-> Min({IF st.min = -1 THEN depth ELSE st.min, depth}),
     max     |-> Max({st.max, depth}),
     size    |-> st.size + depth,
     memUsed |-> st.memUsed + mem]

(* Bytes of a chain. *)
Mem(chain) == FoldLeft(LAMBDA sum, v : sum + v.size, 0, chain)

(* What the visitor of a walk has collected after the chain of one more
   bucket. *)
Visited(w, chain) ==
    IF w.shape = "items" THEN FoldLeft(visitRecord, w.stat, chain)
    ELSE visitDepthOf(w.stat, Len(chain), Mem(chain))

----------------------------------------------------------------------------
(* The table *)

(* active() assigns the flag it is meant to read, and yields true. *)
active == activeState' = TRUE

(* Faulty variant: a tracker that counts in and never out. *)
TrackInOnly(by) == visitors' = visitors + Max({by, 0})

(* VisitorTracker: the constructor counts the visitor, the destructor
   counts it out. *)
Track(by) == visitors' = visitors + by

(* The constructor: assert(visitors == 0), no records, activeState = true. *)
Init ==
    /\ values = [b \in Buckets |-> <<>>]
    /\ activeState = TRUE
    /\ visitors = 0
    /\ life = "alive"
    /\ walk = [v \in Visitors |-> NoWalk]
    /\ disturbed = {}

InProgress == {v \in Visitors : walk[v] # NoWalk}

(* A caller stores a record: set links it at the head of the chain of its
   bucket, under the stripe mutex (getLockedBucket asserts active()). *)
link(b, r) ==
    /\ life = "alive"
    /\ Len(values[b]) < MaxDepth
    /\ active
    /\ values' = [values EXCEPT ![b] = <<r>> \o @]
    /\ disturbed' = InProgress
    /\ UNCHANGED <<visitors, life, walk>>

(* Faulty variant: walks begin on a table that is being destroyed. *)
beginsWhileClearing == life # "freed"

(* Whoever calls visit or visitDepth holds the table until the tracker has
   counted the call. *)
mayBegin == life = "alive"

(* visit, visitDepth: the tracker counts the walk before the first bucket. *)
visitBegin(v, shape) ==
    /\ mayBegin
    /\ walk[v] = NoWalk
    /\ Track(1)
    /\ walk' = [walk EXCEPT ![v] =
                   [shape |-> shape, bucket |-> 0,
                    stat |-> IF shape = "items" THEN HashTableStatVisitor
                             ELSE HashTableDepthStatVisitor]]
    /\ disturbed' = disturbed \ {v}
    /\ UNCHANGED <<values, activeState, life>>

(* The walk locks the stripe of its next bucket (mutexForBucket asserts
   active()) and shows the chain to the visitor. *)
visitBucket(v) ==
    /\ walk[v] # NoWalk
    /\ walk[v].bucket < NumBuckets
    /\ active
    /\ walk' = [walk EXCEPT ![v].stat = Visited(walk[v], values[walk[v].bucket]),
                            ![v].bucket = @ + 1]
    /\ UNCHANGED <<values, visitors, life, disturbed>>

(* The walk is through; the tracker goes out of scope. *)
visitEnd(v) ==
    /\ walk[v] # NoWalk
    /\ walk[v].bucket = NumBuckets
    /\ Track(-1)
    /\ walk' = [walk EXCEPT ![v] = NoWalk]
    /\ UNCHANGED <<values, activeState, life, disturbed>>

(* clear(deactivate), every mutex held: the records go, and with them the
   flag when the table is being destroyed. *)
clearTable(deactivate) ==
    /\ values' = [b \in Buckets |-> <<>>]
    /\ activeState' = IF deactivate THEN FALSE ELSE TRUE
    /\ disturbed' = InProgress

clear ==
    /\ life = "alive"
    /\ clearTable(FALSE)
    /\ UNCHANGED <<visitors, life, walk>>

(* Faulty variant: the destructor does not look at the count. *)
NobodyCounted == TRUE

(* while (visitors > 0) usleep(100) is over. *)
NoVisitors == visitors = 0

(* ~HashTable(), first half: clear(true). *)
destroy ==
    /\ life = "alive"
    /\ clearTable(TRUE)
    /\ life' = "clearing"
    /\ UNCHANGED <<visitors, walk>>

(* ~HashTable(), second half: the wait is over; mutexes and values are
   given back. *)
free ==
    /\ life = "clearing"
    /\ NoVisitors
    /\ life' = "freed"
    /\ UNCHANGED <<values, activeState, visitors, walk, disturbed>>

Walks(v) ==
    \/ \E shape \in Shapes : visitBegin(v, shape)
    \/ visitBucket(v)
    \/ visitEnd(v)

Next ==
    \/ \E b \in Buckets, r \in Records : link(b, r)
    \/ \E v \in Visitors : Walks(v)
    \/ clear
    \/ destroy
    \/ free

Spec == Init /\ [][Next]_vars

(* A walk is a loop over the buckets and goes on once begun; the destructor
   keeps polling.  Nothing makes a walk, a clear or the destructor begin. *)
FairSpec ==
    /\ Spec
    /\ \A v \in Visitors : WF_vars(visitBucket(v) \/ visitEnd(v))
    /\ WF_vars(free)

----------------------------------------------------------------------------
(* Properties *)

TypeOK ==
    /\ values \in [Buckets -> Seq(Records)]
    /\ activeState \in BOOLEAN
    /\ visitors \in 0..Cardinality(Visitors)
    /\ life \in {"alive", "clearing", "freed"}
    /\ \A v \in Visitors :
          walk[v] # NoWalk =>
             walk[v].shape \in Shapes /\ walk[v].bucket \in 0..NumBuckets
    /\ disturbed \subseteq Visitors

(* The destructor gives the buckets and the mutexes back only when no walk
   is on them: every visitor that VisitorTracker counted in is counted out
   before the wait of ~HashTable() is over. *)
NoWalkOnFreedTable ==
    life = "freed" => \A v \in Visitors : walk[v] = NoWalk

(* The destructor ends: the count it polls reaches zero, although walks are
   in the table when it begins and go on over the emptied buckets. *)
DestructorEnds ==
    life = "clearing" ~> life = "freed"

(* The chains as one sequence. *)
Linked == FlattenSeq([n \in 1..NumBuckets |-> values[n - 1]])

Depths == {Len(values[b]) : b \in Buckets}

(* The walk of v ends in this step and no caller has crossed it. *)
Completes(v, shape) ==
    /\ walk[v].shape = shape
    /\ walk'[v] = NoWalk
    /\ v \notin disturbed

(* A HashTableStatVisitor that has walked the table undisturbed reports what
   is linked: the number of records, their bytes, and the bytes and the
   number of the resident and the ejected ones apart. *)
StatVisitorCountsTable ==
    [][\A v \in Visitors : Completes(v, "items") =>
          LET ejected == SelectSeq(Linked, LAMBDA r : ~r.resident)
          IN  /\ walk[v].stat.numTotal = Len(Linked)
              /\ walk[v].stat.memSize = Mem(Linked)
              /\ walk[v].stat.numNonResident = Len(ejected)
              /\ walk[v].stat.cacheSize = Mem(Linked) - Mem(ejected)]_vars

(* A HashTableDepthStatVisitor that has walked the table undisturbed knows
   the shortest and the longest chain, the shortest also when it is empty
   or comes first. *)
DepthVisitorFindsExtremes ==
    [][\A v \in Visitors : Completes(v, "depth") =>
          /\ walk[v].stat.min = Min(Depths)
          /\ walk[v].stat.max = Max(Depths)
          /\ walk[v].stat.size = Len(Linked)]_vars

----------------------------------------------------------------------------
(* What the sources promise and do not keep *)

(* "assert(active())" in mutexForBucket, getLockedBucket, find and hash: a
   bucket is touched only while the table is active, so that a walk stops
   at a table that clear(true) has deactivated. *)
TouchedOnlyWhileActive ==
    [][\A v \in Visitors : visitBucket(v) => activeState]_vars

=============================================================================
