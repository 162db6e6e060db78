--------------------------- MODULE ChunkRangeList ---------------------------
(***************************************************************************)
(* The plan of a vbucket deletion (classes VBDeletionChunkRangeList and    *)
(* VBucketDeletionVisitor, ep.hh).                                         *)
(*                                                                         *)
(* The visitor walks the hash table and collects the row ids of the        *)
(* records that have one.  createRangeList cuts the sorted ids into chunks *)
(* of chunk_size ids and hands the list of their ranges over; after that   *)
(* the list is adapted while the deletion runs: a range is split when it   *)
(* is too wide and merged with its successors when it is too narrow.  The  *)
(* set of ids is on the heap: createRangeList deletes it, and so does the  *)
(* destructor of a visitor that still has it.                              *)
(*                                                                         *)
(* A range is a record [first, second], an iterator an index into the      *)
(* list, end() the index one past the last.                                *)
(***************************************************************************)
EXTENDS Integers, Sequences, FiniteSets, SequencesExt

CONSTANTS
    Ids,         \* the ids of the records the visitor is shown (row ids,
                 \* and -1, -2 of records that have none)
    ChunkSizes,  \* the chunk sizes a visitor is built with
    RangeSizes,  \* the range sizes split and merge are called with
    MaxRanges,   \* bound: add is not called on a list of this length
    Null         \* row_ids once it is deleted

VARIABLES
    row_ids,     \* the ids collected so far, Null after createRangeList
    chunk_size,  \* the size the visitor was built with
    range_list,  \* the list of ranges
    alive,       \* the visitor has not been destroyed
    deletes      \* history: how often the set of ids was deleted

vars == <<row_ids, chunk_size, range_list, alive, deletes>>

RowIds == {id \in Ids : id > 0}

Chunk(a, b) == [first |-> a, second |-> b]
End(list)   == Len(list) + 1
Span(r)     == r.second - r.first

----------------------------------------------------------------------------
(* VBDeletionChunkRangeList *)

(* A range is appended unless it is empty or begins before the end of the
   last one. *)
add(list, range) ==
    IF \/ range.first > range.second
       \/ Len(list) > 0 /\ Last(list).second > range.first
    THEN list
    ELSE Append(list, range)

(* Faulty variant: the second half begins where the first one ends. *)
splitSharesCut(list, it, range_size) ==
    IF it = End(list) \/ Span(list[it]) <= range_size THEN list
    ELSE LET cut == list[it].first + range_size
         IN  InsertAt([list EXCEPT ![it].second = cut], it + 1,
                      Chunk(cut, list[it].second))

splitChunkRange(list, it, range_size) ==
    IF it = End(list) \/ Span(list[it]) <= range_size THEN list
    ELSE LET cut == list[it].first + range_size
         IN  InsertAt([list EXCEPT ![it].second = cut], it + 1,
                      Chunk(cut + 1, list[it].second))

(* Faulty variant: a range that ends at the point itself counts as beyond
   it. *)
findClosestAtPoint(list, it, range_size) ==
    LET beyond == {p \in it..Len(list) :
                      list[p].second >= list[it].first + range_size}
    IN  IF beyond = {} THEN End(list) ELSE Min(beyond)

(* The first range from it on that ends beyond the point range_size past
   the start of it. *)
findClosestChunkByRangeSize(list, it, range_size) ==
    LET beyond == {p \in it..Len(list) :
                      list[p].second > list[it].first + range_size}
    IN  IF beyond = {} THEN End(list) ELSE Min(beyond)

(* Faulty variant: the range at last goes too. *)
removeThroughLast(list, first, last) ==
    IF \/ first = last
       \/ first = End(list)
       \/ last # End(list) /\ list[first].second > list[last].first
    THEN list
    ELSE SubSeq(list, 1, first) \o SubSeq(list, last + 1, Len(list))

(* The ranges between first and last go, the two stay. *)
removeChunkRanges(list, first, last) ==
    IF \/ first = last
       \/ first = End(list)
       \/ last # End(list) /\ list[first].second > list[last].first
    THEN list
    ELSE SubSeq(list, 1, first) \o SubSeq(list, last, Len(list))

(* Faulty variant: at the end of the list the range grows to the point
   asked for, not to the end of the last range. *)
growToEndpoint(list, start, p, endpoint) ==
    IF p = End(list) THEN [list EXCEPT ![start].second = endpoint]
    ELSE IF list[p].first <= endpoint /\ endpoint <= list[p].second
    THEN [list EXCEPT ![start].second = endpoint, ![p].first = endpoint + 1]
    ELSE [list EXCEPT ![start].second = list[p - 1].second]

(* The range at start grows towards endpoint: into the range at p when the
   endpoint lies in it, up to the range before p otherwise. *)
grow(list, start, p, endpoint) ==
    IF p = End(list) THEN [list EXCEPT ![start].second = Last(list).second]
    ELSE IF list[p].first <= endpoint /\ endpoint <= list[p].second
    THEN [list EXCEPT ![start].second = endpoint, ![p].first = endpoint + 1]
    ELSE [list EXCEPT ![start].second = list[p - 1].second]

mergeChunkRanges(list, start, range_size) ==
    IF start = End(list) \/ Span(list[start]) >= range_size THEN list
    ELSE LET p == findClosestChunkByRangeSize(list, start, range_size)
         IN  removeChunkRanges(
                 grow(list, start, p, list[start].first + range_size),
                 start, p)

----------------------------------------------------------------------------
(* VBucketDeletionVisitor *)

(* Faulty variant: a chunk is closed only when it is full. *)
closesWhenFull(counter, i, n) == counter = chunk_size

(* The loop of createRangeList closes a chunk at the i-th of n ids. *)
closes(counter, i, n) == counter = chunk_size \/ i = n

(* createRangeList: one pass over the sorted ids, counting. *)
createRangeList(list) ==
    LET ids == SetToSortSeq(row_ids, <)
        pass(at, i) ==
            LET counter == at.counter + 1
                start   == IF counter = 1 THEN ids[i] ELSE at.start_row_id
            IN  IF closes(counter, i, Len(ids))
                THEN [counter |-> 0, start_row_id |-> start,
                      list |-> add(at.list, Chunk(start, ids[i]))]
                ELSE [counter |-> counter, start_row_id |-> start,
                      list |-> at.list]
    IN  FoldLeftDomain(pass, [counter |-> 0, start_row_id |-> -1,
                              list |-> list], ids).list

(* Faulty variant: the pointer is left as it was. *)
dangling == row_ids

(* What createRangeList leaves in row_ids once the set is deleted. *)
released == Null

----------------------------------------------------------------------------
(* Actions *)

Init ==
    /\ row_ids = {}
    /\ chunk_size \in ChunkSizes
    /\ range_list = <<>>
    /\ alive = TRUE
    /\ deletes = 0

(* The visitor is shown a record with this id. *)
visit(id) ==
    /\ alive /\ row_ids # Null
    /\ row_ids' = IF id > 0 THEN row_ids \cup {id} ELSE row_ids
    /\ UNCHANGED <<chunk_size, range_list, alive, deletes>>

CreateRangeList ==
    /\ alive /\ row_ids # Null
    /\ range_list' = createRangeList(range_list)
    /\ deletes' = deletes + 1
    /\ row_ids' = released
    /\ UNCHANGED <<chunk_size, alive>>

(* ~VBucketDeletionVisitor: the set goes with the visitor if it is still
   there; the list of ranges is the caller's and stays. *)
destroy ==
    /\ alive
    /\ alive' = FALSE
    /\ deletes' = IF row_ids # Null THEN deletes + 1 ELSE deletes
    /\ UNCHANGED <<row_ids, chunk_size, range_list>>

(* The visitor is done with the list: the caller works on it. *)
HandedOver == row_ids = Null \/ ~alive

(* A caller appends a range of its own to the list it was handed. *)
Add(start_id, end_id) ==
    /\ HandedOver
    /\ Len(range_list) < MaxRanges
    /\ range_list' = add(range_list, Chunk(start_id, end_id))
    /\ UNCHANGED <<row_ids, chunk_size, alive, deletes>>

SplitChunkRange(it, range_size) ==
    /\ HandedOver
    /\ range_list' = splitChunkRange(range_list, it, range_size)
    /\ UNCHANGED <<row_ids, chunk_size, alive, deletes>>

MergeChunkRanges(start, range_size) ==
    /\ HandedOver
    /\ range_list' = mergeChunkRanges(range_list, start, range_size)
    /\ UNCHANGED <<row_ids, chunk_size, alive, deletes>>

Next ==
    \/ \E id \in Ids : visit(id)
    \/ CreateRangeList
    \/ destroy
    \/ \E a, b \in RowIds : Add(a, b)
    \/ \E it \in 1..End(range_list), range_size \in RangeSizes :
          \/ SplitChunkRange(it, range_size)
          \/ MergeChunkRanges(it, range_size)

Spec == Init /\ [][Next]_vars

----------------------------------------------------------------------------
(* Properties *)

TypeOK ==
    /\ row_ids = Null \/ row_ids \subseteq RowIds
    /\ chunk_size \in ChunkSizes
    /\ range_list \in Seq([first : RowIds, second : RowIds])
    /\ alive \in BOOLEAN
    /\ deletes \in Nat

(* The row ids the plan will delete. *)
Covered == UNION {r.first..r.second : r \in ToSet(range_list)}

(* The chunks of chunk_size ids each, the last one shorter, that the sorted
   ids fall into; a chunk size of 0 is never reached and gives one chunk. *)
Chunking(ids, per) ==
    LET sorted == SetToSortSeq(ids, <)
        n      == Len(sorted)
        count  == IF n = 0 THEN 0
                  ELSE IF per = 0 THEN 1
                  ELSE (n + per - 1) \div per
        last(j) == IF per = 0 THEN n ELSE Min({j * per, n})
    IN  [j \in 1..count |->
            Chunk(sorted[(j - 1) * per + 1], sorted[last(j)])]

(* The list is in order however it is split and merged: no range is empty
   and none begins before the one in front of it ends.  mergeChunkRanges
   moves the start of the range it grows into, and must leave that range
   an id. *)
RangesSorted ==
    /\ \A i \in DOMAIN range_list : range_list[i].first <= range_list[i].second
    /\ \A i, j \in DOMAIN range_list :
          i < j => range_list[i].second <= range_list[j].first

(* No row escapes the deletion: an id the plan covers stays covered through
   every splitChunkRange and mergeChunkRanges, which cut ranges and remove
   them from the list. *)
CoverageNeverShrinks ==
    [][Covered \subseteq Covered']_vars

(* createRangeList's counting loop yields the chunking of the ids the
   visitor collected: chunks of chunk_size ids, and the ids left over in a
   last chunk. *)
CreateRangeListIsChunking ==
    [][row_ids # Null /\ row_ids' = Null
          => range_list' = Chunking(row_ids, chunk_size)]_vars

(* No two ranges of the list have an id in common. *)
RangesDisjoint ==
    \A i, j \in DOMAIN range_list :
        i < j => range_list[i].second < range_list[j].first

(* splitChunkRange and mergeChunkRanges never make two ranges overlap: the
   halves of a split and the two ranges a merge moves the border of stay
   one id apart, so no row is deleted twice. *)
AdaptingKeepsDisjoint ==
    [][RangesDisjoint =>
          RangesDisjoint' \/ \E a, b \in RowIds : Add(a, b)]_vars

(* The set of row ids is freed once, whichever of createRangeList and the
   destructor gets to it: createRangeList deletes it and must leave NULL in
   row_ids, or the destructor, which deletes whatever row_ids points to,
   frees it a second time; and a visitor destroyed before createRangeList
   was called must not leak it. *)
RowIdsDeletedOnce ==
    /\ deletes <= 1
    /\ ~alive => deletes = 1

----------------------------------------------------------------------------
(* What the sources promise and do not keep *)

(* "each range's start is strictly greater than the previous range's
   end": add appends a range only if it is "non-overlapping and ordered
   after the current tail". *)
AddKeepsDisjoint == RangesDisjoint

============================================================================
