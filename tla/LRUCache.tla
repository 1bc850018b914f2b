------------------------------- MODULE LRUCache -------------------------------
(* The cache of open tables and of blocks: shards, each with a hash table and *)
(* two lists of entries under a lock of its own, and counted references       *)
(* (util/cache.cc), with the threads that look up, read, insert and release   *)
(* (db/table_cache.cc, table/table.cc).                                       *)
EXTENDS Integers, Sequences, FiniteSets, SequencesExt

CONSTANTS
  CacheKeys,      \* names of tables or blocks
  HashSlice,      \* their hash codes
  HashBits, kNumShardBits,
  FirstLength,    \* buckets of a new table
  Capacities, Charges,
  Readers,        \* threads
  MaxInserts      \* entries ever made, a bound

VARIABLES
  shards,      \* per shard: [capacity, usage, lru, in_use, list, elems, heap]
  readers      \* per thread: [at, key, handle]

vars == <<shards, readers>>

ShardIds == 0 .. 2^kNumShardBits - 1
Shard(hash) == hash \div 2^(HashBits - kNumShardBits)
ShardOf(key) == Shard(HashSlice[key])

(******************************************************************************)
(* HandleTable: buckets of handles, which are places in the heap              *)
(******************************************************************************)
BucketOf(list, hash) == (hash % Len(list)) + 1
HashOf(c, e) == HashSlice[c.heap[e].key]

\* The place of key in its bucket, or the one behind the last.
FindPointer(c, key) ==
  LET bucket == c.list[BucketOf(c.list, HashSlice[key])]
      hits == {i \in 1 .. Len(bucket) : c.heap[bucket[i]].key = key}
  IN  IF hits = {} THEN Len(bucket) + 1 ELSE CHOOSE i \in hits : \A j \in hits : i <= j

\* The handle there, 0 for none.
TableLookup(c, key) ==
  LET bucket == c.list[BucketOf(c.list, HashSlice[key])]
      i == FindPointer(c, key)
  IN  IF i <= Len(bucket) THEN bucket[i] ELSE 0

RECURSIVE LengthFor(_, _)
LengthFor(elems, length) == IF length < elems THEN LengthFor(elems, 2 * length) ELSE length

\* Every handle is pushed in front of its new bucket.
Resize(c) ==
  LET length == LengthFor(c.elems, FirstLength)
      all == FlattenSeq(c.list)
      Bucket(b) == Reverse(SelectSeq(all, LAMBDA e : HashOf(c, e) % length = b - 1))
  IN  [c EXCEPT !.list = SubSeq([b \in 1 .. length |-> Bucket(b)], 1, length)]

\* In the place of the old entry under the key, or behind the last.
TableInsert(c, e) ==
  LET key == c.heap[e].key
      b == BucketOf(c.list, HashSlice[key])
      i == FindPointer(c, key)
      bucket == c.list[b]
      new == IF i <= Len(bucket) THEN [c EXCEPT !.list[b] = ReplaceAt(bucket, i, e)]
             ELSE [c EXCEPT !.list[b] = Append(bucket, e), !.elems = @ + 1]
  IN  IF new.elems > Len(new.list) THEN Resize(new) ELSE new

TableRemove(c, key) ==
  LET b == BucketOf(c.list, HashSlice[key])
      i == FindPointer(c, key)
  IN  IF i > Len(c.list[b]) THEN c
      ELSE [c EXCEPT !.list[b] = RemoveAt(@, i), !.elems = @ - 1]

(******************************************************************************)
(* The lists and the references of one shard                                  *)
(******************************************************************************)
LRU_Remove(c, e) == [c EXCEPT !.lru = SelectSeq(@, LAMBDA x : x # e),
                              !.in_use = SelectSeq(@, LAMBDA x : x # e)]
AppendLru(c, e) == [c EXCEPT !.lru = Append(@, e)]
AppendInUse(c, e) == [c EXCEPT !.in_use = Append(@, e)]

Ref(c, e) ==
  LET moved == IF c.heap[e].refs = 1 /\ c.heap[e].in_cache THEN AppendInUse(LRU_Remove(c, e), e)
               ELSE c
  IN  [moved EXCEPT !.heap[e].refs = @ + 1]

Unref(c, e) ==
  LET less == [c EXCEPT !.heap[e].refs = @ - 1]
  IN  IF less.heap[e].refs = 0 THEN [less EXCEPT !.heap[e].deleted = @ + 1]
      ELSE IF less.heap[e].in_cache /\ less.heap[e].refs = 1
      THEN AppendLru(LRU_Remove(less, e), e)
      ELSE less

\* Mutant: the entry is given up before it is marked as out of the cache.
FinishEraseLate(c, e) ==
  IF e = 0 THEN c
  ELSE LET out == LRU_Remove(c, e)
           less == Unref([out EXCEPT !.usage = @ - out.heap[e].charge], e)
       IN  [less EXCEPT !.heap[e].in_cache = FALSE]

\* The entry e, 0 for none, has left the hash table.
FinishErase(c, e) ==
  IF e = 0 THEN c
  ELSE LET out == [LRU_Remove(c, e) EXCEPT !.heap[e].in_cache = FALSE]
       IN  Unref([out EXCEPT !.usage = @ - out.heap[e].charge], e)

Erase(c, key) == FinishErase(TableRemove(c, key), TableLookup(c, key))

RECURSIVE Evict(_)
Evict(c) ==
  IF c.usage > c.capacity /\ c.lru # <<>> THEN Evict(Erase(c, c.heap[c.lru[1]].key)) ELSE c

RECURSIVE Prune(_)
Prune(c) == IF c.lru # <<>> THEN Prune(Erase(c, c.heap[c.lru[1]].key)) ELSE c

\* The new entry's handle is the last place of the heap. A capacity of 0 keeps
\* nothing.
Insert(c, key, charge) ==
  LET e == Len(c.heap) + 1
      kept == c.capacity > 0
      new == [c EXCEPT !.heap = Append(@, [key |-> key, charge |-> charge, in_cache |-> kept,
                                           refs |-> IF kept THEN 2 ELSE 1, deleted |-> 0])]
      charged == [AppendInUse(new, e) EXCEPT !.usage = @ + charge]
  IN  Evict(IF kept THEN FinishErase(TableInsert(charged, e), TableLookup(charged, key)) ELSE new)

\* ~LRUCache: the entries nobody holds; clients have released theirs.
RECURSIVE Destroy(_)
Destroy(c) ==
  IF c.lru = <<>> THEN c
  ELSE LET e == c.lru[1]
       IN  Destroy([Unref([c EXCEPT !.heap[e].in_cache = FALSE], e) EXCEPT !.lru = Tail(@)])

(******************************************************************************)
(* Threads                                                                    *)
(******************************************************************************)
Empty(capacity) ==
  [capacity |-> (capacity + 2^kNumShardBits - 1) \div 2^kNumShardBits, usage |-> 0,
   lru |-> <<>>, in_use |-> <<>>, elems |-> 0, heap |-> <<>>,
   list |-> SubSeq([b \in 1 .. FirstLength |-> <<>>], 1, FirstLength)]
Away == [at |-> "away", key |-> CHOOSE k \in CacheKeys : TRUE, handle |-> 0]
Gone == [Away EXCEPT !.at = "gone"]

Init ==
  /\ \E capacity \in Capacities : shards = [s \in ShardIds |-> Empty(capacity)]
  /\ readers = [r \in Readers |-> Away]

Inserted == LET s == SetToSeq(ShardIds) IN Len(FlattenSeq([i \in 1 .. Len(s) |-> shards[s[i]].heap]))

\* FindTable and BlockReader look the key up, and read the file if it is absent.
Lookup(r, key) ==
  /\ readers[r] = Away
  /\ LET e == TableLookup(shards[ShardOf(key)], key)
     IN  /\ readers' = [readers EXCEPT ![r] =
                          [at |-> IF e = 0 THEN "reading" ELSE "holding", key |-> key, handle |-> e]]
         /\ shards' = IF e = 0 THEN shards ELSE [shards EXCEPT ![ShardOf(key)] = Ref(@, e)]

\* What was read is inserted, whatever was inserted since the lookup.
Fill(r, charge) ==
  LET key == readers[r].key
      s == ShardOf(key)
  IN  /\ readers[r].at = "reading" /\ Inserted < MaxInserts
      /\ shards' = [shards EXCEPT ![s] = Insert(@, key, charge)]
      /\ readers' = [readers EXCEPT ![r].at = "holding", ![r].handle = Len(shards[s].heap) + 1]

\* The read failed, or what was read is not to be cached.
DoNotFill(r) ==
  /\ readers[r].at = "reading"
  /\ readers' = [readers EXCEPT ![r] = Away] /\ UNCHANGED shards

\* The end of Get, or of the iterator (UnrefEntry, ReleaseBlock).
Release(r) ==
  /\ readers[r].at = "holding"
  /\ shards' = [shards EXCEPT ![ShardOf(readers[r].key)] = Unref(@, readers[r].handle)]
  /\ readers' = [readers EXCEPT ![r] = Away]

\* The table's file is deleted.
EvictFile(key) ==
  /\ \E r \in Readers : readers[r].at # "gone"
  /\ shards' = [shards EXCEPT ![ShardOf(key)] = Erase(@, key)] /\ UNCHANGED readers

\* The shards are pruned one by one, each under its own lock.
PruneShard(s) ==
  /\ \E r \in Readers : readers[r].at # "gone"
  /\ shards' = [shards EXCEPT ![s] = Prune(@)] /\ UNCHANGED readers

Close ==
  /\ \A r \in Readers : readers[r] = Away
  /\ shards' = [s \in ShardIds |-> Destroy(shards[s])]
  /\ readers' = [r \in Readers |-> Gone]

Next ==
  \/ \E r \in Readers, key \in CacheKeys : Lookup(r, key)
  \/ \E r \in Readers, charge \in Charges : Fill(r, charge)
  \/ \E r \in Readers : DoNotFill(r) \/ Release(r)
  \/ \E key \in CacheKeys : EvictFile(key)
  \/ \E s \in ShardIds : PruneShard(s)
  \/ Close

Spec == Init /\ [][Next]_vars

(******************************************************************************)
(* Properties                                                                 *)
(******************************************************************************)
Sum(c, S) == LET sum[T \in SUBSET S] ==
                   IF T = {} THEN 0
                   ELSE LET e == CHOOSE e \in T : TRUE IN c.heap[e].charge + sum[T \ {e}]
             IN  sum[S]
IsListOf(s, S) == IsInjective(s) /\ ToSet(s) = S

\* An entry is deleted once, when neither the cache nor a thread has it any more,
\* and not before; the entries in the cache are those of the hash table, the
\* newest under their key, on the list of the unused or of the used as threads
\* hold them, and their charges make up the usage (cache.cc 23-38, 185-192).
CacheConsistent ==
  \A s \in ShardIds :
    LET c == shards[s]
        entries == 1 .. Len(c.heap)
        cached == {e \in entries : c.heap[e].in_cache}
        Holders(e) == Cardinality({r \in Readers : /\ readers[r].at = "holding"
                                                   /\ ShardOf(readers[r].key) = s
                                                   /\ readers[r].handle = e})
        open == \E r \in Readers : readers[r].at # "gone"
    IN  /\ open \/ \A e \in entries : c.heap[e].deleted = 1
        /\ \A e \in entries :
             /\ c.heap[e].refs = Holders(e) + (IF e \in cached THEN 1 ELSE 0)
             /\ c.heap[e].deleted = (IF c.heap[e].refs = 0 THEN 1 ELSE 0)
        /\ open =>
             /\ IsListOf(c.lru, {e \in cached : Holders(e) = 0})
             /\ IsListOf(c.in_use, {e \in cached : Holders(e) > 0})
             /\ IsListOf(FlattenSeq(c.list), cached) /\ c.elems = Cardinality(cached)
             /\ \A e \in cached : TableLookup(c, c.heap[e].key) = e
             /\ \A e \in cached : \A f \in entries : f > e => c.heap[f].key # c.heap[e].key
             /\ c.usage = Sum(c, cached)
        /\ c.capacity = 0 => cached = {}
===============================================================================
