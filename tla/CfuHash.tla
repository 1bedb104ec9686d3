------------------------------ MODULE CfuHash ------------------------------
(***************************************************************************)
(* cfuhash (src/src/thirdparty/lthread/cfuhash.c): a power of two of       *)
(* buckets, each a chain that grows at its head; the table is resized when *)
(* the load leaves the thresholds, unless a flag forbids it.  A bucket is  *)
(* the sequence of its entries.  Keys that differ only in case are one key *)
(* under CFUHASH_IGNORE_CASE and two without it: a key is what hash_cmp()  *)
(* tells apart.  cfuhash_foreach_remove(), which nothing here calls, is    *)
(* left out: it takes entries without counting them in `entries`           *)
(* (cfuhash.c:655-698), and what is said here holds of tables that have    *)
(* never been through it.                                                  *)
(***************************************************************************)
EXTENDS ContainerKeys

CONSTANTS
  CfuData,        \* what the callers store
  CfuSize         \* cfuhash_new_with_initial_size()

ASSUME CfuAssumption == CfuSize \in Nat \ {0} /\ NoKey \notin CfuData

VARIABLE cfu      \* the cfuhash_table

CfuEntries == [key : Keys, data : CfuData]

(* A table of num buckets. *)
Chains(num) == [0..num - 1 -> Seq(CfuEntries)]

(* A loop of n turns: step takes the number of a turn and the state before  *)
(* it to the state after it.                                                *)
Repeat(n, step, x) ==
  LET turn[i \in 0..n] == IF i = 0 THEN x ELSE step[i][turn[i - 1]]
  IN turn[n]

(* hash_size(): i doubles as long as it is less than s. *)
HashSize(s) == Repeat(s, [n \in 1..s |-> [i \in Nat |-> IF i < s THEN 2 * i ELSE i]], 1)

CfuTable(size) ==
  [num_buckets |-> HashSize(size), entries |-> 0, frozen |-> FALSE,
   buckets |-> [b \in 0..HashSize(size) - 1 |-> <<>>], resized |-> FALSE]

HashValue(k, num) == KeyHash[k] % num

Bucket(h, k) == h.buckets[HashValue(k, h.num_buckets)]

(* The place of the key in its bucket, 0 when it has none. *)
Place(h, k) ==
  LET at == {i \in DOMAIN Bucket(h, k) : Bucket(h, k)[i].key = k}
  IN IF at = {} THEN 0 ELSE Min(at)

CfuGet(h, k) == IF Place(h, k) = 0 THEN NoKey ELSE Bucket(h, k)[Place(h, k)].data

(* All entries, in bucket order. *)
InOrder(h) ==
  Repeat(h.num_buckets, [b \in 1..h.num_buckets |-> [c \in Seq(CfuEntries) |-> c \o h.buckets[b - 1]]], <<>>)

(* Mutant: the entries are hashed for the old number of buckets. *)
RehashOldMask(h) ==
  LET size == HashSize(2 * h.entries)
      all == InOrder(h)
  IN IF size = h.num_buckets THEN h
     ELSE [h EXCEPT !.num_buckets = size, !.resized = TRUE,
            !.buckets = Repeat(Len(all),
              [i \in 1..Len(all) |-> [c \in Chains(size) |->
                 [c EXCEPT ![HashValue(all[i].key, h.num_buckets) % size] = <<all[i]>> \o @]]],
              [b \in 0..size - 1 |-> <<>>])]

(* cfuhash_rehash() at the default thresholds, whose sum is 1: the entries  *)
(* in bucket order, each to the head of its new bucket.                     *)
Rehash(h) ==
  LET size == HashSize(2 * h.entries)
      all == InOrder(h)
  IN IF size = h.num_buckets THEN h
     ELSE [h EXCEPT !.num_buckets = size, !.resized = TRUE,
            !.buckets = Repeat(Len(all),
              [i \in 1..Len(all) |-> [c \in Chains(size) |->
                 [c EXCEPT ![HashValue(all[i].key, size)] = <<all[i]>> \o @]]],
              [b \in 0..size - 1 |-> <<>>])]

(* After an add: more than 0.75 entries to a bucket. *)
GrowIfFull(h) ==
  IF ~h.frozen /\ 4 * h.entries > 3 * h.num_buckets THEN Rehash(h) ELSE h

(* After a delete: less than 0.25, and never before the table has grown     *)
(* (CFUHASH_FROZEN_UNTIL_GROWS, which every constructor sets).              *)
ShrinkIfSparse(h) ==
  IF ~h.frozen /\ h.resized /\ 4 * h.entries < h.num_buckets THEN Rehash(h) ELSE h

SetBucket(h, k, chain) ==
  [h EXCEPT !.buckets[HashValue(k, h.num_buckets)] = chain]

(* cfuhash_put_data() *)
CfuPut(h, k, d) ==
  LET chain == Bucket(h, k)
      entry == [key |-> k, data |-> d]
  IN IF Place(h, k) # 0
     THEN [h |-> SetBucket(h, k, [chain EXCEPT ![Place(h, k)] = entry]),
           ret |-> 0, old |-> CfuGet(h, k)]
     ELSE [h |-> GrowIfFull([SetBucket(h, k, <<entry>> \o chain) EXCEPT !.entries = @ + 1]),
           ret |-> 1, old |-> NoKey]

(* cfuhash_delete_data() *)
CfuDelete(h, k) ==
  IF Place(h, k) = 0 THEN [h |-> h, ret |-> NoKey]
  ELSE [h |-> ShrinkIfSparse(
                [SetBucket(h, k, RemoveAt(Bucket(h, k), Place(h, k))) EXCEPT !.entries = @ - 1]),
        ret |-> CfuGet(h, k)]

(* cfuhash_clear() *)
CfuClear(h) ==
  ShrinkIfSparse([h EXCEPT !.entries = 0, !.buckets = [b \in DOMAIN @ |-> <<>>]])

(* cfuhash_keys_data(): the keys in bucket order, never more than entries.  *)
CfuKeys(h) ==
  LET all == InOrder(h)
      n == Min({Len(all), h.entries})
  IN [i \in 1..n |-> all[i].key]

(* One cfuhash_next_data() from the cursor at = <<each_bucket_index, place  *)
(* of each_chain_entry, 0 for NULL>>.                                       *)
CfuNext(h, at) ==
  IF at[2] # 0 /\ at[2] < Len(h.buckets[at[1]]) THEN <<at[1], at[2] + 1>>
  ELSE LET full == {b \in at[1] + 1..h.num_buckets - 1 : h.buckets[b] # <<>>}
       IN IF full = {} THEN <<h.num_buckets, 0>> ELSE <<Min(full), 1>>

(* A call of cfuhash_next(), which returns a key of the table or 0. *)
EachTurn(h, v) ==
  LET to == CfuNext(h, v.at)
  IN IF to[2] = 0 THEN v
     ELSE [at |-> to, keys |-> Append(v.keys, h.buckets[to[1]][to[2]].key)]

(* cfuhash_each() and cfuhash_next() until they return 0: no turn comes     *)
(* back to an entry, so that there are at most as many as entries.          *)
Each(h) ==
  LET turns == Len(InOrder(h))
  IN Repeat(turns,
            [i \in 1..turns |-> [v \in [at : Int \X Nat, keys : Seq(Keys)] |-> EachTurn(h, v)]],
            [at |-> <<-1, 0>>, keys |-> <<>>]).keys

(* cfuhash_put_data() of what cfuhash_get_data() finds. *)
CopyTurn(src, k, dst) ==
  IF Place(src, k) = 0 THEN dst ELSE CfuPut(dst, k, CfuGet(src, k)).h

(* cfuhash_copy() *)
CfuCopy(src, dst) ==
  LET keys == CfuKeys(src)
      turn[i \in 0..Len(keys)] == IF i = 0 THEN dst ELSE CopyTurn(src, keys[i], turn[i - 1])
  IN turn[Len(keys)]

(* cfuhash_merge() *)
CfuMerge(h1, h2) == CfuCopy(h2, CfuCopy(h1, CfuTable(h1.entries + h2.entries)))

----------------------------------------------------------------------------
CfuInit == cfu = CfuTable(CfuSize)

CfuPutAction == \E k \in Keys, d \in CfuData : cfu' = CfuPut(cfu, k, d).h

CfuDeleteAction == \E k \in Keys : cfu' = CfuDelete(cfu, k).h

CfuClearAction == cfu' = CfuClear(cfu)

(* cfuhash_set_flag(CFUHASH_FROZEN), cfuhash_clear_flag(CFUHASH_FROZEN) *)
CfuFlag == cfu' = [cfu EXCEPT !.frozen = ~@]

CfuhashNext == CfuPutAction \/ CfuDeleteAction \/ CfuClearAction \/ CfuFlag

CfuSpec == CfuInit /\ [][CfuhashNext]_cfu

----------------------------------------------------------------------------
Stored(h) == {e.key : e \in UNION {Range(h.buckets[b]) : b \in DOMAIN h.buckets}}

Contents(h) == [k \in Stored(h) |-> CfuGet(h, k)]

(* Every entry is in the bucket its lookup reads, no key has two, and       *)
(* `entries` is the number of entries.                                      *)
CfuhashBuckets ==
  /\ \A b \in DOMAIN cfu.buckets : \A i \in DOMAIN cfu.buckets[b] :
       HashValue(cfu.buckets[b][i].key, cfu.num_buckets) = b
  /\ cfu.entries = Cardinality(Stored(cfu))
  /\ Range(Each(cfu)) = Stored(cfu) /\ IsInjective(Each(cfu))
  /\ Range(CfuKeys(cfu)) = Stored(cfu)

(* Every call changes the contents as its result says; an unfrozen table is *)
(* never fuller than the high threshold after an add; a copy has the        *)
(* contents of the table, and a merge the entry of the later table for a    *)
(* key that both have.                                                      *)
CfuhashCalls ==
  /\ \A k \in Keys :
       LET del == CfuDelete(cfu, k)
       IN /\ Contents(del.h) = [j \in Stored(cfu) \ {k} |-> CfuGet(cfu, j)]
          /\ (del.ret = NoKey) <=> k \notin Stored(cfu)
          /\ Contents(CfuMerge(cfu, del.h)) = Contents(cfu)
          /\ \A d \in CfuData :
               LET put == CfuPut(cfu, k, d)
               IN /\ Contents(put.h) = [j \in Stored(cfu) \cup {k} |-> IF j = k THEN d ELSE CfuGet(cfu, j)]
                  /\ put.old = CfuGet(cfu, k)
                  /\ put.ret = 1 /\ ~cfu.frozen => 4 * put.h.entries <= 3 * put.h.num_buckets
                  /\ Contents(CfuMerge(cfu, put.h)) = Contents(put.h)
  /\ Contents(CfuCopy(cfu, CfuTable(CfuSize))) = Contents(cfu)

(* Whatever was put, deleted and moved to other buckets: the entries are    *)
(* where lookups look, they are as many as `entries` says, an iteration and *)
(* cfuhash_keys() return every key once, and every call does what it        *)
(* returns.                                                                 *)
CfuhashSound == CfuhashBuckets /\ CfuhashCalls
=============================================================================
