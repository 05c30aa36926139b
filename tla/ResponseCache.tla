--------------------------- MODULE ResponseCache ---------------------------
(***************************************************************************)
(* utils/cache.py: InMemoryCache as a value and its two operations, each   *)
(* of which runs under the cache's lock.                                   *)
(*                                                                         *)
(* A cache is a record [entries, hits, misses]; entries is the dict in     *)
(* insertion order, a sequence of records [key, value].                    *)
(***************************************************************************)
EXTENDS Integers, Sequences

CONSTANTS
  MaxEntries,  \* max_entries of __init__
  NoEntry      \* get() returns None

EmptyCache == [entries |-> << >>, hits |-> 0, misses |-> 0]

CachedKeys(cache) == {cache.entries[i].key : i \in DOMAIN cache.entries}

Lookup(cache, key) ==
  IF key \in CachedKeys(cache)
  THEN cache.entries[CHOOSE i \in DOMAIN cache.entries : cache.entries[i].key = key].value
  ELSE NoEntry

AfterGet_HitsOnly(cache, key) ==
  IF key \in CachedKeys(cache) THEN [cache EXCEPT !.hits = @ + 1] ELSE cache

(* get(): the counters are part of the same critical section.              *)
AfterGet(cache, key) ==
  IF key \in CachedKeys(cache)
  THEN [cache EXCEPT !.hits = @ + 1]
  ELSE [cache EXCEPT !.misses = @ + 1]

(* dict[key] = value keeps the place of a key that is already there.       *)
Assign(entries, key, value) ==
  IF \E i \in DOMAIN entries : entries[i].key = key
  THEN [i \in DOMAIN entries |->
          IF entries[i].key = key THEN [key |-> key, value |-> value] ELSE entries[i]]
  ELSE Append(entries, [key |-> key, value |-> value])

Evicted_OneLate(entries) ==
  IF Len(entries) > MaxEntries THEN Tail(entries) ELSE entries

(* At capacity the oldest entry goes, also when the key is already there.  *)
Evicted(entries) ==
  IF Len(entries) >= MaxEntries THEN Tail(entries) ELSE entries

AfterSet(cache, key, value) ==
  [cache EXCEPT !.entries = Assign(Evicted(@), key, value)]
=============================================================================
