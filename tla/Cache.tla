------------------------------- MODULE Cache -------------------------------
(***************************************************************************)
(* The de-duplication cache of cache.rs: a FIFO of the last `size` values  *)
(* that were added.  The operators are constant-level, so that a gateway   *)
(* can keep its cache in a variable of its own (PAYLOAD_CACHE, mesh.rs:29) *)
(* and so that facts about them can be proved once, in CacheLemmas.        *)
(***************************************************************************)
EXTENDS Naturals, Sequences, SequencesExt

\* A slip: only the oldest value is compared.
CacheHasOldest(deque, v) == deque # <<>> /\ Head(deque) = v

\* deque.contains(&value)
CacheHas(deque, v) == Contains(deque, v)

(***************************************************************************)
(* What a refused-or-not add leaves in the deque.  The caller has found    *)
(* that v is not there: when the deque is full its oldest value is popped  *)
(* before v is pushed at the back.                                         *)
(***************************************************************************)
\* A slip of the eviction: the value just seen is the one that is lost.
CacheAddEvictsNewest(deque, v, size) ==
  IF Len(deque) = size THEN Append(Front(deque), v) ELSE Append(deque, v)

\* A slip of the boundary: one place of the deque is never used.
CacheAddEvictsEarly(deque, v, size) ==
  IF Len(deque) + 1 >= size THEN Append(Tail(Append(deque, v)), v)
                            ELSE Append(deque, v)

CacheAdd(deque, v, size) ==
  IF Len(deque) = size THEN Append(Tail(deque), v) ELSE Append(deque, v)

-----------------------------------------------------------------------------
(***************************************************************************)
(* The two notions the cache is specified by.  `seen` is the sequence of   *)
(* all the values ever added.                                              *)
(***************************************************************************)
\* How many values of a sequence come before its last n.
Before(seen, n) == IF Len(seen) > n THEN Len(seen) - n ELSE 0

\* The last n values of a sequence (all of them when it is shorter).
LastOf(seen, n) == SubSeq(seen, Before(seen, n) + 1, Len(seen))

\* Two occurrences of one value are more than n places apart.
Spaced(seen, n) ==
  \A i, j \in DOMAIN seen : i < j /\ seen[i] = seen[j] => j - i > n
=============================================================================
