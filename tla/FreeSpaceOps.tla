---------------------------- MODULE FreeSpaceOps ----------------------------
(***************************************************************************)
(* The free-space index of ssdb (src/util/ssdb.cpp, ssdb::free_space).    *)
(* m_free is a std::map<uint32, uint32> from the first block of a free    *)
(* interval to its length.  The empty map is the default state and means  *)
(* that the whole 2^32 address space is free.  All arithmetic is uint32:  *)
(* the model keeps it modulo 2^Width, where Width is a small stand-in for *)
(* 32 so that the wrap-arounds of the code (0 - count, overflow clamping) *)
(* happen in the same places.                                              *)
(***************************************************************************)
EXTENDS Integers, FiniteSets, FiniteSetsExt, Functions, TLC

CONSTANT Width          \* bit width of a block index (32 in the code)

ASSUME Width \in 2..8

AddrSpace == 2^Width
UMAX      == AddrSpace - 1          \* UINT32_MAX, also the "no block" sentinel

\* uint32 wrap-around of an integer result
U(x) == x % AddrSpace

EmptyMap == [s \in {} |-> 0]

\* std::map::emplace: inserts only when the key is absent
Emplace(f, k, v) == IF k \in DOMAIN f THEN f ELSE f @@ (k :> v)

\* std::map::erase
Erase(f, k) == Restrict(f, DOMAIN f \ {k})

(***************************************************************************)
(* free_space::add_free(block, count): insert the interval, clamp it at   *)
(* the end of the address space, then merge it with the previous and with *)
(* the next interval when they touch or overlap.                          *)
(***************************************************************************)

\* Bug variant: the clamp computed from the length instead of the start.
ClampLenSwapped(len, block) ==
  IF U(len + block) < block THEN UMAX - len ELSE len

\* "Check overflow": an interval may not run past UINT32_MAX.
ClampLen(len, block) ==
  IF U(len + block) < block THEN UMAX - block ELSE len

\* Merge the interval at block into the previous one if that one reaches it;
\* returns the map and the key of the merged interval.
MergePrev(f, block) ==
  LET below == {s \in DOMAIN f : s < block}
      p     == Max(below)
      pend  == U(p + f[p])
  IN  IF below # {} /\ pend >= block
        THEN [map |-> Erase([f EXCEPT ![p] = U(@ + U(f[block] - U(pend - block)))], block),
              it  |-> p]
        ELSE [map |-> f, it |-> block]

\* Bug variant: only an overlapping next interval is merged, not a touching one.
MergeNextStrict(f, it) ==
  LET above == {s \in DOMAIN f : s > it}
      n     == Min(above)
      iend  == U(it + f[it])
  IN  IF above # {} /\ iend > n
        THEN Erase([f EXCEPT ![it] = U(@ + U(f[n] - U(iend - n)))], n)
        ELSE f

\* Merge the next interval into the one at it if it reaches the next one.
MergeNext(f, it) ==
  LET above == {s \in DOMAIN f : s > it}
      n     == Min(above)
      iend  == U(it + f[it])
  IN  IF above # {} /\ iend >= n
        THEN Erase([f EXCEPT ![it] = U(@ + U(f[n] - U(iend - n)))], n)
        ELSE f

AddFree(f, block, count) ==
  IF count = 0 THEN f ELSE
  LET f1   == Emplace(f, block, count)
      len1 == IF f1[block] < count THEN count ELSE f1[block]
      r    == MergePrev([f1 EXCEPT ![block] = ClampLen(len1, block)], block)
  IN  MergeNext(r.map, r.it)

(***************************************************************************)
(* free_space::get_free(count): best fit.  The scan keeps the first (the  *)
(* lowest) interval of the smallest sufficient length.  On a miss the     *)
(* default (empty) map is initialised to [count, 2^32) and 0 returned;    *)
(* a miss on a non-empty map throws std::bad_alloc (ok = FALSE).          *)
(***************************************************************************)
BestFit(f, count) ==
  LET fits == {s \in DOMAIN f : f[s] >= count}
  IN  CHOOSE s \in fits :
        \A t \in fits : f[s] < f[t] \/ (f[s] = f[t] /\ s <= t)

\* Bug variant: the rest of the chosen interval is not put back.
TakeRunNoRestore(f, pos, count) ==
  LET g == Erase(f, pos) IN IF DOMAIN g = {} THEN (0 :> 0) ELSE g

\* Bug variant: the rest of the chosen interval keeps the whole length.
TakeRunNoShrink(f, pos, count) ==
  LET diff == U(f[pos] - count)
      g    == Erase(f, pos)
  IN  IF diff # 0 THEN Emplace(g, U(pos + count), f[pos])
      ELSE IF DOMAIN g = {} THEN (0 :> 0) ELSE g

\* Remove count blocks from the front of the interval at pos; an interval
\* used up entirely leaves a (0, 0) dummy if the map would be empty, so
\* that the default state is not restored by accident.
TakeRun(f, pos, count) ==
  LET diff == U(f[pos] - count)
      g    == Erase(f, pos)
  IN  IF diff # 0 THEN Emplace(g, U(pos + count), diff)
      ELSE IF DOMAIN g = {} THEN (0 :> 0) ELSE g

GetFree(f, count) ==
  IF \E s \in DOMAIN f : f[s] >= count
    THEN LET pos == BestFit(f, count)
         IN  [ok |-> TRUE, pos |-> pos, map |-> TakeRun(f, pos, count)]
    ELSE IF DOMAIN f = {}
      THEN [ok  |-> TRUE, pos |-> 0,
            map |-> IF count # 0 THEN (count :> U(0 - count)) ELSE f]
      ELSE [ok |-> FALSE, pos |-> 0, map |-> f]

(***************************************************************************)
(* The set of blocks a free map stands for (the empty map: all of them).  *)
(***************************************************************************)
FreeBlocks(f) ==
  IF DOMAIN f = {} THEN 0..UMAX
  ELSE UNION {{U(s + j) : j \in 0..(f[s] - 1)} : s \in DOMAIN f}

\* The blocks of a run of count blocks starting at block.
RunBlocks(block, count) == {U(block + j) : j \in 0..(count - 1)}

=============================================================================
