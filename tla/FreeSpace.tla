------------------------------ MODULE FreeSpace ------------------------------
(***************************************************************************)
(* ssdb::free_space driven the way ssdb::umap drives it:                  *)
(*  - umap::reload() starts from add_free(count, 0 - count) and frees the *)
(*    blocks of the file that hold nothing live, in scan order;           *)
(*  - umap::write() and umap::finalize() take runs with get_free(count)   *)
(*    and give them back with add_free(block, count);                     *)
(*  - the first terminator of a store frees m_lastf = -1 (UINT32_MAX).     *)
(* A caller only ever frees a run it holds.                               *)
(***************************************************************************)
EXTENDS FreeSpaceOps

CONSTANTS MinFile,      \* smallest file (in blocks) the store is opened on
          MaxFile,      \* largest file (in blocks) the store is opened on
          MaxRun,       \* longest run a caller asks for
          MaxHeld       \* most runs held at once

ASSUME /\ MinFile \in 0..MaxFile
       /\ MaxRun \in 1..UMAX
       /\ MaxFile + MaxHeld * MaxRun < UMAX    \* the 2^32 space never runs out

VARIABLES m_free,       \* the std::map of free intervals
          held,         \* runs <<first, count>> handed out and not returned
          failed        \* get_free threw std::bad_alloc

vars == <<m_free, held, failed>>

\* umap::reload(): add_free(count, 0 - count), then add_free(i, 1) for each
\* block i that is not live, in increasing i.
RECURSIVE FreeEach(_, _)
FreeEach(f, S) ==
  IF S = {} THEN f ELSE FreeEach(AddFree(f, Min(S), 1), S \ {Min(S)})

ReloadMap(count, holes) == FreeEach(AddFree(EmptyMap, count, U(0 - count)), holes)

Init ==
  \E count \in MinFile..MaxFile :
  \E holes \in SUBSET (0..(count - 1)) :
    /\ m_free = ReloadMap(count, holes)
    /\ held = {<<b, 1>> : b \in (0..(count - 1)) \ holes}
    /\ failed = FALSE

\* get_free(c) for a new run of c blocks
Allocate(c) ==
  /\ ~failed
  /\ Cardinality(held) < MaxHeld
  /\ LET r == GetFree(m_free, c) IN
       IF r.ok
         THEN /\ m_free' = r.map
              /\ held' = held \cup {<<r.pos, c>>}
              /\ UNCHANGED failed
         ELSE /\ failed' = TRUE
              /\ UNCHANGED <<m_free, held>>

\* add_free(block, count) of a run that was handed out
Release(r) ==
  /\ ~failed
  /\ r \in held
  /\ m_free' = AddFree(m_free, r[1], r[2])
  /\ held' = held \ {r}
  /\ UNCHANGED failed

\* add_free(m_lastf, 1) while m_lastf is still -1 (ssdb.hpp:195, 410): it
\* follows add_free(count, 0 - count) of reload or get_free(1) of finalize,
\* so the map has left its default state.
ReleaseSentinel ==
  /\ ~failed
  /\ DOMAIN m_free # {}
  /\ m_free' = AddFree(m_free, UMAX, 1)
  /\ UNCHANGED <<held, failed>>

Next ==
  \/ \E c \in 1..MaxRun : Allocate(c)
  \/ \E r \in held : Release(r)
  \/ ReleaseSentinel

Spec == Init /\ [][Next]_vars

-----------------------------------------------------------------------------
(* Every interval is a uint32 start and length, held runs lie in the      *)
(* address space, and no interval reaches past the end of the 2^32 space  *)
(* (the overflow clamp of add_free and the remainder of get_free).        *)
TypeOK ==
  /\ DOMAIN m_free \subseteq 0..UMAX
  /\ \A s \in DOMAIN m_free : m_free[s] \in 0..UMAX /\ s + m_free[s] <= AddrSpace
  /\ held \subseteq (0..UMAX) \X (1..MaxRun)
  /\ failed \in BOOLEAN

(* Spec property 7: after every add_free and get_free the intervals are   *)
(* disjoint, ordered and maximally coalesced: each one ends strictly      *)
(* before the next one starts (touching intervals would have been merged).*)
Coalesced ==
  \A s, t \in DOMAIN m_free : s < t => s + m_free[s] < t

(* get_free never throws while the 2^32 space is far from full: the spec  *)
(* calls allocation failure a programmer error that only exhaustion of    *)
(* the space may cause.                                                   *)
NoAllocFailure == ~failed

(* The index implements the abstract allocator: the blocks it stands for, *)
(* less the UINT32_MAX sentinel, are exactly the blocks no caller holds,  *)
(* get_free hands out a run of free blocks and add_free returns it.       *)
Abs == INSTANCE FreeSpaceAbs
         WITH Usable <- 0..(UMAX - 1),
              freeSet <- FreeBlocks(m_free) \ {UMAX}

AllocatorRefinement == Abs!Spec

=============================================================================
