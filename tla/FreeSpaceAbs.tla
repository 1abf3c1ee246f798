---------------------------- MODULE FreeSpaceAbs ----------------------------
(***************************************************************************)
(* What the free-space index promises its user: a set of free blocks out  *)
(* of which a run of consecutive free blocks is handed out, and into which *)
(* a run that was handed out is returned.  Block UMAX is never a block: it *)
(* is the "no terminator" sentinel of ssdb::umap::m_lastf.                *)
(***************************************************************************)
EXTENDS Integers

CONSTANTS Usable,       \* the blocks that can ever be allocated
          MaxRun        \* the longest run a caller asks for

VARIABLES freeSet,      \* blocks currently free
          held          \* runs <<first, count>> currently handed out

vars == <<freeSet, held>>

Run(r) == r[1]..(r[1] + r[2] - 1)

Init ==
  /\ held \subseteq Usable \X (1..MaxRun)
  /\ freeSet = Usable \ UNION {Run(r) : r \in held}

Allocate(c) ==
  \E p \in Usable :
    /\ Run(<<p, c>>) \subseteq freeSet
    /\ freeSet' = freeSet \ Run(<<p, c>>)
    /\ held' = held \cup {<<p, c>>}

Release(r) ==
  /\ r \in held
  /\ freeSet' = freeSet \cup Run(r)
  /\ held' = held \ {r}

Next == (\E c \in 1..MaxRun : Allocate(c)) \/ (\E r \in held : Release(r))

Spec == Init /\ [][Next]_vars

=============================================================================
