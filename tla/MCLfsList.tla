----------------------------- MODULE MCLfsList -----------------------------
(* Threads and addresses of lfs::list for TLC. *)
EXTENDS LfsList

CONSTANTS p1, p2, c1, c2, a1, a2, a3

MCPushers   == {p1, p2}
MCConsumers == {c1, c2}

\* Fewer addresses than elements: new must reuse deleted nodes.
MCAddr == {a1, a2, a3}

\* Addresses are only compared, so any renaming of them is sound; so is a
\* renaming of the consumers, which run the same code.
LfsSymmetry == Permutations(MCAddr) \cup Permutations(MCConsumers)
=============================================================================
