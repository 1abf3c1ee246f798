-------------------------------- MODULE LSK --------------------------------
(***************************************************************************)
(* ssdb::umap (src/util/ssdb.hpp): a key/value map persisted as runs of   *)
(* encrypted blocks, with a terminator block that commits a generation,   *)
(* and a three-pass recovery in reload().                                  *)
(*                                                                         *)
(* The block device is sfs::view seen through the page cache: file is     *)
(* what the process reads and writes, disk is what survives a power loss. *)
(* view.flush() (fsync) makes disk equal to file; a crash keeps on disk   *)
(* any subset of the blocks written since the last flush.  Encryption is  *)
(* abstracted to its observable effect: a block that was never written or *)
(* does not authenticate is Bad, and read_block fails on it.              *)
(*                                                                         *)
(* Data abstraction: a record's encoded size is RecSize[v] units of which *)
(* a block carries BlockData (4032 bytes in the code); the combined hash  *)
(* (an XOR of HMACs) is the set of its (order, block) tuples, XOR being   *)
(* symmetric difference; orders are bounded by MaxOrder, and the two      *)
(* recovery sentinels of m_flush (-1 and -2 as uint64) are numbers above  *)
(* every order, which is all the code compares them with.                 *)
(***************************************************************************)
EXTENDS FreeSpaceOps

CONSTANTS Keys,         \* keys of the map
          Vals,         \* values a key can hold
          RecSize,      \* encoded size of a record holding each value
          BlockData,    \* bytes of record data in one block
          MaxOrder,     \* bound on m_order
          MaxCrash,     \* bound on restarts (crash or close and reopen)
          MaxIOErr      \* bound on failed block writes

ASSUME /\ RecSize \in [Vals -> Nat \ {0}]
       /\ BlockData \in Nat \ {0}
       /\ MaxOrder \in Nat /\ MaxCrash \in Nat /\ MaxIOErr \in Nat

Blocks  == 0..(UMAX - 1)          \* block indices the model's file can have
NoBlock == UMAX                   \* m_lastf = -1
PASS1   == MaxOrder + 2           \* m_flush = -1: first, optimistic pass
PASS3   == MaxOrder + 1           \* m_flush = -2: third, salvage pass
CONT    == -1                     \* block_layout::size of a continuation

\* Contents of a block as read_block returns them.
Absent       == [absent |-> TRUE]           \* beyond the end of the file
Bad          == [bad |-> TRUE]              \* fails to authenticate
DataHead(o, s, k, v) == [order |-> o, size |-> s, key |-> k, val |-> v]
Cont(o)      == [order |-> o, size |-> CONT]
Term(o, h)   == [order |-> o, size |-> 0, hash |-> h]
Readable(b)  == "order" \in DOMAIN b

\* blocks of a record of sz bytes
BlocksFor(sz) == (sz + BlockData - 1) \div BlockData

\* ssdb::control with the value next to it (std::pair<control, T>)
NullControl(v) == [order |-> 0, load_block |-> 0, load_count |-> 0,
                   new_block |-> 0, new_count |-> 0, val |-> v]

\* The block whose tuple an entry contributes to the combined hash.
EntryPos(e) == IF e.new_count # 0 THEN e.new_block ELSE e.load_block

VARIABLES
  disk, file,                   \* durable and cached block contents
  m_map, m_free, m_error, m_lastf, m_order, m_flush, m_hash,
  pc,                           \* where the thread holding m_mutex is
  w_flush, w_modify,            \* writer::m_flush, writer::m_modify
  pending,                      \* entries the current write loop has left
  fin_pos,                      \* finalize(): new_pos of the new terminator
  committed,                    \* map of the last durable terminator
  inflight,                     \* map the terminator being written commits
  crashes, ioErrors

umap  == <<m_map, m_free, m_error, m_lastf, m_order, m_flush, m_hash>>
ctl   == <<pc, w_flush, w_modify, pending, fin_pos>>
ghost == <<committed, inflight, crashes, ioErrors>>
vars  == <<disk, file, umap, ctl, ghost>>

\* sfs::view::m_count of a contiguous file
FileCount(f) == Cardinality({i \in Blocks : f[i] # Absent})

(***************************************************************************)
(* reload(): one pass over the blocks of the file.  A pass's state is the *)
(* members it resets (m_map, m_free, m_hash, m_order, m_lastf), m_error,  *)
(* which it only adds bits to, and the local last_hash.                   *)
(***************************************************************************)
ScanInit(count, err) ==
  [map |-> EmptyMap,
   free |-> AddFree(EmptyMap, count, U(0 - count)),
   hash |-> {}, order |-> 0, lastf |-> NoBlock, lasthash |-> {}, error |-> err,
   next |-> 0]

MinOf(a, b) == IF a < b THEN a ELSE b

\* m_error |= bit; add_free(from, n)
Discard(st, bit, from, n) ==
  [st EXCEPT !.error = IF bit = 0 THEN @ ELSE @ \cup {bit},
             !.free = AddFree(@, from, n)]

\* The continuation loop.  It reads block i, which on its first iteration
\* is the head block itself, and advances i with j; every iteration that
\* goes on takes BlockData off size, so the loop stops at the first i where
\* size is down to one block, the file ends, or block i is not a
\* continuation of order o.  size is what the head left.
ReadRun(blocks, count, blk, o, size, st) ==
  LET left(i)  == size - (i - blk) * BlockData
      going(i) == left(i) > BlockData /\ i + 1 < count
      broken(i) == ~Readable(blocks[i]) \/ blocks[i].order # o
                     \/ blocks[i].size # CONT
      s == Min({i \in blk..(count - 1) : ~going(i) \/ broken(i)})
  IN [i |-> s, size |-> left(s),
      st |-> IF going(s) THEN Discard(st, 8, blk, s + 1 - blk) ELSE st]

\* A record head read at _block = blk, ending at block i: keep it if it is
\* newer than what m_map holds for its key, freeing what it replaces.
Accept(st, b, blk, i) ==
  LET k   == b.key
      cur == IF k \in DOMAIN st.map THEN st.map[k] ELSE NullControl(b.val)
      n   == i + 1 - blk
      new == [cur EXCEPT !.order = b.order, !.load_block = blk,
                         !.load_count = n, !.val = b.val]
      old == IF cur.order # 0 THEN {<<cur.order, cur.load_block>>} ELSE {}
  IN IF cur.order < b.order
     THEN [st EXCEPT !.map  = (k :> new) @@ @,
                     !.hash = SymDiff(SymDiff(@, old), {<<b.order, blk>>}),
                     !.free = IF cur.order # 0
                              THEN AddFree(@, cur.load_block, cur.load_count)
                              ELSE @]
     ELSE [st EXCEPT !.map  = (k :> cur) @@ @,
                     !.free = AddFree(@, blk, n)]

\* A terminator read at block i.
Terminator(st, b, i, flush) ==
  IF flush = PASS1 /\ b.order > st.order
  THEN [st EXCEPT !.free = AddFree(@, st.lastf, 1), !.lasthash = b.hash,
                  !.order = b.order, !.lastf = i]
  ELSE IF flush = b.order
  THEN [st EXCEPT !.lasthash = b.hash, !.lastf = i]
  ELSE Discard(st, 0, i, 1)

\* Mutant: the rollback and salvage passes do not remember the largest order.
TrackMaxNone(st, b, flush) == st

\* Outside the first pass, m_order becomes the largest order seen on disk.
TrackMax(st, b, flush) ==
  IF flush # PASS1 /\ b.order > st.order THEN [st EXCEPT !.order = b.order] ELSE st

\* One iteration of the block loop of reload(), for block i; st.next is
\* the loop's i, which the continuation loop may have moved past i.
ScanBlock(blocks, count, flush, i, st) ==
  LET b     == blocks[i]
      at(s, nxt) == [s EXCEPT !.next = nxt]
  IN
  IF i < st.next THEN st
  ELSE IF ~Readable(b) THEN at(Discard(st, 1, i, 1), i + 1)
  ELSE IF b.order = 0 THEN at(Discard(st, 2, i, 1), i + 1)
  ELSE IF b.size = CONT THEN at(Discard(st, 0, i, 1), i + 1)
  ELSE
  LET st1 == TrackMax(st, b, flush)
  IN IF b.order > flush THEN at(Discard(st1, 4, i, 1), i + 1)
     ELSE IF b.size = 0 THEN at(Terminator(st1, b, i, flush), i + 1)
     ELSE LET r == ReadRun(blocks, count, i, b.order,
                           b.size - MinOf(b.size, BlockData), st1)
          IN IF r.size # 0
             THEN at([r.st EXCEPT !.error = @ \cup {16}], r.i + 1)
             ELSE at(Accept(r.st, b, i, r.i), r.i + 1)

\* One pass of reload() with m_flush = flush.
Scan(blocks, count, flush, err) ==
  LET pass[i \in 0..count] ==
        IF i = 0 THEN ScanInit(count, err)
        ELSE ScanBlock(blocks, count, flush, i - 1, pass[i - 1])
  IN pass[count]

\* The members a pass leaves, with m_flush set to flush.
Finish(st, flush) ==
  [map |-> st.map, free |-> st.free, hash |-> st.hash, order |-> st.order,
   lastf |-> st.lastf, error |-> st.error, flush |-> flush]

\* reload() after the rollback pass p2: done if its hash matches, else
\* the salvage pass, which sets error bit 32 and m_flush to 0.
AfterRollback(blocks, count, p2) ==
  IF p2.hash = p2.lasthash THEN Finish(p2, p2.order)
  ELSE LET p3 == Scan(blocks, count, PASS3, p2.error)
       IN Finish([p3 EXCEPT !.error = @ \cup {32}], 0)

\* reload() after the optimistic pass p1: done if its hash matches, else
\* the rollback pass with m_flush set to the last terminator's order.
AfterOptimistic(blocks, count, p1) ==
  IF p1.hash = p1.lasthash THEN Finish(p1, p1.order)
  ELSE AfterRollback(blocks, count, Scan(blocks, count, p1.order, p1.error))

\* reload(): the optimistic, rollback and salvage passes; the result is
\* the umap's members after it.
Reload(blocks, count) ==
  AfterOptimistic(blocks, count, Scan(blocks, count, PASS1, {}))

(***************************************************************************)
(* The state machine.  One thread at a time holds m_mutex, so the steps   *)
(* of read(), write(), flush() and ~umap() never interleave; pc says      *)
(* where in such a call the holder is.  A crash can happen at any point.  *)
(***************************************************************************)
EmptyDisk == [i \in Blocks |-> Absent]

\* the file's size in blocks after a crash: up to the last block written
EndOf(d) == IF \A i \in Blocks : d[i] = Absent THEN 0
            ELSE 1 + Max({i \in Blocks : d[i] # Absent})

CurMap   == [k \in DOMAIN m_map |-> m_map[k].val]
\* what a terminator written now commits: the entries in the combined hash
Snapshot == [k \in {j \in DOMAIN m_map : m_map[j].order # 0} |-> m_map[k].val]
DirtyKeys == {k \in DOMAIN m_map : m_map[k].order = 0}

\* umap::dirty() applied to the combined hash
DirtyHash(h, e) == IF e.order # 0 THEN SymDiff(h, {<<e.order, EntryPos(e)>>})
                   ELSE h

\* Room for every key's write and a terminator below MaxOrder.
OrderRoom == m_order + Cardinality(Keys) + 1 <= MaxOrder

\* umap::init() on an empty file: reload(), then finalize() as m_lastf = -1.
Opened(r) ==
  /\ m_map = r.map /\ m_free = r.free /\ m_error = r.error /\ m_lastf = r.lastf
  /\ m_order = r.order /\ m_flush = r.flush /\ m_hash = r.hash
  /\ pc = IF r.lastf = NoBlock THEN "fin_start" ELSE "idle"

Init ==
  /\ disk = EmptyDisk /\ file = EmptyDisk
  /\ Opened(Reload(EmptyDisk, 0))
  /\ w_flush = FALSE /\ w_modify = FALSE /\ pending = {} /\ fin_pos = NoBlock
  /\ committed = EmptyMap /\ inflight = EmptyMap
  /\ crashes = 0 /\ ioErrors = 0

\* umap::write(op) and umap::flush(op): take m_mutex, construct the writer.
BeginWrite ==
  /\ pc = "idle"
  /\ \E fl \in BOOLEAN : w_flush' = fl
  /\ pc' = "scope" /\ w_modify' = FALSE
  /\ UNCHANGED <<disk, file, umap, pending, fin_pos, ghost>>

\* umap::flush() and ~umap(): finalize() under m_mutex.
Flush ==
  /\ pc = "idle"
  /\ pc' = "fin_start"
  /\ UNCHANGED <<disk, file, umap, w_flush, w_modify, pending, fin_pos, ghost>>

\* writer::operator[] and writer::add<true> on a present key: dirty() it,
\* then the caller stores v through the pointer returned.
Modify(k, v) ==
  /\ pc = "scope" /\ k \in DOMAIN m_map /\ OrderRoom
  /\ m_hash' = DirtyHash(m_hash, m_map[k])
  /\ m_map' = [m_map EXCEPT ![k].order = 0, ![k].val = v]
  /\ w_modify' = TRUE
  /\ UNCHANGED <<disk, file, m_free, m_error, m_lastf, m_order, m_flush,
                 pc, w_flush, pending, fin_pos, ghost>>

\* writer::add on an absent key: emplace a null control holding v.
Insert(k, v) ==
  /\ pc = "scope" /\ k \notin DOMAIN m_map /\ OrderRoom
  /\ m_map' = m_map @@ (k :> NullControl(v))
  /\ w_modify' = TRUE
  /\ UNCHANGED <<disk, file, m_free, m_error, m_lastf, m_order, m_flush,
                 m_hash, pc, w_flush, pending, fin_pos, ghost>>

\* ~writer(): if modified, write every entry whose order is 0.
EndScope ==
  /\ pc = "scope"
  /\ IF w_modify THEN pc' = "drop" /\ pending' = DirtyKeys
     ELSE pc' = (IF w_flush THEN "fin_start" ELSE "idle") /\ UNCHANGED pending
  /\ UNCHANGED <<disk, file, umap, w_flush, w_modify, fin_pos, ghost>>

\* How many of a run's cnt blocks write_block() stores before one fails.
WriteOutcomes(cnt) == IF ioErrors < MaxIOErr THEN 0..cnt ELSE {cnt}

\* write(): every block of the run at pos is written with order ord.
WriteDone(k, ord, pos, cnt, h1, f2) ==
  /\ m_map' = [m_map EXCEPT ![k].order = ord, ![k].new_block = pos,
                             ![k].new_count = cnt]
  /\ m_hash' = SymDiff(h1, {<<ord, pos>>})
  /\ m_order' = ord /\ m_free' = f2
  /\ UNCHANGED m_error

\* Mutant: the failure path frees the run but keeps it as the entry's run.
WriteFailedNoReset(k, pos, cnt, h1, f2) ==
  /\ m_map' = [m_map EXCEPT ![k].order = 0, ![k].new_block = pos,
                             ![k].new_count = cnt]
  /\ m_hash' = h1
  /\ m_free' = AddFree(f2, pos, cnt)
  /\ m_error' = m_error \cup {64}
  /\ UNCHANGED m_order

\* Mutant: the failure path takes m_order back twice.
WriteFailedOrderBack(k, pos, cnt, h1, f2) ==
  /\ m_map' = [m_map EXCEPT ![k].order = 0, ![k].new_block = 0,
                             ![k].new_count = 0]
  /\ m_hash' = h1
  /\ m_free' = AddFree(f2, pos, cnt)
  /\ m_error' = m_error \cup {64}
  /\ m_order' = m_order - 1

\* write(): a block write failed: free the run, take the order out of the
\* combined hash (h1 is the hash before it went in) and give it back.
WriteFailed(k, pos, cnt, h1, f2) ==
  /\ m_map' = [m_map EXCEPT ![k].order = 0, ![k].new_block = 0,
                             ![k].new_count = 0]
  /\ m_hash' = h1
  /\ m_free' = AddFree(f2, pos, cnt)
  /\ m_error' = m_error \cup {64}
  /\ UNCHANGED m_order

\* umap::write(item): dirty() it, take the next order, move it to a run of
\* the right length if its new run has another (get_free() throwing
\* bad_alloc ends the process), and write the run; a block write failing
\* frees the run and takes the entry out of the hash and m_order back.
WriteEntry(k) ==
  LET e    == m_map[k]
      size == RecSize[e.val]
      cnt  == BlocksFor(size)
      h1   == DirtyHash(m_hash, e)
      ord  == m_order + 1
      move == e.new_count # cnt
      f1   == IF move THEN AddFree(m_free, e.new_block, e.new_count) ELSE m_free
      g    == GetFree(f1, cnt)
      pos  == IF move THEN g.pos ELSE e.new_block
      f2   == IF move THEN g.map ELSE f1
  IN IF move /\ ~g.ok
     THEN /\ pc' = "dead"
          /\ UNCHANGED <<disk, file, umap, w_flush, w_modify, pending, fin_pos, ghost>>
     ELSE \E stop \in WriteOutcomes(cnt) :
       LET n == IF pos > FileCount(file) THEN 0 ELSE stop
       IN /\ Assert(pos + cnt <= UMAX, "run beyond the modelled file")
          /\ file' = [i \in Blocks |->
                        IF i \in pos..(pos + n - 1)
                        THEN IF i = pos THEN DataHead(ord, size, k, e.val) ELSE Cont(ord)
                        ELSE file[i]]
          /\ ioErrors' = IF stop < cnt /\ pos <= FileCount(file) THEN ioErrors + 1 ELSE ioErrors
          /\ IF n = cnt THEN WriteDone(k, ord, pos, cnt, h1, f2)
                        ELSE WriteFailed(k, pos, cnt, h1, f2)
          /\ pending' = pending \ {k}
          /\ UNCHANGED <<disk, m_lastf, m_flush, pc, w_flush, w_modify, fin_pos,
                         committed, inflight, crashes>>

\* ~writer(): the write loop, in the map's (unspecified) iteration order.
DropWrite ==
  /\ pc = "drop"
  /\ \E k \in pending : WriteEntry(k)

\* ~writer(): after the loop, finalize() if constructed with flush.
DropDone ==
  /\ pc = "drop" /\ pending = {}
  /\ pc' = IF w_flush THEN "fin_start" ELSE "idle"
  /\ UNCHANGED <<disk, file, umap, w_flush, w_modify, pending, fin_pos, ghost>>

\* Mutant: the early return of finalize() tests m_order < m_flush.
FinStartStrict ==
  /\ pc = "fin_start"
  /\ IF m_order < m_flush
     THEN pc' = "idle" /\ UNCHANGED pending
     ELSE pc' = "fin_write" /\ pending' = DirtyKeys
  /\ UNCHANGED <<disk, file, umap, w_flush, w_modify, fin_pos, ghost>>

\* finalize(): nothing to do unless m_order > m_flush; else write every
\* entry whose order is 0.
FinStart ==
  /\ pc = "fin_start"
  /\ IF m_order <= m_flush
     THEN pc' = "idle" /\ UNCHANGED pending
     ELSE pc' = "fin_write" /\ pending' = DirtyKeys
  /\ UNCHANGED <<disk, file, umap, w_flush, w_modify, fin_pos, ghost>>

FinWrite ==
  /\ pc = "fin_write"
  /\ \E k \in pending : WriteEntry(k)

\* Mutant: the terminator is written without the data flush before it.
FinTermNoFlush ==
  /\ pc = "fin_write" /\ pending = {}
  /\ LET g == GetFree(m_free, 1) IN
     /\ g.ok /\ g.pos <= FileCount(file)
     /\ file' = [file EXCEPT ![g.pos] = Term(m_order + 1, m_hash)]
     /\ m_order' = m_order + 1 /\ m_free' = g.map /\ fin_pos' = g.pos
  /\ inflight' = Snapshot /\ pc' = "fin_commit"
  /\ UNCHANGED <<disk, m_map, m_error, m_lastf, m_flush, m_hash, w_flush,
                 w_modify, pending, committed, crashes, ioErrors>>

\* finalize(): flush, take a block for the terminator and write it with
\* the next order and the combined hash; a failed write gives the block
\* and the order back and returns.
FinTerm ==
  /\ pc = "fin_write" /\ pending = {}
  /\ disk' = file
  /\ LET g   == GetFree(m_free, 1)
         pos == g.pos
     IN IF ~g.ok
        THEN /\ pc' = "dead"
             /\ UNCHANGED <<file, umap, w_flush, w_modify, pending, fin_pos, ghost>>
        ELSE \E stop \in WriteOutcomes(1) :
          IF stop = 0 \/ pos > FileCount(file)
          THEN /\ m_error' = m_error \cup {128}
               /\ m_free' = AddFree(g.map, pos, 1)
               /\ pc' = "idle"
               /\ ioErrors' = IF stop = 0 /\ pos <= FileCount(file) THEN ioErrors + 1 ELSE ioErrors
               /\ UNCHANGED <<file, m_map, m_lastf, m_order, m_flush, m_hash,
                              w_flush, w_modify, pending, fin_pos,
                              committed, inflight, crashes>>
          ELSE /\ file' = [file EXCEPT ![pos] = Term(m_order + 1, m_hash)]
               /\ m_order' = m_order + 1
               /\ m_free' = g.map
               /\ fin_pos' = pos
               /\ inflight' = Snapshot
               /\ pc' = "fin_commit"
               /\ UNCHANGED <<m_map, m_error, m_lastf, m_flush, m_hash,
                              w_flush, w_modify, pending, committed, crashes,
                              ioErrors>>

\* finalize(), "Update free space": add_free() of each replaced run, in the
\* map's iteration order; the runs are disjoint, so the order is immaterial.
RECURSIVE FreeLoads(_, _)
FreeLoads(f, S) ==
  IF S = {} THEN f
  ELSE LET k == CHOOSE j \in S : TRUE
       IN FreeLoads(AddFree(f, m_map[k].load_block, m_map[k].load_count), S \ {k})

\* Mutant: every loaded run is freed, not only the replaced ones.
FinCommitFreeAll ==
  /\ pc = "fin_commit"
  /\ disk' = file
  /\ m_free' = FreeLoads(AddFree(m_free, m_lastf, 1), DOMAIN m_map)
  /\ m_lastf' = fin_pos
  /\ m_flush' = m_order
  /\ m_map' = [k \in DOMAIN m_map |->
                 IF m_map[k].new_count # 0
                 THEN [m_map[k] EXCEPT !.load_block = m_map[k].new_block,
                                       !.load_count = m_map[k].new_count,
                                       !.new_block = 0, !.new_count = 0]
                 ELSE m_map[k]]
  /\ committed' = inflight
  /\ pc' = "idle"
  /\ UNCHANGED <<file, m_error, m_order, m_hash, w_flush, w_modify, pending,
                 fin_pos, inflight, crashes, ioErrors>>

\* finalize(): the second flush commits the terminator; the previous one
\* and every replaced run become free, and new runs become loaded runs.
FinCommit ==
  LET moved == {k \in DOMAIN m_map : m_map[k].new_count # 0} IN
  /\ pc = "fin_commit"
  /\ disk' = file
  /\ m_free' = FreeLoads(AddFree(m_free, m_lastf, 1), moved)
  /\ m_lastf' = fin_pos
  /\ m_flush' = m_order
  /\ m_map' = [k \in DOMAIN m_map |->
                 IF k \in moved
                 THEN [m_map[k] EXCEPT !.load_block = m_map[k].new_block,
                                       !.load_count = m_map[k].new_count,
                                       !.new_block = 0, !.new_count = 0]
                 ELSE m_map[k]]
  /\ committed' = inflight
  /\ pc' = "idle"
  /\ UNCHANGED <<file, m_error, m_order, m_hash, w_flush, w_modify, pending,
                 fin_pos, inflight, crashes, ioErrors>>

\* The file after a crash: a gap below the last block reads as zeros.
Zeroed(d) == [i \in Blocks |-> IF i < EndOf(d) /\ d[i] = Absent THEN Bad ELSE d[i]]

\* umap::init() on the file d, given the outcome r of reload() on it:
\* finalize() follows if no terminator was found.
Restart(d, r) ==
  /\ disk' = d /\ file' = d
  /\ m_map' = r.map /\ m_free' = r.free /\ m_error' = r.error
  /\ m_lastf' = r.lastf /\ m_order' = r.order /\ m_flush' = r.flush
  /\ m_hash' = r.hash
  /\ pc' = IF r.lastf = NoBlock THEN "fin_start" ELSE "idle"

Reopen(d) == Restart(d, Reload(d, EndOf(d)))

\* The process ends at any point (power loss, kill, or close) and the file
\* is opened again by umap::init(): of the blocks written since the last
\* flush, any subset reached the disk.
Crash ==
  /\ crashes < MaxCrash
  /\ \E kept \in SUBSET {i \in Blocks : file[i] # disk[i]} :
       /\ Reopen(Zeroed([i \in Blocks |-> IF i \in kept THEN file[i] ELSE disk[i]]))
       /\ committed' = IF pc = "fin_commit" /\ fin_pos \in kept
                       THEN inflight ELSE committed
  /\ w_flush' = FALSE /\ w_modify' = FALSE /\ pending' = {} /\ fin_pos' = NoBlock
  /\ crashes' = crashes + 1
  /\ UNCHANGED <<inflight, ioErrors>>

Next ==
  \/ BeginWrite \/ Flush \/ EndScope
  \/ \E k \in Keys, v \in Vals : Modify(k, v) \/ Insert(k, v)
  \/ DropWrite \/ DropDone
  \/ FinStart \/ FinWrite \/ FinTerm \/ FinCommit
  \/ Crash

Spec == Init /\ [][Next]_vars

-----------------------------------------------------------------------------
Control == [order : 0..MaxOrder, load_block : Blocks, load_count : 0..UMAX,
            new_block : Blocks, new_count : 0..UMAX, val : Vals]

TypeOK ==
  /\ DOMAIN m_map \subseteq Keys /\ \A k \in DOMAIN m_map : m_map[k] \in Control
  /\ m_order \in 0..MaxOrder /\ m_flush \in 0..MaxOrder
  /\ m_lastf \in Blocks \cup {NoBlock}
  /\ m_hash \subseteq (1..MaxOrder) \X Blocks
  /\ m_error \subseteq {1, 2, 4, 8, 16, 32, 64, 128}
  /\ pc \in {"idle", "scope", "drop", "fin_start", "fin_write", "fin_commit", "dead"}
  /\ pending \subseteq DOMAIN m_map
  /\ crashes \in 0..MaxCrash /\ ioErrors \in 0..MaxIOErr

\* Crash consistency, the contract of the terminator protocol: whenever the
\* process ends, reload() restores exactly the map of the last terminator
\* that reached the disk, without the salvage pass (error bit 32).
RecoversCommitted ==
  [][crashes' = crashes + 1 =>
       /\ 32 \notin m_error'
       /\ CurMap' = committed']_vars

\* The free-space map never offers a block that holds live data: a loaded
\* or new run of an entry, the current terminator, or the one finalize()
\* is committing.
LiveBlocks ==
  UNION {RunBlocks(m_map[k].load_block, m_map[k].load_count)
           \cup RunBlocks(m_map[k].new_block, m_map[k].new_count) : k \in DOMAIN m_map}
  \cup ({m_lastf} \ {NoBlock})
  \cup (IF pc = "fin_commit" THEN {fin_pos} ELSE {})

FreeDisjointLive == pc # "dead" => FreeBlocks(m_free) \cap LiveBlocks = {}

\* Every order written to the file is below the next one m_order hands
\* out, so no two block sequences ever share an order.
OrdersFresh == \A i \in Blocks : Readable(file[i]) => file[i].order <= m_order

=============================================================================
