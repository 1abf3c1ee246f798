------------------------------ MODULE SfsStream ------------------------------
(***************************************************************************)
(* The byte-stream interface of sfs::view (src/util/sfs.{hpp,cpp}): read,  *)
(* write and trunc over a file of encrypted blocks.  A block holds BS data  *)
(* bytes (block_size, 4096 - 32 in the code) and is read and written whole *)
(* through read_block/write_block; the stream operations turn offsets and  *)
(* sizes into chunks, read-modify-write partial blocks, zero-fill the gap  *)
(* before a write beyond the end, and stop at the first failing block.     *)
(*                                                                         *)
(* Encryption is abstracted to its effect: a block that does not           *)
(* authenticate is Bad and read_block fails on it.  A write_block fails    *)
(* with an I/O error (at most MaxIOErr times) and leaves the block as it   *)
(* was; or ::write writes part of the block and returns that short count,  *)
(* which write_block takes for success (at most MaxTorn times): the block  *)
(* is torn and no longer authenticates.  The view is used by one thread at a time, so each operation is    *)
(* one step; its loops are recursive operators that yield the set of       *)
(* possible outcomes.                                                      *)
(***************************************************************************)
EXTENDS Integers, Sequences, FiniteSets

CONSTANTS BS,          \* data bytes per block
          MaxBlocks,   \* blocks the file may reach
          MaxLen,      \* largest size argument of read and write
          MaxGap,      \* blocks a write may add before its offset (1 GiB)
          MaxIOErr,    \* failing block writes in a behaviour
          MaxTorn,     \* short ::write calls in a behaviour
          Vals,        \* non-zero byte values a caller writes
          Bad,         \* a block, or a byte of it, that does not authenticate
          Null         \* buf == nullptr

ASSUME /\ BS \in Nat \ {0} /\ MaxBlocks \in Nat /\ MaxLen \in Nat
       /\ MaxGap \in Nat /\ MaxIOErr \in Nat /\ MaxTorn \in Nat /\ 0 \notin Vals

Byte  == {0} \cup Vals
Block == [0..BS - 1 -> Byte]
Zeros == [k \in 0..BS - 1 |-> 0]

VARIABLES
  file,       \* plaintext of each block of the file, or Bad
  m_count,    \* view::m_count, the file size in blocks
  ioerr,      \* failed block writes so far
  torn,       \* short block writes so far
  ret         \* ghost: the last operation, its arguments and its result

vars == <<file, m_count, ioerr, torn, ret>>

\* The stream a caller sees: size() bytes, block by block.
Stream(f, n) == [p \in 0..n * BS - 1 |->
                   IF f[p \div BS] = Bad THEN Bad ELSE f[p \div BS][p % BS]]

\* view(): m_count from the file size, any block content, some blocks
\* possibly corrupt.  Blocks past the end are never read; they are zeros.
Init ==
  /\ m_count \in 0..MaxBlocks
  /\ file \in {f \in [0..MaxBlocks - 1 -> Block \cup {Bad}] :
                 \A b \in m_count..MaxBlocks - 1 : f[b] = Zeros}
  /\ ioerr = 0 /\ torn = 0
  /\ ret = [op |-> "none"]

(***************************************************************************)
(* Blocks.  st is [f, n, io, tn, fail, r]: the file, m_count, the I/O     *)
(* errors, the short writes, whether the last block write failed, and the  *)
(* value being returned.                                                   *)
(***************************************************************************)
\* read_block(b): false past the end or when the block does not
\* authenticate; otherwise its plaintext.
ReadBlock(st, b) == IF b < st.n THEN st.f[b] ELSE Bad

\* write_block(b, blk) with b <= m_count: the block is written and an
\* append grows m_count; or ::write returns a short count, which is not -1,
\* so the torn block is kept and counted as written; or the write fails
\* and nothing changes.
Stored(st, b, blk) ==
  [st EXCEPT !.f[b] = blk, !.n = IF b = st.n THEN b + 1 ELSE st.n, !.fail = FALSE]

PutBlock(st, b, blk) ==
  {Stored(st, b, blk)}
  \cup (IF st.tn < MaxTorn THEN {[Stored(st, b, Bad) EXCEPT !.tn = @ + 1]} ELSE {})
  \cup (IF st.io < MaxIOErr THEN {[st EXCEPT !.io = @ + 1, !.fail = TRUE]} ELSE {})

\* Mutant: new_rs without the rounding term for a partial last block.
BlocksFloor(size) == size \div BS

\* new_rs of alloc/trunc, in blocks: size rounded up to whole blocks.
Blocks(size) == size \div BS + (IF size % BS # 0 THEN 1 ELSE 0)

\* The growing loop of trunc(): for (i = old; i < new; i++) write_block(i,
\* zeros); a failure returns i * block_size.
RECURSIVE ZeroFill(_, _, _)
ZeroFill(st, i, new) ==
  IF i = new THEN {[st EXCEPT !.r = new * BS]}
  ELSE UNION {IF s.fail THEN {[s EXCEPT !.r = i * BS]} ELSE ZeroFill(s, i + 1, new) :
                s \in PutBlock(st, i, Zeros)}

\* trunc(new_size): nothing to do when the block count stays; shrinking is
\* one ftruncate, which may fail; growing writes encrypted zero blocks.
\* The file past the new end is gone, which the model keeps as zeros.
TruncWith(st, new) ==
  CASE new = st.n -> {[st EXCEPT !.r = st.n * BS]}
    [] new < st.n ->
         {[st EXCEPT !.n = new, !.r = new * BS,
                     !.f = [b \in DOMAIN st.f |-> IF b < new THEN st.f[b] ELSE Zeros]]}
         \cup (IF st.io < MaxIOErr THEN {[st EXCEPT !.io = @ + 1, !.r = st.n * BS]}
                                   ELSE {})
    [] OTHER -> ZeroFill(st, st.n, new)

Trunc(st, size) == TruncWith(st, Blocks(size))

(***************************************************************************)
(* read() and write(): one chunk per loop iteration.                      *)
(***************************************************************************)
\* _size = std::min(size - result, block_size - _mod)
ChunkSize(offset, rest) ==
  IF rest < BS - (offset % BS) THEN rest ELSE BS - (offset % BS)

\* Mutant: a chunk at the old end of the file is read, not started fresh.
FreshBlockPastEnd(offset, fsize, sz) == offset > fsize /\ sz < BS

\* offset >= fsize && _size < block_size: a new partial block, memset 0.
FreshBlock(offset, fsize, sz) == offset >= fsize /\ sz < BS

\* m_buf before the copy: zeros for a new partial block, the block read
\* back for another partial one (Bad when read_block fails), and zeros
\* otherwise (a whole block is written from buf or is all zeros).
WriteBase(st, offset, fsize, sz) ==
  CASE FreshBlock(offset, fsize, sz) -> Zeros
    [] sz < BS                       -> ReadBlock(st, offset \div BS)
    [] OTHER                         -> Zeros

\* The block write_block encrypts: the chunk of buf copied over m_buf at
\* _mod, or with buf == nullptr the chunk's range of m_buf zeroed.
Chunk(base, offset, sz, data, res) ==
  [k \in 0..BS - 1 |->
     IF (offset % BS) <= k /\ k < (offset % BS) + sz
       THEN IF data = Null THEN 0 ELSE data[res + k - (offset % BS) + 1]
       ELSE base[k]]

RECURSIVE WriteLoop(_, _, _, _, _, _)
WriteChunk(st, offset, res, fsize, data, size, sz, base) ==
  IF base = Bad THEN {[st EXCEPT !.r = res]}          \* partial overwrite failed
  ELSE UNION {IF s.fail THEN {[s EXCEPT !.r = res]}
              ELSE WriteLoop(s, offset + sz, res + sz, fsize, data, size) :
                s \in PutBlock(st, offset \div BS, Chunk(base, offset, sz, data, res))}

\* for (offset = _offset; result < size;) { ... }
WriteLoop(st, offset, res, fsize, data, size) ==
  IF res >= size THEN {[st EXCEPT !.r = res]}
  ELSE WriteChunk(st, offset, res, fsize, data, size,
                  ChunkSize(offset, size - res),
                  WriteBase(st, offset, fsize, ChunkSize(offset, size - res)))

\* write(_offset, buf, size): a start past the end first extends the file
\* to fneed with trunc(), refusing a gap over the limit; then the loop.
StreamWrite(st, off, data, size) ==
  LET fsize == st.n * BS
      fneed == off - (off % BS)
  IN  IF fsize < fneed
        THEN IF fneed - fsize > MaxGap * BS THEN {[st EXCEPT !.r = 0]}
             ELSE UNION {IF t.r # fneed THEN {[t EXCEPT !.r = 0]}
                         ELSE WriteLoop(t, off, 0, fneed, data, size) :
                           t \in Trunc(st, fneed)}
        ELSE WriteLoop(st, off, 0, fsize, data, size)

\* Mutant: memcpy(buf + result, m_buf, _size), the + _mod left out.
ChunkBytesFromStart(blk, offset, sz) == [k \in 1..sz |-> blk[k - 1]]

\* memcpy(buf + result, m_buf + _mod, _size)
ChunkBytes(blk, offset, sz) == [k \in 1..sz |-> blk[(offset % BS) + k - 1]]

\* read(_offset, buf, size): the bytes copied out, up to the first block
\* read_block refuses.
RECURSIVE ReadLoop(_, _, _, _)
ReadLoop(st, offset, out, size) ==
  IF Len(out) >= size \/ ReadBlock(st, offset \div BS) = Bad THEN out
  ELSE ReadLoop(st, offset + ChunkSize(offset, size - Len(out)),
                out \o ChunkBytes(st.f[offset \div BS], offset,
                                  ChunkSize(offset, size - Len(out))),
                size)

(***************************************************************************)
(* Operations.  Sizes and offsets stay within MaxBlocks blocks.            *)
(***************************************************************************)
Cur == [f |-> file, n |-> m_count, io |-> ioerr, tn |-> torn, fail |-> FALSE, r |-> 0]

Offsets == 0..MaxBlocks * BS

Take(st, r) ==
  /\ file' = st.f /\ m_count' = st.n /\ ioerr' = st.io /\ torn' = st.tn /\ ret' = r

Write ==
  \E off \in Offsets, size \in 0..MaxLen :
    /\ Blocks(off + size) <= MaxBlocks
    /\ \E data \in [1..size -> Vals] \cup {Null} :
         \E st \in StreamWrite(Cur, off, data, size) :
           Take(st, [op |-> "write", off |-> off, size |-> size, data |-> data, r |-> st.r])

TruncOp ==
  \E size \in Offsets :
    \E st \in Trunc(Cur, size) :
      Take(st, [op |-> "trunc", off |-> size, size |-> size, data |-> Null, r |-> st.r])

Read ==
  \E off \in Offsets, size \in 0..MaxLen :
    /\ ret' = [op |-> "read", off |-> off, size |-> size, data |-> Null,
               r |-> 0, out |-> ReadLoop(Cur, off, <<>>, size)]
    /\ UNCHANGED <<file, m_count, ioerr, torn>>

Next == Write \/ TruncOp \/ Read

Spec == Init /\ [][Next]_vars

(***************************************************************************)
(* The reference: what each call promises of the bytes of the stream, on  *)
(* whole-block sizes, independent of how the loops chunk the work.         *)
(***************************************************************************)
RoundUp(x) == ((x + BS - 1) \div BS) * BS

\* The end of the blocks that bytes [off, off + len) touch.
Reach(off, len) == IF len = 0 THEN 0 ELSE RoundUp(off + len)

Larger(a, b) == IF a >= b THEN a ELSE b
Smaller(a, b) == IF a <= b THEN a ELSE b

\* No byte of [off, off + len) is in a block that does not authenticate.
Readable(s, ls, off, len) == \A p \in off..off + len - 1 : p >= ls \/ s[p] # Bad

\* write() returns r <= size; the first r bytes at off hold buf (zeros for
\* a null buf), every other old byte is as it was, and every byte the file
\* gained is zero -- except that after a short ::write a byte from the
\* first block the call writes on may be Bad, which read() refuses.  The file grows to cover what was written and never
\* past the gap and the blocks the call touches.  Without an I/O error, a
\* gap within the limit and no unreadable block in the range, the whole
\* buffer is written.
WriteMeets(s, t, ls, lt, w, clean, tore) ==
  /\ w.r <= w.size
  /\ \A p \in DOMAIN t :
       \/ t[p] = CASE w.off <= p /\ p < w.off + w.r ->
                        IF w.data = Null THEN 0 ELSE w.data[p - w.off + 1]
                   [] p < ls -> s[p]
                   [] OTHER  -> 0
       \/ tore /\ t[p] = Bad /\ p >= Smaller(ls, w.off - (w.off % BS))
  /\ ls <= lt /\ Reach(w.off, w.r) <= lt
  /\ lt <= Larger(Larger(ls, w.off - (w.off % BS)), Reach(w.off, w.size))
  /\ clean /\ w.off - (w.off % BS) - ls <= MaxGap * BS
     /\ Readable(s, ls, w.off, w.size)
     => w.r = w.size

\* trunc(new_size) returns the new size(); the bytes both sizes share are
\* unchanged and the bytes gained are zero.  The size lies between the old
\* one and new_size rounded up to whole blocks, and is that rounded size
\* unless an I/O error intervened.  A short ::write may leave a gained
\* block Bad.
TruncMeets(s, t, ls, lt, w, clean, tore) ==
  /\ w.r = lt
  /\ \A p \in DOMAIN t :
       \/ t[p] = IF p < ls THEN s[p] ELSE 0
       \/ tore /\ p >= ls /\ t[p] = Bad
  /\ \/ ls <= lt /\ lt <= RoundUp(w.off)
     \/ RoundUp(w.off) <= lt /\ lt <= ls
  /\ clean => lt = RoundUp(w.off)

\* read() returns the bytes of the stream at off, as many as size asks for
\* unless it meets the end or a block that does not authenticate.
ReadMeets(s, ls, w) ==
  /\ Len(w.out) <= w.size
  /\ \A k \in 1..Len(w.out) : w.off + k - 1 < ls /\ w.out[k] = s[w.off + k - 1]
  /\ Len(w.out) < w.size => w.off + Len(w.out) >= ls \/ s[w.off + Len(w.out)] = Bad

(***************************************************************************)
(* Properties.                                                             *)
(***************************************************************************)
\* Every write() -- with its read-modify-write of partial blocks, the
\* zero-filled gap before a start past the end, the chunking by _mod and
\* _size, a null buf, a block write failing part-way, and a short ::write
\* that write_block reports as success -- changes the stream exactly as the
\* reference says: a torn block is never read back as data.
WriteContract ==
  [][ret'.op = "write" =>
       WriteMeets(Stream(file, m_count), Stream(file', m_count'),
                  m_count * BS, m_count' * BS, ret', ioerr' = ioerr, torn' > torn)]_vars

\* Every trunc() -- shrinking by ftruncate, growing by encrypted zero
\* blocks, either failing -- leaves a stream of the size it returns, with
\* the shared bytes kept and the new bytes zero.
TruncContract ==
  [][ret'.op = "trunc" =>
       TruncMeets(Stream(file, m_count), Stream(file', m_count'),
                  m_count * BS, m_count' * BS, ret', ioerr' = ioerr, torn' > torn)]_vars

\* The bytes read() copies out are the stream's bytes at the offset, and
\* it stops short only at the end or at a block read_block refuses.
ReadContract ==
  ret.op = "read" => ReadMeets(Stream(file, m_count), m_count * BS, ret)

====
