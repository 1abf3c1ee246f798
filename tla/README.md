# TLA+ models of TODOKANAI

This directory holds TLA+ models of the storage and networking code under
`src/`, the TLC configurations that check them, and `PROJECT.json`, which maps
every definition to the source lines it translates.

## The system

The repository is a small C++ messaging node. Its parts:

| Part | Source | State | Operations |
|---|---|---|---|
| `ssdb::free_space` | `src/util/ssdb.cpp` 43-147 | `std::map<block, length>` of free intervals; empty means "all 2^32 blocks free" | `add_free` (insert and coalesce, clamp at 2^32), `get_free` (best fit, split, placeholder) |
| `ssdb::combined_hash` | `ssdb.cpp` 1-41 | XOR of HMAC-SHA512 of (order, block) tuples | `combine`, `check`, `dump`, `clear` |
| `ssdb::umap` | `src/util/ssdb.hpp` | `m_map` (key → control + value), `m_free`, `m_hash`, `m_order`, `m_flush`, `m_lastf`, `m_error` | `init`/`reload`, `writer` (`operator[]`, `add`, destructor), `write`, `dirty`, `finalize`, `flush()`, `~umap` |
| `sfs::view` | `src/util/sfs.{hpp,cpp}` | encrypted 4096-byte blocks, `m_count` | `read_block`, `write_block` (fails beyond the end), `flush` (fsync), stream `read`/`write`, `trunc` |
| `sstl` | `src/util/sstl.hpp` | a cursor (`begin`, `end`) over a byte buffer and, when reading, the document level | `save` (probe, then write), the `traverse` specialisations, `skip`, `drop`, `read_size`, `null`, `name` |
| `lfs::list` | `ssdb.cpp` 148-266 | atomic head pointer | `push` (CAS loop), `pop_all`, `apply` (reverse to FIFO) |
| `to::socket_thread`, `to::server_thread` | `src/to_socket.{hpp,cpp}` | thread state, wake-up pipe, socket | `start`, `terminate`, poll loop calling a callback, accept loop |
| `to::master_key`, `to::pubkey` | `src/to_key.hpp`, `src/unnamed/*` | key material | generation, encryption, base57 text form |

How they interact: `umap` is the persistent database. It stores each record as
a run of `sfs::view` blocks with an increasing *order*, and it allocates runs
from `free_space`. A generation is committed by a *terminator* block. This
block holds the combined hash of the (order, block) tuples of every live
record. On open, `reload()` makes up to three passes:

1. **Optimistic pass.** It trusts the newest terminator.
2. **Rollback pass.** It drops every block newer than that terminator.
3. **Salvage pass.** It accepts every readable block and sets error bit 32.

`lfs::list` and the socket threads are the node's concurrency layer. They do
not touch the database.

### Hard behaviours, and what must hold

- **Crash consistency of umap.** A crash can keep any subset of the blocks
  written since the last `fsync`. Reload must then give back exactly the
  last committed generation, and must not need the salvage pass.
- **Write failures.** `write()` and `finalize()` have failure paths. Each one
  gives back blocks, hash tuples and orders. Live data must never end up in
  free space, and no order may be handed out twice.
- **Allocator arithmetic.** Interval lengths are 32-bit, and the empty map
  stands for 2^32 free blocks. Coalescing and clamping must keep the map an
  exact, coalesced picture of the free set.
- **Concurrency** (lock-free stack, wake-up pipe of the poll loop). Pushes
  must not be lost or delivered twice, even when `delete` hands an address
  back to a later `new` (ABA). `apply` must deliver in push order. A
  `signal()` must lead to a callback, and `terminate()` must eventually
  return.
- **Format compatibility (sstl).** Records written by one program version
  are read by another. A reader must skip whatever it does not know
  (names, added fields, documents past `max_level`), stay in step with the
  writer byte for byte, and keep defaults where the header promises them.

## Modules

- `FreeSpaceOps.tla`: `add_free` and `get_free` as pure operators on a map
  from block to length.
  - All arithmetic is modulo `2^Width`. The model keeps the code's wrap-around
    with `Width` bits instead of 32.
  - `AddFree` is composed of `ClampLen`, `MergePrev` and `MergeNext`, following
    the code's three steps.
  - `GetFree` is composed of `BestFit` and `TakeRun`, and includes the
    empty-map default.
- `FreeSpaceAbs.tla`: the abstract allocator. It is a set of free blocks, where
  `Allocate(c)` takes any c contiguous free blocks and `Release` returns a held
  run.
- `FreeSpace.tla`: the allocator driven the way `umap` drives it.
  - Init rebuilds the map as `reload()` does, from a file of `MinFile..MaxFile`
    blocks with any set of holes.
  - Actions: `Allocate` (`get_free` in `write`/`finalize`), `Release`
    (`add_free` of a run), and `ReleaseSentinel` (`add_free(m_lastf, 1)` with
    `m_lastf = -1`).
  - It refines `FreeSpaceAbs` under the mapping
    `freeSet <- FreeBlocks(m_free) \ {UMAX}`.
- `LSK.tla`: `ssdb::umap` over a block file with a page cache.
  - `file` is what the process reads and writes. `disk` is what survives a
    power loss. `flush` (fsync) copies `file` to `disk`.
  - A block is a record: a data head (order, size, key, value), a continuation
    (order, size -1), or a terminator (order, size 0, hash). A block that
    fails authentication is `Bad`. The combined hash is the *set* of its
    tuples, with XOR as symmetric difference.
  - `Reload` translates all three passes of `reload()`, sentinels included:
    `AfterOptimistic` and `AfterRollback` decide between the passes.
  - `Scan` is the block loop, written as a recursive function over the
    blocks; `ScanBlock` is one iteration. A cursor `next` stands for the
    `i` that the continuation loop advances. That loop, `ReadRun`, is in
    closed form, because every iteration that continues takes exactly
    `BlockData`.
  - `Accept`, `Terminator` and `TrackMax` are the branches of an iteration.
  - The thread holding `m_mutex` moves through `pc` as follows:
    - `BeginWrite` (`write(op)` / `flush(op)`); then `Modify`
      (`writer::operator[]`, `add<true>`) and `Insert` (`add` of a new key).
    - `EndScope` (`~writer`), then `DropWrite`* and `DropDone`.
    - `FinStart`, `FinWrite`*, `FinTerm` and `FinCommit` (the steps of
      `finalize()`). `Flush` is `flush()` and `~umap`.
  - `WriteEntry` is the whole of `write(item)`, including its failure path
    (`WriteFailed`) and `get_free` throwing, which ends the process.
  - `Crash` ends the process at any point, keeps any subset of the unflushed
    blocks, and runs `init()` (reload, then finalize if there is no
    terminator). The ghost variables `committed` and `inflight` record the map
    of the last durable terminator.
- `MCLSK.tla`: model values and record-size tables for TLC.
- `LfsList.tla`: `lfs::list` across pusher and consumer threads.
  - `head` is `m_head`. `mem` maps each address to a node (`link`, `data`)
    or to `NoNode`; `new` takes any free address, so addresses are reused.
  - `PushStart` is the load and the `new`; `PushCas` is one iteration of
    the CAS loop, and a failed CAS relinks the node to the head it found.
  - `ApplyLoad` is `m_head.load()`; `ApplyTake` is the exchange plus the
    in-place reversal (`Reversed`, `RevLoop`), which touches only nodes the
    consumer now owns. `ApplyStep` is one iteration of the `for` loop: `func`
    on the data, then `pop_all` detaches and deletes the node.
  - `PopAll` is `list::pop_all` with the `unique_ptr` dropped at once, so
    `~list_item` deletes the chain.
  - Ghosts: `applied` and `taken` are what each consumer received.
  - It refines `LfsStack` under this mapping:
    - the stack is the chain from `head` (`Elems`);
    - a pusher's count of pushes that took effect leaves out a push still in
      its CAS loop;
    - a consumer's pending elements are the rest of the chain its `for` loop
      walks.
- `LfsStack.tla`: the atomic stack that `lfs::list` promises. `Push` puts a
  pusher's next element on top. `Take` (`apply`'s exchange) moves the whole
  stack, reversed, to the consumer. `Deliver` passes the oldest pending
  element to `func`. `Discard` is `pop_all`.
- `MCLfsList.tla`: two pushers, two consumers, three addresses, symmetry.
- `SocketThread.tla`: `socket_thread` (POSIX branch) with its owner thread,
  `signal()` callers, and the socket and peer as environment.
  - The worker's `wpc` walks the client lambda (`CLoop`: resolve loop,
    `CConnect`: reconnection loop) and `task()` one system call at a time:
    `Poll` (poll over the socket and the pipe), `Check` (the rest of the
    `while` condition, read after poll returned), `Drain` (one `read` of the
    signal loop), `ConnCheck` (`SO_ERROR` of a pending connect), and
    `Callback` (`on_check` and the switch on its result). Then come `CDone`
    and `SDone`, the clean-up after `task()` returns.
  - The owner: `StartClient`, `StartServer`, and `terminate()` as `TermBegin`
    (sets `m_state`), `TermWrite` (the wake-up byte), `TermJoin`, and
    `TermDrain` (empties the pipe, resets `m_timeout` to -1).
  - `pipe` counts unread bytes. A write to a full pipe (`PipeCap`) is lost,
    as the non-blocking write in the code is.
  - `CbEffect` is what a callback may do besides returning: read or write
    the socket dry, and `set_timeout` to the callback's value.
  - `cb` is the callback the last `start()` installed, by the `m_timeout`
    it leaves behind (-1: it never sets one; 20: it keeps 20 ms). Each
    start picks one from `CbTimeouts`, as callers pass different lambdas.
  - `ConnectResolves` is the kernel finishing a non-blocking connect. A
    refusal is reported either with `POLLERR`/`POLLHUP` or only through
    `POLLOUT` and `SO_ERROR`, which is the branch `ConnCheck` handles.
  - `session` is a ghost: `on_check` has run on the current connection
    (`Callback`) and `on_check(terminate)` (`CDone`, `SDone`) has not yet.
- `MCSocketThread.tla`: the sets of timeouts a callback sets.
- `Sstl.tla`: the `sstl` format and its reader, as `umap` uses them.
  - A type is a record: bool, an integer of `w` bytes (`sizeof(T)`), a
    `size_type`, a byte string, a `unique_ptr`, a vector of a complex type,
    a `std::set`, a `std::deque` (written without a count: its elements
    inside a document, read until the terminator), or a class (`doc`) whose `serialize` calls `ctx` on a list of items; an
    item is a type, `null()` or `name(str)`.
  - The writers (`EncInt`, `EncBool`, `EncSize`, `EncStr`, `EncDoc`,
    `EncVec`, `EncSet`, `EncDeque`, with `write_sized`) give the bytes a `traverse<writing>`
    writes. The readers (`ReadInt`, `ReadBool`, `ReadSize`, `ReadStr`,
    `ReadName`, `ReadDoc`/`DecDoc`, `ReadContainer`/`DecContainer`/`DecElems`, where
    `Insert` is the vector's `emplace_back` or the set's `emplace_hint`) and
    `skip`, `drop`, `read_size` are RECURSIVE operators that move a cursor
    exactly as `context_data::begin` moves, with the document level of
    `psize` and the `max_level` cut.
  - State: the record (`rec`) that some version (`ver`) saved, with its
    key and value, and the result of the last load (`out`) by version
    `rver`. `Load` is `umap`'s reload (key into `K key{}`, value into
    `pair.second = {}`); `Save` is `umap::write` of the entry the loader
    holds.
  - `Expect` is the header's compatibility promise over types: the written
    value where the writer has a matching item at the same position, the
    default where it does not, and defaults at `max_level` or deeper.
- `MCSstl.tla`: three versions of a class and two of a nested class,
  evolved by the header's rules (append, replace by `null()`, a name before
  an added item, a `std::set<int8>` appended in version 3), and the byte
  values. The key is a `std::deque<std::string>` (`DequeKey`), so the
  count-free encoding of a deque is loaded before every value.
- `ServerThread.tla`: `server_thread` (POSIX branch), its owner, and the
  clients.
  - `fds` is `fds[1..]` of the code. Each slot is an accepted socket, or
    `NoFd` once it has been handled. `lrev` is the listener's revents.
  - `Poll` is the `while` condition: a 20 ms poll, then the error and
    `m_state` tests. `WindUp` closes the listener, drops the local `fds` and
    sets `m_state`.
  - `Accept` is one `::accept` of the inner loop.
  - `Scan` is one iteration of the `for` loop. Its `HandleSlot` closes the
    socket on an error bit, or runs the preliminary `on_accept` check and
    then the real `on_accept`.
  - `Compact` is the three clean-up branches (`resize(1)`, erase-remove,
    `TrimBack`).
  - Ghosts: `handed`, `closed` and `leaked` record who ends up owning each
    accepted socket.
- `MCServerThread.tla`: four connections and their symmetry.
- `SfsStream.tla`: the stream API of `sfs::view`: `write`, `trunc` and
  `read` over the blocks that `read_block` and `write_block` move.
  - `file` is the plaintext of each block, or `Bad` for a block that does
    not authenticate. `m_count` is the size in blocks. `BS` stands for
    `block_size`.
  - `ReadBlock` and `PutBlock` are the two block calls. A `PutBlock` may
    fail (at most `MaxIOErr` times); the failure leaves the block as it was.
    It may also be torn (at most `MaxTorn` times). POSIX `::write` returns
    a short count, which is not -1, so `write_block` reports success and
    grows `m_count` on an append (`Stored`), but the block is `Bad`.
  - Under a tear, the reference allows `Bad` bytes only from the first block
    the call writes on. `read` must refuse them.
  - Each call is one action. Its loop is a RECURSIVE operator that yields
    the set of possible outcomes: `ZeroFill` for the growth of `trunc`,
    `WriteLoop`/`WriteChunk` for `write`, and `ReadLoop` for `read`.
    `StreamWrite` is the gap fill before the loop (`trunc(fneed)`, refused
    past `MaxGap` blocks, the 1 GiB limit).
  - `WriteBase` and `Chunk` are the read-modify-write of a partial block:
    zeros for a new block, the block read back for an old one, then buf (or
    zeros for a null buf) copied in at `_mod`.
  - The ghost `ret` holds the last call, its arguments and its result. The
    properties compare each call with a byte-level reference (`WriteMeets`,
    `TruncMeets`, `ReadMeets`). The reference is written from the header's
    comments and the meaning of each call, not from the loops.
- `MCSfsStream.tla`: the byte values.

### Order of work (plan)

1. Done: free_space (FreeSpaceOps, FreeSpace, FreeSpaceAbs); umap with
   crashes and write failures (LSK).
2. Next:
   - torn blocks as a crash option in LSK;
   - done: `sfs::view` stream read/write/trunc (SfsStream). It is not
     composed under LSK, because umap uses only the block calls;
   - an abstract key/value spec that LSK refines between commits.
3. Done: `lfs::list` (LfsList, which refines LfsStack); `socket_thread` (SocketThread).
4. Done: `server_thread` (ServerThread). Next: a liveness check that a
   readable socket is served, which needs a run without symmetry.
5. Done: the sstl format and reader across versions (Sstl). Next: base57
   encode/decode as RECURSIVE operators checked against their
   specification (round trip, canonical form).

## Runs

| Run | Cfg | Expect | What it shows |
|---|---|---|---|
| free_space | `FreeSpace.cfg` | pass | On maps rebuilt from files of 1..3 blocks, with holes: intervals stay coalesced, allocation never fails while space exists, and the allocator refines `FreeSpaceAbs`. |
| free_space_new_file | `FreeSpaceNewFile.cfg` | violation | On a new file, allocate one block and free it: the interval's length wraps to 0, and the next `get_free` throws. |
| umap_crash | `LSK.cfg` | pass | Single-block records, one crash anywhere, one failed block or terminator write. Reload restores the last durable terminator's map without salvage (`RecoversCommitted`). Free space never covers live blocks (`FreeDisjointLive`). No block carries an order above `m_order` (`OrdersFresh`); with single-block records only, this run cannot reach a write that fails after the first block of a run (`ssdb.hpp:367`), which would break it. |
| umap_multi_block | `LSKMultiBlock.cfg` | violation | A committed two-block record is dropped by reload (error 16), which then salvages. |
| umap_failed_write_salvage | `LSKFailedWriteSalvage.cfg` | violation | A loaded entry's write fails, then its retry in `finalize()` fails. The terminator leaves out the entry's run, so the next open salvages. |
| umap_two_crashes | `LSKTwoCrashes.cfg` | violation | The rollback pass frees an uncommitted block but leaves it on disk. After the next commit and a second crash, salvage brings it back. |
| lfs_list | `LfsList.cfg` | pass | Pushes, `pop_all` and `apply` interleave with address reuse. No thread follows a freed node (`NoDangling`). Every behaviour is a behaviour of the atomic stack `LfsStack` (`LfsRefinesStack`). So each element takes effect at its CAS, in its pusher's order, and is delivered or withdrawn exactly once. `apply` hands over the stack it exchanged, oldest first. |
| socket_terminate | `SocketThread.cfg` | pass | Each `start()` gets a callback that never sets a timeout or one that keeps 20 ms. A `signal()` while connected always leads to a callback, even with the infinite timeout (`SignalServed`). While the callback keeps a timeout, `terminate()` always returns (`TerminateReturnsWithTimeout`). Every connection on which `on_check` ran gets `on_check(terminate)` before the worker reconnects or ends, whichever way `task()` was left (`CallbackSessionClosed`). |
| server_accept | `ServerThread.cfg` | pass | Clients connect, send or reset in any order, and the owner restarts the server. Every accepted socket has exactly one owner: a slot, `on_accept`, a close, or abandonment at thread end (`SocketsAccounted`). |
| sfs_stream | `SfsStream.cfg` | pass | From any file of up to three blocks, some of which do not authenticate, every `write`, `trunc` and `read` acts on the bytes exactly as the reference says (`WriteContract`, `TruncContract`, `ReadContract`). This includes calls whose block writes fail part-way, and block writes torn by a short `::write` that is reported as success (`sfs.cpp:300`): a torn block is never read back as data, and no byte before the call's first block changes. |
| sstl_versions | `Sstl.cfg` | pass | A record saved by any of three versions loads in every version with the written values, the promised defaults, and the cursor at the record's end (`LoadContract`). This includes nested documents whose newer fields an older reader must skip, payload bytes equal to type codes, a vector whose elements sit at `max_level`, and a deque key written without a count. |
| socket_lost_wakeup | `SocketLostWakeup.cfg` | violation | With the default infinite timeout, the signal drain swallows `terminate()`'s byte after the worker has read `m_state`, and `join()` never returns. |

Findings are described in `PROJECT.json` ("findings").

### Bounds and why they suffice

- **`Width = 4`** (16 addressable blocks). The wrap at 2^Width behaves like
  the wrap at 2^32. The files that occur stay below 15 blocks, and `WriteEntry`
  asserts this.
- **Two keys and two values.** This is enough for a key to be replaced, a new
  key to be inserted, and two runs to be written in either order within a
  generation.
- **`MaxOrder = 7`.** This allows three generations: a first commit, a
  rewrite, and a rewrite interrupted by a crash.
  - `Modify` and `Insert` are enabled only while every key's write plus a
    terminator fits below the bound (`OrderRoom`). The bound therefore cuts
    the history short, but never cuts an operation in half.
- **`MaxCrash = 1`.** One crash, taken at every reachable point with every
  subset of unflushed blocks. The two-crash case is the violation run, which
  needs three keys: the stale block survives only if the next generation
  allocates fewer blocks than the one that crashed.
- **`MaxIOErr`** is 1 in `umap_crash` and 2 in the salvage run. With only
  one failure, `finalize()` retries the write and succeeds, and reload
  still restores the committed map.
- **Symmetry** over keys, and over values of equal size, is sound. No action
  distinguishes them, and the one `CHOOSE` (the order of `FreeLoads`) does not
  change its result.

- **`lfs::list`: two pushers with three pushes each, two consumers, three
  addresses.** Six elements over three addresses force reuse, and one
  address can hold three elements in turn. TLC reaches
  states where a pusher's CAS compares against an address that was freed
  and reallocated in between (ABA). Symmetry over addresses and over
  consumers is sound, because no action tells them apart.
- **`socket_thread`: `PipeCap = 2`, `MaxRetry = 1`, `MaxSignals = 2`.**
  Two bytes are enough for a signal byte and the terminate byte to sit
  together in the pipe. `MaxSignals` bounds `signal()` calls per start;
  without the bound, a caller signalling forever keeps `terminate()`'s own
  drain loop busy, which is not a defect of the thread.

- **`sstl`: three versions, `MaxElems = 2`, `max_level = 3`** (128 in
  the code).
  - With `max_level = 3`, the top-level class is read at level 1, a nested
    class and the vector at level 2, and the vector's element classes reach
    the cut. So both reading and skipping at the limit happen.
  - The set added in version 3 is read at level 2, so its elements are read
    and not cut. Older readers skip it as a document of unknown fields.
  - Integer 287 is the bytes `0x01 0x1F` (document, null), 32 is a metadata
    byte, and the string `0x00 0x1F` holds a terminator. A reader or `skip`
    that looked at payload bytes would go out of step.
  - The nested class gains a name and a field in version 3, so an older
    reader must skip a name and a value inside a document and then read
    the next field. The outer class alone could not show this, because its
    end is the record's end.
  - Every record of every version's values is an initial state (7332 with
    the key); the loads and write-backs give 16224 states.

- **`server_thread`: four connections; `PendingLimit = 1`, `HardDiv = 2`,
  `BackMin = 1`** (3, 10 and 10 in the code).
  - Like `Width`, the thresholds are scaled down so that few slots reach
    every branch. Four slots are the fewest for which both the erase-remove
    branch (three of four slots handled) and the clean-back branch (two of
    four) occur.
  - TLC coverage confirms that both branches and the preliminary rejection
    are taken.
  - Symmetry over connections is sound: no action tells them apart, and
    the run checks only invariants.

- **`sfs::view` streams: `BS = 2`, three blocks, calls of up to 3 bytes,
  `MaxGap = 1`, `MaxIOErr = 1`, `MaxTorn = 1`, one non-zero byte value.**
  - Two bytes per block give each block a first and a last byte. A 3-byte
    call at offset 1 starts and ends in partial blocks with a block
    boundary inside. Offsets run one block past the end, so both the gap
    fill and its refusal happen.
  - The initial states are every file of 0..3 blocks with every content
    over {0, 1} and every block possibly `Bad`. A misplaced byte therefore
    shows as a 0/1 or `Bad` mismatch. A second non-zero value made the run
    take 19 minutes without adding a branch.
  - The arithmetic (`%`, `\div`, rounding) is the code's, over `BS`.

### Fairness

The `lfs::list` run checks safety only. `SocketThread` assumes weak
fairness of three things:

- **the worker thread.** It is a running OS thread. Poll is enabled only
  when it can return: an fd is ready, or a timeout is set.
- **the owner's steps inside `terminate()`.** These are the write, the
  `join` once the thread has ended, and the drain.
- **`ConnectResolves`.** The kernel finishes or fails a pending connect.

Starting, signalling and the peer get no fairness, because nothing obliges
them to act.

## Not modelled, and why

- **HMAC, AES-GCM and key derivation.** They are abstracted to their
  observable effect: a block authenticates or it does not; hashes are sets.
  Hash collisions are outside the model.
- **`sstl` inside `LSK`.** There a record is abstracted to its encoded
  size (`RecSize`); the format itself is checked separately by `Sstl`.
- **Parts of `sstl`.** The other containers (`std::map`, complex
  `std::array` and `basic_string`) have lambdas of the same shape as the
  vector's and set's. The reading lambda of a complex `std::array` calls
  `arg.clear()`, which `std::array` does not have, so that branch does not
  compile if it is instantiated either. The reading loop of `traverse<std::map>`
  (`sstl.hpp:1256`) calls `.first->second` on the iterator that
  `emplace_hint` returns, so it does not compile if it is instantiated. No
  type in this repository serialises a `std::map`, so the template is
  never instantiated. `bitset` is disabled by a
  `static_assert`. `as<>` and the probing pass are not modelled: the probe
  runs the writing code with `begin` null, so it counts the bytes written.
- **Containers of simple types wider than a byte** (`sstl.hpp:576`). The
  writer stores `arg.size() * sizeof(T)`, where `T` is the container type.
  The reader takes that number as an element count and skips
  `sizeof(value_type)` bytes per element. Such a value does not read back.
  No type in this repository is serialised as such a container, and the
  runs use only byte strings. This is listed as a hazard.
- **A sized value of the wrong size** (`sstl.hpp:824`). The invalid-size
  path adds `sizeof(T)` after `read_size` may have set `begin = end`, so
  the cursor passes the end. Only a type change, which the header forbids,
  or foreign bytes reach it.
- **`read()` and `reader`.** They change no state.
- **A caller catching the `bad_alloc` from `flush()`.** This is not modelled.
  The model ends the process, which is what happens in `~writer` and `~umap`.
- **The Windows branch of `task()`** and the `cb_arg` value passed to the
  callback. The callback is any function of its argument, so the value does
  not constrain the model.
- **`poll` failing with `EINTR`** in `task()`. It ends the loop like an error.
- **`~list`.** It runs when no thread uses the list.
- **Sockets abandoned by `server_thread`.** When its loop ends, only the
  listener is closed (`to_socket.cpp:296`). Accepted sockets that have not
  yet sent anything stay open, and nobody holds them. The model records
  them in `leaked`, and TLC reaches such states. No run states their
  absence, so this is listed as a hazard in `PROJECT.json`.
- **A short `::write` under `umap`** (`sfs.cpp:300`). `SfsStream` has
  short writes, but `LSK` lets a block write either happen whole or fail.
  A torn block that `umap` counted in its combined hash would fail
  `read_block` on reload, so the hash check fails and the store opens by
  salvage. This needs a violation run of its own, and every run slot of the
  project is taken.
- **`sfs::view::alloc`, `set_delete`, `~view`** are file-system calls that
  do not change the stream. A null `m_enc`/`m_dec` (a failed cipher
  context) makes every block call fail, which the fault choices cover, and
  `read` with a null buf differs only in not copying. The POSIX shrink in
  `trunc` calls `::ftruncate(m_fd, ...)`, but the class has no `m_fd`
  (the handle is `m_handle`). That branch would not compile as written;
  the model follows the evident intent.
- **Still to model** (see the plan): server liveness, base57 (in
  `src/unnamed`), and torn blocks in `LSK`. The file
  backend (open/read/write/fsync wrappers), the master key and the curve25519
  declarations are pure I/O or external code.
