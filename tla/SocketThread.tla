---------------------------- MODULE SocketThread ----------------------------
(***************************************************************************)
(* to::socket_thread (src/to_socket.{hpp,cpp}), POSIX build: a worker     *)
(* thread that runs task(), a poll loop over the socket and the read end  *)
(* of a non-blocking wake-up pipe, and calls the user callback on_check;  *)
(* an owner thread that calls start() and terminate(); other threads that *)
(* call signal().                                                          *)
(*                                                                         *)
(* Each step of a thread touches at most one shared object (m_state, the  *)
(* pipe, the socket).  Data is abstracted away: the socket is the readiness *)
(* it reports to poll, the pipe is its number of unread bytes, addresses, *)
(* connection time and the cb_arg value are left out, since the callback  *)
(* is any function of them.  getaddrinfo returning EAI_AGAIN changes no   *)
(* state and is a stutter.                                                 *)
(***************************************************************************)
EXTENDS Integers, FiniteSets

CONSTANTS PipeCap,      \* bytes the pipe holds before a non-blocking write fails
          MaxRetry,     \* consecutive cb_res::retry results of one callback
          CbTimeouts,   \* callbacks, by the m_timeout each one leaves behind
          MaxSignals    \* signal() calls during one run of the thread

ASSUME /\ PipeCap \in Nat \ {0}
       /\ MaxRetry \in Nat /\ MaxSignals \in Nat
       /\ CbTimeouts \subseteq {-1, 20} /\ CbTimeouts # {}

\* cb_res, and the socket events fds[0].events each result asks for.
CbRes == {"terminate", "wait_none", "wait_read", "wait_write", "wait_both", "retry"}
WaitEvents == [wait_none |-> {}, wait_read |-> {"in"},
               wait_write |-> {"out"}, wait_both |-> {"in", "out"}]

\* Where the worker is: the client lambda's two loops, the steps of task(),
\* the clean-up after task() returns, and the end of the thread function.
TaskPc   == {"poll", "check", "drain", "connchk", "cb"}
WorkerPc == {"none", "c_loop", "c_conn", "c_done", "s_done", "exit"} \cup TaskPc

VARIABLES
  m_state,      \* thread_state: "null", "running", "terminated"
  joinable,     \* m_thread.joinable()
  m_timeout,    \* -1 or a number of milliseconds
  pipe,         \* unread bytes in m_pipe
  client,       \* m_is_client
  wpc,          \* worker program counter
  events0,      \* fds[0].events
  revents0,     \* fds[0].revents: subset of {"in", "out", "err"}
  revents1,     \* fds[1].revents has POLLIN
  connected,    \* task(): is_connected
  retries,      \* consecutive retry results
  sock,         \* the socket: [rd, wr, hup, err] readiness and SO_ERROR
  conn,         \* outcome of a non-blocking connect: "pending", "ok"
  opc,          \* owner inside terminate(): "idle", "write", "join", "drain"
  sigPending,   \* ghost: signal() owes the worker a callback call
  signals,      \* signal() calls since the last start()
  cb,           \* the on_check of the last start(): the m_timeout it sets
  session       \* ghost: on_check ran on this connection, on_check(terminate) not yet

task == <<events0, revents0, revents1, connected, retries>>
vars == <<m_state, joinable, m_timeout, pipe, client, wpc, task, sock, conn,
          opc, sigPending, signals, cb, session>>

QuietSocket == [rd |-> FALSE, wr |-> FALSE, hup |-> FALSE, err |-> FALSE]

\* The constructor creates the pipe; nothing runs.
Init ==
  /\ m_state = "null" /\ joinable = FALSE /\ m_timeout = -1 /\ pipe = 0
  /\ client = FALSE /\ wpc = "none"
  /\ events0 = {} /\ revents0 = {} /\ revents1 = FALSE
  /\ connected = FALSE /\ retries = 0
  /\ sock = QuietSocket /\ conn = "ok"
  /\ opc = "idle" /\ sigPending = FALSE /\ signals = 0
  /\ cb = -1                     \* no callback before the first start()
  /\ session = FALSE

\* A non-blocking write of one byte to the pipe; it fails when the pipe is full.
WriteByte(p) == IF p < PipeCap THEN p + 1 ELSE p

\* The first lines of task(): both fds polled for, is_connected = !m_is_client.
EnterTask(isClient) ==
  /\ events0' = {"in", "out"} /\ revents0' = {} /\ revents1' = FALSE
  /\ connected' = ~isClient /\ retries' = 0

(***************************************************************************)
(* Owner thread.                                                           *)
(***************************************************************************)
\* start(target, port, on_check): the client thread, which connects and
\* reconnects.
StartClient ==
  /\ opc = "idle" /\ ~joinable /\ cb' \in CbTimeouts
  /\ m_state' = "running" /\ joinable' = TRUE /\ client' = TRUE
  /\ wpc' = "c_loop" /\ signals' = 0
  /\ UNCHANGED <<m_timeout, pipe, task, sock, conn, opc, sigPending>>

\* start(s, ..., on_check): the thread of an accepted, connected socket.
StartServer ==
  /\ opc = "idle" /\ ~joinable /\ cb' \in CbTimeouts
  /\ m_state' = "running" /\ joinable' = TRUE /\ client' = FALSE
  /\ wpc' = "poll" /\ EnterTask(FALSE)
  /\ \E rd \in BOOLEAN : sock' = [QuietSocket EXCEPT !.rd = rd, !.wr = TRUE]
  /\ conn' = "ok" /\ signals' = 0
  /\ UNCHANGED <<m_timeout, pipe, opc, sigPending>>

\* terminate() when the thread is joinable: m_state first, then a byte.
TermBegin ==
  /\ opc = "idle" /\ joinable
  /\ m_state' = "terminated" /\ opc' = "write"
  /\ UNCHANGED <<joinable, m_timeout, pipe, client, wpc, task, sock, conn, sigPending, signals>>

TermWrite ==
  /\ opc = "write"
  /\ pipe' = WriteByte(pipe) /\ opc' = "join"
  /\ UNCHANGED <<m_state, joinable, m_timeout, client, wpc, task, sock, conn, sigPending, signals>>

TermJoin ==
  /\ opc = "join" /\ wpc = "exit"
  /\ wpc' = "none" /\ joinable' = FALSE /\ opc' = "drain"
  /\ UNCHANGED <<m_state, m_timeout, pipe, client, task, sock, conn, sigPending, signals>>

\* while (::read(m_pipe[0], &cmd, 1) == 1) {}, then the members are reset.
TermDrain ==
  /\ opc = "drain"
  /\ IF pipe > 0
       THEN /\ pipe' = pipe - 1
            /\ UNCHANGED <<m_state, m_timeout, opc>>
       ELSE /\ m_timeout' = -1 /\ m_state' = "null" /\ opc' = "idle"
            /\ UNCHANGED pipe
  /\ UNCHANGED <<joinable, client, wpc, task, sock, conn, sigPending, signals>>

\* signal(), from any thread.  A callback is owed when the worker is in
\* task() with its connection up.
Signal ==
  /\ signals < MaxSignals /\ signals' = signals + 1
  /\ pipe' = WriteByte(pipe)
  /\ sigPending' = (sigPending \/ (wpc \in TaskPc /\ connected))
  /\ UNCHANGED <<m_state, joinable, m_timeout, client, wpc, task, sock, conn, opc>>


(***************************************************************************)
(* Worker thread: the client lambda of start(target, port).                *)
(***************************************************************************)
\* while (m_state != terminated) { getaddrinfo ... }: a hard resolver error
\* sets m_state and ends the thread.
CLoop ==
  /\ wpc = "c_loop"
  /\ IF m_state = "terminated"
       THEN wpc' = "exit" /\ UNCHANGED m_state
       ELSE \/ wpc' = "c_conn" /\ UNCHANGED m_state
            \/ m_state' = "terminated" /\ wpc' = "exit"
  /\ UNCHANGED <<joinable, m_timeout, pipe, client, task, sock, conn, opc, sigPending, signals>>

\* The reconnection loop: socket() or connect() failing terminates the
\* thread; EINPROGRESS enters task() with the connection pending.
CConnect ==
  /\ wpc = "c_conn"
  /\ IF m_state = "terminated"
       THEN /\ wpc' = "c_loop"
            /\ UNCHANGED <<m_state, task, sock, conn>>
       ELSE \/ /\ m_state' = "terminated" /\ wpc' = "c_loop"
               /\ UNCHANGED <<task, sock, conn>>
            \/ /\ wpc' = "poll" /\ EnterTask(TRUE)
               /\ sock' = QuietSocket /\ conn' = "pending"
               /\ UNCHANGED m_state
  /\ UNCHANGED <<joinable, m_timeout, pipe, client, opc, sigPending, signals>>

(***************************************************************************)
(* Worker thread: task().                                                  *)
(***************************************************************************)
\* What poll reports for fds[0]: the requested events that are ready, and
\* POLLERR/POLLHUP whatever was requested.
Ready0 ==
  ({e \in events0 : (e = "in" /\ sock.rd) \/ (e = "out" /\ sock.wr)})
    \cup (IF sock.hup THEN {"err"} ELSE {})

\* Mutant: ::poll(fds, 1, m_timeout), the pipe left out of the poll set.
PollOneFd ==
  /\ wpc = "poll"
  /\ Ready0 # {} \/ m_timeout >= 0
  /\ revents0' = Ready0 /\ revents1' = FALSE
  /\ wpc' = "check"
  /\ UNCHANGED <<m_state, joinable, m_timeout, pipe, client, events0, connected,
                 retries, sock, conn, opc, sigPending, signals>>

\* ::poll(fds, 2, m_timeout) returns at once when an fd is ready, and with
\* nothing ready only after a timeout; with m_timeout = -1 it blocks.
Poll ==
  /\ wpc = "poll"
  /\ Ready0 # {} \/ pipe > 0 \/ m_timeout >= 0
  /\ revents0' = Ready0 /\ revents1' = (pipe > 0)
  /\ wpc' = "check"
  /\ UNCHANGED <<m_state, joinable, m_timeout, pipe, client, events0, connected,
                 retries, sock, conn, opc, sigPending, signals>>

\* Mutant: the client lambda goes back to resolving whatever task()
\* returned, without on_check(terminate).
TaskReturnNoTerminateCb(ok) ==
  wpc' = IF client THEN "c_loop" ELSE "s_done"

\* task() returns ok: the client closes and reconnects after on_check, or
\* re-resolves when the connection failed; the server thread winds up.
TaskReturn(ok) ==
  wpc' = CASE ~client -> "s_done"
           [] ok       -> "c_done"
           [] OTHER    -> "c_loop"

\* Mutant: the loop condition without the m_state test.
CheckIgnoresState ==
  /\ wpc = "check"
  /\ IF "err" \in revents0
       THEN TaskReturn(connected)
       ELSE wpc' = "drain"
  /\ UNCHANGED <<m_state, joinable, m_timeout, pipe, client, task, sock, conn,
                 opc, sigPending, signals>>

\* The rest of the while condition, read after poll has returned.
Check ==
  /\ wpc = "check"
  /\ IF "err" \in revents0 \/ m_state = "terminated"
       THEN TaskReturn(connected)
       ELSE wpc' = "drain"
  /\ UNCHANGED <<m_state, joinable, m_timeout, pipe, client, task, sock, conn,
                 opc, sigPending, signals>>

\* while (fds[1].revents) { if (::read(m_pipe[0], &cmd, 1) < 1) break; }
Drain ==
  /\ wpc = "drain"
  /\ IF revents1 /\ pipe > 0
       THEN pipe' = pipe - 1 /\ UNCHANGED wpc
       ELSE wpc' = "connchk" /\ UNCHANGED pipe
  /\ UNCHANGED <<m_state, joinable, m_timeout, client, task, sock, conn, opc,
                 sigPending, signals>>

\* A pending connect has completed: SO_ERROR decides; POLLOUT is consumed.
\* The callback is called only once the connection is up.
ConnCheck ==
  /\ wpc = "connchk"
  /\ IF revents0 # {} /\ ~connected
       THEN IF sock.err
              THEN TaskReturn(FALSE) /\ UNCHANGED <<connected, revents0>>
              ELSE /\ connected' = TRUE /\ revents0' = revents0 \ {"out"}
                   /\ wpc' = "cb"
       ELSE /\ wpc' = (IF connected THEN "cb" ELSE "poll")
            /\ UNCHANGED <<connected, revents0>>
  /\ UNCHANGED <<m_state, joinable, m_timeout, pipe, client, events0, revents1,
                 retries, sock, conn, opc, sigPending, signals>>

\* What a call of on_check may do besides returning: read the socket dry,
\* fill its send buffer, call set_timeout.
CbEffect ==
  /\ sock' \in {[sock EXCEPT !.rd = rd, !.wr = wr] :
                  rd \in {FALSE, sock.rd}, wr \in {FALSE, sock.wr}}
  /\ m_timeout' = cb
  /\ sigPending' = FALSE

\* One call of on_check(arg) and the switch on its result.
Callback ==
  /\ wpc = "cb"
  /\ CbEffect /\ session' = TRUE /\ UNCHANGED signals
  /\ \E res \in CbRes :
       CASE res = "retry" ->
              retries < MaxRetry /\ retries' = retries + 1
              /\ UNCHANGED <<wpc, events0>>
         [] res = "terminate" ->
              TaskReturn(TRUE) /\ UNCHANGED <<retries, events0>>
         [] OTHER ->
              events0' = WaitEvents[res] /\ wpc' = "poll" /\ retries' = 0
  /\ UNCHANGED <<m_state, joinable, pipe, client, revents0, revents1, connected,
                 conn, opc>>

\* Client, after task() returned true: on_check(terminate), close, and back
\* to the reconnection loop.
CDone ==
  /\ wpc = "c_done"
  /\ CbEffect /\ session' = FALSE /\ wpc' = "c_conn"
  /\ UNCHANGED <<m_state, joinable, pipe, client, task, conn, opc, signals>>

\* Server thread: on_check(terminate), close, m_state = terminated.
SDone ==
  /\ wpc = "s_done"
  /\ CbEffect /\ session' = FALSE /\ m_state' = "terminated" /\ wpc' = "exit"
  /\ UNCHANGED <<joinable, pipe, client, task, conn, opc, signals>>

(***************************************************************************)
(* The peer and the kernel.                                                *)
(***************************************************************************)
\* A non-blocking connect completes: writable, or refused -- reported with
\* POLLERR/POLLHUP, or, as POSIX also allows, by POLLOUT and SO_ERROR alone.
ConnectResolves ==
  /\ wpc # "none" /\ client /\ conn = "pending"
  /\ conn' = "ok"
  /\ \/ sock' = [sock EXCEPT !.wr = TRUE]
     \/ sock' = [sock EXCEPT !.wr = TRUE, !.hup = TRUE, !.err = TRUE]
     \/ sock' = [sock EXCEPT !.wr = TRUE, !.err = TRUE]
  /\ UNCHANGED <<m_state, joinable, m_timeout, pipe, client, wpc, task, opc,
                 sigPending, signals>>

\* Data arrives, the send buffer drains, or the peer hangs up.
PeerEvent ==
  /\ wpc # "none" /\ conn = "ok"
  /\ \/ sock' = [sock EXCEPT !.rd = TRUE]
     \/ sock' = [sock EXCEPT !.wr = TRUE]
     \/ sock' = [sock EXCEPT !.hup = TRUE]
  /\ sock' # sock
  /\ UNCHANGED <<m_state, joinable, m_timeout, pipe, client, wpc, task, conn,
                 opc, sigPending, signals>>

\* Only start() installs a callback; every other step keeps cb.  Only the
\* calls of on_check change the ghost session.
Worker == \/ (CLoop \/ CConnect \/ Poll \/ Check \/ Drain \/ ConnCheck)
               /\ UNCHANGED <<cb, session>>
          \/ (Callback \/ CDone \/ SDone) /\ UNCHANGED cb
TermRest == (TermWrite \/ TermJoin \/ TermDrain) /\ UNCHANGED <<cb, session>>
Owner  == \/ (StartClient \/ StartServer) /\ UNCHANGED session
          \/ TermBegin /\ UNCHANGED <<cb, session>>
          \/ TermRest
Kernel == ConnectResolves /\ UNCHANGED <<cb, session>>
Next   == Worker \/ Owner \/ Kernel \/ ((Signal \/ PeerEvent) /\ UNCHANGED <<cb, session>>)

(***************************************************************************)
(* Fairness.  The worker and the owner inside terminate() are threads the *)
(* scheduler runs; the kernel completes or fails a connect within its own *)
(* timeout.  Starting, terminating, signalling and the peer are not       *)
(* obliged to do anything.                                                 *)
(***************************************************************************)
Fairness ==
  /\ WF_vars(Worker)
  /\ WF_vars(TermRest)
  /\ WF_vars(Kernel)

Spec == Init /\ [][Next]_vars /\ Fairness

(***************************************************************************)
(* Properties.                                                             *)
(***************************************************************************)
\* terminate() returns: once the owner has set m_state and written its
\* wake-up byte, the worker leaves the poll loop, the join completes and
\* the owner is back to idle.
TerminateReturns == (opc # "idle") ~> (opc = "idle")

\* terminate() returns whenever the running callback keeps a poll timeout
\* set: a wake-up byte swallowed by the drain loop is then made up for by
\* the timeout, and the worker reads m_state again.
TerminateReturnsWithTimeout == (opc # "idle" /\ cb >= 0) ~> (opc = "idle")

\* Where the worker is between connections, or done: the client's resolve
\* and reconnection loops, the thread's end, or no thread at all.
OutsideTask == wpc \in {"none", "c_loop", "c_conn", "exit"}

\* A connection on which on_check has run gets on_check(terminate) before
\* the worker leaves it: every way out of task() -- an error or hang-up on
\* the socket, m_state read as terminated, the callback returning
\* terminate -- comes back true to the client lambda (or ends the server
\* thread), which calls on_check(terminate) before it reconnects or exits;
\* only a connect that never came up returns false.
CallbackSessionClosed == OutsideTask => ~session

\* Every signal() made while the worker is connected in task() is followed
\* by a call of on_check: the byte wakes poll, the drain loop consumes it,
\* and the callback runs after the drain.
SignalServed == sigPending ~> ~sigPending

=============================================================================
