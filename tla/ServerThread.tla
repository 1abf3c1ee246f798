---------------------------- MODULE ServerThread ----------------------------
(***************************************************************************)
(* to::server_thread (src/to_socket.{hpp,cpp}), POSIX build: a listener   *)
(* thread that polls the listening socket and every accepted socket that  *)
(* has not yet sent anything, accepts new connections, hands a socket to  *)
(* on_accept once it is readable, and compacts its pollfd vector; and the *)
(* owner's start() and terminate().                                        *)
(*                                                                         *)
(* A connection is a model value; each connects at most once.  fds holds  *)
(* fds[1..] of the code (fds[0] is the listener, whose revents is lrev).  *)
(* Addresses, socket options and name lookups are left out: on_accept is  *)
(* any function of them.  The thresholds of the code (3, and 10 twice)    *)
(* are constants so that every branch of the compaction is reached with a *)
(* few connections.                                                        *)
(***************************************************************************)
EXTENDS Integers, Sequences, SequencesExt, FiniteSets

CONSTANTS Conns,         \* client connections
          NoFd,          \* the fd -1 a handled slot is left with
          PendingLimit,  \* 3 in allstat - nullstat > 3
          HardDiv,       \* 10 in allstat - allstat / 10
          BackMin        \* 10 in nullstat > 10

ASSUME /\ NoFd \notin Conns
       /\ PendingLimit \in Nat /\ HardDiv \in Nat \ {0} /\ BackMin \in Nat

Slot     == [fd : Conns \cup {NoFd}, rev : {"none", "in", "err"}]
WorkerPc == {"none", "poll", "accept", "scan", "compact", "exit"}

VARIABLES
  m_state,      \* thread_state
  joinable,     \* m_thread.joinable()
  opc,          \* owner: "idle" or "join" (inside terminate())
  wpc,          \* listener thread program counter
  fds,          \* fds[1..]: the accepted sockets being polled
  lrev,         \* fds[0].revents: "none", "in", "err"
  allstat,      \* fds.size() - 1 after the accept loop
  nullstat,     \* slots found at -1 or handled in this round
  i,            \* the for loop's position in fds
  backlog,      \* connections queued on the listener, not yet accepted
  peer,         \* what each peer has done: "quiet", "data", "reset"
  arrived,      \* ghost: connections that have connected
  accepted,     \* ghost: connections returned by ::accept
  handed,       \* ghost: sockets on_accept took
  closed,       \* ghost: sockets the thread closed
  leaked        \* ghost: sockets left in fds when the thread ended

vars == <<m_state, joinable, opc, wpc, fds, lrev, allstat, nullstat, i,
          backlog, peer, arrived, accepted, handed, closed, leaked>>
ghost == <<arrived, accepted, handed, closed, leaked>>

Listening == wpc \in {"poll", "accept", "scan", "compact"}
LiveFds   == {fds[k].fd : k \in DOMAIN fds} \ {NoFd}

TypeOK ==
  /\ m_state \in {"null", "running", "terminated"}
  /\ joinable \in BOOLEAN /\ opc \in {"idle", "join"} /\ wpc \in WorkerPc
  /\ fds \in Seq(Slot) /\ Len(fds) <= Cardinality(Conns)
  /\ lrev \in {"none", "in", "err"}
  /\ allstat \in 0..Cardinality(Conns) /\ nullstat \in 0..Cardinality(Conns)
  /\ i \in 1..Cardinality(Conns) + 1
  /\ backlog \subseteq Conns /\ peer \in [Conns -> {"quiet", "data", "reset"}]
  /\ \A s \in {arrived, accepted, handed, closed, leaked} : s \subseteq Conns

Init ==
  /\ m_state = "null" /\ joinable = FALSE /\ opc = "idle" /\ wpc = "none"
  /\ fds = <<>> /\ lrev = "none" /\ allstat = 0 /\ nullstat = 0 /\ i = 1
  /\ backlog = {} /\ peer = [c \in Conns |-> "quiet"]
  /\ arrived = {} /\ accepted = {} /\ handed = {} /\ closed = {} /\ leaked = {}

(***************************************************************************)
(* Owner thread.                                                           *)
(***************************************************************************)
\* start(): getaddrinfo, socket, bind and listen succeed, m_state is set and
\* the thread starts with fds = {listener}.  A failure of any of them
\* closes what was opened and changes no state.
Start ==
  /\ opc = "idle" /\ ~joinable
  /\ m_state' = "running" /\ joinable' = TRUE /\ wpc' = "poll"
  /\ fds' = <<>> /\ lrev' = "none"
  /\ UNCHANGED <<opc, allstat, nullstat, i, backlog, peer, ghost>>

\* terminate(): m_state = terminated, then join.
TermBegin ==
  /\ opc = "idle" /\ joinable
  /\ m_state' = "terminated" /\ opc' = "join"
  /\ UNCHANGED <<joinable, wpc, fds, lrev, allstat, nullstat, i, backlog, peer, ghost>>

\* join returns once the thread has ended; m_state = null.
TermJoin ==
  /\ opc = "join" /\ wpc = "exit"
  /\ joinable' = FALSE /\ m_state' = "null" /\ opc' = "idle" /\ wpc' = "none"
  /\ UNCHANGED <<fds, lrev, allstat, nullstat, i, backlog, peer, ghost>>

(***************************************************************************)
(* The listener thread.                                                    *)
(***************************************************************************)
\* What poll reports for an accepted socket: POLLIN once the peer has sent
\* data, an error bit once it reset the connection; a slot at -1 is skipped.
SlotRev(s) ==
  IF s.fd = NoFd \/ peer[s.fd] = "quiet" THEN "none"
  ELSE IF peer[s.fd] = "data" THEN "in" ELSE "err"

\* After the loop: close the listener, which resets the connections still
\* queued on it, and m_state = terminated.  fds is a local of the lambda and
\* goes with it; the sockets still in it are closed by nobody.
WindUp ==
  /\ wpc' = "exit" /\ m_state' = "terminated" /\ backlog' = {} /\ fds' = <<>>
  /\ leaked' = leaked \cup LiveFds

\* The while condition: ::poll(fds, size, 20) >= 0, no error on the
\* listener, m_state != terminated.  The 20 ms timeout makes poll return
\* whether or not anything is ready.
Poll ==
  /\ wpc = "poll"
  /\ \/ /\ lrev' = (IF backlog # {} THEN "in" ELSE "none")
        /\ IF m_state = "terminated"
             THEN WindUp
             ELSE /\ wpc' = "accept"
                  /\ fds' = [k \in DOMAIN fds |-> [fds[k] EXCEPT !.rev = SlotRev(fds[k])]]
                  /\ UNCHANGED <<m_state, backlog, leaked>>
     \/ lrev' = "err" /\ WindUp    \* poll fails (EINTR), or POLLERR on the listener
  /\ UNCHANGED <<joinable, opc, allstat, nullstat, i, peer, arrived, accepted,
                 handed, closed>>

\* while (fds[0].revents & POLLIN): one ::accept; a connection is appended
\* to fds, and -1 (nothing queued, or an error such as EMFILE) clears
\* revents.  Then allstat = fds.size() - 1 and the for loop starts.
\* Mutant: allstat = fds.size(), the listener counted as a slot.
AcceptCountsListener ==
  /\ wpc = "accept"
  /\ \/ /\ lrev = "in"
        /\ \E c \in backlog :
             /\ fds' = Append(fds, [fd |-> c, rev |-> "none"])
             /\ backlog' = backlog \ {c} /\ accepted' = accepted \cup {c}
        /\ UNCHANGED <<wpc, lrev, allstat, nullstat, i>>
     \/ /\ lrev = "in" /\ lrev' = "none"
        /\ UNCHANGED <<wpc, fds, backlog, accepted, allstat, nullstat, i>>
     \/ /\ lrev # "in"
        /\ wpc' = "scan" /\ allstat' = Len(fds) + 1 /\ nullstat' = 0 /\ i' = 1
        /\ UNCHANGED <<fds, lrev, backlog, accepted>>
  /\ UNCHANGED <<m_state, joinable, opc, peer, arrived, handed, closed, leaked>>

Accept ==
  /\ wpc = "accept"
  /\ \/ /\ lrev = "in"
        /\ \E c \in backlog :
             /\ fds' = Append(fds, [fd |-> c, rev |-> "none"])
             /\ backlog' = backlog \ {c} /\ accepted' = accepted \cup {c}
        /\ UNCHANGED <<wpc, lrev, allstat, nullstat, i>>
     \/ /\ lrev = "in" /\ lrev' = "none"
        /\ UNCHANGED <<wpc, fds, backlog, accepted, allstat, nullstat, i>>
     \/ /\ lrev # "in"
        /\ wpc' = "scan" /\ allstat' = Len(fds) /\ nullstat' = 0 /\ i' = 1
        /\ UNCHANGED <<fds, lrev, backlog, accepted>>
  /\ UNCHANGED <<m_state, joinable, opc, peer, arrived, handed, closed, leaked>>

\* A readable socket: closed on an error bit; otherwise on_accept(s, 0, 0)
\* is the preliminary verification, which rejects it only when more than
\* PendingLimit other slots are pending, and on_accept(s, host, port) takes
\* it or it is closed.  n is nullstat after this slot is counted.
HandleSlot(s, n) ==
  \/ s.rev = "err" /\ closed' = closed \cup {s.fd} /\ UNCHANGED handed
  \/ /\ s.rev = "in"
     /\ \E first, second \in BOOLEAN :
          IF (~first /\ allstat - n > PendingLimit) \/ ~second
            THEN closed' = closed \cup {s.fd} /\ UNCHANGED handed
            ELSE handed' = handed \cup {s.fd} /\ UNCHANGED closed

\* One iteration of for (auto& pfd : fds) over fds[1..] (fds[0] has had its
\* revents cleared by the accept loop): a slot at -1 is counted; a slot
\* with revents is counted, set to -1 and handled.
Scan ==
  /\ wpc = "scan"
  /\ IF i > Len(fds)
       THEN wpc' = "compact" /\ UNCHANGED <<fds, nullstat, i, handed, closed>>
       ELSE /\ i' = i + 1 /\ UNCHANGED wpc
            /\ CASE fds[i].fd = NoFd ->
                      nullstat' = nullstat + 1 /\ UNCHANGED <<fds, handed, closed>>
                 [] fds[i].rev = "none" ->
                      UNCHANGED <<fds, nullstat, handed, closed>>
                 [] OTHER ->
                      /\ nullstat' = nullstat + 1
                      /\ fds' = [fds EXCEPT ![i].fd = NoFd]
                      /\ HandleSlot(fds[i], nullstat + 1)
  /\ UNCHANGED <<m_state, joinable, opc, lrev, allstat, backlog, peer, arrived,
                 accepted, leaked>>

\* The last slot that still holds a socket, 0 when none does.
LastLive(f) ==
  LET live == {k \in DOMAIN f : f[k].fd # NoFd}
  IN  IF live = {} THEN 0 ELSE Max(live)

\* Mutant: fds.resize(i) instead of fds.resize(i + 1).
TrimBackShort(f) == SubSeq(f, 1, LastLive(f) - 1)

\* Clean back: from the end, the first slot not at -1 ends the vector.
\* fds[0], the listener, always stops the walk.
TrimBack(f) == SubSeq(f, 1, LastLive(f))

\* The compaction after the for loop: all slots handled (resize(1)), most of
\* them (erase-remove of the -1 slots), or many (clean back).
Compact ==
  /\ wpc = "compact" /\ wpc' = "poll"
  /\ fds' = CASE nullstat >= allstat -> <<>>
              [] nullstat > allstat - allstat \div HardDiv ->
                   SelectSeq(fds, LAMBDA s : s.fd # NoFd)
              [] nullstat > BackMin -> TrimBack(fds)
              [] OTHER -> fds
  /\ UNCHANGED <<m_state, joinable, opc, lrev, allstat, nullstat, i, backlog,
                 peer, ghost>>

(***************************************************************************)
(* Clients.                                                                *)
(***************************************************************************)
\* A client connects while the listener is open; the kernel queues it.
Connect(c) ==
  /\ Listening /\ c \notin arrived
  /\ backlog' = backlog \cup {c} /\ arrived' = arrived \cup {c}
  /\ UNCHANGED <<m_state, joinable, opc, wpc, fds, lrev, allstat, nullstat, i,
                 peer, accepted, handed, closed, leaked>>

\* A connected client sends its first data, or resets the connection.
PeerActs(c) ==
  /\ c \in arrived /\ peer[c] = "quiet"
  /\ \E p \in {"data", "reset"} : peer' = [peer EXCEPT ![c] = p]
  /\ UNCHANGED <<m_state, joinable, opc, wpc, fds, lrev, allstat, nullstat, i,
                 backlog, ghost>>

Worker == Poll \/ Accept \/ Scan \/ Compact
Owner  == Start \/ TermBegin \/ TermJoin
Next   == Worker \/ Owner \/ \E c \in Conns : Connect(c) \/ PeerActs(c)

Spec == Init /\ [][Next]_vars

(***************************************************************************)
(* Properties.                                                             *)
(***************************************************************************)
\* Every socket ::accept returned has exactly one owner at any time: a slot
\* of fds, on_accept, a close_socket call, or -- after the thread ended --
\* nobody; no compaction of fds drops a socket or keeps it twice, and no
\* socket is both closed and handed over.
Has(s, c) == IF c \in s THEN 1 ELSE 0

Holders(c) ==
  Cardinality({k \in DOMAIN fds : fds[k].fd = c})
  + Has(handed, c) + Has(closed, c) + Has(leaked, c)

SocketsAccounted ==
  \A c \in Conns : Holders(c) = (IF c \in accepted THEN 1 ELSE 0)

====
