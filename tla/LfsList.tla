------------------------------- MODULE LfsList -------------------------------
(***************************************************************************)
(* lfs::list (src/util/ssdb.cpp, the lfs header): a lock-free stack of    *)
(* list_item nodes under one atomic head.  push() links a new node to the *)
(* head it loaded and installs it by compare-and-swap, retrying with the  *)
(* head the failed CAS returned; pop_all() and apply() take the whole     *)
(* chain by exchanging the head with nullptr; apply() reverses the chain  *)
(* and calls func on every element, oldest first, deleting each node.     *)
(*                                                                         *)
(* Memory is a function from addresses to nodes; delete returns an        *)
(* address to the allocator and new may hand it out again, so a push can  *)
(* meet its loaded head recycled (ABA).  Each step touches the head at    *)
(* most once; the reversal and the deletion of a chain touch only nodes   *)
(* the thread owns after its exchange, and are one step each.  An element *)
(* is the pair <<pusher, n>> of its n-th push.                            *)
(***************************************************************************)
EXTENDS Integers, Sequences, SequencesExt, FiniteSets, FiniteSetsExt

CONSTANTS Pushers,      \* threads calling push()
          Consumers,    \* threads calling apply() and pop_all()
          Addr,         \* addresses a list_item can be allocated at
          Null,         \* nullptr
          MaxPush       \* push() calls of each pusher

ASSUME /\ Null \notin Addr /\ MaxPush \in Nat
       /\ Pushers \cap Consumers = {}

Items  == Pushers \X (1..MaxPush)
Ptr    == Addr \cup {Null}
NoNode == [free |-> TRUE]                     \* an address not allocated
Node   == [link : Ptr, data : Items]          \* list_item: m_link, m_data

VARIABLES
  head,         \* list::m_head
  mem,          \* what each address holds
  ppc,          \* pusher: "idle" or "cas" (inside the CAS loop)
  old,          \* push(): the local old
  item,         \* push(): the local item
  pushed,       \* push() calls started by each pusher
  cpc,          \* consumer: "idle", "xchg" (loaded a non-null head), "run"
  cur,          \* apply(): the node the for loop is at
  applied,      \* ghost: the elements func was called on, per consumer
  taken         \* ghost: the elements withdrawn by pop_all()

vars == <<head, mem, ppc, old, item, pushed, cpc, cur, applied, taken>>

\* The addresses of the chain that starts at a, following m_link; the walk
\* stops at nullptr, at an address that holds no node, or after every
\* address has been visited once.
RECURSIVE ChainAddrs(_, _, _)
ChainAddrs(m, a, fuel) ==
  IF a = Null \/ fuel = 0 THEN <<>>
  ELSE IF m[a] = NoNode THEN <<a>>
  ELSE <<a>> \o ChainAddrs(m, m[a].link, fuel - 1)

Chain(m, a) == ChainAddrs(m, a, Cardinality(Addr) + 1)

\* The elements held by the chain that starts at a (a freed address on it
\* holds none).
Live(m, a)  == SelectSeq(Chain(m, a), LAMBDA x : m[x] # NoNode)
Elems(m, a) == [i \in DOMAIN Live(m, a) |-> m[Live(m, a)[i]].data]

Init ==
  /\ head = Null /\ mem = [a \in Addr |-> NoNode]
  /\ ppc = [t \in Pushers |-> "idle"]
  /\ old = [t \in Pushers |-> Null] /\ item = [t \in Pushers |-> Null]
  /\ pushed = [t \in Pushers |-> 0]
  /\ cpc = [c \in Consumers |-> "idle"] /\ cur = [c \in Consumers |-> Null]
  /\ applied = [c \in Consumers |-> <<>>] /\ taken = {}

(***************************************************************************)
(* push()                                                                  *)
(***************************************************************************)
\* old = m_head.load(); item = new list_item<T>(old, args...)
PushStart(t) ==
  /\ ppc[t] = "idle" /\ pushed[t] < MaxPush
  /\ \E a \in Addr :
       /\ mem[a] = NoNode
       /\ mem' = [mem EXCEPT ![a] = [link |-> head, data |-> <<t, pushed[t] + 1>>]]
       /\ item' = [item EXCEPT ![t] = a]
  /\ old' = [old EXCEPT ![t] = head]
  /\ pushed' = [pushed EXCEPT ![t] = @ + 1]
  /\ ppc' = [ppc EXCEPT ![t] = "cas"]
  /\ UNCHANGED <<head, cpc, cur, applied, taken>>

\* Mutant: the loop body item->m_link = old left out.
PushCasNoRelink(t) ==
  /\ ppc[t] = "cas"
  /\ IF head = old[t]
       THEN /\ head' = item[t] /\ ppc' = [ppc EXCEPT ![t] = "idle"]
            /\ UNCHANGED <<old, mem>>
       ELSE /\ old' = [old EXCEPT ![t] = head]
            /\ UNCHANGED <<head, ppc, mem>>
  /\ UNCHANGED <<item, pushed, cpc, cur, applied, taken>>

\* while (!m_head.compare_exchange_strong(old, item)) item->m_link = old;
\* A failed CAS stores the current head in old.
PushCas(t) ==
  /\ ppc[t] = "cas"
  /\ IF head = old[t]
       THEN /\ head' = item[t] /\ ppc' = [ppc EXCEPT ![t] = "idle"]
            /\ UNCHANGED <<old, mem>>
       ELSE /\ old' = [old EXCEPT ![t] = head]
            /\ mem' = [mem EXCEPT ![item[t]].link = head]
            /\ UNCHANGED <<head, ppc>>
  /\ UNCHANGED <<item, pushed, cpc, cur, applied, taken>>


(***************************************************************************)
(* apply(func) and pop_all()                                               *)
(***************************************************************************)
\* The do-while loop of apply() that reverses the chain:
\*   pprev = prev->m_link; prev->m_link = head; head = prev; prev = pprev;
RECURSIVE RevLoop(_, _, _)
RevLoop(m, h, prev) ==
  IF prev = Null THEN [mem |-> m, head |-> h]
  ELSE RevLoop([m EXCEPT ![prev].link = h], prev, m[prev].link)

\* if (prev = head->m_link) { head->m_link = nullptr; do ... while (prev); }
Reversed(m, h) ==
  IF m[h].link = Null THEN [mem |-> m, head |-> h]
  ELSE RevLoop([m EXCEPT ![h].link = Null], h, m[h].link)

\* m_head.load() ? ... : nullptr; a null head makes apply() return 0 and
\* changes nothing.
ApplyLoad(c) ==
  /\ cpc[c] = "idle" /\ head # Null
  /\ cpc' = [cpc EXCEPT ![c] = "xchg"]
  /\ UNCHANGED <<head, mem, ppc, old, item, pushed, cur, applied, taken>>

\* head = m_head.exchange(nullptr), and when it is not null the reversal;
\* r is the reversal of the chain the exchange took.
ApplyTakeWith(c, r) ==
  /\ cpc[c] = "xchg"
  /\ head' = Null
  /\ IF head = Null
       THEN cpc' = [cpc EXCEPT ![c] = "idle"] /\ UNCHANGED <<mem, cur>>
       ELSE /\ mem' = r.mem /\ cur' = [cur EXCEPT ![c] = r.head]
            /\ cpc' = [cpc EXCEPT ![c] = "run"]
  /\ UNCHANGED <<ppc, old, item, pushed, applied, taken>>

ApplyTake(c) == ApplyTakeWith(c, IF head = Null THEN [mem |-> mem, head |-> Null]
                                                ELSE Reversed(mem, head))

\* Mutant: the for loop steps with ptr.reset(ptr->m_link) instead of
\* ptr->pop_all(): the old node's destructor deletes the rest of the chain.
ApplyStepDeleteRest(c) ==
  /\ cpc[c] = "run"
  /\ applied' = [applied EXCEPT ![c] = Append(@, mem[cur[c]].data)]
  /\ mem' = [a \in Addr |-> IF a \in ToSet(Chain(mem, mem[cur[c]].link)) \cup {cur[c]}
                              THEN NoNode ELSE mem[a]]
  /\ cur' = [cur EXCEPT ![c] = mem[cur[c]].link]
  /\ cpc' = [cpc EXCEPT ![c] = IF mem[cur[c]].link = Null THEN "idle" ELSE "run"]
  /\ UNCHANGED <<head, ppc, old, item, pushed, taken>>

\* One iteration of for (ptr(head); ptr; ptr = ptr->pop_all(), count++):
\* func(ptr->m_data), then the node is detached from the rest and deleted.
ApplyStep(c) ==
  /\ cpc[c] = "run"
  /\ applied' = [applied EXCEPT ![c] = Append(@, mem[cur[c]].data)]
  /\ mem' = [mem EXCEPT ![cur[c]] = NoNode]
  /\ cur' = [cur EXCEPT ![c] = mem[cur[c]].link]
  /\ cpc' = [cpc EXCEPT ![c] = IF mem[cur[c]].link = Null THEN "idle" ELSE "run"]
  /\ UNCHANGED <<head, ppc, old, item, pushed, taken>>

\* pop_all(): the caller owns the chain; dropping the unique_ptr runs
\* ~list_item, which deletes every node of it.
PopAll(c) ==
  /\ cpc[c] = "idle"
  /\ head' = Null
  /\ taken' = taken \cup ToSet(Elems(mem, head))
  /\ mem' = [a \in Addr |-> IF a \in ToSet(Chain(mem, head)) THEN NoNode ELSE mem[a]]
  /\ UNCHANGED <<ppc, old, item, pushed, cpc, cur, applied>>

Next ==
  \/ \E t \in Pushers : PushStart(t) \/ PushCas(t)
  \/ \E c \in Consumers : ApplyLoad(c) \/ ApplyTake(c) \/ ApplyStep(c) \/ PopAll(c)

Spec == Init /\ [][Next]_vars

(***************************************************************************)
(* Properties.                                                             *)
(***************************************************************************)
\* Every pointer a thread will follow -- the head, the cursor of each
\* apply() loop, and every m_link on the chains they start -- leads to an
\* allocated node, and every chain ends in nullptr: no push relinks a node
\* to a recycled address, and no delete frees a node still on a chain.
Roots == {head} \cup {cur[c] : c \in Consumers}

NoDangling ==
  \A r \in Roots :
    LET ch == Chain(mem, r) IN
      /\ \A i \in DOMAIN ch : mem[ch[i]] # NoNode
      /\ r # Null => mem[ch[Len(ch)]].link = Null

\* lfs::list implements the atomic stack LfsStack: the chain from m_head is
\* the stack, a push takes effect at its successful CAS in its pusher's
\* order, apply()'s exchange takes the whole stack and its loop hands the
\* reversed chain to func, pop_all()'s exchange discards it; every other
\* step (new, a failed CAS, the load before the exchange) changes nothing
\* a thread can observe.
Stack == INSTANCE LfsStack
           WITH stack   <- Elems(mem, head),
                npushed <- [t \in Pushers |-> pushed[t] - (IF ppc[t] = "cas" THEN 1 ELSE 0)],
                pending <- [c \in Consumers |-> IF cpc[c] = "run" THEN Elems(mem, cur[c])
                                                                  ELSE <<>>]

LfsRefinesStack == Stack!Spec

=============================================================================
