------------------------------- MODULE LfsStack -------------------------------
(***************************************************************************)
(* What lfs::list promises its threads: an atomic stack.  A push puts the *)
(* next element of its pusher on top; apply() takes the whole stack at    *)
(* once and then hands its elements to func one by one, oldest first;     *)
(* pop_all() takes the whole stack and discards it.  Elements are the     *)
(* pairs <<pusher, n>> of the n-th push of a pusher.                       *)
(***************************************************************************)
EXTENDS Naturals, Sequences, SequencesExt

CONSTANTS Pushers, Consumers, MaxPush

VARIABLES stack,        \* the elements on the list, newest first
          npushed,      \* pushes of each pusher that took effect
          pending,      \* per consumer: taken by apply(), not yet given to func
          applied,      \* per consumer: the elements given to func, in order
          taken         \* the elements pop_all() withdrew

vars == <<stack, npushed, pending, applied, taken>>

Init ==
  /\ stack = <<>> /\ npushed = [t \in Pushers |-> 0]
  /\ pending = [c \in Consumers |-> <<>>]
  /\ applied = [c \in Consumers |-> <<>>] /\ taken = {}

Push(t) ==
  /\ npushed[t] < MaxPush
  /\ stack' = <<<<t, npushed[t] + 1>>>> \o stack
  /\ npushed' = [npushed EXCEPT ![t] = @ + 1]
  /\ UNCHANGED <<pending, applied, taken>>

Take(c) ==
  /\ pending[c] = <<>> /\ stack # <<>>
  /\ pending' = [pending EXCEPT ![c] = Reverse(stack)]
  /\ stack' = <<>>
  /\ UNCHANGED <<npushed, applied, taken>>

Deliver(c) ==
  /\ pending[c] # <<>>
  /\ applied' = [applied EXCEPT ![c] = Append(@, Head(pending[c]))]
  /\ pending' = [pending EXCEPT ![c] = Tail(@)]
  /\ UNCHANGED <<stack, npushed, taken>>

Discard ==
  /\ taken' = taken \cup ToSet(stack)
  /\ stack' = <<>>
  /\ UNCHANGED <<npushed, pending, applied>>

Next ==
  \/ \E t \in Pushers : Push(t)
  \/ \E c \in Consumers : Take(c) \/ Deliver(c)
  \/ Discard

Spec == Init /\ [][Next]_vars

=============================================================================
