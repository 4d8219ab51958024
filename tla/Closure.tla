------------------------------ MODULE Closure ------------------------------
(***************************************************************************)
(* What a worklist is for: everything that can be reached from the root is *)
(* done in the end, once, and nothing else.  Collector of monomorphize     *)
(* promises this of the functions it makes: InstanceKeys are the nodes,    *)
(* and the calls in an instance lead on.                                   *)
(***************************************************************************)
CONSTANTS
  Succ(_),    \* the nodes that a node leads to
  Roots       \* where one may begin

VARIABLES
  root,
  todo,    \* found and not yet done
  done

vars == <<root, todo, done>>

Init ==
  /\ root \in Roots
  /\ todo = {root}
  /\ done = {}

Do(n) ==
  /\ n \in todo
  /\ done' = done \union {n}
  /\ todo' = (todo \union Succ(n)) \ done'
  /\ UNCHANGED root

Next == \E n \in todo : Do(n)

Spec == Init /\ [][Next]_vars

-----------------------------------------------------------------------------
(* Properties *)

IsClosed(S) == \A n \in S : Succ(n) \subseteq S

\* Done and found together hold the root and lead nowhere else, and nothing is
\* to be done again: no function that the program needs is forgotten.
NothingLost ==
  /\ root \in done \union todo
  /\ \A n \in done : Succ(n) \subseteq done \union todo
  /\ done \intersect todo = {}

\* Whatever is found can be reached, for it is in every closed set that holds
\* the root: no function is made that the program does not need.
NothingExtra ==
  \A S : root \in S /\ IsClosed(S) => done \union todo \subseteq S

\* At the end what is done is the least closed set that holds the root.
EndsWithLeastClosed ==
  todo = {} =>
    /\ root \in done /\ IsClosed(done)
    /\ \A S : root \in S /\ IsClosed(S) => done \subseteq S
=============================================================================
