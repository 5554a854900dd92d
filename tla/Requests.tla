------------------------------ MODULE Requests ------------------------------
(***************************************************************************)
(* The calls of a page that are in flight.  The frontend is one thread: a   *)
(* handler runs to its first await, and what follows the await runs when    *)
(* the answer is there, in any order relative to other answers and clicks.  *)
(* calls maps the identifier of each call in flight to what it asks for,    *)
(* with the values its continuation has captured.                           *)
(*                                                                          *)
(* A request version (++version before the await, version compared after    *)
(* it) is kept as the identifier of the call that holds the latest version, *)
(* or NoCall when the version was raised without a call: the comparison     *)
(* succeeds for that call alone.                                            *)
(***************************************************************************)
EXTENDS Naturals

\* Bound: at most as many calls in flight at once as there are identifiers.
CONSTANT CallIds

CallIdsAssumption == CallIds \subseteq Nat \ {0}

NoCall == 0
NoCalls == [i \in {} |-> {}]

Free(calls) == CallIds \ DOMAIN calls
CanPost(calls) == Free(calls) # {}
NextId(calls) == CHOOSE i \in Free(calls) : TRUE

\* The calls with one more, under a free identifier.
Post(calls, call) ==
  [i \in DOMAIN calls \cup {NextId(calls)} |->
     IF i \in DOMAIN calls THEN calls[i] ELSE call]

\* The calls without one whose continuation has run.
Settle(calls, id) == [i \in DOMAIN calls \ {id} |-> calls[i]]

\* Settle a call whose continuation posts the next one.
Chain(calls, id, call) == [calls EXCEPT ![id] = call]

\* The call that holds a version is still to be answered.
Pending(calls, version, op) == version \in DOMAIN calls /\ calls[version].op = op
=============================================================================
