------------------------------ MODULE WorkQueue ------------------------------
(***************************************************************************)
(* What the task stream promises its users: a posted message is claimed by *)
(* at most one worker, stays claimed by that worker until it is settled,   *)
(* is worked on only by its holder and only once at a time, and is never   *)
(* taken up again after it is settled.  A worker that dies stops working   *)
(* and keeps its claims.  Quantifiers range over the state, so the set of  *)
(* messages may be infinite.                                               *)
(***************************************************************************)
CONSTANTS Workers, Messages

VARIABLES
  posted,   \* messages accepted by the queue
  held,     \* Workers -> messages claimed and not settled
  active,   \* Workers -> messages being worked on
  settled   \* messages finished for good

vars == <<posted, held, active, settled>>

Init ==
  /\ posted = {}
  /\ held = [w \in Workers |-> {}]
  /\ active = [w \in Workers |-> {}]
  /\ settled = {}

Post ==
  /\ \E m \in posted' : m \in Messages \ posted /\ posted' = posted \cup {m}
  /\ UNCHANGED <<held, active, settled>>

Claim(w) ==
  /\ \E m \in posted :
       /\ m \notin settled
       /\ \A v \in Workers : m \notin held[v]
       /\ held' = [held EXCEPT ![w] = @ \cup {m}]
  /\ UNCHANGED <<posted, active, settled>>

Start(w) ==
  /\ \E m \in held[w] :
       /\ m \notin active[w]
       /\ active' = [active EXCEPT ![w] = @ \cup {m}]
  /\ UNCHANGED <<posted, held, settled>>

\* The holder settles a message, whether or not it worked on it just before.
Settle(w) ==
  /\ \E m \in held[w] :
       /\ settled' = settled \cup {m}
       /\ held' = [held EXCEPT ![w] = @ \ {m}]
       /\ active' = [active EXCEPT ![w] = @ \ {m}]
  /\ UNCHANGED posted

\* Work ends without settling: the message stays claimed.
Stop(w) ==
  /\ \E m \in active[w] : active' = [active EXCEPT ![w] = @ \ {m}]
  /\ UNCHANGED <<posted, held, settled>>

Die(w) ==
  /\ active' = [active EXCEPT ![w] = {}]
  /\ UNCHANGED <<posted, held, settled>>

Next ==
  \/ Post
  \/ \E w \in Workers : Claim(w) \/ Start(w) \/ Settle(w) \/ Stop(w) \/ Die(w)

Spec == Init /\ [][Next]_vars
=============================================================================
