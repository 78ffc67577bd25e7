------------------------------ MODULE BrokerLife ------------------------------
(***************************************************************************)
(* What the hub promises about the broker of a ManagedClusterSet: it is    *)
(* brought up only for a set that carries the broker finalizer ("claimed") *)
(* and the set is let go only when its broker is down. So whoever deletes  *)
(* the set waits for the broker, and no broker outlives its set.           *)
(***************************************************************************)
CONSTANT Sets

VARIABLES claimed, up   \* the sets with the finalizer, with a broker

lifeVars == <<claimed, up>>

LifeInit == claimed = {} /\ up = {}

Claim(s)    == claimed' = claimed \cup {s} /\ UNCHANGED up
BringUp(s)  == s \in claimed /\ up' = up \cup {s} /\ UNCHANGED claimed
TakeDown    == up' \subseteq up /\ UNCHANGED claimed
LetGo(s)    == s \notin up /\ claimed' = claimed \ {s} /\ UNCHANGED up

LifeNext == TakeDown \/ \E s \in Sets : Claim(s) \/ BringUp(s) \/ LetGo(s)

LifeSpec == LifeInit /\ [][LifeNext]_lifeVars

=============================================================================
