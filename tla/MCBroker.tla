------------------------------- MODULE MCBroker -------------------------------
(* A small instance of BrokerController for TLC: one set and two clusters.  *)
(* TLC also compares BrokerNames with its theorems, on the names that a    *)
(* ManagedClusterSet may have: 1 to 63 characters.                         *)
EXTENDS BrokerController, BrokerNames

CONSTANTS s1, c1, c2   \* model values the configuration draws from

NameOf(first, length) == <<first>> \o [i \in 1..length - 1 |-> "a"]

ASSUME NamesAsProved ==
    \A m, n \in 1..63 :
       LET a == NameOf("a", m)  b == NameOf("b", n) IN
       /\ Len(GenerateBrokerName(a)) <= NamespaceMaxLength <=> m <= 61
       /\ m <= 51 => GenerateBrokerName(a) # GenerateBrokerName(b)
       /\ GenerateBrokerName(a) = GenerateBrokerName(b) <=> Kept(a) = Kept(b)
       /\ m \in 52..56 =>
             GenerateBrokerName(NameOf("b", 5) \o a) = GenerateBrokerName(a)

=============================================================================
