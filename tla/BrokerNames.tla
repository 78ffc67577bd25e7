------------------------------ MODULE BrokerNames ------------------------------
(***************************************************************************)
(* GenerateBrokerName (pkg/hub/submarinerbrokerinfo/brokerinfo.go): the    *)
(* name of the broker namespace of a ManagedClusterSet, and of the token   *)
(* Secret of a cluster. A name that would be too long for a namespace      *)
(* loses its first characters, as many as the suffix has, less one.        *)
(*                                                                         *)
(* BrokerController and AgentController name a broker by its set. The      *)
(* theorems say which sets have a broker of their own, so that they may.   *)
(***************************************************************************)
EXTENDS Naturals, Sequences, SequenceTheorems, TLAPS

(* What the name of an object may consist of in Kubernetes.                *)
Letters == {"-", ".", "a", "b", "c", "d", "e", "f", "g", "h", "i", "j", "k", "l",
            "m", "n", "o", "p", "q", "r", "s", "t", "u", "v", "w", "x", "y",
            "z", "0", "1", "2", "3", "4", "5", "6", "7", "8", "9"}
Names              == Seq(Letters)
BrokerSuffix       == <<"b", "r", "o", "k", "e", "r">>
NamespaceMaxLength == 63

WithSuffix(name) == name \o <<"-">> \o BrokerSuffix

Truncated(name) == SubSeq(name, Len(BrokerSuffix), Len(name))

GenerateBrokerName(name) ==
    IF Len(WithSuffix(name)) > NamespaceMaxLength
    THEN WithSuffix(Truncated(name)) ELSE WithSuffix(name)

-----------------------------------------------------------------------------
(* A name gets the seven characters of the suffix added.                   *)
LEMMA SuffixAdds ==
    ASSUME NEW name \in Names
    PROVE  /\ WithSuffix(name) \in Names
           /\ Len(WithSuffix(name)) = Len(name) + 7
           /\ \A i \in 1..Len(name) : WithSuffix(name)[i] = name[i]
<1> DEFINE dash == name \o <<"-">>
<1>1. <<"-">> \in Names /\ Len(<<"-">>) = 1 /\ BrokerSuffix \in Names /\ Len(BrokerSuffix) = 6
  <2>1. "-" \in Letters /\ \A c \in {"b", "r", "o", "k", "e"} : c \in Letters
    BY DEF Letters
  <2>2. <<"-">> \in Names /\ BrokerSuffix \in Names
    BY <2>1 DEF Names, BrokerSuffix
  <2>3. Len(<<"-">>) = 1 /\ Len(BrokerSuffix) = 6
    BY DEF BrokerSuffix
  <2> QED BY <2>2, <2>3
<1>2. /\ dash \in Names /\ Len(dash) = Len(name) + 1
      /\ \A i \in 1..Len(name) + 1 :
            dash[i] = IF i <= Len(name) THEN name[i] ELSE <<"-">>[i - Len(name)]
  BY <1>1, ConcatProperties DEF Names
<1> HIDE DEF dash
<1>3. /\ dash \o BrokerSuffix \in Names
      /\ Len(dash \o BrokerSuffix) = Len(dash) + Len(BrokerSuffix)
      /\ \A i \in 1..Len(dash) + Len(BrokerSuffix) :
            (dash \o BrokerSuffix)[i] =
                IF i <= Len(dash) THEN dash[i] ELSE BrokerSuffix[i - Len(dash)]
  BY <1>1, <1>2, ConcatProperties DEF Names
<1>4. Len(name) \in Nat
  BY LenProperties DEF Names
<1> QED BY <1>1, <1>2, <1>3, <1>4 DEF WithSuffix, dash

(* A long name loses five characters.                                      *)
LEMMA TruncationDrops ==
    ASSUME NEW name \in Names, Len(name) >= 5
    PROVE  Truncated(name) \in Names /\ Len(Truncated(name)) = Len(name) - 5
<1>1. Len(BrokerSuffix) = 6 /\ Len(name) \in Nat
  BY LenProperties DEF BrokerSuffix, Names
<1>2. \A i \in 6..Len(name) : name[i] \in Letters
  BY <1>1, ElementOfSeq DEF Names
<1>3. /\ SubSeq(name, 6, Len(name)) \in Names
      /\ Len(SubSeq(name, 6, Len(name))) =
            IF 6 <= Len(name) THEN Len(name) - 6 + 1 ELSE 0
  <2>1. 6 \in Int /\ Len(name) \in Int
    BY <1>1
  <2>2. SubSeq(name, 6, Len(name)) \in Seq(Letters)
    BY <2>1, <1>2, SubSeqProperties
  <2>3. Len(SubSeq(name, 6, Len(name))) = IF 6 <= Len(name) THEN Len(name) - 6 + 1 ELSE 0
    BY <2>1, <1>2, SubSeqProperties
  <2> QED BY <2>2, <2>3 DEF Names
<1>4. Truncated(name) = SubSeq(name, 6, Len(name))
  BY <1>1 DEF Truncated
<1>5. (IF 6 <= Len(name) THEN Len(name) - 6 + 1 ELSE 0) = Len(name) - 5
  <2> DEFINE n == Len(name)
  <2>1. n \in Nat /\ n >= 5
    BY <1>1
  <2> HIDE DEF n
  <2>2. (IF 6 <= n THEN n - 6 + 1 ELSE 0) = n - 5
    BY <2>1
  <2> QED BY <2>2 DEF n
<1>6. Truncated(name) \in Names
  BY <1>3, <1>4
<1>7. Len(Truncated(name)) = Len(SubSeq(name, 6, Len(name)))
  BY <1>4
<1> QED BY <1>3, <1>5, <1>6, <1>7

(* Names with the same suffix added were the same.                         *)
LEMMA SuffixKeepsApart ==
    ASSUME NEW a \in Names, NEW b \in Names, WithSuffix(a) = WithSuffix(b)
    PROVE  a = b
<1>1. Len(a) \in Nat /\ Len(b) \in Nat
  BY LenProperties DEF Names
<1>2. Len(a) = Len(b)
  BY <1>1, SuffixAdds
<1>3. \A i \in 1..Len(a) : a[i] = b[i]
  BY <1>2, SuffixAdds
<1> QED BY <1>2, <1>3, SeqEqual DEF Names

(* A generated name is one that a namespace may have just when the set's   *)
(* name has at most 61 characters, although a set's may have 63: dropping  *)
(* five characters does not make room for seven (brokerinfo.go:417-426).   *)
THEOREM BrokerNameFits ==
    ASSUME NEW name \in Names
    PROVE  Len(GenerateBrokerName(name)) <= NamespaceMaxLength <=> Len(name) <= 61
<1>1. Len(name) \in Nat /\ Len(WithSuffix(name)) = Len(name) + 7
  BY SuffixAdds, LenProperties DEF Names
<1>2. CASE Len(name) <= 56
  BY <1>1, <1>2 DEF GenerateBrokerName, NamespaceMaxLength
<1>3. CASE Len(name) > 56
  <2>1. Truncated(name) \in Names /\ Len(Truncated(name)) = Len(name) - 5
    BY <1>1, <1>3, TruncationDrops
  <2>2. Len(WithSuffix(Truncated(name))) = Len(name) + 2
    BY <1>1, <2>1, SuffixAdds
  <2>3. GenerateBrokerName(name) = WithSuffix(Truncated(name))
    BY <1>1, <1>3 DEF GenerateBrokerName, NamespaceMaxLength
  <2> QED BY <1>1, <1>3, <2>2, <2>3 DEF NamespaceMaxLength
<1> QED BY <1>1, <1>2, <1>3

(* What of a set's name is in its broker's.                                *)
Kept(name) == IF Len(name) > 56 THEN Truncated(name) ELSE name

(* The name is the kept part with the suffix.                              *)
LEMMA KeptSuffixed ==
    ASSUME NEW name \in Names
    PROVE  GenerateBrokerName(name) = WithSuffix(Kept(name)) /\ Kept(name) \in Names
<1>1. Len(name) \in Nat /\ Len(WithSuffix(name)) = Len(name) + 7
  BY SuffixAdds, LenProperties DEF Names
<1>2. CASE Len(name) <= 56
  BY <1>1, <1>2 DEF GenerateBrokerName, NamespaceMaxLength, Kept
<1>3. CASE Len(name) > 56
  <2>1. Truncated(name) \in Names
    BY <1>1, <1>3, TruncationDrops
  <2> QED BY <1>1, <1>3, <2>1 DEF GenerateBrokerName, NamespaceMaxLength, Kept
<1> QED BY <1>1, <1>2, <1>3

(* Two sets have the same broker just when what is kept of their names is  *)
(* the same: then they, with their ServiceAccounts, finalizers and         *)
(* clean-up, share one namespace (brokerinfo.go:417-426).                  *)
THEOREM BrokersShared ==
    ASSUME NEW a \in Names, NEW b \in Names
    PROVE  GenerateBrokerName(a) = GenerateBrokerName(b) <=> Kept(a) = Kept(b)
BY KeptSuffixed, SuffixKeepsApart

(* A set whose name has at most 51 characters has a broker of its own: no   *)
(* set of another name, short or long, has the same (brokerinfo.go:420).   *)
THEOREM ShortNamesApart ==
    ASSUME NEW a \in Names, NEW b \in Names, Len(a) <= 51,
           GenerateBrokerName(a) = GenerateBrokerName(b)
    PROVE  a = b
<1>1. Len(a) \in Nat /\ Len(b) \in Nat
  BY LenProperties DEF Names
<1>2. Kept(a) = Kept(b) /\ Kept(a) = a
  BY <1>1, BrokersShared DEF Kept
<1>3. ASSUME Len(b) > 56 PROVE FALSE
  <2>1. Len(Truncated(b)) = Len(b) - 5
    BY <1>1, <1>3, TruncationDrops
  <2>2. a = Truncated(b)
    BY <1>2, <1>3 DEF Kept
  <2> QED BY <1>1, <1>3, <2>1, <2>2
<1> QED BY <1>1, <1>2, <1>3 DEF Kept

(* From 52 characters on that is not so: as long as a name is not itself   *)
(* shortened, every name that has five more characters in front of it      *)
(* shares its broker (brokerinfo.go:420).                                  *)
THEOREM PrefixedNamesShare ==
    ASSUME NEW a \in Names, NEW prefix \in Names,
           Len(a) >= 52, Len(a) <= 56, Len(prefix) = 5
    PROVE  GenerateBrokerName(prefix \o a) = GenerateBrokerName(a)
<1> DEFINE b == prefix \o a
<1>1. Len(a) \in Nat /\ Len(prefix) \in Nat
  BY LenProperties DEF Names
<1>2. /\ b \in Names /\ Len(b) = Len(a) + 5
      /\ \A i \in 1..Len(b) : i > 5 => b[i] = a[i - 5]
  <2>1. /\ b \in Names /\ Len(b) = Len(prefix) + Len(a)
        /\ \A i \in 1..Len(prefix) + Len(a) :
              b[i] = IF i <= Len(prefix) THEN prefix[i] ELSE a[i - Len(prefix)]
    BY ConcatProperties DEF Names
  <2> HIDE DEF b
  <2> QED BY <1>1, <2>1
<1> HIDE DEF b
<1>3. Truncated(b) = a
  <2>1. Truncated(b) \in Names /\ Len(Truncated(b)) = Len(a)
    BY <1>1, <1>2, TruncationDrops
  <2>2. ASSUME NEW i \in 1..Len(a) PROVE Truncated(b)[i] = a[i]
    <3>1. Truncated(b) = SubSeq(b, 6, Len(b))
      BY DEF Truncated, BrokerSuffix
    <3>2. SubSeq(b, 6, Len(b))[i] = b[6 + i - 1]
      <4>1. \A j \in 6..Len(b) : b[j] \in Letters
        BY <1>1, <1>2, ElementOfSeq DEF Names
      <4>2. /\ Len(SubSeq(b, 6, Len(b))) = Len(a)
            /\ 6 \in Int /\ Len(b) \in Int
        BY <1>1, <1>2, <2>1, <3>1
      <4> QED BY <4>1, <4>2, <1>1, <1>2, SubSeqProperties
    <3> QED BY <1>1, <1>2, <3>1, <3>2
  <2> QED BY <2>1, <2>2, SeqEqual DEF Names
<1>4. Kept(b) = a /\ Kept(a) = a
  BY <1>1, <1>2, <1>3 DEF Kept
<1> QED BY <1>2, <1>4, BrokersShared DEF b

=============================================================================
