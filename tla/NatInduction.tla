----------------------------- MODULE NatInduction -----------------------------
(* Induction over the naturals for what a set holds, from the well-          *)
(* foundedness of their order. The library's own form takes a predicate as a *)
(* parameter; that a set is Nat says the same.                               *)
EXTENDS WellFoundedInduction, TLAPS

LEMMA LeastNumber ==
    ASSUME NEW S \in SUBSET Nat, S # {}
    PROVE  \E m \in S : \A k \in S : m <= k
<1>1. PICK m \in S : \A k \in S : <<k, m>> \notin OpToRel(<, Nat)
    BY NatLessThanWellFounded, WFMin
<1>2. \A k \in S : ~(k < m)
    BY <1>1 DEF OpToRel
<1> QED BY <1>2

LEMMA InductionOnNat ==
    ASSUME NEW S, \A k \in Nat : (\A j \in Nat : j < k => j \in S) => k \in S
    PROVE  Nat \subseteq S
<1> SUFFICES ASSUME Nat \ S # {} PROVE FALSE
    OBVIOUS
<1>1. PICK m \in Nat \ S : \A k \in Nat \ S : m <= k
    BY LeastNumber
<1>2. \A j \in Nat : j < m => j \in S
    BY <1>1
<1> QED BY <1>1, <1>2

=============================================================================
