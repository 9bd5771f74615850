---------------------------- MODULE Subsequences ----------------------------
(***************************************************************************)
(* The elements at chosen positions of a sequence, in the sequence's       *)
(* order: what Python's list comprehensions with a condition, and          *)
(* itertools.combinations, yield.  Written without recursion, so that it   *)
(* can be reasoned about.                                                  *)
(***************************************************************************)
EXTENDS Naturals, Sequences, FiniteSets

(* How many of the positions c come up to i.                               *)
Rank(c, i) == Cardinality({j \in c : j <= i})

Subsequence(s, c) ==
  [n \in 1..Cardinality(c) |-> s[CHOOSE i \in c : Rank(c, i) = n]]

(* The elements of s that are in S.                                        *)
Among(s, S) == Subsequence(s, {i \in DOMAIN s : s[i] \in S})

(* The elements of s without repetitions, each where it first stands.      *)
FirstOf(s) ==
  Subsequence(s, {i \in DOMAIN s : \A j \in DOMAIN s : j < i => s[j] # s[i]})
=============================================================================
