----------------------------- MODULE Gigabytes -----------------------------
(***************************************************************************)
(* The gigabytes of a set of contracts, without a recursive sum: one pair  *)
(* <<contract, i>> for each gigabyte of each contract, counted.            *)
(***************************************************************************)
EXTENDS Integers, FiniteSets

UnitsOf(gb, c) == {c} \X (1..gb[c])

Units(gb, S) == Cardinality(UNION {UnitsOf(gb, c) : c \in S})
=============================================================================
