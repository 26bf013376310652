-------------------------- MODULE Gigabytes_proofs --------------------------
(***************************************************************************)
(* How the gigabytes of a finite set of contracts change with the set.     *)
(***************************************************************************)
EXTENDS Gigabytes, FiniteSetTheorems, TLAPS

\* A contract of g gigabytes has g units.
LEMMA UnitsOfOne ==
  ASSUME NEW gb, NEW c, gb[c] \in Nat
  PROVE  IsFiniteSet(UnitsOf(gb, c)) /\ Cardinality(UnitsOf(gb, c)) = gb[c]
<1>1. IsFiniteSet({c}) /\ Cardinality({c}) = 1
  BY FS_Singleton
<1>2. IsFiniteSet(1..gb[c]) /\ Cardinality(1..gb[c]) = gb[c]
  BY FS_Interval
<1>3. /\ IsFiniteSet({c} \X (1..gb[c]))
      /\ Cardinality({c} \X (1..gb[c])) = Cardinality({c}) * Cardinality(1..gb[c])
  BY <1>1, <1>2, FS_Product
<1>. QED
  BY <1>1, <1>2, <1>3 DEF UnitsOf

\* The units of a finite set are finitely many.
LEMMA UnitsFinite ==
  ASSUME NEW S, IsFiniteSet(S), NEW gb, \A c \in S : gb[c] \in Nat
  PROVE  IsFiniteSet(UNION {UnitsOf(gb, c) : c \in S}) /\ Units(gb, S) \in Nat
<1>. DEFINE T == {UnitsOf(gb, c) : c \in S}
            f == [c \in S |-> UnitsOf(gb, c)]
<1>1. f \in Surjection(S, T)
  BY DEF Surjection
<1>2. IsFiniteSet(T)
  BY <1>1, FS_Surjection
<1>3. \A U \in T : IsFiniteSet(U)
  BY UnitsOfOne
<1>4. IsFiniteSet(UNION T)
  BY <1>2, <1>3, FS_UNION
<1>. QED
  BY <1>4, FS_CardinalityType DEF Units

\* No contracts, no gigabytes.
LEMMA UnitsEmpty ==
  ASSUME NEW gb
  PROVE  Units(gb, {}) = 0
<1>1. UNION {UnitsOf(gb, c) : c \in {}} = {}
  OBVIOUS
<1>. QED
  BY <1>1, FS_EmptySet DEF Units

\* More contracts never have fewer gigabytes.
LEMMA UnitsMonotone ==
  ASSUME NEW S, IsFiniteSet(S), NEW T \in SUBSET S, NEW gb, \A c \in S : gb[c] \in Nat
  PROVE  Units(gb, T) <= Units(gb, S)
<1>1. UNION {UnitsOf(gb, c) : c \in T} \in SUBSET UNION {UnitsOf(gb, c) : c \in S}
  OBVIOUS
<1>2. IsFiniteSet(UNION {UnitsOf(gb, c) : c \in S})
  BY UnitsFinite
<1>. QED
  BY <1>1, <1>2, FS_Subset DEF Units

\* A contract brings its own gigabytes.
LEMMA UnitsAdd ==
  ASSUME NEW S, IsFiniteSet(S), NEW gb, \A d \in S : gb[d] \in Nat,
         NEW c, c \notin S, gb[c] \in Nat
  PROVE  Units(gb, S \cup {c}) = Units(gb, S) + gb[c]
<1>. DEFINE U == UNION {UnitsOf(gb, d) : d \in S}
            V == UnitsOf(gb, c)
<1>1. UNION {UnitsOf(gb, d) : d \in S \cup {c}} = U \cup V
  OBVIOUS
<1>2. U \cap V = {}
  BY DEF UnitsOf
<1>3. IsFiniteSet(U) /\ Cardinality(U) \in Nat
  BY UnitsFinite, FS_CardinalityType
<1>4. IsFiniteSet(V) /\ Cardinality(V) = gb[c]
  BY UnitsOfOne
<1>5. Cardinality(U \cup V) = Cardinality(U) + Cardinality(V) - Cardinality(U \cap V)
  BY <1>3, <1>4, FS_Union
<1>6. Cardinality(U \cap V) = 0
  BY <1>2, FS_EmptySet
<1>7. Units(gb, S) = Cardinality(U)
  BY DEF Units
<1>8. Units(gb, S \cup {c}) = Cardinality(U \cup V)
  BY <1>1 DEF Units
<1>. HIDE DEF U, V
<1>. QED
  BY <1>3, <1>4, <1>5, <1>6, <1>7, <1>8

\* What is left without one contract.
LEMMA UnitsRemove ==
  ASSUME NEW S, IsFiniteSet(S), NEW gb, \A d \in S : gb[d] \in Nat, NEW c \in S
  PROVE  Units(gb, S) = Units(gb, S \ {c}) + gb[c]
<1>. DEFINE R == S \ {c}
<1>1. IsFiniteSet(R)
  BY FS_Subset
<1>2. R \cup {c} = S /\ c \notin R /\ \A d \in R : gb[d] \in Nat
  OBVIOUS
<1>. HIDE DEF R
<1>3. Units(gb, R \cup {c}) = Units(gb, R) + gb[c]
  BY <1>1, <1>2, UnitsAdd
<1>. QED
  BY <1>2, <1>3 DEF R
=============================================================================
