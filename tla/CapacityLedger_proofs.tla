----------------------- MODULE CapacityLedger_proofs -----------------------
(***************************************************************************)
(* The ledger keeps its promise: load is never recorded that no contract   *)
(* holds.                                                                  *)
(***************************************************************************)
EXTENDS CapacityLedger, Gigabytes_proofs

LEMMA HoldersFinite ==
  ASSUME LedgerAssumption, NEW n
  PROVE  IsFiniteSet(Holders(n)) /\ \A c \in Holders(n) : Gb[c] \in Nat
<1>1. Holders(n) \in SUBSET Contracts
  BY DEF Holders
<1>. QED
  BY <1>1, FS_Subset, LedgerAssumption DEF LedgerAssumption

\* Loads and limits stay natural numbers, and contracts hold capacity on NROs.
THEOREM LedgerTypeCorrect ==
  ASSUME LedgerAssumption
  PROVE  LedgerSpec => []LedgerTypeOK
<1>1. LedgerInit => LedgerTypeOK
  BY LedgerAssumption DEF LedgerAssumption, LedgerInit, LedgerTypeOK
<1>2. LedgerTypeOK /\ [LedgerNext]_ledger => LedgerTypeOK'
  <2>. SUFFICES ASSUME LedgerTypeOK, [LedgerNext]_ledger
                PROVE  LedgerTypeOK'
    OBVIOUS
  <2>. USE LedgerAssumption DEF LedgerAssumption, LedgerTypeOK
  <2>1. ASSUME NEW n \in Nros, NEW c \in Contracts, Grant(c, n)
        PROVE  LedgerTypeOK'
    BY <2>1 DEF Grant
  <2>2. ASSUME NEW n \in Nros, NEW c \in Contracts, Release(c, n)
        PROVE  LedgerTypeOK'
    BY <2>2 DEF Release
  <2>3. ASSUME NEW n \in Nros, NEW c \in Contracts, Forget(c, n)
        PROVE  LedgerTypeOK'
    BY <2>3 DEF Forget
  <2>4. ASSUME NEW n \in Nros, NEW less \in 0..load[n], WriteOff(n, less)
        PROVE  LedgerTypeOK'
    BY <2>4 DEF WriteOff
  <2>5. ASSUME NEW n \in Nros, Resize(n)
        PROVE  LedgerTypeOK'
    BY <2>5 DEF Resize
  <2>6. CASE UNCHANGED ledger
    BY <2>6 DEF ledger
  <2>. QED
    BY <2>1, <2>2, <2>3, <2>4, <2>5, <2>6 DEF LedgerNext
<1>. QED
  BY <1>1, <1>2, PTL DEF LedgerSpec

\* The load recorded on an NRO never exceeds the gigabytes of the contracts it serves.
THEOREM LedgerCovered ==
  ASSUME LedgerAssumption
  PROVE  LedgerSpec => []Covered
<1>1. LedgerInit => Covered
  <2>. SUFFICES ASSUME LedgerInit, NEW n \in Nros
                PROVE  load[n] <= Units(Gb, Holders(n))
    BY DEF Covered
  <2>1. Units(Gb, Holders(n)) \in Nat
    BY HoldersFinite, UnitsFinite
  <2>. QED
    BY <2>1 DEF LedgerInit
<1>2. LedgerTypeOK /\ Covered /\ [LedgerNext]_ledger => Covered'
  <2>. SUFFICES ASSUME LedgerTypeOK, Covered, [LedgerNext]_ledger, NEW m \in Nros
                PROVE  load'[m] <= Units(Gb, Holders(m)')
    BY DEF Covered
  <2>0. /\ load[m] \in Nat /\ load[m] <= Units(Gb, Holders(m))
        /\ IsFiniteSet(Holders(m)) /\ Units(Gb, Holders(m)) \in Nat
        /\ \A c \in Holders(m) : Gb[c] \in Nat
    BY HoldersFinite, UnitsFinite DEF LedgerTypeOK, Covered
  <2>1. ASSUME NEW n \in Nros, NEW c \in Contracts, Grant(c, n)
        PROVE  load'[m] <= Units(Gb, Holders(m)')
    <3>1. CASE m = n
      <4>1. Holders(m)' = Holders(m) \cup {c} /\ c \notin Holders(m)
        BY <2>1, <3>1, LedgerAssumption DEF LedgerAssumption, Grant, Holders, LedgerTypeOK
      <4>2. Units(Gb, Holders(m) \cup {c}) = Units(Gb, Holders(m)) + Gb[c]
        BY <2>0, <4>1, UnitsAdd, LedgerAssumption DEF LedgerAssumption
      <4>3. load'[m] = load[m] + Gb[c]
        BY <2>1, <3>1 DEF Grant, LedgerTypeOK
      <4>. QED
        BY <2>0, <4>1, <4>2, <4>3, LedgerAssumption DEF LedgerAssumption
    <3>2. CASE m # n
      <4>1. Holders(m)' = Holders(m) /\ load'[m] = load[m]
        BY <2>1, <3>2, LedgerAssumption DEF LedgerAssumption, Grant, Holders, LedgerTypeOK
      <4>. QED
        BY <2>0, <4>1
    <3>. QED
      BY <3>1, <3>2
  <2>2. ASSUME NEW n \in Nros, NEW c \in Contracts, Release(c, n)
        PROVE  load'[m] <= Units(Gb, Holders(m)')
    <3>1. CASE m = n
      <4>1. Holders(m)' = Holders(m) \ {c} /\ c \in Holders(m)
        BY <2>2, <3>1, LedgerAssumption DEF LedgerAssumption, Release, Holders, LedgerTypeOK
      <4>2. Units(Gb, Holders(m)) = Units(Gb, Holders(m) \ {c}) + Gb[c]
        BY <2>0, <4>1, UnitsRemove
      <4>3. Units(Gb, Holders(m) \ {c}) \in Nat
        <5>1. IsFiniteSet(Holders(m) \ {c})
          BY <2>0, FS_Subset
        <5>. QED
          BY <2>0, <5>1, UnitsFinite
      <4>4. load'[m] = IF load[m] < Gb[c] THEN 0 ELSE load[m] - Gb[c]
        BY <2>2, <3>1 DEF Release, LedgerTypeOK
      <4>. QED
        BY <2>0, <4>1, <4>2, <4>3, <4>4, LedgerAssumption DEF LedgerAssumption
    <3>2. CASE m # n
      <4>1. Holders(m)' = Holders(m) /\ load'[m] = load[m]
        BY <2>2, <3>2, LedgerAssumption DEF LedgerAssumption, Release, Holders, LedgerTypeOK
      <4>. QED
        BY <2>0, <4>1
    <3>. QED
      BY <3>1, <3>2
  <2>3. ASSUME NEW n \in Nros, NEW c \in Contracts, Forget(c, n)
        PROVE  load'[m] <= Units(Gb, Holders(m)')
    <3>1. Holders(m)' = IF m = n THEN Holders(m) \ {c} ELSE Holders(m)
      BY <2>3, LedgerAssumption DEF LedgerAssumption, Forget, Holders, LedgerTypeOK
    <3>2. load'[m] = load[m] /\ (m = n => load[m] <= Units(Gb, Holders(m) \ {c}))
      BY <2>3 DEF Forget
    <3>. QED
      BY <2>0, <3>1, <3>2
  <2>4. ASSUME NEW n \in Nros, NEW less \in 0..load[n], WriteOff(n, less)
        PROVE  load'[m] <= Units(Gb, Holders(m)')
    <3>1. Holders(m)' = Holders(m)
      BY <2>4 DEF WriteOff, Holders
    <3>2. load'[m] \in Nat /\ load'[m] <= load[m]
      BY <2>0, <2>4 DEF WriteOff, LedgerTypeOK
    <3>. QED
      BY <2>0, <3>1, <3>2
  <2>5. ASSUME NEW n \in Nros, Resize(n)
        PROVE  load'[m] <= Units(Gb, Holders(m)')
    BY <2>0, <2>5 DEF Resize, Holders
  <2>6. CASE UNCHANGED ledger
    BY <2>0, <2>6 DEF ledger, Holders
  <2>. QED
    BY <2>1, <2>2, <2>3, <2>4, <2>5, <2>6 DEF LedgerNext
<1>. QED
  BY <1>1, <1>2, LedgerTypeCorrect, PTL DEF LedgerSpec
=============================================================================
