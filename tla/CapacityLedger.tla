--------------------------- MODULE CapacityLedger ---------------------------
(***************************************************************************)
(* What the pipeline promises about NRO capacity, without its calls,       *)
(* retries, documents and queue: a ledger of which NRO each contract       *)
(* holds capacity on, and of the load recorded against each NRO.  A        *)
(* contract is granted capacity on one NRO at a time; giving it back never *)
(* leaves more load recorded than the remaining contracts hold.  Whether a *)
(* grant fits is not the ledger's business: the limit may be lowered, and  *)
(* is, between the check and the grant.                                    *)
(***************************************************************************)
EXTENDS Gigabytes

CONSTANTS Nros, Contracts, NoNro, Gb, Capacity

LedgerAssumption ==
  /\ NoNro \notin Nros
  /\ IsFiniteSet(Contracts)
  /\ Gb \in [Contracts -> Nat] /\ Capacity \in [Nros -> Nat]

VARIABLES held, load, limit

ledger == <<held, load, limit>>

Holders(n) == {c \in Contracts : held[c] = n}

LedgerTypeOK ==
  /\ held \in [Contracts -> Nros \cup {NoNro}]
  /\ load \in [Nros -> Nat]
  /\ limit \in [Nros -> Nat]

LedgerInit ==
  /\ held = [c \in Contracts |-> NoNro]
  /\ load = [n \in Nros |-> 0]
  /\ limit = Capacity

Grant(c, n) ==
  /\ held[c] = NoNro
  /\ held' = [held EXCEPT ![c] = n]
  /\ load' = [load EXCEPT ![n] = @ + Gb[c]]
  /\ UNCHANGED limit

Release(c, n) ==
  /\ held[c] = n
  /\ held' = [held EXCEPT ![c] = NoNro]
  /\ load' = [load EXCEPT ![n] = IF @ < Gb[c] THEN 0 ELSE @ - Gb[c]]
  /\ UNCHANGED limit

\* Load is written off with no contract giving anything back.
WriteOff(n, less) ==
  /\ less <= load[n]
  /\ load' = [load EXCEPT ![n] = less]
  /\ UNCHANGED <<held, limit>>

\* A contract leaves whose load was written off before.
Forget(c, n) ==
  /\ held[c] = n
  /\ load[n] <= Units(Gb, Holders(n) \ {c})
  /\ held' = [held EXCEPT ![c] = NoNro]
  /\ UNCHANGED <<load, limit>>

Resize(n) ==
  /\ limit'[n] \in Nat
  /\ limit' = [limit EXCEPT ![n] = limit'[n]]
  /\ UNCHANGED <<held, load>>

LedgerNext ==
  \E n \in Nros :
    \/ \E c \in Contracts : Grant(c, n) \/ Release(c, n) \/ Forget(c, n)
    \/ \E less \in 0..load[n] : WriteOff(n, less)
    \/ Resize(n)

LedgerSpec == LedgerInit /\ [][LedgerNext]_ledger

\* No NRO records more load than the contracts it serves hold.
Covered == \A n \in Nros : load[n] <= Units(Gb, Holders(n))
=============================================================================
