------------------------------ MODULE Workload ------------------------------
(* What may happen in one behaviour, and how often: the bounds of the      *)
(* modules about the tools, as one variable that the initial state picks   *)
(* and every action spends from.                                           *)
EXTENDS Integers

CONSTANT Workloads

VARIABLE left

Allowances == [
    lines : Nat, rows : Nat, passages : Nat, charges : Nat, walks : Nat,   \* MemoryTools
    kinds : SUBSET {"plain", "long", "open", "secret", "marked", "tool"},
    passes : Nat,                                                          \* Consolidation
    runs : Nat, reembeds : Nat, crashes : Nat,                             \* StoreMigration
    old : Nat,                      \* passages an older version left behind
    starts : Nat, calls : Nat,                                             \* ExternalTools
    nodes : Nat, keys : BOOLEAN]                                           \* Tracing

ASSUME WorkloadsAssumption == Workloads \subseteq Allowances

Spend(what) == left[what] > 0 /\ left' = [left EXCEPT ![what] = @ - 1]
=============================================================================
