------------------------------ MODULE TxPower ------------------------------
(***************************************************************************)
(* helpers::tx_power_to_index (helpers.rs:127) as it runs: one pass over   *)
(* the configured TX powers that keeps, in out, the index to be sent to    *)
(* the relay in a downlink.  The relay looks the index up in the same      *)
(* table (index_to_tx_power).  Indexes count from 1 here, 0 is None.       *)
(***************************************************************************)
EXTENDS Integers, Sequences

CONSTANTS Powers, \* TX powers, in dBm, that are listed or asked for
          MaxLen  \* bound: the longest table

ASSUME PowersAreIntegers == Powers \subseteq Int
\* Indexes are u8 numbers; those of a longer table would be cut.
ASSUME IndexesAreBytes == MaxLen \in 0 .. 256

VARIABLES table,   \* conf.mappings.tx_power
          txPower, \* the power asked for
          i,       \* the index that the pass is to consider next
          out      \* the index found so far

vars == <<table, txPower, i, out>>

None == 0

Tables == UNION {[1 .. n -> Powers] : n \in 0 .. MaxLen}

Init == table \in Tables /\ txPower \in Powers /\ i = 1 /\ out = None

\* A slip: a listed power that is exactly the one asked for is passed over.
FitsStrictly(p) == p < txPower

Fits(p) == p <= txPower

\* A slip: what was found first is kept.
ReplacesNever(o) == o = None

\* Whether an entry that fits replaces the one found: unless that one is exact.
Replaces(o) == o = None \/ table[o] < txPower

Consider ==
  /\ i <= Len(table)
  /\ out' = IF Fits(table[i]) /\ Replaces(out) THEN i ELSE out
  /\ i' = i + 1
  /\ UNCHANGED <<table, txPower>>

Next == Consider

Spec == Init /\ [][Next]_vars

-----------------------------------------------------------------------------
TypeOK ==
  /\ table \in Seq(Powers) /\ txPower \in Powers
  /\ i \in 1 .. Len(table) + 1
  /\ out \in 0 .. i - 1

Done == i = Len(table) + 1

Listed == {table[k] : k \in DOMAIN table}

\* The order of the tables in the configurations that come with the program.
Ascending == \A j, k \in DOMAIN table : j < k => table[j] < table[k]

(***************************************************************************)
(* The relay never transmits with more power than was asked for, and the   *)
(* error "no TX power equal or lower" is returned only when there is none. *)
(***************************************************************************)
NeverMore ==
  Done => IF out = None THEN \A p \in Listed : p > txPower ELSE table[out] <= txPower

(***************************************************************************)
(* A power that is listed is found, in whatever order the table lists it.  *)
(***************************************************************************)
ExactIfListed == Done /\ txPower \in Listed => out # None /\ table[out] = txPower

(***************************************************************************)
(* In a table in ascending order the power found is the closest lower one. *)
(***************************************************************************)
ClosestInOrder ==
  Done /\ Ascending /\ out # None =>
    \A p \in Listed : p <= txPower => p <= table[out]
=============================================================================
