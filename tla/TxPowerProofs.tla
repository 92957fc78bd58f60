--------------------------- MODULE TxPowerProofs ---------------------------
(***************************************************************************)
(* What the search for a TX power finds, for every table and every power.  *)
(***************************************************************************)
EXTENDS TxPower, SequenceTheorems, TLAPS

(***************************************************************************)
(* The properties, for the part of the table that was considered so far.   *)
(***************************************************************************)
Considered == {k \in DOMAIN table : k < i}

NoneFits == out = None => \A k \in Considered : table[k] > txPower

FoundFits == out # None => table[out] <= txPower

ExactKept ==
  \A k \in Considered : table[k] = txPower => out # None /\ table[out] = txPower

ClosestKept ==
  Ascending /\ out # None =>
    \A k \in Considered : table[k] <= txPower => table[k] <= table[out]

IInv == TypeOK /\ NoneFits /\ FoundFits /\ ExactKept /\ ClosestKept

LEMMA SearchInit == Init => IInv
<1> SUFFICES ASSUME Init PROVE IInv
  OBVIOUS
<1>1. txPower \in Powers /\ i = 1 /\ out = 0
  BY DEF Init, None
<1>2. table \in Seq(Powers)
  <2>1. PICK n \in 0 .. MaxLen : table \in [1 .. n -> Powers]
    BY DEF Init, Tables
  <2>2. n \in Nat
    BY IndexesAreBytes
  <2> QED BY <2>1, <2>2, SeqDef
<1>3. Len(table) \in Nat /\ DOMAIN table = 1 .. Len(table)
  BY <1>2, LenProperties
<1>4. Considered = {}
  BY <1>1, <1>3 DEF Considered
<1> QED BY <1>1, <1>2, <1>3, <1>4
        DEF IInv, TypeOK, NoneFits, FoundFits, ExactKept, ClosestKept, None

LEMMA SearchNext == IInv /\ [Next]_vars => IInv'
<1> SUFFICES ASSUME IInv, [Next]_vars PROVE IInv'
  OBVIOUS
<1>1. CASE UNCHANGED vars
  BY <1>1 DEF vars, IInv, TypeOK, NoneFits, FoundFits, ExactKept, ClosestKept,
              Considered, Ascending
<1>2. CASE Consider
  <2> DEFINE fits == table[i] <= txPower /\ (out = 0 \/ table[out] < txPower)
  <2>1. /\ i \in 1 .. Len(table) /\ i' = i + 1
        /\ table' = table /\ txPower' = txPower
        /\ out' = IF fits THEN i ELSE out
    BY <1>2 DEF Consider, Fits, Replaces, None, IInv, TypeOK
  <2>2. /\ table \in Seq(Powers) /\ txPower \in Int /\ Len(table) \in Nat
        /\ DOMAIN table = 1 .. Len(table) /\ out \in 0 .. i - 1 /\ i \in Nat
        /\ \A k \in 1 .. Len(table) : table[k] \in Int
    <3>1. table \in Seq(Powers) /\ txPower \in Powers /\ out \in 0 .. i - 1
      BY DEF IInv, TypeOK
    <3>2. Len(table) \in Nat /\ DOMAIN table = 1 .. Len(table)
      BY <3>1, LenProperties
    <3>3. \A k \in 1 .. Len(table) : table[k] \in Powers
      BY <3>1, ElementOfSeq
    <3>4. i \in Nat
      BY <2>1, <3>2
    <3>5. txPower \in Int /\ \A k \in 1 .. Len(table) : table[k] \in Int
      BY <3>1, <3>3, PowersAreIntegers
    <3> QED BY <3>1, <3>2, <3>4, <3>5
  <2>3. Considered' = Considered \cup {i} /\ Considered = 1 .. i - 1
    BY <2>1, <2>2 DEF Considered
  <2> HIDE DEF fits
  <2>4. TypeOK'
    BY <2>1, <2>2 DEF IInv, TypeOK
  <2>5. CASE fits
    <3>1. out' = i /\ i # 0 /\ table[i] <= txPower
      BY <2>1, <2>2, <2>5 DEF fits
    <3>2. NoneFits' /\ FoundFits'
      BY <2>1, <3>1 DEF NoneFits, FoundFits, None
    <3>3. ExactKept'
      <4>1. \A k \in Considered : table[k] # txPower
        BY <2>2, <2>3, <2>5 DEF fits, IInv, ExactKept, None
      <4> QED BY <2>1, <2>3, <3>1, <4>1 DEF ExactKept, None
    <3>4. ClosestKept'
      <4> SUFFICES ASSUME Ascending PROVE \A k \in Considered' : table[k] <= table[i]
        BY <2>1, <3>1 DEF ClosestKept, Ascending
      <4>1. \A k \in 1 .. i - 1 : table[k] < table[i]
        BY <2>1, <2>2 DEF Ascending
      <4> QED BY <2>1, <2>2, <2>3, <4>1
    <3> QED BY <2>4, <3>2, <3>3, <3>4 DEF IInv
  <2>6. CASE ~ fits
    <3>1. out' = out
      BY <2>1, <2>6
    <3>2. CASE out = 0
      <4>1. table[i] > txPower
        BY <2>1, <2>2, <2>6, <3>2 DEF fits
      <4>2. \A k \in Considered' : table[k] > txPower
        BY <2>3, <3>2, <4>1 DEF IInv, NoneFits, None
      <4>3. \A k \in Considered' : table[k] # txPower
        BY <2>1, <2>2, <2>3, <4>2
      <4> QED BY <2>1, <2>4, <3>1, <3>2, <4>2, <4>3
              DEF IInv, NoneFits, FoundFits, ExactKept, ClosestKept, None
    <3>3. CASE out # 0
      <4>1. out \in 1 .. Len(table) /\ table[out] \in Int /\ table[out] <= txPower
        BY <2>1, <2>2, <3>3 DEF IInv, FoundFits, None
      <4>2. table[i] \in Int /\ (table[i] > txPower \/ table[out] = txPower)
        BY <2>1, <2>2, <2>6, <4>1 DEF fits
      <4>3. NoneFits' /\ FoundFits'
        BY <2>1, <3>1, <3>3, <4>1 DEF NoneFits, FoundFits, None
      <4>4. ExactKept'
        <5>1. table[i] = txPower => table[out] = txPower
          BY <2>2, <4>2
        <5> QED BY <2>1, <2>3, <3>1, <3>3, <5>1 DEF IInv, ExactKept, None
      <4>5. ClosestKept'
        <5>1. table[i] <= txPower => table[i] <= table[out]
          BY <2>2, <4>1, <4>2
        <5> QED BY <2>1, <2>3, <3>1, <3>3, <5>1 DEF IInv, ClosestKept, Ascending, None
      <4> QED BY <2>4, <4>3, <4>4, <4>5 DEF IInv
    <3> QED BY <3>2, <3>3
  <2> QED BY <2>5, <2>6
<1> QED BY <1>1, <1>2 DEF Next

\* When the pass is done everything was considered.
LEMMA DoneConsidered == IInv /\ Done => Considered = DOMAIN table
<1> SUFFICES ASSUME IInv, Done PROVE Considered = DOMAIN table
  OBVIOUS
<1>1. Len(table) \in Nat /\ DOMAIN table = 1 .. Len(table) /\ i = Len(table) + 1
  BY LenProperties DEF IInv, TypeOK, Done
<1> QED BY <1>1 DEF Considered

(***************************************************************************)
(* No downlink asks a relay for more power than the server did, and the    *)
(* error is returned only when no power is low enough (helpers.rs:127).    *)
(***************************************************************************)
THEOREM PowerNeverMore == Spec => []NeverMore
<1>1. IInv => NeverMore
  BY DoneConsidered DEF IInv, NoneFits, FoundFits, NeverMore, Listed, None
<1> QED BY <1>1, SearchInit, SearchNext, PTL DEF Spec

(***************************************************************************)
(* A listed power is found exactly, in a table in any order.               *)
(***************************************************************************)
THEOREM PowerExact == Spec => []ExactIfListed
<1>1. IInv => ExactIfListed
  BY DoneConsidered DEF IInv, ExactKept, ExactIfListed, Listed
<1> QED BY <1>1, SearchInit, SearchNext, PTL DEF Spec

(***************************************************************************)
(* In a table in ascending order the closest lower power is found, as the  *)
(* comment on the function promises for any table (helpers.rs:125).        *)
(***************************************************************************)
THEOREM PowerClosest == Spec => []ClosestInOrder
<1>1. IInv => ClosestInOrder
  BY DoneConsidered DEF IInv, ClosestKept, ClosestInOrder, Listed
<1> QED BY <1>1, SearchInit, SearchNext, PTL DEF Spec
=============================================================================
