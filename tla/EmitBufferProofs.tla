-------------------------- MODULE EmitBufferProofs --------------------------
(***************************************************************************)
(* Proofs about EmitBuffer, for any number of goroutines and buffers.      *)
(***************************************************************************)
EXTENDS EmitBuffer, TLAPS

\* Every step keeps the types.
LEMMA TypeStep == TypeOK /\ OwnerProgress /\ [Next]_vars => TypeOK'
<1> SUFFICES ASSUME TypeOK, OwnerProgress, [Next]_vars PROVE TypeOK'
  OBVIOUS
<1> USE BufferAssumption DEF TypeOK, OwnerProgress, Users, Goto, Get, Put, Fresh
<1>1. ASSUME NEW u \in Users, Start(u) PROVE TypeOK'
  BY <1>1 DEF Start
<1>2. ASSUME NEW u \in Users, FillHead(u) PROVE TypeOK'
  BY <1>2 DEF FillHead
<1>3. ASSUME NEW u \in Users, FillData(u) PROVE TypeOK'
  <2>1. CASE u \in Emitters
    BY <1>3, <2>1 DEF FillData
  <2>2. CASE u \notin Emitters
    BY <1>3, <2>2 DEF FillData
  <2> QED
    BY <2>1, <2>2
<1>4. ASSUME NEW u \in Users, WriteHead(u) PROVE TypeOK'
  BY <1>4 DEF WriteHead
<1>5. ASSUME NEW u \in Users, WriteData(u) PROVE TypeOK'
  BY <1>5 DEF WriteData
<1>6. ASSUME NEW u \in Users, Again(u) PROVE TypeOK'
  BY <1>6 DEF Again
<1>7. ASSUME NEW u \in Pingers, PingReturns(u) PROVE TypeOK'
  BY <1>7 DEF PingReturns
<1>8. ASSUME NEW b \in Buffers, Collect(b) PROVE TypeOK'
  BY <1>8 DEF Collect
<1>9. ASSUME UNCHANGED vars PROVE TypeOK'
  BY <1>9 DEF vars
<1> QED
  BY <1>1, <1>2, <1>3, <1>4, <1>5, <1>6, <1>7, <1>8, <1>9 DEF Next

\* Every step keeps buffers with one owner.
LEMMA OwnStep == TypeOK /\ OwnerProgress /\ OwnedByOne /\ [Next]_vars => OwnedByOne'
<1> SUFFICES ASSUME TypeOK, OwnerProgress, OwnedByOne, [Next]_vars PROVE OwnedByOne'
  OBVIOUS
<1> USE BufferAssumption DEF TypeOK, OwnerProgress, OwnedByOne, Users, Goto, Get, Put, Fresh
<1>1. ASSUME NEW u \in Users, Start(u) PROVE OwnedByOne'
  BY <1>1 DEF Start
<1>2. ASSUME NEW u \in Users, FillHead(u) PROVE OwnedByOne'
  BY <1>2 DEF FillHead
<1>3. ASSUME NEW u \in Users, FillData(u) PROVE OwnedByOne'
  <2>1. CASE u \in Emitters
    BY <1>3, <2>1 DEF FillData
  <2>2. CASE u \notin Emitters
    BY <1>3, <2>2 DEF FillData
  <2> QED
    BY <2>1, <2>2
<1>4. ASSUME NEW u \in Users, WriteHead(u) PROVE OwnedByOne'
  BY <1>4 DEF WriteHead
<1>5. ASSUME NEW u \in Users, WriteData(u) PROVE OwnedByOne'
  BY <1>5 DEF WriteData
<1>6. ASSUME NEW u \in Users, Again(u) PROVE OwnedByOne'
  BY <1>6 DEF Again
<1>7. ASSUME NEW u \in Pingers, PingReturns(u) PROVE OwnedByOne'
  BY <1>7 DEF PingReturns
<1>8. ASSUME NEW b \in Buffers, Collect(b) PROVE OwnedByOne'
  BY <1>8 DEF Collect
<1>9. ASSUME UNCHANGED vars PROVE OwnedByOne'
  BY <1>9 DEF vars
<1> QED
  BY <1>1, <1>2, <1>3, <1>4, <1>5, <1>6, <1>7, <1>8, <1>9 DEF Next

\* Every step keeps what an owner has filled in.
LEMMA ProgressStep == TypeOK /\ OwnedByOne /\ OwnerProgress /\ [Next]_vars => OwnerProgress'
<1> SUFFICES ASSUME TypeOK, OwnedByOne, OwnerProgress, [Next]_vars PROVE OwnerProgress'
  OBVIOUS
<1> USE BufferAssumption DEF TypeOK, OwnedByOne, OwnerProgress, Users, Goto, Get, Put, Fresh
<1>1. ASSUME NEW u \in Users, Start(u) PROVE OwnerProgress'
  BY <1>1 DEF Start
<1>2. ASSUME NEW u \in Users, FillHead(u) PROVE OwnerProgress'
  BY <1>2 DEF FillHead
<1>3. ASSUME NEW u \in Users, FillData(u) PROVE OwnerProgress'
  <2>1. CASE u \in Emitters
    BY <1>3, <2>1 DEF FillData
  <2>2. CASE u \notin Emitters
    BY <1>3, <2>2 DEF FillData
  <2> QED
    BY <2>1, <2>2
<1>4. ASSUME NEW u \in Users, WriteHead(u) PROVE OwnerProgress'
  BY <1>4 DEF WriteHead
<1>5. ASSUME NEW u \in Users, WriteData(u) PROVE OwnerProgress'
  BY <1>5 DEF WriteData
<1>6. ASSUME NEW u \in Users, Again(u) PROVE OwnerProgress'
  BY <1>6 DEF Again
<1>7. ASSUME NEW u \in Pingers, PingReturns(u) PROVE OwnerProgress'
  BY <1>7 DEF PingReturns
<1>8. ASSUME NEW b \in Buffers, Collect(b) PROVE OwnerProgress'
  BY <1>8 DEF Collect
<1>9. ASSUME UNCHANGED vars PROVE OwnerProgress'
  BY <1>9 DEF vars
<1> QED
  BY <1>1, <1>2, <1>3, <1>4, <1>5, <1>6, <1>7, <1>8, <1>9 DEF Next

\* Every step keeps the ticks that were sent intact.
LEMMA PingStep == TypeOK /\ OwnerProgress /\ PingIntact /\ [Next]_vars => PingIntact'
<1> SUFFICES ASSUME TypeOK, OwnerProgress, PingIntact, [Next]_vars PROVE PingIntact'
  OBVIOUS
<1> USE BufferAssumption DEF TypeOK, OwnerProgress, PingIntact, Users, Goto, Get, Put
<1>1. ASSUME NEW u \in Users, Start(u) PROVE PingIntact'
  BY <1>1 DEF Start
<1>2. ASSUME NEW u \in Users, FillHead(u) PROVE PingIntact'
  BY <1>2 DEF FillHead
<1>3. ASSUME NEW u \in Users, FillData(u) PROVE PingIntact'
  <2>1. CASE u \in Emitters
    BY <1>3, <2>1 DEF FillData
  <2>2. CASE u \notin Emitters
    BY <1>3, <2>2 DEF FillData
  <2> QED
    BY <2>1, <2>2
<1>4. ASSUME NEW u \in Users, WriteHead(u) PROVE PingIntact'
  BY <1>4 DEF WriteHead
<1>5. ASSUME NEW u \in Users, WriteData(u) PROVE PingIntact'
  BY <1>5 DEF WriteData
<1>6. ASSUME NEW u \in Users, Again(u) PROVE PingIntact'
  BY <1>6 DEF Again
<1>7. ASSUME NEW u \in Pingers, PingReturns(u) PROVE PingIntact'
  BY <1>7 DEF PingReturns
<1>8. ASSUME NEW b \in Buffers, Collect(b) PROVE PingIntact'
  BY <1>8 DEF Collect
<1>9. ASSUME UNCHANGED vars PROVE PingIntact'
  BY <1>9 DEF vars
<1> QED
  BY <1>1, <1>2, <1>3, <1>4, <1>5, <1>6, <1>7, <1>8, <1>9 DEF Next

\* The inductive invariant of the pool.
PoolInv == TypeOK /\ OwnedByOne /\ OwnerProgress /\ PingIntact

LEMMA PoolHolds == Spec => []PoolInv
<1>1. Init => PoolInv
  BY BufferAssumption DEF Init, PoolInv, TypeOK, OwnedByOne, OwnerProgress, PingIntact, Users
<1>2. PoolInv /\ [Next]_vars => PoolInv'
  BY TypeStep, OwnStep, ProgressStep, PingStep DEF PoolInv
<1> QED
  BY <1>1, <1>2, PTL DEF Spec

\* However many goroutines emit and ping, a buffer has one owner from Get to
\* Put.
THEOREM BufferOwnedByOne == Spec => []OwnedByOne
<1>1. PoolInv => OwnedByOne
  BY DEF PoolInv
<1> QED
  BY PoolHolds, <1>1, PTL

\* A tick of Ping is never overwritten: the discipline that emitData breaks
\* is sufficient.
THEOREM TicksIntact == Spec => []PingIntact
<1>1. PoolInv => PingIntact
  BY DEF PoolInv
<1> QED
  BY PoolHolds, <1>1, PTL
=============================================================================
