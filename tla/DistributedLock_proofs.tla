------------------------ MODULE DistributedLock_proofs ------------------------
(***************************************************************************)
(* Mutual exclusion of DistributedLock, for any number of calls with owner  *)
(* ids of their own.  The invariant that carries it: the key of a call that *)
(* has run for less than Ttl is set, is its own, and has at least the time  *)
(* left that the call has not used.                                         *)
(***************************************************************************)
EXTENDS DistributedLock, TLAPS

OwnersDiffer == \A p, q \in Callers : Owner[p] = Owner[q] => p = q

Holding == \A p \in Callers : InTime(p) => lock = p /\ ttl + age[p] >= Ttl

-----------------------------------------------------------------------------
LEMMA TypeInit == Init => TypeOK
<1> SUFFICES ASSUME Init PROVE TypeOK
  OBVIOUS
<1>1. 0 \in 0 .. MaxHold /\ 0 \in 0 .. WaitTime /\ 0 \in 0 .. Ttl
  BY LockAssumption
<1> QED BY <1>1 DEF Init, TypeOK

LEMMA GoType ==
  ASSUME TypeOK, NEW p \in Callers,
         NEW s \in {"idle", "trying", "running", "releasing"}, Go(p, s)
  PROVE  /\ pc' \in [Callers -> {"idle", "trying", "running", "releasing"}]
         /\ age' \in [Callers -> 0 .. MaxHold]
         /\ waited' \in [Callers -> 0 .. WaitTime]
         /\ pc'[p] = s /\ age'[p] = 0
         /\ \A q \in Callers \ {p} : pc'[q] = pc[q] /\ age'[q] = age[q]
<1>1. 0 \in 0 .. MaxHold /\ 0 \in 0 .. WaitTime
  BY LockAssumption
<1> QED BY <1>1 DEF TypeOK, Go

\* What a step of one call other than extending may do to the key.
LEMMA KeyType ==
  ASSUME TypeOK, NEW p \in Callers,
         SetKey(p) \/ DeleteIfOwn(p) \/ UNCHANGED <<lock, ttl>>
  PROVE  lock' \in Callers \cup {Free} /\ ttl' \in 0 .. Ttl /\ (lock' = Free <=> ttl' = 0)
  BY LockAssumption DEF TypeOK, SetKey, DeleteIfOwn

\* A step of one call: where it goes, and what it does to the key.
LEMMA StepOf ==
  ASSUME NEW p \in Callers,
         Start(p) \/ Call(p) \/ AcquireError(p) \/ ReleaseError(p) \/ Crash(p)
  PROVE  /\ \E s \in {"idle", "trying", "running", "releasing"} :
              Go(p, s) /\ (s = "running" => pc[p] = "trying" /\ SetKey(p))
         /\ SetKey(p) \/ (DeleteIfOwn(p) /\ pc[p] = "releasing") \/ UNCHANGED <<lock, ttl>>
  BY DEF Start, Call, Acquire, GiveUp, End, Release, AcquireError, ReleaseError, Crash

LEMMA TickType ==
  ASSUME TypeOK, Tick
  PROVE  TypeOK'
<1>1. lock' \in Callers \cup {Free} /\ ttl' \in 0 .. Ttl /\ (lock' = Free <=> ttl' = 0)
  BY LockAssumption DEF TypeOK, Tick, ExpireKey
<1>2. age' \in [Callers -> 0 .. MaxHold]
  <2>1. \A p \in Callers :
          (IF pc[p] = "running" THEN age[p] + 1 ELSE age[p]) \in 0 .. MaxHold
    BY LockAssumption DEF Tick, TypeOK
  <2> QED BY <2>1 DEF Tick
<1>3. waited' \in [Callers -> 0 .. WaitTime]
  <2>1. \A p \in Callers :
          (IF pc[p] = "trying" THEN Waited(p) ELSE waited[p]) \in 0 .. WaitTime
    BY LockAssumption DEF Waited, TypeOK
  <2> QED BY <2>1 DEF Tick
<1> QED BY <1>1, <1>2, <1>3 DEF Tick, TypeOK

LEMMA TypeNext == TypeOK /\ [Next]_vars => TypeOK'
<1> SUFFICES ASSUME TypeOK, [Next]_vars PROVE TypeOK'
  OBVIOUS
<1>1. CASE Tick
  BY <1>1, TickType
<1>2. ASSUME NEW p \in Callers, Extend(p) PROVE TypeOK'
  BY <1>2, LockAssumption DEF Extend, TypeOK
<1>3. ASSUME NEW p \in Callers,
             Start(p) \/ Call(p) \/ AcquireError(p) \/ ReleaseError(p) \/ Crash(p)
      PROVE  TypeOK'
  BY <1>3, StepOf, GoType, KeyType DEF TypeOK
<1>4. CASE UNCHANGED vars
  BY <1>4 DEF vars, TypeOK
<1> QED BY <1>1, <1>2, <1>3, <1>4 DEF Next

\* The variables keep their types; the key is set as long as it has time left.
THEOREM TypeCorrect == Spec => []TypeOK
<1> QED BY TypeInit, TypeNext, PTL DEF Spec

-----------------------------------------------------------------------------
LEMMA HoldingNext ==
  ASSUME OwnersDiffer, TypeOK, Holding, [Next]_vars
  PROVE  Holding'
<1>n. Ttl \in Nat /\ MaxHold \in Nat /\ Free \notin Callers
  BY LockAssumption
<1>1. CASE Tick
  <2> SUFFICES ASSUME NEW p \in Callers, InTime(p)'
               PROVE  lock' = p /\ ttl' + age'[p] >= Ttl
    BY DEF Holding
  <2>1. age'[p] = age[p] + 1 /\ age[p] \in Nat /\ ttl \in Nat
    BY <1>1, <1>n DEF Tick, TypeOK, InTime
  <2>2. age[p] + 1 < Ttl /\ lock = p /\ ttl + age[p] >= Ttl
    BY <1>1, <2>1, <1>n DEF Tick, Holding, InTime
  <2>3. ttl > 1
    BY <2>1, <2>2, <1>n
  <2>4. lock' = lock /\ ttl' = ttl - 1
    BY <1>1, <2>3, <2>1 DEF Tick, ExpireKey
  <2> QED BY <2>1, <2>2, <2>4, <1>n
<1>2. ASSUME NEW c \in Callers, Extend(c) PROVE Holding'
  <2> SUFFICES ASSUME NEW p \in Callers, InTime(p)
               PROVE  lock' = p /\ ttl' + age'[p] >= Ttl
    BY <1>2 DEF Extend, Holding, InTime
  <2>1. age[p] \in Nat /\ age' = age /\ lock' = lock /\ ttl' = Ttl
    BY <1>2, <1>n DEF Extend, TypeOK
  <2> QED BY <2>1, <1>n DEF Holding
<1>3. ASSUME NEW c \in Callers,
             Start(c) \/ Call(c) \/ AcquireError(c) \/ ReleaseError(c) \/ Crash(c)
      PROVE  Holding'
  <2>1. PICK s \in {"idle", "trying", "running", "releasing"} :
          Go(c, s) /\ (s = "running" => pc[c] = "trying" /\ SetKey(c))
    BY <1>3, StepOf
  <2>2. /\ pc'[c] = s /\ age'[c] = 0
        /\ \A q \in Callers \ {c} : pc'[q] = pc[q] /\ age'[q] = age[q]
    BY <2>1, GoType
  <2> SUFFICES ASSUME NEW p \in Callers, InTime(p)'
               PROVE  lock' = p /\ ttl' + age'[p] >= Ttl
    BY DEF Holding
  <2>3. CASE p = c
    BY <2>1, <2>2, <2>3, <1>n DEF SetKey, InTime
  <2>4. CASE p # c
    <3>1. age'[p] = age[p] /\ lock = p /\ ttl + age[p] >= Ttl
      BY <2>2, <2>4 DEF Holding, InTime
    <3>2. UNCHANGED <<lock, ttl>>
      <4>1. ~SetKey(c)
        BY <3>1, <1>n DEF SetKey
      <4>2. Owner[lock] # Owner[c]
        BY <3>1, <2>4 DEF OwnersDiffer
      <4>3. DeleteIfOwn(c) => UNCHANGED <<lock, ttl>>
        BY <4>2 DEF DeleteIfOwn
      <4> QED BY <1>3, <4>1, <4>3, StepOf
    <3> QED BY <3>1, <3>2
  <2> QED BY <2>3, <2>4
<1>4. CASE UNCHANGED vars
  BY <1>4 DEF vars, Holding, InTime
<1> QED BY <1>1, <1>2, <1>3, <1>4 DEF Next

\* Where owner ids are distinct, of the functions that have held the lock, its way
\* to the caller included, for less than ttlMs no two run, for any number of calls,
\* crashes, failed commands and extensions.
THEOREM MutualExclusion ==
  ASSUME OwnersDiffer
  PROVE  Spec => []Exclusive
<1>1. Init => Holding
  BY DEF Init, Holding, InTime
<1>2. TypeOK /\ Holding /\ [Next]_vars => Holding'
  BY HoldingNext
<1>3. Holding => Exclusive
  BY DEF Holding, Exclusive
<1> QED BY <1>1, <1>2, <1>3, TypeCorrect, PTL DEF Spec

LEMMA ReleaseStep ==
  ASSUME OwnersDiffer, TypeOK, [Next]_vars, lock # Free, lock' = Free
  PROVE  ttl = 1 \/ pc[lock] = "releasing"
<1>1. CASE Tick
  BY <1>1 DEF Tick, ExpireKey, TypeOK
<1>2. ASSUME NEW c \in Callers, Extend(c) PROVE FALSE
  BY <1>2 DEF Extend
<1>3. ASSUME NEW c \in Callers,
             Start(c) \/ Call(c) \/ AcquireError(c) \/ ReleaseError(c) \/ Crash(c)
      PROVE  pc[lock] = "releasing"
  <2>1. DeleteIfOwn(c) /\ pc[c] = "releasing"
    BY <1>3, StepOf DEF SetKey
  <2>2. lock = c
    BY <2>1 DEF DeleteIfOwn, OwnersDiffer, TypeOK
  <2> QED BY <2>1, <2>2
<1>4. CASE UNCHANGED vars
  BY <1>4 DEF vars
<1> QED BY <1>1, <1>2, <1>3, <1>4 DEF Next

\* However long functions take, a release never takes away another call's key.
THEOREM ReleaseOwn ==
  ASSUME OwnersDiffer
  PROVE  Spec => ReleaseIsOwn
<1>1. TypeOK /\ [Next]_vars
        => [lock # Free /\ lock' = Free => ttl = 1 \/ pc[lock] = "releasing"]_vars
  BY ReleaseStep
<1> QED BY <1>1, TypeCorrect, PTL DEF Spec, ReleaseIsOwn

=============================================================================
