------------------------- MODULE ConsumerGroup_proofs -------------------------
(***************************************************************************)
(* Theorems about ConsumerGroup, for any number of consumers and of events. *)
(*                                                                         *)
(* NothingLost is not inductive by itself: an entry is acknowledged because *)
(* of what a consumer knows of it.  Known says what that knowledge is worth. *)
(***************************************************************************)
EXTENDS ConsumerGroup, FiniteSetTheorems, TLAPS

\* What a consumer does with an entry implies what has happened to it.
Known ==
  /\ \A c \in Consumers, i \in Ids :
       /\ work[c][i] # "none" => i <= delivered
       /\ work[c][i] = "handled" => handled[i] > 0
       /\ work[c][i] = "buried" => Settled(i)
  /\ \A i \in Ids : handled[i] > 0 \/ dlq[i] > 0 => i <= delivered
  /\ \A i \in Ids : copyOf[i] # i => i <= last /\ copyOf[i] <= last

-----------------------------------------------------------------------------
(* Helpers *)

\* First(n, S) is a part of S that is closed downwards: what is before one of
\* its elements is in it.
LEMMA FirstIsFirst ==
  ASSUME NEW n \in Nat, NEW S \in SUBSET Ids, NEW x \in First(n, S), NEW y \in S, y <= x
  PROVE  y \in First(n, S)
<1> DEFINE B(z) == {j \in S : j < z}
<1>1. IsFiniteSet(Ids)
  BY GroupAssumption, FS_Interval DEF Ids
<1>2. IsFiniteSet(B(x)) /\ B(y) \subseteq B(x)
  <2>1. IsFiniteSet(B(x))
    BY <1>1, FS_Subset
  <2>2. x \in Nat /\ y \in Nat /\ S \subseteq Nat
    BY GroupAssumption DEF Ids, First
  <2>3. \A z \in S : z < y => z < x
    BY <2>2
  <2>4. B(y) \subseteq B(x)
    BY <2>3
  <2> QED BY <2>1, <2>4
<1>3. Cardinality(B(y)) <= Cardinality(B(x)) /\ Cardinality(B(y)) \in Nat /\ Cardinality(B(x)) \in Nat
  BY <1>2, FS_Subset, FS_CardinalityType
<1>4. Cardinality(B(x)) < n
  BY DEF First
<1>5. Cardinality(B(y)) < n
  BY <1>3, <1>4
<1> QED BY <1>5 DEF First

LEMMA StreamIds == TypeOK => stream \subseteq Ids /\ last \in Nat /\ 1 .. last \subseteq Ids
<1> SUFFICES ASSUME TypeOK PROVE stream \subseteq Ids /\ last \in Nat /\ 1 .. last \subseteq Ids
  OBVIOUS
<1>1. last \in 0 .. MaxId /\ stream \subseteq 1 .. last /\ MaxId \in Nat
  BY GroupAssumption DEF TypeOK
<1>2. 1 .. last \subseteq Ids
  BY <1>1 DEF Ids
<1> QED BY <1>1, <1>2

LEMMA FirstSubset == \A n, S : First(n, S) \subseteq S
  BY DEF First

\* Taking entries leaves the group well typed.
LEMMA TakeType ==
  ASSUME TypeOK, NEW c \in Consumers, NEW S, Take(c, S)
  PROVE  /\ owner' \in [Ids -> Owner]
         /\ idle' \subseteq {i \in Ids : owner'[i] # NotPending}
         /\ \A i \in Ids \ S : owner'[i] = owner[i]
         /\ \A i \in Ids \cap S : owner'[i] \in {c, NotPending}
  BY GroupAssumption DEF TypeOK, Take, Owner

LEMMA CountType ==
  ASSUME TypeOK, NEW S, Count(S)
  PROVE  deliveries' \in [Ids -> Nat]
  BY DEF TypeOK, Count

LEMMA BegunType == \A S : Begun(S) \in [Ids -> Status]
  BY DEF Begun, Status

LEMMA OnceType ==
  ASSUME TypeOK, NEW kind \in Rare, Once(kind)
  PROVE  spent' \in [Rare -> Nat]
  BY DEF TypeOK, Once

LEMMA GoType ==
  ASSUME TypeOK, NEW c, NEW p \in Phases, Go(c, p)
  PROVE  phase' \in [Consumers -> Phases]
  BY DEF TypeOK, Go

LEMMA SetType ==
  ASSUME TypeOK, NEW c \in Consumers, NEW i \in Ids, NEW s \in Status, Set(c, i, s)
  PROVE  /\ work' \in [Consumers -> [Ids -> Status]]
         /\ work'[c][i] = s
         /\ \A d \in Consumers, j \in Ids : d # c \/ j # i => work'[d][j] = work[d][j]
  BY DEF TypeOK, Set

-----------------------------------------------------------------------------
(* Types *)

LEMMA TypeInit == Init => TypeOK
<1> SUFFICES ASSUME Init PROVE TypeOK
  OBVIOUS
<1>1. owner \in [Ids -> Owner] /\ \A i \in Ids : owner[i] = NotPending
  BY DEF Init, Owner
<1>2. work \in [Consumers -> [Ids -> Status]]
  BY DEF Init, Status
<1>3. phase \in [Consumers -> Phases]
  BY DEF Init, Phases
<1>4. last \in 0 .. MaxId /\ delivered \in 0 .. last /\ stream \subseteq 1 .. last
  BY GroupAssumption DEF Init
<1>5. handled \in [Ids -> Nat] /\ dlq \in [Ids -> Nat] /\ deliveries \in [Ids -> Nat]
      /\ copyOf \in [Ids -> Ids] /\ spent \in [Rare -> Nat]
  BY DEF Init
<1>6. idle \subseteq {i \in Ids : owner[i] # NotPending}
  BY DEF Init
<1> QED BY <1>1, <1>2, <1>3, <1>4, <1>5, <1>6 DEF TypeOK

\* XREADGROUP with ">".
LEMMA TakeNewType ==
  ASSUME TypeOK, NEW c \in Consumers, TakeNew(c), UNCHANGED <<last, stream>>
  PROVE  /\ delivered' \in 0 .. last' /\ delivered <= delivered'
         /\ owner' \in [Ids -> Owner]
         /\ \A i \in Ids : i > delivered' => owner'[i] = NotPending
         /\ idle' \subseteq {i \in Ids : owner'[i] # NotPending}
         /\ deliveries' \in [Ids -> Nat]
<1>1. New \subseteq {i \in stream : i > delivered}
  BY FirstSubset DEF New, Undelivered
<1>2. delivered' \in 0 .. last' /\ delivered <= delivered'
  <2>1. CASE UNCHANGED delivered
    BY <2>1 DEF TypeOK
  <2>2. CASE delivered' \in New
    BY <2>2, <1>1 DEF TypeOK
  <2> QED BY <2>1, <2>2 DEF TakeNew
<1>3. \A i \in New : i <= delivered'
  BY DEF TakeNew
<1>4. Take(c, New) /\ Count(New)
  BY DEF TakeNew, Deliver
<1>5. \A i \in Ids : i > delivered' => owner'[i] = NotPending
  <2> SUFFICES ASSUME NEW i \in Ids, i > delivered' PROVE owner'[i] = NotPending
    OBVIOUS
  <2>1. i \notin New
    BY <1>3, <1>2 DEF TypeOK, Ids
  <2>2. i > delivered
    BY <1>2 DEF TypeOK, Ids
  <2> QED BY <2>1, <2>2, <1>4, TakeType DEF TypeOK
<1> QED BY <1>2, <1>4, <1>5, TakeType, CountType

\* The other ways to be given entries concern entries that are pending.
LEMMA TakePendingType ==
  ASSUME TypeOK, NEW c \in Consumers, NEW S \in SUBSET Pending, NEW T, Take(c, S), Count(T)
  PROVE  /\ owner' \in [Ids -> Owner]
         /\ \A i \in Ids : i > delivered => owner'[i] = NotPending
         /\ idle' \subseteq {i \in Ids : owner'[i] # NotPending}
         /\ deliveries' \in [Ids -> Nat]
<1>1. \A i \in Ids : i > delivered => i \notin S
  BY DEF TypeOK, Pending
<1> QED BY <1>1, TakeType, CountType DEF TypeOK

LEMMA ClaimablePending ==
  ASSUME TypeOK
  PROVE  /\ First(BatchSize, Claimable) \subseteq Pending
         /\ \A c \in Consumers : First(BatchSize, OwnedBy(c)) \subseteq Pending
  BY FirstSubset, GroupAssumption DEF TypeOK, Claimable, Pending, OwnedBy

LEMMA LoopType ==
  ASSUME TypeOK, NEW c \in Consumers, Loop(c) \/ LoopError(c)
  PROVE  TypeOK'
<1> USE DEF Phases
<1>1. CASE Look(c)
  BY <1>1, GoType DEF TypeOK, Look, redis
<1>2. CASE ReadNew(c)
  <2>1. phase' \in [Consumers -> Phases]
    BY <1>2, GoType DEF ReadNew
  <2>2. work' \in [Consumers -> [Ids -> Status]]
    BY <1>2, BegunType DEF ReadNew, TypeOK
  <2> QED BY <1>2, <2>1, <2>2, TakeNewType DEF ReadNew, TypeOK
<1>3. CASE ReadOwn(c)
  <2>1. phase' \in [Consumers -> Phases]
    BY <1>3, GoType DEF ReadOwn
  <2>2. work' \in [Consumers -> [Ids -> Status]]
    BY <1>3, BegunType DEF ReadOwn, TypeOK
  <2> QED BY <1>3, <2>1, <2>2, TakePendingType, ClaimablePending DEF ReadOwn, Deliver, TypeOK
<1>4. CASE ReadOwnFails(c)
  <2>1. phase' \in [Consumers -> Phases]
    BY <1>4, GoType DEF ReadOwnFails
  <2>2. First(BatchSize, OwnedBy(c)) \cap stream \subseteq Pending
    BY ClaimablePending
  <2> QED BY <1>4, <2>1, <2>2, TakePendingType DEF ReadOwnFails, Deliver, TypeOK
<1>5. CASE EndBatch(c)
  BY <1>5, GoType DEF TypeOK, EndBatch, redis
<1>6. CASE Claim(c)
  <2>1. phase' \in [Consumers -> Phases]
    BY <1>6, GoType DEF Claim
  <2>2. work' \in [Consumers -> [Ids -> Status]]
    BY <1>6, BegunType DEF Claim, TypeOK
  <2> QED BY <1>6, <2>1, <2>2, TakePendingType, ClaimablePending DEF Claim, TypeOK
<1>7. CASE LoopError(c)
  <2>1. phase' \in [Consumers -> Phases] /\ spent' \in [Rare -> Nat]
    BY <1>7, GoType, OnceType DEF LoopError, Rare
  <2>2. UNCHANGED <<last, work, handled, dlq, copyOf, stream>>
    BY <1>7 DEF LoopError, redis
  <2>3. CASE UNCHANGED redis
    BY <2>1, <2>2, <2>3 DEF TypeOK, redis
  <2>4. CASE TakeNew(c)
    BY <2>1, <2>2, <2>4, TakeNewType DEF TypeOK
  <2>5. CASE /\ Deliver(c, First(BatchSize, OwnedBy(c)) \cap stream)
             /\ UNCHANGED delivered
    <3>1. First(BatchSize, OwnedBy(c)) \cap stream \subseteq Pending
      BY ClaimablePending
    <3> QED BY <2>1, <2>2, <2>5, <3>1, TakePendingType DEF Deliver, TypeOK
  <2>6. CASE /\ Take(c, First(BatchSize, Claimable))
             /\ Count(First(BatchSize, Claimable) \cap stream)
             /\ UNCHANGED delivered
    BY <2>1, <2>2, <2>6, ClaimablePending, TakePendingType DEF TypeOK
  <2> QED BY <1>7, <2>3, <2>4, <2>5, <2>6 DEF LoopError
<1> QED BY <1>1, <1>2, <1>3, <1>4, <1>5, <1>6, <1>7 DEF Loop

\* Handling, acknowledging and burying an entry.
LEMMA WorkType ==
  ASSUME TypeOK, NEW c \in Consumers, NEW i \in Ids,
         Work(c, i) \/ AckError(c, i) \/ GiveUp(c, i)
  PROVE  TypeOK'
<1>a. \A s \in Status : Set(c, i, s) => work' \in [Consumers -> [Ids -> Status]]
  BY SetType
<1>b. Acked(i) => /\ owner' \in [Ids -> Owner]
                  /\ \A j \in Ids : j > delivered => owner'[j] = NotPending
                  /\ idle' \subseteq {j \in Ids : owner'[j] # NotPending}
  BY DEF TypeOK, Acked, Owner
<1>1. CASE Succeed(c, i)
  <2>1. handled' \in [Ids -> Nat]
    BY <1>1 DEF Succeed, TypeOK
  <2> QED BY <1>1, <1>a, <2>1 DEF Succeed, TypeOK, redis, Status
<1>2. CASE Fail(c, i)
  <2>1. spent' \in [Rare -> Nat]
    BY <1>2, OnceType DEF Fail, Rare, TypeOK
  <2> QED BY <1>2, <1>a, <2>1 DEF Fail, TypeOK, redis, Status
<1>3. CASE Ack(c, i)
  BY <1>3, <1>a, <1>b DEF Ack, TypeOK, Status
<1>4. CASE Inspect(c, i)
  BY <1>4, <1>a DEF Inspect, TypeOK, redis, Status
<1>5. CASE Bury(c, i)
  <2>1. dlq' \in [Ids -> Nat]
    BY <1>5 DEF Bury, TypeOK
  <2> QED BY <1>5, <1>a, <2>1 DEF Bury, TypeOK, redis, Status
<1>6. CASE AckError(c, i)
  <2>1. spent' \in [Rare -> Nat]
    BY <1>6, OnceType DEF AckError, Rare
  <2>2. work' \in [Consumers -> [Ids -> Status]]
    BY <1>6, <1>a DEF AckError, Status
  <2> QED BY <1>6, <1>b, <2>1, <2>2 DEF AckError, TypeOK
<1>7. CASE GiveUp(c, i)
  <2>1. spent' \in [Rare -> Nat]
    BY <1>7, OnceType DEF GiveUp, Rare
  <2> QED BY <1>7, <1>a, <2>1 DEF GiveUp, TypeOK, redis, Status
<1> QED BY <1>1, <1>2, <1>3, <1>4, <1>5, <1>6, <1>7 DEF Work

\* The new entry is in the stream.
LEMMA PublishStream ==
  ASSUME TypeOK, Publish
  PROVE  /\ last + 1 \in stream' /\ stream' \subseteq stream \cup {last + 1}
         /\ last + 1 \in Ids /\ last' = last + 1
<1>1. PICK from \in 1 .. last + 1 : stream' = {i \in stream \cup {last + 1} : i >= from}
  BY DEF Publish
<1>2. last + 1 \in stream' /\ stream' \subseteq stream \cup {last + 1}
  BY <1>1 DEF TypeOK
<1> QED BY <1>2, GroupAssumption DEF Publish, TypeOK, Ids

LEMMA PublishType == ASSUME TypeOK, Publish PROVE TypeOK'
<1>1. last' \in 0 .. MaxId /\ delivered' \in 0 .. last' /\ stream' \subseteq 1 .. last'
  <2>1. last' \in 0 .. MaxId /\ last < last' /\ delivered' \in 0 .. last'
    BY GroupAssumption DEF Publish, TypeOK
  <2>2. last \in Nat /\ last' = last + 1 /\ stream \subseteq 1 .. last
    BY PublishStream DEF TypeOK
  <2>3. 1 .. last \subseteq 1 .. last' /\ last + 1 \in 1 .. last'
    BY <2>2
  <2>4. stream' \subseteq 1 .. last'
    BY <2>2, <2>3, PublishStream
  <2> QED BY <2>1, <2>4
<1> QED BY <1>1 DEF Publish, TypeOK

LEMMA CrashType == ASSUME TypeOK, NEW c \in Consumers, Crash(c) PROVE TypeOK'
<1>1. spent' \in [Rare -> Nat]
  BY OnceType DEF Crash, Rare
<1>2. work' \in [Consumers -> [Ids -> Status]]
  BY BegunType DEF Crash, TypeOK
<1>3. phase' \in [Consumers -> Phases]
  BY DEF Crash, TypeOK, Phases
<1>4. /\ owner' \in [Ids -> Owner]
      /\ \A i \in Ids : (owner'[i] = NotPending) = (owner[i] = NotPending)
  BY GroupAssumption DEF Crash, TypeOK, Owner
<1> QED BY <1>1, <1>2, <1>3, <1>4 DEF Crash, TypeOK

LEMMA ReprocessType == ASSUME TypeOK, NEW i \in Ids, Reprocess(i) PROVE TypeOK'
<1>1. spent' \in [Rare -> Nat]
  BY OnceType DEF Reprocess, Rare, TypeOK
<1>2. dlq' \in [Ids -> Nat]
  BY DEF Reprocess, TypeOK
<1>3. last' \in 0 .. MaxId /\ delivered' \in 0 .. last' /\ stream' \subseteq 1 .. last'
  BY GroupAssumption DEF Reprocess, TypeOK
<1>4. copyOf' \in [Ids -> Ids]
  BY DEF Reprocess, TypeOK
<1> QED BY <1>1, <1>2, <1>3, <1>4 DEF Reprocess, TypeOK

LEMMA TypeNext == TypeOK /\ [Next]_vars => TypeOK'
<1> SUFFICES ASSUME TypeOK, [Next]_vars PROVE TypeOK'
  OBVIOUS
<1>1. CASE Publish
  BY <1>1, PublishType
<1>2. ASSUME NEW i \in Ids, BecomeIdle(i) PROVE TypeOK'
  BY <1>2 DEF BecomeIdle, Pending, TypeOK
<1>3. ASSUME NEW i \in Ids, Reprocess(i) PROVE TypeOK'
  BY <1>3, ReprocessType
<1>4. ASSUME NEW c \in Consumers, Loop(c) \/ LoopError(c) PROVE TypeOK'
  BY <1>4, LoopType
<1>5. ASSUME NEW c \in Consumers, Crash(c) PROVE TypeOK'
  BY <1>5, CrashType
<1>6. ASSUME NEW c \in Consumers, NEW i \in Ids,
             Work(c, i) \/ AckError(c, i) \/ GiveUp(c, i)
      PROVE  TypeOK'
  BY <1>6, WorkType
<1>7. CASE UNCHANGED vars
  BY <1>7 DEF vars, redis, TypeOK
<1> QED BY <1>1, <1>2, <1>3, <1>4, <1>5, <1>6, <1>7, Zenon DEF Next, Faults

\* The variables keep their types: in particular only entries up to the group's
\* last delivered id are ever pending, and only pending entries are idle.
THEOREM TypeCorrect == Spec => []TypeOK
<1> QED BY TypeInit, TypeNext, PTL DEF Spec

-----------------------------------------------------------------------------
(* What consumers know, and that nothing is lost *)

IInv == TypeOK /\ Known /\ NothingLost

LEMMA IInvInit == Init => IInv
<1> SUFFICES ASSUME Init PROVE IInv
  OBVIOUS
<1>1. Known
  BY DEF Init, Known
<1>2. NothingLost
  BY DEF Init, NothingLost
<1> QED BY <1>1, <1>2, TypeInit DEF IInv

\* An entry that is settled stays so.
LEMMA SettledStays ==
  ASSUME IInv, [Next]_vars, NEW i \in Ids, Settled(i)
  PROVE  Settled(i)'
<1> USE DEF IInv
<1>1. CASE UNCHANGED <<last, handled, dlq, copyOf>>
  BY <1>1 DEF Settled, Republished
<1>2. CASE Publish
  BY <1>2 DEF Publish, Settled, Republished, TypeOK
<1>3. ASSUME NEW c \in Consumers, NEW j \in Ids, Succeed(c, j) PROVE Settled(i)'
  BY <1>3 DEF Succeed, Settled, Republished, TypeOK
<1>4. ASSUME NEW c \in Consumers, NEW j \in Ids, Bury(c, j) PROVE Settled(i)'
  BY <1>4 DEF Bury, Settled, Republished, TypeOK
<1>5. ASSUME NEW j \in Ids, Reprocess(j) PROVE Settled(i)'
  <2>a. \A k \in Ids : k # j => dlq'[k] = dlq[k]
    BY <1>5 DEF Reprocess, TypeOK
  <2>b. last' = last + 1 /\ copyOf' = [copyOf EXCEPT ![last'] = j] /\ UNCHANGED handled
    BY <1>5 DEF Reprocess
  <2>c. last' \in 1 .. last' /\ last' \in Ids
    BY <1>5, GroupAssumption DEF Reprocess, TypeOK, Ids
  <2>1. /\ last' = last + 1 /\ last' \in 1 .. last' /\ last' \in Ids
        /\ copyOf' = [copyOf EXCEPT ![last'] = j] /\ UNCHANGED handled
        /\ \A k \in Ids : k # j => dlq'[k] = dlq[k]
    BY <2>a, <2>b, <2>c
  <2>2. j <= last
    BY <1>5 DEF Reprocess, Known, TypeOK, Ids
  <2>3. CASE i = j
    <3>1. copyOf'[last'] = i /\ last' # i
      BY <2>1, <2>2, <2>3 DEF TypeOK
    <3> QED BY <2>1, <3>1 DEF Settled, Republished
  <2>4. CASE i # j
    <3>1. CASE Republished(i)
      <4>1. PICK k \in 1 .. last : k # i /\ copyOf[k] = i
        BY <3>1 DEF Republished
      <4>2. k \in 1 .. last' /\ copyOf'[k] = i
        BY <4>1, <2>1 DEF TypeOK
      <4> QED BY <4>1, <4>2 DEF Settled, Republished
    <3> QED BY <3>1, <2>1, <2>4 DEF Settled
  <2> QED BY <2>3, <2>4
<1>6. CASE \E c \in Consumers : Loop(c) \/ Faults(c)
  BY <1>6, <1>1 DEF Loop, Faults, Look, ReadNew, ReadOwn, ReadOwnFails, EndBatch, Claim,
                   LoopError, Crash, AckError, GiveUp
<1>7. ASSUME NEW c \in Consumers, NEW j \in Ids, Work(c, j) PROVE Settled(i)'
  BY <1>7, <1>1, <1>3, <1>4 DEF Work, Fail, Ack, Inspect
<1>8. ASSUME NEW j \in Ids, BecomeIdle(j) PROVE Settled(i)'
  BY <1>8, <1>1 DEF BecomeIdle
<1>9. CASE UNCHANGED vars
  BY <1>9, <1>1 DEF vars
<1> QED BY <1>2, <1>5, <1>6, <1>7, <1>8, <1>9, Zenon DEF Next

\* Steps that end no handler, bury nothing and copy nothing.
LEMMA KnownKept ==
  ASSUME IInv, [Next]_vars,
         delivered <= delivered', last <= last', UNCHANGED <<handled, dlq, copyOf>>,
         \A c \in Consumers, i \in Ids :
           \/ work'[c][i] = work[c][i]
           \/ work'[c][i] = "none"
           \/ work'[c][i] = "handling" /\ i <= delivered'
           \/ work'[c][i] \in {"failed", "burying"} /\ work[c][i] # "none"
  PROVE  Known'
<1> USE DEF IInv
<1>t. TypeOK'
  BY TypeNext
<1>1. ASSUME NEW c \in Consumers, NEW i \in Ids
      PROVE  /\ work'[c][i] # "none" => i <= delivered'
             /\ work'[c][i] = "handled" => handled'[i] > 0
             /\ work'[c][i] = "buried" => Settled(i)'
  <2>1. work[c][i] # "none" => i <= delivered'
    BY <1>t DEF Known, TypeOK, Ids
  <2>2. work[c][i] = "buried" => Settled(i)'
    BY SettledStays DEF Known
  <2> QED BY <2>1, <2>2 DEF Known
<1>2. \A i \in Ids : handled'[i] > 0 \/ dlq'[i] > 0 => i <= delivered'
  BY <1>t DEF Known, TypeOK, Ids
<1>3. \A i \in Ids : copyOf'[i] # i => i <= last' /\ copyOf'[i] <= last'
  BY <1>t DEF Known, TypeOK, Ids
<1> QED BY <1>1, <1>2, <1>3 DEF Known

LEMMA KnownLoop ==
  ASSUME IInv, NEW c \in Consumers, Loop(c) \/ LoopError(c)
  PROVE  Known'
<1> USE DEF IInv
<1>n. [Next]_vars
  BY DEF Next, Faults
<1>t. TypeOK'
  BY LoopType
<1>s. UNCHANGED <<last, handled, dlq, copyOf>> /\ last <= last'
  BY DEF Loop, Look, ReadNew, ReadOwn, ReadOwnFails, EndBatch, Claim, LoopError, TypeOK
<1>b. \A d \in Consumers, i \in Ids : \A S :
        work' = [work EXCEPT ![c] = Begun(S)] =>
          \/ work'[d][i] = work[d][i]
          \/ work'[d][i] = "none"
          \/ work'[d][i] = "handling" /\ i \in S
  BY DEF TypeOK, Begun
<1>p. \A i \in Pending : i <= delivered
  BY DEF Pending, TypeOK, Ids
<1>1. CASE UNCHANGED work
  <2>1. delivered <= delivered'
    BY <1>1, TakeNewType DEF Loop, Look, ReadNew, ReadOwn, ReadOwnFails, EndBatch, Claim,
                             LoopError, redis, TypeOK
  <2> QED BY <1>1, <1>n, <1>s, <2>1, KnownKept
<1>2. CASE ReadNew(c)
  <2>1. delivered <= delivered' /\ \A i \in New : i <= delivered'
    BY <1>2, TakeNewType DEF ReadNew, TakeNew
  <2>2. work' = [work EXCEPT ![c] = Begun(New)]
    BY <1>2 DEF ReadNew
  <2> QED BY <1>n, <1>s, <1>b, <2>1, <2>2, KnownKept
<1>3. CASE ReadOwn(c)
  <2>1. delivered <= delivered' /\ delivered' = delivered
    BY <1>3 DEF ReadOwn, TypeOK
  <2>2. work' = [work EXCEPT ![c] = Begun(First(BatchSize, OwnedBy(c)))]
    BY <1>3 DEF ReadOwn
  <2>3. \A i \in First(BatchSize, OwnedBy(c)) : i <= delivered'
    BY <1>p, <2>1, ClaimablePending
  <2> QED BY <1>n, <1>s, <1>b, <2>1, <2>2, <2>3, KnownKept
<1>4. CASE Claim(c)
  <2>1. delivered <= delivered' /\ delivered' = delivered
    BY <1>4 DEF Claim, TypeOK
  <2>2. work' = [work EXCEPT ![c] = Begun(First(BatchSize, Claimable) \cap stream)]
    BY <1>4 DEF Claim
  <2>3. \A i \in First(BatchSize, Claimable) \cap stream : i <= delivered'
    BY <1>p, <2>1, ClaimablePending
  <2> QED BY <1>n, <1>s, <1>b, <2>1, <2>2, <2>3, KnownKept
<1> QED BY <1>1, <1>2, <1>3, <1>4 DEF Loop, Look, ReadOwnFails, EndBatch, LoopError

LEMMA KnownWork ==
  ASSUME IInv, NEW c \in Consumers, NEW i \in Ids,
         Work(c, i) \/ AckError(c, i) \/ GiveUp(c, i)
  PROVE  Known'
<1> USE DEF IInv
<1>n. [Next]_vars
  BY DEF Next, Faults
<1>t. TypeOK'
  BY WorkType
<1>s. UNCHANGED <<last, delivered, copyOf>> /\ last <= last' /\ delivered <= delivered'
  BY DEF Work, Succeed, Fail, Ack, Inspect, Bury, AckError, GiveUp, redis, TypeOK
<1>w. work[c][i] # "none" => i <= delivered
  BY DEF Known
<1>o. \A s \in Status : Set(c, i, s) =>
        /\ work'[c][i] = s
        /\ \A d \in Consumers, j \in Ids : d # c \/ j # i => work'[d][j] = work[d][j]
  BY SetType
<1>1. CASE Succeed(c, i)
  <2>1. /\ handled' = [handled EXCEPT ![i] = @ + 1] /\ UNCHANGED dlq
        /\ Set(c, i, "handled") /\ i <= delivered
    BY <1>1, <1>w DEF Succeed
  <2>2. /\ handled'[i] > 0 /\ \A j \in Ids : handled[j] > 0 => handled'[j] > 0
        /\ \A j \in Ids : j # i => handled'[j] = handled[j]
    BY <2>1 DEF TypeOK
  <2>3. \A d \in Consumers, j \in Ids : d # c \/ j # i => work'[d][j] = work[d][j]
    BY <2>1, <1>o DEF Status
  <2>4. work'[c][i] = "handled"
    BY <2>1, <1>o DEF Status
  <2>5. ASSUME NEW d \in Consumers, NEW j \in Ids
        PROVE  /\ work'[d][j] # "none" => j <= delivered'
               /\ work'[d][j] = "handled" => handled'[j] > 0
               /\ work'[d][j] = "buried" => Settled(j)'
    BY <1>n, <1>s, <2>1, <2>2, <2>3, <2>4, SettledStays DEF Known
  <2>6. \A j \in Ids : handled'[j] > 0 \/ dlq'[j] > 0 => j <= delivered'
    BY <1>s, <2>1, <2>2 DEF Known
  <2> QED BY <1>s, <2>5, <2>6 DEF Known
<1>2. CASE Bury(c, i)
  <2>1. /\ dlq' = [dlq EXCEPT ![i] = @ + 1] /\ UNCHANGED handled
        /\ Set(c, i, "buried") /\ i <= delivered
    BY <1>2, <1>w DEF Bury
  <2>2. dlq'[i] > 0 /\ \A j \in Ids : j # i => dlq'[j] = dlq[j]
    BY <2>1 DEF TypeOK
  <2>3. \A d \in Consumers, j \in Ids : d # c \/ j # i => work'[d][j] = work[d][j]
    BY <2>1, <1>o DEF Status
  <2>4. work'[c][i] = "buried" /\ Settled(i)'
    BY <2>1, <2>2, <1>o DEF Status, Settled
  <2>5. ASSUME NEW d \in Consumers, NEW j \in Ids
        PROVE  /\ work'[d][j] # "none" => j <= delivered'
               /\ work'[d][j] = "handled" => handled'[j] > 0
               /\ work'[d][j] = "buried" => Settled(j)'
    BY <1>n, <1>s, <2>1, <2>3, <2>4, SettledStays DEF Known
  <2>6. \A j \in Ids : handled'[j] > 0 \/ dlq'[j] > 0 => j <= delivered'
    BY <1>s, <2>1, <2>2 DEF Known
  <2> QED BY <1>s, <2>5, <2>6 DEF Known
<1>3. CASE Fail(c, i) \/ Ack(c, i) \/ Inspect(c, i) \/ AckError(c, i) \/ GiveUp(c, i)
  <2>1. UNCHANGED <<handled, dlq>>
    BY <1>3 DEF Fail, Ack, Inspect, AckError, GiveUp
  <2>2. PICK s \in {"none", "failed", "burying"} : Set(c, i, s) /\ work[c][i] # "none"
    BY <1>3 DEF Fail, Ack, Inspect, AckError, GiveUp
  <2>3. s \in Status
    BY DEF Status
  <2>4. \A d \in Consumers, j \in Ids :
          \/ work'[d][j] = work[d][j]
          \/ work'[d][j] = "none"
          \/ work'[d][j] \in {"failed", "burying"} /\ work[d][j] # "none"
    BY <2>2, <2>3, <1>o
  <2> QED BY <1>n, <1>s, <2>1, <2>4, KnownKept
<1> QED BY <1>1, <1>2, <1>3 DEF Work

LEMMA KnownNext == IInv /\ [Next]_vars => Known'
<1> SUFFICES ASSUME IInv, [Next]_vars PROVE Known'
  OBVIOUS
<1> USE DEF IInv
<1>1. ASSUME UNCHANGED <<handled, dlq, copyOf, work, delivered>>, last <= last' PROVE Known'
  BY <1>1, KnownKept DEF TypeOK
<1>2. CASE Publish
  BY <1>2, <1>1 DEF Publish, TypeOK
<1>3. ASSUME NEW i \in Ids, BecomeIdle(i) PROVE Known'
  BY <1>3, <1>1 DEF BecomeIdle, TypeOK
<1>4. ASSUME NEW j \in Ids, Reprocess(j) PROVE Known'
  <2>1. UNCHANGED <<work, delivered, handled>> /\ last' = last + 1
    BY <1>4 DEF Reprocess
  <2>2. \A i \in Ids : dlq'[i] > 0 => dlq[i] > 0
    BY <1>4 DEF Reprocess, TypeOK
  <2>3. \A i \in Ids : handled'[i] > 0 \/ dlq'[i] > 0 => i <= delivered'
    BY <2>1, <2>2 DEF Known
  <2>4. ASSUME NEW c \in Consumers, NEW i \in Ids
        PROVE  /\ work'[c][i] # "none" => i <= delivered'
               /\ work'[c][i] = "handled" => handled'[i] > 0
               /\ work'[c][i] = "buried" => Settled(i)'
    BY <2>1, SettledStays DEF Known
  <2>5. \A i \in Ids : copyOf'[i] # i => i <= last' /\ copyOf'[i] <= last'
    <3>1. j <= last /\ copyOf' = [copyOf EXCEPT ![last'] = j]
      BY <1>4 DEF Reprocess, Known, TypeOK, Ids
    <3>2. \A i \in Ids : i # last' => copyOf'[i] = copyOf[i]
      BY <3>1 DEF TypeOK
    <3>3. last' \in Ids => copyOf'[last'] = j
      BY <3>1 DEF TypeOK
    <3>4. last \in Nat /\ Ids \subseteq Nat /\ copyOf \in [Ids -> Ids] /\ j \in Ids
      BY GroupAssumption DEF TypeOK, Ids
    <3>5. ASSUME NEW i \in Ids, i # last', copyOf'[i] # i PROVE i <= last' /\ copyOf'[i] <= last'
      <4>1. copyOf[i] # i /\ copyOf'[i] = copyOf[i] /\ copyOf[i] \in Nat /\ i \in Nat
        BY <3>2, <3>4, <3>5
      <4> QED BY <4>1, <2>1, <3>4 DEF Known
    <3>6. last' \in Ids => copyOf'[last'] <= last'
      BY <3>1, <3>3, <3>4, <2>1
    <3> QED BY <3>5, <3>6, <2>1, <3>4
  <2> QED BY <2>3, <2>4, <2>5 DEF Known
<1>5. ASSUME NEW c \in Consumers, Loop(c) \/ LoopError(c) PROVE Known'
  BY <1>5, KnownLoop
<1>6. ASSUME NEW c \in Consumers, Crash(c) PROVE Known'
  <2>1. UNCHANGED <<handled, dlq, copyOf, delivered, last>>
    BY <1>6 DEF Crash
  <2>2. \A d \in Consumers, i \in Ids : work'[d][i] = work[d][i] \/ work'[d][i] = "none"
    BY <1>6 DEF Crash, Begun, TypeOK
  <2>3. delivered <= delivered' /\ last <= last'
    BY <2>1 DEF TypeOK
  <2> QED BY <2>1, <2>2, <2>3, KnownKept
<1>7. ASSUME NEW c \in Consumers, NEW i \in Ids,
             Work(c, i) \/ AckError(c, i) \/ GiveUp(c, i)
      PROVE  Known'
  BY <1>7, KnownWork
<1>8. CASE UNCHANGED vars
  BY <1>8, <1>1 DEF vars, redis, TypeOK
<1> QED BY <1>2, <1>3, <1>4, <1>5, <1>6, <1>7, <1>8, Zenon DEF Next, Faults

\* What is pending after entries were taken.
LEMMA TakePending ==
  ASSUME TypeOK, NEW c \in Consumers, NEW S \in SUBSET Ids, Take(c, S)
  PROVE  Pending' = (Pending \ (S \ stream)) \cup (S \cap stream)
  BY GroupAssumption DEF Pending, Take, TypeOK

\* XREADGROUP with ">" leaves nothing behind: what the stream holds up to the
\* new last delivered id is now pending.
LEMMA TakeNewPending ==
  ASSUME TypeOK, NEW c \in Consumers, TakeNew(c), UNCHANGED <<last, stream>>
  PROVE  /\ Pending' = Pending \cup New
         /\ New = {i \in Undelivered : i <= delivered'}
<1>1. New \subseteq Undelivered /\ Undelivered \subseteq Ids /\ Undelivered \subseteq stream
  BY StreamIds, FirstSubset DEF New, Undelivered
<1>2. Pending' = Pending \cup New
  <2>1. Take(c, New)
    BY DEF TakeNew, Deliver
  <2> QED BY <2>1, <1>1, TakePending
<1>3. \A i \in New : i <= delivered'
  BY DEF TakeNew
<1>4. ASSUME NEW i \in Undelivered, i <= delivered' PROVE i \in New
  <2>1. CASE UNCHANGED delivered
    BY <2>1, <1>4 DEF Undelivered, TypeOK
  <2>2. CASE delivered' \in New
    BY <2>2, <1>1, <1>4, FirstIsFirst, GroupAssumption DEF New
  <2> QED BY <2>1, <2>2 DEF TakeNew
<1> QED BY <1>1, <1>2, <1>3, <1>4

\* Reading again what a consumer was given changes nothing of that.
LEMMA TakeOwnPending ==
  ASSUME TypeOK, NEW c \in Consumers,
         Take(c, First(BatchSize, OwnedBy(c)) \cap stream)
  PROVE  Pending' = Pending
<1>1. First(BatchSize, OwnedBy(c)) \cap stream \subseteq Pending \cap Ids \cap stream
  BY ClaimablePending DEF Pending
<1> QED BY <1>1, TakePending

\* Claiming forgets only what the stream no longer holds.
LEMMA ClaimPending ==
  ASSUME TypeOK, NEW c \in Consumers, Take(c, First(BatchSize, Claimable))
  PROVE  Pending' \subseteq Pending /\ (Pending \ Pending') \cap stream = {}
<1>1. First(BatchSize, Claimable) \subseteq Pending /\ Pending \subseteq Ids
  BY ClaimablePending DEF Pending
<1> QED BY <1>1, TakePending

\* The four ways a step can change what is pending while the stream, the last
\* delivered id and what is settled stay.
LEMMA LoopPending ==
  ASSUME TypeOK, NEW c \in Consumers, Loop(c) \/ LoopError(c)
  PROVE  /\ UNCHANGED <<last, stream, handled, dlq, copyOf>>
         /\ \/ Pending' = Pending /\ UNCHANGED delivered
            \/ /\ Pending' = Pending \cup New
               /\ New = {i \in Undelivered : i <= delivered'}
               /\ delivered <= delivered'
            \/ /\ Pending' \subseteq Pending /\ (Pending \ Pending') \cap stream = {}
               /\ UNCHANGED delivered
<1>s. UNCHANGED <<last, stream, handled, dlq, copyOf>>
  BY DEF Loop, Look, ReadNew, ReadOwn, ReadOwnFails, EndBatch, Claim, LoopError, redis
<1>1. CASE UNCHANGED redis
  BY <1>1, <1>s DEF redis, Pending
<1>2. CASE TakeNew(c)
  BY <1>2, <1>s, TakeNewPending, TakeNewType
<1>3. CASE Take(c, First(BatchSize, OwnedBy(c)) \cap stream) /\ UNCHANGED delivered
  BY <1>3, <1>s, TakeOwnPending
<1>4. CASE Take(c, First(BatchSize, Claimable)) /\ UNCHANGED delivered
  BY <1>4, <1>s, ClaimPending
<1>5. CASE ReadOwn(c)
  <2>1. First(BatchSize, OwnedBy(c)) \cap stream = First(BatchSize, OwnedBy(c))
    BY <1>5 DEF ReadOwn
  <2> QED BY <1>5, <2>1, <1>3 DEF ReadOwn, Deliver
<1> QED BY <1>1, <1>2, <1>3, <1>4, <1>5
        DEF Loop, Look, ReadNew, ReadOwnFails, EndBatch, Claim, LoopError, Deliver

\* Handling and acknowledging an entry: if that ends it as a pending entry, it
\* is settled.
LEMMA WorkPending ==
  ASSUME IInv, NEW c \in Consumers, NEW i \in Ids,
         Work(c, i) \/ AckError(c, i) \/ GiveUp(c, i)
  PROVE  /\ UNCHANGED <<last, stream, delivered, copyOf>>
         /\ \/ Pending' = Pending
            \/ Pending' = Pending \ {i} /\ Settled(i) /\ UNCHANGED <<handled, dlq>>
<1>1. UNCHANGED <<last, stream, delivered, copyOf>>
  BY DEF Work, Succeed, Fail, Ack, Inspect, Bury, AckError, GiveUp, redis
<1>2. CASE UNCHANGED owner
  BY <1>1, <1>2 DEF Pending
<1>3. CASE Acked(i) /\ (Ack(c, i) \/ AckError(c, i))
  <2>1. work[c][i] \in {"handled", "buried"} /\ UNCHANGED <<handled, dlq>>
    BY <1>3 DEF Ack, AckError
  <2>2. Settled(i)
    BY <2>1 DEF IInv, Known, Settled
  <2>3. Pending' = Pending \ {i}
    BY <1>3 DEF Acked, Pending, IInv, TypeOK
  <2> QED BY <1>1, <2>1, <2>2, <2>3
<1> QED BY <1>1, <1>2, <1>3
        DEF Work, Succeed, Fail, Ack, Inspect, Bury, AckError, GiveUp, redis

LEMMA LostNext == IInv /\ [Next]_vars => NothingLost'
<1> SUFFICES ASSUME IInv, [Next]_vars, NEW i \in 1 .. last',
                    ~(i > delivered'), i \in stream'
             PROVE  i \in Pending' \/ Settled(i)'
  BY DEF NothingLost
<1> USE DEF IInv
<1>t. last' \in 0 .. MaxId /\ MaxId \in Nat
  BY TypeNext, GroupAssumption DEF TypeOK
<1>i. i \in Ids
  BY <1>t DEF Ids
<1>s. Settled(i) => Settled(i)'
  BY <1>i, SettledStays
<1>k. i \in 1 .. last /\ ~(i > delivered) /\ i \in stream => i \in Pending \/ Settled(i)
  BY DEF NothingLost
<1>1. CASE UNCHANGED <<last, stream, delivered>> /\ Pending \subseteq Pending'
  BY <1>1, <1>s, <1>k
<1>2. CASE Publish
  <2>1. UNCHANGED <<delivered, owner>> /\ last' = last + 1 /\ stream' \subseteq stream \cup {last + 1}
    BY <1>2, PublishStream DEF Publish
  <2>2. i \in stream /\ i \in 1 .. last
    BY <2>1 DEF TypeOK
  <2> QED BY <2>1, <2>2, <1>s, <1>k DEF Pending
<1>3. ASSUME NEW j \in Ids, Reprocess(j) PROVE i \in Pending' \/ Settled(i)'
  <2>1. UNCHANGED <<delivered, owner>> /\ last' = last + 1 /\ stream' = stream \cup {last + 1}
    BY <1>3 DEF Reprocess
  <2>2. i \in stream /\ i \in 1 .. last
    BY <2>1 DEF TypeOK
  <2> QED BY <2>1, <2>2, <1>s, <1>k DEF Pending
<1>4. ASSUME NEW c \in Consumers, Loop(c) \/ LoopError(c) PROVE i \in Pending' \/ Settled(i)'
  <2>1. UNCHANGED <<last, stream>>
    BY <1>4, LoopPending
  <2>2. CASE Pending' = Pending /\ UNCHANGED delivered
    BY <2>1, <2>2, <1>1
  <2>3. CASE /\ Pending' = Pending \cup New
             /\ New = {k \in Undelivered : k <= delivered'}
    <3>1. CASE i > delivered
      <4>1. i \in Undelivered /\ i <= delivered'
        BY <2>1, <3>1, TypeNext DEF Undelivered, TypeOK
      <4> QED BY <4>1, <2>3
    <3>2. CASE ~(i > delivered)
      BY <3>2, <2>1, <2>3, <1>s, <1>k
    <3> QED BY <3>1, <3>2
  <2>4. CASE (Pending \ Pending') \cap stream = {} /\ UNCHANGED delivered
    BY <2>1, <2>4, <1>s, <1>k
  <2> QED BY <1>4, <2>2, <2>3, <2>4, LoopPending
<1>5. ASSUME NEW c \in Consumers, NEW j \in Ids,
             Work(c, j) \/ AckError(c, j) \/ GiveUp(c, j)
      PROVE  i \in Pending' \/ Settled(i)'
  <2>1. UNCHANGED <<last, stream, delivered>>
    BY <1>5, WorkPending
  <2>2. CASE Pending' = Pending
    BY <2>1, <2>2, <1>1
  <2>3. CASE Pending' = Pending \ {j} /\ Settled(j)
    BY <2>1, <2>3, <1>s, <1>k
  <2> QED BY <1>5, <2>2, <2>3, WorkPending
<1>6. ASSUME NEW c \in Consumers, Crash(c) PROVE i \in Pending' \/ Settled(i)'
  <2>1. Pending' = Pending
    BY <1>6, GroupAssumption DEF Crash, Pending, TypeOK
  <2> QED BY <2>1, <1>6, <1>1 DEF Crash
<1>7. ASSUME NEW j \in Ids, BecomeIdle(j) PROVE i \in Pending' \/ Settled(i)'
  BY <1>7, <1>1 DEF BecomeIdle, Pending
<1>8. CASE UNCHANGED vars
  BY <1>8, <1>1 DEF vars, redis, Pending
<1> QED BY <1>2, <1>3, <1>4, <1>5, <1>6, <1>7, <1>8, Zenon DEF Next, Faults

THEOREM IInvHolds == Spec => []IInv
<1>1. IInv /\ [Next]_vars => IInv'
  BY TypeNext, KnownNext, LostNext DEF IInv
<1> QED BY IInvInit, <1>1, PTL DEF Spec

\* Whatever processes die and whatever commands fail, an event that the stream
\* has not dropped is still to be delivered, pending, handled, a dead letter, or
\* was published again out of the dead letter queue.
THEOREM NoEventLost == Spec => []NothingLost
<1>1. IInv => NothingLost
  BY DEF IInv
<1> QED BY IInvHolds, <1>1, PTL

-----------------------------------------------------------------------------
(* The consumer group implements the queue *)

\* Whatever has an id is in one of the queue's sets.
LEMMA AllInQueue == IInv => Queue!Known = 1 .. last
<1> SUFFICES ASSUME IInv PROVE Queue!Known = 1 .. last
  OBVIOUS
<1> USE DEF IInv
<1>1. /\ \A i \in Ids : i <= delivered => i \in 1 .. last
      /\ 1 .. last \subseteq Ids /\ stream \subseteq 1 .. last
  BY StreamIds DEF TypeOK, Ids
<1>2. Open \subseteq 1 .. last
  <2>1. Pending \subseteq 1 .. last
    BY <1>1 DEF Pending, TypeOK, Ids
  <2> QED BY <1>1, <2>1 DEF Open, Undelivered
<1>3. Handled \subseteq 1 .. last /\ Buried \subseteq 1 .. last
  BY <1>1 DEF Known, Handled, Buried
<1>4. Copied \subseteq 1 .. last
  <2> SUFFICES ASSUME NEW i \in Ids, Republished(i) PROVE i \in 1 .. last
    BY DEF Copied
  <2>1. PICK j \in 1 .. last : j # i /\ copyOf[j] = i
    BY DEF Republished
  <2>2. copyOf[j] <= last
    BY <2>1, <1>1 DEF Known
  <2> QED BY <2>1, <2>2, StreamIds DEF Ids
<1>5. ASSUME NEW i \in 1 .. last
      PROVE  i \in Open \cup Handled \cup Buried \cup Copied \cup Dropped
  BY <1>1 DEF NothingLost, Open, Undelivered, Handled, Buried, Copied, Dropped, Settled
<1>6. Dropped \subseteq 1 .. last
  BY DEF Dropped
<1> QED BY <1>2, <1>3, <1>4, <1>5, <1>6 DEF Queue!Known

LEMMA SettledInQueue ==
  IInv => \A i \in Ids : i \in Queue!Settled <=> Settled(i)
  BY DEF Queue!Settled, Handled, Buried, Copied, Settled

\* Steps that settle nothing.
LEMMA SettledKept ==
  ASSUME UNCHANGED <<last, handled, dlq, copyOf>>
  PROVE  UNCHANGED <<Handled, Buried, Copied>> /\ \A i : Settled(i)' <=> Settled(i)
  BY DEF Handled, Buried, Copied, Settled, Republished

LEMMA QueueStutters ==
  ASSUME UNCHANGED <<last, handled, dlq, copyOf, stream, delivered>>, Pending' = Pending
  PROVE  UNCHANGED Queue!vars
<1>1. UNCHANGED <<Handled, Buried, Copied>> /\ \A i : Settled(i)' <=> Settled(i)
  BY SettledKept
<1>2. UNCHANGED Open
  BY DEF Open, Undelivered
<1>3. UNCHANGED Dropped
  BY <1>1 DEF Dropped
<1> QED BY <1>1, <1>2, <1>3 DEF Queue!vars

LEMMA QueueLoop ==
  ASSUME IInv, NEW c \in Consumers, Loop(c) \/ LoopError(c)
  PROVE  [Queue!Next]_Queue!vars
<1> USE DEF IInv
<1>s. UNCHANGED <<last, stream, handled, dlq, copyOf>>
  BY LoopPending
<1>1. UNCHANGED <<Handled, Buried, Copied>> /\ \A i : Settled(i)' <=> Settled(i)
  BY <1>s, SettledKept
<1>2. CASE Pending' = Pending /\ UNCHANGED delivered
  BY <1>2, <1>s, QueueStutters
<1>3. CASE /\ Pending' = Pending \cup New
           /\ New = {i \in Undelivered : i <= delivered'}
           /\ delivered <= delivered'
  <2>0. New \subseteq Undelivered /\ Undelivered \subseteq stream
    BY <1>3 DEF Undelivered
  <2>1. UNCHANGED Open
    <3>2. Undelivered' = {i \in Undelivered : ~(i <= delivered')}
      <4>1. delivered' \in Nat /\ delivered \in Nat /\ stream \subseteq Nat
        BY <1>s, TypeNext, StreamIds DEF TypeOK, Next, Faults, Ids
      <4>2. \A i \in stream : i > delivered' <=> i > delivered /\ ~(i <= delivered')
        BY <4>1, <1>3
      <4>3. stream' = stream
        BY <1>s
      <4> QED BY <4>2, <4>3 DEF Undelivered
    <3> QED BY <3>2, <1>3 DEF Open
  <2>2. UNCHANGED Dropped
    BY <2>0, <1>1, <1>3, <1>s DEF Dropped
  <2> QED BY <1>1, <2>1, <2>2 DEF Queue!vars
<1>4. CASE /\ Pending' \subseteq Pending /\ (Pending \ Pending') \cap stream = {}
           /\ UNCHANGED delivered
  <2> DEFINE S == Pending \ Pending'
  <2>1. S \subseteq Open /\ Open' = Open \ S
    <3>1. UNCHANGED Undelivered /\ Undelivered \subseteq stream
      BY <1>4, <1>s DEF Undelivered
    <3> QED BY <3>1, <1>4 DEF Open
  <2>2. Dropped' = Dropped \cup (S \ Queue!Settled)
    <3>1. S \subseteq 1 .. last /\ S \cap stream = {} /\ S \cap Pending' = {} /\ S \subseteq Ids
      <4>1. S \subseteq 1 .. last
        BY <2>1, AllInQueue DEF Queue!Known
      <4> QED BY <4>1, <1>4 DEF Pending
    <3>2. \A i \in S : i \in Queue!Settled <=> Settled(i)
      BY <3>1, SettledInQueue
    <3> HIDE DEF S
    <3>3. \A i : i \in stream \cup Pending' <=> i \in (stream \cup Pending) \ S
      BY <3>1, <1>4 DEF S
    <3> QED BY <3>1, <3>2, <3>3, <1>1, <1>s DEF Dropped
  <2>3. Queue!Drop(S)
    BY <2>1, <2>2, <1>1 DEF Queue!Drop, Queue!Close
  <2>4. S \in SUBSET Open
    BY <2>1
  <2> QED BY <2>3, <2>4 DEF Queue!Next
<1> QED BY <1>2, <1>3, <1>4, LoopPending

LEMMA QueueWork ==
  ASSUME IInv, NEW c \in Consumers, NEW i \in Ids,
         Work(c, i) \/ AckError(c, i) \/ GiveUp(c, i)
  PROVE  [Queue!Next]_Queue!vars
<1> USE DEF IInv
<1>s. UNCHANGED <<last, stream, delivered, copyOf>>
  BY WorkPending
<1>k. work[c][i] # "none" => i \in Queue!Known
  <2> SUFFICES ASSUME work[c][i] # "none" PROVE i \in 1 .. last
    BY AllInQueue
  <2>1. i <= delivered
    BY DEF Known
  <2> QED BY <2>1 DEF TypeOK, Ids
<1>c. UNCHANGED Copied /\ UNCHANGED Undelivered
  BY <1>s DEF Copied, Republished, Undelivered
<1>1. CASE Succeed(c, i)
  <2>1. /\ handled' = [handled EXCEPT ![i] = @ + 1] /\ UNCHANGED <<dlq, owner>>
        /\ i \in Queue!Known
    BY <1>1, <1>k DEF Succeed, redis
  <2>2. \A j \in Ids : handled'[j] > 0 <=> handled[j] > 0 \/ j = i
    BY <2>1 DEF TypeOK
  <2>3. Handled' = Handled \cup {i} /\ UNCHANGED Buried
    BY <2>1, <2>2 DEF Handled, Buried
  <2>4. UNCHANGED Pending /\ UNCHANGED Open
    BY <1>c, <2>1 DEF Pending, Open
  <2>5. Dropped' = Dropped \ {i}
    <3>1. \A j \in Ids : Settled(j)' <=> Settled(j) \/ j = i
      BY <2>1, <2>2, <1>s DEF Settled, Republished
    <3>2. 1 .. last \subseteq Ids
      BY StreamIds
    <3> QED BY <3>1, <3>2, <2>4, <1>s DEF Dropped
  <2>6. Queue!Handle(i)
    BY <2>1, <2>3, <2>4, <2>5, <1>c DEF Queue!Handle
  <2> QED BY <2>6 DEF Queue!Next
<1>2. CASE Bury(c, i)
  <2>1. /\ dlq' = [dlq EXCEPT ![i] = @ + 1] /\ UNCHANGED <<handled, owner>>
        /\ i \in Queue!Known
    BY <1>2, <1>k DEF Bury, redis
  <2>2. \A j \in Ids : dlq'[j] > 0 <=> dlq[j] > 0 \/ j = i
    BY <2>1 DEF TypeOK
  <2>3. Buried' = Buried \cup {i} /\ UNCHANGED Handled
    BY <2>1, <2>2 DEF Handled, Buried
  <2>4. UNCHANGED Pending /\ UNCHANGED Open
    BY <1>c, <2>1 DEF Pending, Open
  <2>5. Dropped' = Dropped \ {i}
    <3>1. \A j \in Ids : Settled(j)' <=> Settled(j) \/ j = i
      BY <2>1, <2>2, <1>s DEF Settled, Republished
    <3>2. 1 .. last \subseteq Ids
      BY StreamIds
    <3> QED BY <3>1, <3>2, <2>4, <1>s DEF Dropped
  <2>6. Queue!Bury(i)
    BY <2>1, <2>3, <2>4, <2>5, <1>c DEF Queue!Bury
  <2> QED BY <2>6 DEF Queue!Next
<1>3. CASE UNCHANGED <<handled, dlq>> /\ Pending' = Pending
  BY <1>3, <1>s, QueueStutters
<1>4. CASE Pending' = Pending \ {i} /\ Settled(i) /\ UNCHANGED <<handled, dlq>>
  <2>1. UNCHANGED <<Handled, Buried, Copied>> /\ \A j : Settled(j)' <=> Settled(j)
    BY <1>4, <1>s, SettledKept
  <2>2. CASE i \notin Pending
    BY <2>2, <1>3, <1>4
  <2>3. CASE i \in Pending
    <3>1. i \notin Undelivered /\ i \in Open \cap Queue!Settled
      BY <2>3, <1>4, SettledInQueue DEF Undelivered, Pending, Open, TypeOK
    <3>2. Open' = Open \ {i}
      BY <3>1, <1>c, <1>4 DEF Open
    <3>3. UNCHANGED Dropped
      BY <2>1, <1>4, <1>s DEF Dropped
    <3>4. Queue!Settle(i)
      BY <3>1, <3>2, <3>3, <2>1 DEF Queue!Settle
    <3> QED BY <3>4 DEF Queue!Next
  <2> QED BY <2>2, <2>3
<1>6. CASE Fail(c, i) \/ Ack(c, i) \/ Inspect(c, i) \/ AckError(c, i) \/ GiveUp(c, i)
  <2>1. UNCHANGED <<handled, dlq>>
    BY <1>6 DEF Fail, Ack, Inspect, AckError, GiveUp
  <2> QED BY <2>1, <1>3, <1>4, WorkPending
<1> QED BY <1>1, <1>2, <1>6 DEF Work

LEMMA QueuePublish == ASSUME IInv, Publish PROVE Queue!Next
<1> USE DEF IInv
<1> DEFINE n == last + 1
           S == Open \ Open'
<1>1. /\ n \in stream' /\ stream' \subseteq stream \cup {n} /\ n \in Ids /\ last' = n
      /\ UNCHANGED <<delivered, handled, dlq, copyOf, owner>>
      /\ last \in Nat /\ delivered <= last /\ delivered \in Nat
      /\ stream \subseteq 1 .. last /\ UNCHANGED Pending
  <2>1. n \in stream' /\ stream' \subseteq stream \cup {n} /\ n \in Ids /\ last' = n
    BY PublishStream
  <2>2. UNCHANGED <<delivered, handled, dlq, copyOf, owner>> /\ UNCHANGED Pending
    BY DEF Publish, Pending
  <2>3. /\ last \in Nat /\ delivered <= last /\ delivered \in Nat
        /\ stream \subseteq 1 .. last
    BY DEF TypeOK
  <2> QED BY <2>1, <2>2, <2>3
<1>2. n \notin Queue!Known /\ 1 .. last \subseteq Ids /\ 1 .. last' = (1 .. last) \cup {n}
  BY <1>1, AllInQueue, StreamIds
<1>3. \A i \in Ids : Settled(i)' <=> Settled(i)
  <2>1. copyOf[n] = n
    BY <1>1 DEF Known, TypeOK
  <2>2. ASSUME NEW i \in Ids PROVE Republished(i)' <=> Republished(i)
    BY <2>1, <1>1, <1>2 DEF Republished
  <2> QED BY <2>2, <1>1 DEF Settled
<1>4. UNCHANGED <<Handled, Buried, Copied>>
  <2>1. copyOf[n] = n
    BY <1>1 DEF Known, TypeOK
  <2>2. ASSUME NEW i \in Ids PROVE Republished(i)' <=> Republished(i)
    BY <2>1, <1>1, <1>2 DEF Republished
  <2> QED BY <2>2, <1>1 DEF Handled, Buried, Copied
<1>5. Undelivered' \subseteq Undelivered \cup {n} /\ n \in Undelivered'
  <2>1. n > delivered
    BY <1>1
  <2> QED BY <2>1, <1>1 DEF Undelivered
<1>6. Open' = (Open \ S) \cup {n} /\ S \in SUBSET Open
  BY <1>5, <1>1 DEF Open
<1>7. ASSUME NEW i \in 1 .. last
      PROVE  i \in S <=> i \in Undelivered /\ i \notin stream' /\ i \notin Pending
  BY <1>1 DEF Open, Undelivered
<1>8. S \subseteq 1 .. last /\ n \notin Pending /\ n \notin S
  BY <1>1, <1>2, AllInQueue DEF Open, Queue!Known
<1>9. ASSUME NEW i \in 1 .. last
      PROVE  i \in Dropped' <=> i \in Dropped \/ (i \in S /\ ~Settled(i))
  <2>1. i \in Dropped' <=> i \notin stream' \cup Pending /\ ~Settled(i)
    BY <1>1, <1>2, <1>3 DEF Dropped
  <2>2. i \in Dropped <=> i \notin stream \cup Pending /\ ~Settled(i)
    BY DEF Dropped
  <2>3. i \in stream /\ i \notin Pending /\ ~Settled(i) => i \in Undelivered
    BY DEF NothingLost, Undelivered
  <2>4. i # n
    BY <1>1
  <2> QED BY <2>1, <2>2, <2>3, <2>4, <1>1, <1>7 DEF Undelivered
<1>10. Dropped' = Dropped \cup (S \ Queue!Settled)
  <2>1. n \notin Dropped' /\ Dropped' \subseteq 1 .. last' /\ Dropped \subseteq 1 .. last
    BY <1>1 DEF Dropped
  <2>2. \A i \in S : i \in Queue!Settled <=> Settled(i)
    BY <1>2, <1>8, SettledInQueue
  <2> HIDE DEF S, n
  <2> QED BY <2>1, <2>2, <1>2, <1>8, <1>9
<1>11. Queue!Submit(n, S)
  BY <1>1, <1>2, <1>4, <1>6, <1>10 DEF Queue!Submit, Queue!Close
<1> QED BY <1>1, <1>6, <1>11 DEF Queue!Next

LEMMA QueueReprocess == ASSUME IInv, NEW i \in Ids, Reprocess(i) PROVE Queue!Next
<1> USE DEF IInv
<1> DEFINE n == last + 1
<1>1. /\ n \in Ids /\ last' = n /\ stream' = stream \cup {n} /\ dlq[i] > 0
      /\ copyOf' = [copyOf EXCEPT ![n] = i]
      /\ UNCHANGED <<delivered, handled, owner>>
      /\ last \in Nat /\ delivered <= last /\ delivered \in Nat /\ UNCHANGED Pending
  BY GroupAssumption DEF Reprocess, TypeOK, Ids, Pending
<1>2. /\ n \notin Queue!Known /\ 1 .. last \subseteq Ids /\ 1 .. last' = (1 .. last) \cup {n}
      /\ n \notin 1 .. last
  BY <1>1, AllInQueue, StreamIds
<1>3. i \in Buried /\ i # n
  BY <1>1, <1>2, AllInQueue DEF Buried, Queue!Known
<1>4. Buried' \in {Buried, Buried \ {i}} /\ UNCHANGED Handled
  <2>1. \A k \in Ids : k # i => dlq'[k] = dlq[k]
    BY DEF Reprocess, TypeOK
  <2>2. dlq'[i] > 0 => dlq[i] > 0
    BY <1>1
  <2> QED BY <2>1, <2>2, <1>1 DEF Buried, Handled
<1>5. \A k \in Ids : Republished(k)' <=> Republished(k) \/ k = i
  <2> SUFFICES ASSUME NEW k \in Ids PROVE Republished(k)' <=> Republished(k) \/ k = i
    OBVIOUS
  <2>1. copyOf'[n] = i /\ \A j \in 1 .. last : copyOf'[j] = copyOf[j]
    BY <1>1, <1>2 DEF TypeOK
  <2>2. Republished(k)' <=> \E j \in (1 .. last) \cup {n} : j # k /\ copyOf'[j] = k
    BY <1>2 DEF Republished
  <2> QED BY <2>1, <2>2, <1>3 DEF Republished
<1>6. Copied' = Copied \cup {i}
  BY <1>5 DEF Copied
<1>7. Open' = Open \cup {n}
  <2>1. n > delivered
    BY <1>1
  <2>2. Undelivered' = Undelivered \cup {n}
    BY <2>1, <1>1 DEF Undelivered
  <2> QED BY <2>2, <1>1 DEF Open
<1>8. UNCHANGED Dropped
  <2>1. \A k \in Ids : Settled(k)' <=> Settled(k)
    <3>1. \A k \in Ids : k # i => dlq'[k] = dlq[k]
      BY DEF Reprocess, TypeOK
    <3> QED BY <3>1, <1>1, <1>5 DEF Settled
  <2>2. n \notin Dropped' /\ Dropped' \subseteq 1 .. last' /\ Dropped \subseteq 1 .. last
    BY <1>1 DEF Dropped
  <2>3. ASSUME NEW k \in 1 .. last PROVE k \in Dropped' <=> k \in Dropped
    BY <2>1, <1>1, <1>2 DEF Dropped
  <2> HIDE DEF n
  <2> QED BY <2>2, <2>3, <1>2
<1>9. Queue!Resubmit(i, n)
  BY <1>1, <1>2, <1>3, <1>4, <1>6, <1>7, <1>8 DEF Queue!Resubmit
<1> QED BY <1>1, <1>9 DEF Queue!Next

LEMMA QueueNext == IInv /\ [Next]_vars => [Queue!Next]_Queue!vars
<1> SUFFICES ASSUME IInv, [Next]_vars PROVE [Queue!Next]_Queue!vars
  OBVIOUS
<1>1. ASSUME NEW i \in Ids, BecomeIdle(i) PROVE [Queue!Next]_Queue!vars
  BY <1>1, QueueStutters DEF BecomeIdle, Pending
<1>2. ASSUME NEW c \in Consumers, Crash(c) PROVE [Queue!Next]_Queue!vars
  <2>1. Pending' = Pending
    BY <1>2, GroupAssumption DEF Crash, Pending, IInv, TypeOK
  <2> QED BY <1>2, <2>1, QueueStutters DEF Crash
<1>3. CASE UNCHANGED vars
  BY <1>3, QueueStutters DEF vars, redis, Pending
<1>4. ASSUME NEW c \in Consumers, Loop(c) \/ LoopError(c) PROVE [Queue!Next]_Queue!vars
  BY <1>4, QueueLoop
<1>5. ASSUME NEW c \in Consumers, NEW i \in Ids,
             Work(c, i) \/ AckError(c, i) \/ GiveUp(c, i)
      PROVE  [Queue!Next]_Queue!vars
  BY <1>5, QueueWork
<1>6. ASSUME NEW i \in Ids, Reprocess(i) PROVE [Queue!Next]_Queue!vars
  BY <1>6, QueueReprocess
<1>7. CASE Publish
  BY <1>7, QueuePublish
<1> QED BY <1>1, <1>2, <1>3, <1>4, <1>5, <1>6, <1>7, Zenon DEF Next, Faults

\* The consumer group, with its crashes, failed commands, trimming, claims and
\* dead letters, implements the queue of WorkQueue: an event stays open until it
\* has been handled or buried or copied, or the stream has dropped it.
THEOREM ImplementsQueue == Spec => IsQueue
<1>1. Init => Queue!Init
  <2> SUFFICES ASSUME Init PROVE Queue!Init
    OBVIOUS
  <2>1. Open = {} /\ Dropped = {}
    BY DEF Init, Open, Undelivered, Pending, Dropped
  <2>2. Handled = {} /\ Buried = {} /\ Copied = {}
    BY DEF Init, Handled, Buried, Copied, Republished
  <2> QED BY <2>1, <2>2 DEF Queue!Init
<1> QED BY <1>1, QueueNext, IInvHolds, PTL DEF Spec, IsQueue, Queue!Spec

-----------------------------------------------------------------------------
(* How much is pending *)

\* The consumers that have seen nothing pending and are about to take entries.
Takers == {c \in Consumers : phase[c] = "new"}

LEMMA Sizes ==
  /\ \A S : S \subseteq Ids \/ S \subseteq Consumers =>
       IsFiniteSet(S) /\ Cardinality(S) \in Nat
  /\ \A S, T : T \subseteq S /\ (S \subseteq Ids \/ S \subseteq Consumers) =>
       Cardinality(T) <= Cardinality(S)
<1>1. IsFiniteSet(Ids) /\ IsFiniteSet(Consumers)
  BY GroupAssumption, FS_Interval DEF Ids
<1>2. \A S : S \subseteq Ids \/ S \subseteq Consumers => IsFiniteSet(S)
  BY <1>1, FS_Subset
<1> QED BY <1>2, FS_CardinalityType, FS_Subset

\* No more than n entries are the first n.  m is the last of them.
LEMMA FirstBounded ==
  ASSUME NEW n \in Nat, NEW S \in SUBSET Ids,
         NEW m \in First(n, S), \A x \in First(n, S) : x <= m
  PROVE  Cardinality(First(n, S)) <= n
<1> DEFINE B == {j \in S : j < m}
<1>1. m \in Ids /\ Cardinality(B) < n /\ First(n, S) \subseteq S
  BY DEF First
<1>2. B \subseteq Ids /\ m \notin B /\ B \cup {m} \subseteq Ids
  <2>1. m \in Nat
    BY <1>1, GroupAssumption DEF Ids
  <2>2. ~(m < m)
    BY <2>1
  <2> QED BY <1>1, <2>2
<1>3. Cardinality(B \cup {m}) = Cardinality(B) + 1 /\ Cardinality(B) \in Nat
  BY <1>2, Sizes, FS_AddElement
<1>4. First(n, S) \subseteq B \cup {m}
  <2>1. ASSUME NEW x \in First(n, S), x # m PROVE x < m
    BY <2>1, <1>1, GroupAssumption DEF Ids
  <2> QED BY <2>1, <1>1
<1>5. Cardinality(First(n, S)) <= Cardinality(B \cup {m}) /\ Cardinality(First(n, S)) \in Nat
  BY <1>2, <1>4, Sizes
<1> QED BY <1>1, <1>3, <1>5

\* Steps that let nobody in and add nothing.
LEMMA BoundKept ==
  ASSUME TypeOK, PendingBounded, Pending' \subseteq Pending, Takers' \subseteq Takers
  PROVE  PendingBounded'
<1>1. /\ Cardinality(Pending') <= Cardinality(Pending)
      /\ Cardinality(Takers') <= Cardinality(Takers)
      /\ Cardinality(Pending) \in Nat /\ Cardinality(Pending') \in Nat
      /\ Cardinality(Takers) \in Nat /\ Cardinality(Takers') \in Nat
      /\ Cardinality(Consumers) \in Nat /\ BatchSize \in Nat
  <2>1. Pending \subseteq Ids /\ Takers \subseteq Consumers
    BY DEF Pending, Takers
  <2>2. Pending' \subseteq Ids /\ Takers' \subseteq Consumers
    BY <2>1
  <2>3. BatchSize \in Nat
    BY GroupAssumption
  <2> QED BY <2>1, <2>2, <2>3, Sizes
<1>2. \A a, b \in Nat : a <= b => BatchSize * a <= BatchSize * b
  BY <1>1
<1>3. BatchSize * Cardinality(Takers') <= BatchSize * Cardinality(Takers)
  BY <1>1, <1>2
<1>4. /\ BatchSize * Cardinality(Takers') \in Nat /\ BatchSize * Cardinality(Takers) \in Nat
      /\ BatchSize * Cardinality(Consumers) \in Nat
  BY <1>1
<1>5. Cardinality(Pending) + BatchSize * Cardinality(Takers) <= BatchSize * Cardinality(Consumers)
  BY DEF PendingBounded, Takers
<1>6. Cardinality(Pending') + BatchSize * Cardinality(Takers') <= BatchSize * Cardinality(Consumers)
  BY <1>1, <1>3, <1>4, <1>5
<1> QED BY <1>6 DEF PendingBounded, Takers

\* A consumer that has seen nothing pending takes new entries.
LEMMA BoundTaken ==
  ASSUME TypeOK, PendingBounded, NEW c \in Consumers, phase[c] = "new",
         TakeNew(c), UNCHANGED <<last, stream>>, NEW p \in Phases, p # "new", Go(c, p)
  PROVE  PendingBounded'
<1>1. Pending' = Pending \cup New /\ New \subseteq Ids /\ Pending \subseteq Ids
  <2>1. New \subseteq Ids
    BY StreamIds, FirstSubset DEF New, Undelivered
  <2> QED BY <2>1, TakeNewPending DEF Pending
<1>2. Takers' = Takers \ {c} /\ c \in Takers
  BY DEF Takers, Go, TypeOK
<1>3. Cardinality(New) <= BatchSize
  <2>1. CASE New = {}
    BY <2>1, FS_EmptySet, GroupAssumption
  <2>2. CASE delivered' \in New
    <3>1. \A i \in New : i <= delivered'
      BY DEF TakeNew
    <3>2. Undelivered \in SUBSET Ids
      BY StreamIds DEF Undelivered
    <3> QED BY <2>2, <3>1, <3>2, FirstBounded, GroupAssumption DEF New
  <2> QED BY <2>1, <2>2 DEF TakeNew
<1>4. Cardinality(Pending') <= Cardinality(Pending) + Cardinality(New)
  <2>1. /\ IsFiniteSet(Pending) /\ IsFiniteSet(New)
        /\ Cardinality(Pending) \in Nat /\ Cardinality(New) \in Nat
        /\ Cardinality(Pending \cap New) \in Nat
    <3>1. Pending \cap New \subseteq Ids
      BY <1>1
    <3> QED BY <1>1, <3>1, Sizes
  <2>2. Cardinality(Pending \cup New)
          = Cardinality(Pending) + Cardinality(New) - Cardinality(Pending \cap New)
    BY <2>1, FS_Union
  <2> QED BY <1>1, <2>1, <2>2
<1>5. Cardinality(Takers') = Cardinality(Takers) - 1 /\ Cardinality(Takers) \in Nat
  BY <1>2, Sizes, FS_RemoveElement DEF Takers
<1>6. /\ Cardinality(Pending) \in Nat /\ Cardinality(Pending') \in Nat
      /\ Cardinality(New) \in Nat /\ BatchSize \in Nat
  <2>1. Pending' \subseteq Ids
    BY <1>1
  <2> QED BY <1>1, <2>1, Sizes, GroupAssumption
<1>7. BatchSize * (Cardinality(Takers) - 1) = BatchSize * Cardinality(Takers) - BatchSize
  BY <1>5, <1>6
<1>8. Cardinality(Pending) + BatchSize * Cardinality(Takers) <= BatchSize * Cardinality(Consumers)
  BY DEF PendingBounded, Takers
<1>9. /\ BatchSize * Cardinality(Takers) \in Nat /\ BatchSize * Cardinality(Consumers) \in Nat
      /\ BatchSize * Cardinality(Takers') = BatchSize * Cardinality(Takers) - BatchSize
  BY <1>5, <1>6, <1>7, Sizes
<1>10. Cardinality(Pending') + BatchSize * Cardinality(Takers') <= BatchSize * Cardinality(Consumers)
  BY <1>3, <1>4, <1>6, <1>8, <1>9
<1> QED BY <1>10 DEF PendingBounded, Takers

LEMMA BoundNext == TypeOK /\ PendingBounded /\ [Next]_vars => PendingBounded'
<1> SUFFICES ASSUME TypeOK, PendingBounded, [Next]_vars PROVE PendingBounded'
  OBVIOUS
<1>g. \A c \in Consumers, p \in Phases : Go(c, p) /\ p # "new" => Takers' \subseteq Takers
  BY DEF Go, Takers, TypeOK
<1>0. CASE UNCHANGED phase /\ Pending' \subseteq Pending
  BY <1>0, BoundKept DEF Takers
<1>1. ASSUME NEW c \in Consumers, Loop(c) \/ LoopError(c) PROVE PendingBounded'
  <2>s. UNCHANGED <<last, stream>>
    BY <1>1, LoopPending
  <2>1. CASE Look(c)
    <3>1. CASE Pending = {}
      <4>1. Pending' = {}
        BY <2>1, <3>1 DEF Look, Pending, redis
      <4>2. Cardinality(Pending') = 0
        BY <4>1, FS_EmptySet
      <4>3. /\ Cardinality(Takers') <= Cardinality(Consumers) /\ Cardinality(Takers') \in Nat
            /\ Cardinality(Consumers) \in Nat /\ BatchSize \in Nat
        <5>1. Takers' \subseteq Consumers
          BY DEF Takers
        <5> QED BY <5>1, Sizes, GroupAssumption
      <4>4. BatchSize * Cardinality(Takers') <= BatchSize * Cardinality(Consumers)
            /\ BatchSize * Cardinality(Takers') \in Nat
        BY <4>3
      <4> QED BY <4>2, <4>4 DEF PendingBounded, Takers
    <3>2. CASE Pending # {}
      <4>1. Go(c, "own") /\ Pending' = Pending
        BY <2>1, <3>2 DEF Look, Pending, redis
      <4> QED BY <4>1, <1>g, BoundKept DEF Phases
    <3> QED BY <3>1, <3>2
  <2>2. CASE ReadNew(c)
    BY <2>2, <2>s, BoundTaken DEF ReadNew, Phases
  <2>3. CASE ReadOwn(c) \/ ReadOwnFails(c) \/ Claim(c) \/ EndBatch(c)
    <3>1. Pending' \subseteq Pending
      <4>1. CASE UNCHANGED redis
        BY <4>1 DEF redis, Pending
      <4>2. CASE Take(c, First(BatchSize, OwnedBy(c)) \cap stream)
        BY <4>2, TakeOwnPending
      <4>3. CASE Take(c, First(BatchSize, Claimable))
        BY <4>3, ClaimPending
      <4>4. CASE ReadOwn(c)
        <5>1. First(BatchSize, OwnedBy(c)) \cap stream = First(BatchSize, OwnedBy(c))
          BY <4>4 DEF ReadOwn
        <5> QED BY <4>4, <5>1, <4>2 DEF ReadOwn, Deliver
      <4> QED BY <2>3, <4>1, <4>2, <4>3, <4>4 DEF ReadOwnFails, Claim, EndBatch, Deliver
    <3>2. \E p \in Phases : Go(c, p) /\ p # "new"
      BY <2>3 DEF ReadOwn, ReadOwnFails, Claim, EndBatch, Phases
    <3> QED BY <3>1, <3>2, <1>g, BoundKept
  <2>4. CASE LoopError(c)
    <3>1. Go(c, "look") /\ Takers' \subseteq Takers
      BY <2>4, <1>g DEF LoopError, Phases
    <3>2. CASE phase[c] = "new" /\ TakeNew(c)
      BY <3>2, <3>1, <2>s, BoundTaken DEF Phases
    <3>3. CASE Pending' \subseteq Pending
      BY <3>1, <3>3, BoundKept
    <3>4. CASE UNCHANGED redis
      BY <3>3, <3>4 DEF redis, Pending
    <3>5. CASE Take(c, First(BatchSize, OwnedBy(c)) \cap stream)
      BY <3>3, <3>5, TakeOwnPending
    <3>6. CASE Take(c, First(BatchSize, Claimable))
      BY <3>3, <3>6, ClaimPending
    <3> QED BY <2>4, <3>2, <3>4, <3>5, <3>6 DEF LoopError, Deliver
  <2> QED BY <1>1, <2>1, <2>2, <2>3, <2>4 DEF Loop
<1>2. ASSUME NEW c \in Consumers, NEW i \in Ids,
             Work(c, i) \/ AckError(c, i) \/ GiveUp(c, i)
      PROVE  PendingBounded'
  <2>1. Pending' \subseteq Pending
    <3>1. CASE UNCHANGED owner
      BY <3>1 DEF Pending
    <3>2. CASE Acked(i)
      BY <3>2 DEF Acked, Pending, TypeOK
    <3> QED BY <1>2, <3>1, <3>2
            DEF Work, Succeed, Fail, Ack, Inspect, Bury, AckError, GiveUp, redis
  <2>2. UNCHANGED phase
    BY <1>2 DEF Work, Succeed, Fail, Ack, Inspect, Bury, AckError, GiveUp
  <2> QED BY <2>1, <2>2, <1>0
<1>3. ASSUME NEW c \in Consumers, Crash(c) PROVE PendingBounded'
  <2>1. Pending' = Pending
    BY <1>3, GroupAssumption DEF Crash, Pending, TypeOK
  <2>2. Takers' \subseteq Takers
    BY <1>3 DEF Crash, Takers, TypeOK
  <2> QED BY <2>1, <2>2, BoundKept
<1>4. ASSUME NEW i \in Ids, BecomeIdle(i) \/ Reprocess(i) PROVE PendingBounded'
  BY <1>4, <1>0 DEF BecomeIdle, Reprocess, Pending
<1>5. CASE Publish \/ UNCHANGED vars
  BY <1>5, <1>0 DEF Publish, vars, redis, Pending
<1> QED BY <1>1, <1>2, <1>3, <1>4, <1>5, Zenon DEF Next, Faults

\* However many consumers look, crash and lose replies at the same time, never
\* more than a batch for each of them is pending.
THEOREM PendingIsBounded == Spec => []PendingBounded
<1>1. Init => PendingBounded
  <2> SUFFICES ASSUME Init PROVE PendingBounded
    OBVIOUS
  <2>1. Pending = {} /\ Takers = {}
    BY DEF Init, Pending, Takers
  <2>2. Cardinality(Pending) = 0 /\ Cardinality(Takers) = 0
    BY <2>1, FS_EmptySet
  <2>3. Cardinality(Consumers) \in Nat /\ BatchSize \in Nat
    BY Sizes, GroupAssumption
  <2>4. BatchSize * Cardinality(Consumers) \in Nat /\ BatchSize * 0 = 0
    BY <2>3
  <2> QED BY <2>2, <2>4 DEF PendingBounded, Takers
<1> QED BY <1>1, BoundNext, TypeCorrect, PTL DEF Spec

-----------------------------------------------------------------------------
(* Deliveries and runs of the handler *)

Runs(i) == {c \in Consumers : work[c][i] = "handling"}
Counted(i) == handled[i] + Cardinality(Runs(i)) <= deliveries[i]
AllCounted == \A i \in Ids : Counted(i)

LEMMA RunsSize ==
  ASSUME NEW i
  PROVE  /\ Runs(i) \subseteq Consumers /\ Cardinality(Runs(i)) \in Nat
         /\ IsFiniteSet(Runs(i))
  BY Sizes DEF Runs

\* A consumer that is given entries starts a run for each of them, once.
LEMMA RunsBegun ==
  ASSUME TypeOK, AllCounted, NEW c \in Consumers, NEW S, NEW i \in Ids,
         work' = [work EXCEPT ![c] = Begun(S)], Count(S), UNCHANGED handled
  PROVE  Counted(i)'
<1>a. /\ handled[i] + Cardinality(Runs(i)) <= deliveries[i] /\ handled[i] \in Nat
      /\ deliveries[i] \in Nat /\ Cardinality(Runs(i)) \in Nat /\ IsFiniteSet(Runs(i))
      /\ Runs(i)' \subseteq Consumers /\ Cardinality(Runs(i)') \in Nat
  <2>1. Runs(i)' \subseteq Consumers
    BY DEF Runs
  <2> QED BY <2>1, Sizes, RunsSize DEF AllCounted, Counted, Runs, TypeOK
<1>1. CASE i \in S
  <2>1. deliveries'[i] = deliveries[i] + 1
    BY <1>1 DEF Count, TypeOK
  <2>2. Runs(i)' \subseteq Runs(i) \cup {c}
    BY DEF Runs, TypeOK
  <2>3. /\ Cardinality(Runs(i) \cup {c}) <= Cardinality(Runs(i)) + 1
        /\ IsFiniteSet(Runs(i) \cup {c}) /\ Cardinality(Runs(i) \cup {c}) \in Nat
    <3>1. Runs(i) \cup {c} \subseteq Consumers
      BY RunsSize
    <3>2. IsFiniteSet(Runs(i) \cup {c}) /\ Cardinality(Runs(i) \cup {c}) \in Nat
      BY <3>1, Sizes
    <3>3. Cardinality(Runs(i) \cup {c}) \in {Cardinality(Runs(i)), Cardinality(Runs(i)) + 1}
      BY <1>a, FS_AddElement
    <3> QED BY <1>a, <3>2, <3>3
  <2>4. Cardinality(Runs(i)') <= Cardinality(Runs(i) \cup {c})
    BY <2>2, <2>3, FS_Subset
  <2> QED BY <1>a, <2>1, <2>3, <2>4 DEF Counted
<1>2. CASE i \notin S
  <2>1. deliveries'[i] = deliveries[i]
    BY <1>2 DEF Count, TypeOK
  <2>2. Runs(i)' \subseteq Runs(i)
    BY <1>2 DEF Runs, TypeOK, Begun
  <2>3. Cardinality(Runs(i)') <= Cardinality(Runs(i))
    BY <2>2, <1>a, FS_Subset
  <2> QED BY <1>a, <2>1, <2>3 DEF Counted
<1> QED BY <1>1, <1>2

\* Steps that start no run.
LEMMA RunsKept ==
  ASSUME TypeOK, TypeOK', AllCounted, NEW i \in Ids, UNCHANGED handled,
         deliveries[i] <= deliveries'[i], Runs(i)' \subseteq Runs(i)
  PROVE  Counted(i)'
<1>1. Cardinality(Runs(i)') <= Cardinality(Runs(i)) /\ Cardinality(Runs(i)') \in Nat
  <2>1. Runs(i)' \subseteq Consumers
    BY DEF Runs
  <2> QED BY <2>1, Sizes, RunsSize
<1>2. handled[i] + Cardinality(Runs(i)) <= deliveries[i]
  BY DEF AllCounted, Counted
<1>3. /\ handled[i] \in Nat /\ deliveries[i] \in Nat /\ deliveries'[i] \in Nat
      /\ Cardinality(Runs(i)) \in Nat
  BY RunsSize DEF TypeOK
<1> QED BY <1>1, <1>2, <1>3 DEF Counted

LEMMA RunsNext == TypeOK /\ AllCounted /\ [Next]_vars => AllCounted'
<1> SUFFICES ASSUME TypeOK, AllCounted, [Next]_vars, NEW i \in Ids
             PROVE  Counted(i)'
  BY DEF AllCounted, Counted
<1> DEFINE Goal == handled'[i] + Cardinality(Runs(i)') <= deliveries'[i]
<1>t. TypeOK'
  BY TypeNext
<1>d. deliveries[i] \in Nat
  BY DEF TypeOK
<1>c. \A S : Count(S) => deliveries[i] <= deliveries'[i]
  BY <1>d DEF Count, TypeOK
<1>k. UNCHANGED handled /\ deliveries[i] <= deliveries'[i] /\ Runs(i)' \subseteq Runs(i) => Counted(i)'
  BY <1>t, RunsKept
<1>0. CASE UNCHANGED <<handled, work, deliveries>>
  BY <1>0, <1>d, <1>k DEF Runs
<1>1. ASSUME NEW c \in Consumers, Loop(c) \/ LoopError(c) PROVE Counted(i)'
  <2>1. CASE Look(c) \/ EndBatch(c)
    BY <2>1, <1>0 DEF Look, EndBatch, redis
  <2>2. CASE ReadNew(c)
    BY <2>2, RunsBegun DEF ReadNew, TakeNew, Deliver
  <2>3. CASE ReadOwn(c)
    BY <2>3, RunsBegun DEF ReadOwn, Deliver
  <2>4. CASE Claim(c)
    BY <2>4, RunsBegun DEF Claim
  <2>5. CASE ReadOwnFails(c) \/ LoopError(c)
    <3>1. UNCHANGED <<handled, work>>
      BY <2>5 DEF ReadOwnFails, LoopError
    <3>2. deliveries[i] <= deliveries'[i]
      BY <2>5, <1>c, <1>d DEF ReadOwnFails, LoopError, TakeNew, Deliver, redis
    <3> QED BY <3>1, <3>2, <1>k DEF Runs
  <2> QED BY <1>1, <2>1, <2>2, <2>3, <2>4, <2>5 DEF Loop
<1>2. ASSUME NEW c \in Consumers, NEW j \in Ids,
             Work(c, j) \/ AckError(c, j) \/ GiveUp(c, j)
      PROVE  Counted(i)'
  <2>1. UNCHANGED deliveries
    BY <1>2 DEF Work, Succeed, Fail, Ack, Inspect, Bury, AckError, GiveUp, redis
  <2>2. Runs(i)' \subseteq Runs(i)
    <3>1. PICK s \in Status \ {"handling"} : Set(c, j, s)
      BY <1>2 DEF Work, Succeed, Fail, Ack, Inspect, Bury, AckError, GiveUp, Status
    <3> QED BY <3>1, SetType DEF Runs
  <2>3. CASE UNCHANGED handled
    BY <2>1, <2>2, <2>3, <1>d, <1>k
  <2>4. CASE Succeed(c, j)
    <3>1. CASE i # j
      <4>1. handled'[i] = handled[i]
        BY <2>4, <3>1 DEF Succeed, TypeOK
      <4>2. Cardinality(Runs(i)') <= Cardinality(Runs(i)) /\ Cardinality(Runs(i)') \in Nat
        <5>1. Runs(i)' \subseteq Consumers
          BY DEF Runs
        <5> QED BY <2>2, <5>1, Sizes, RunsSize
      <4>3. handled[i] + Cardinality(Runs(i)) <= deliveries[i]
        BY DEF AllCounted, Counted
      <4>4. handled[i] \in Nat /\ Cardinality(Runs(i)) \in Nat /\ deliveries'[i] = deliveries[i]
        BY <2>1, RunsSize DEF TypeOK
      <4> QED BY <4>1, <4>2, <4>3, <4>4, <1>d DEF Counted
    <3>2. CASE i = j
      <4>1. handled'[i] = handled[i] + 1 /\ c \in Runs(i)
        BY <2>4, <3>2 DEF Succeed, Runs, TypeOK
      <4>2. Runs(i)' = Runs(i) \ {c}
        <5>1. Set(c, i, "handled")
          BY <2>4, <3>2 DEF Succeed
        <5> QED BY <5>1, SetType DEF Runs, Status
      <4>3. Cardinality(Runs(i)') = Cardinality(Runs(i)) - 1
        BY <4>1, <4>2, RunsSize, FS_RemoveElement
      <4>4. handled[i] + Cardinality(Runs(i)) <= deliveries[i]
        BY DEF AllCounted, Counted
      <4>5. handled[i] \in Nat /\ Cardinality(Runs(i)) \in Nat /\ deliveries'[i] = deliveries[i]
        BY <2>1, RunsSize DEF TypeOK
      <4> QED BY <4>1, <4>3, <4>4, <4>5, <1>d DEF Counted
    <3> QED BY <3>1, <3>2
  <2> QED BY <1>2, <2>3, <2>4 DEF Work, Fail, Ack, Inspect, Bury, AckError, GiveUp
<1>3. ASSUME NEW c \in Consumers, Crash(c) PROVE Counted(i)'
  <2>1. Runs(i)' \subseteq Runs(i)
    BY <1>3 DEF Crash, Runs, Begun, TypeOK
  <2> QED BY <1>3, <2>1, <1>d, <1>k DEF Crash
<1>4. ASSUME NEW j \in Ids, BecomeIdle(j) \/ Reprocess(j) PROVE Counted(i)'
  BY <1>4, <1>0 DEF BecomeIdle, Reprocess
<1>5. CASE Publish \/ UNCHANGED vars
  BY <1>5, <1>0 DEF Publish, vars, redis
<1> QED
  BY <1>1, <1>2, <1>3, <1>4, <1>5, Zenon DEF Next, Faults

\* A handler never runs for an event without a delivery that was counted for it,
\* whoever claims the event from whom.
THEOREM RunsCounted == Spec => []RunsAreCounted
<1>1. Init => AllCounted
  <2> SUFFICES ASSUME Init, NEW i \in Ids PROVE Counted(i)
    BY DEF AllCounted
  <2>1. Runs(i) = {} /\ handled[i] = 0 /\ deliveries[i] = 0
    BY DEF Init, Runs
  <2> QED BY <2>1, FS_EmptySet DEF Counted
<1>2. AllCounted => RunsAreCounted
  BY DEF AllCounted, Counted, Runs, RunsAreCounted
<1> QED BY <1>1, <1>2, RunsNext, TypeCorrect, PTL DEF Spec

=============================================================================
