----------------------------- MODULE ConsumerGroup -----------------------------
(***************************************************************************)
(* Event streams between the server and the workflow workers: one Redis     *)
(* stream with its consumer group, and the RedisStreamClient of each worker *)
(* process with its consumer loop (read, handle, acknowledge, retry, dead   *)
(* letter, claim).                                                          *)
(*                                                                         *)
(* One action is one Redis command, or a handler's end.  The handlers of a  *)
(* batch run concurrently.  What Redis does with a command is external and  *)
(* modelled as the client uses it; in particular XREADGROUP and XAUTOCLAIM  *)
(* count a delivery, XAUTOCLAIM forgets pending entries that the stream has *)
(* dropped, and reading such an entry with XREADGROUP makes the client fail. *)
(*                                                                         *)
(* An operator marked "Variant" is wrong on purpose: a run with it in the   *)
(* place of the definition that follows must find a property violated.      *)
(***************************************************************************)
EXTENDS Integers, FiniteSets

CONSTANTS
  Consumers,         \* worker processes
  Nobody,            \* the owner of what a process that is gone was given
  NotPending,        \* the owner of an entry that is not pending
  MaxId,             \* entries are numbered 1..MaxId, in order of their ids
  BatchSize,
  MaxRetries,
  MaxStreamLength,
  MaxDeliveries,     \* bounds the deliveries of an entry a client fails to read
  Limit              \* how often each of the Rare events may happen

Rare == {"crash", "fail", "error", "reprocess"}
Ids  == 1 .. MaxId

ASSUME GroupAssumption ==
  /\ Nobody \notin Consumers /\ NotPending \notin Consumers /\ Nobody # NotPending
  /\ IsFiniteSet(Consumers)
  /\ MaxId \in Nat /\ BatchSize \in Nat \ {0} /\ MaxRetries \in Nat \ {0}
  /\ MaxStreamLength \in Nat \ {0} /\ MaxDeliveries \in Nat
  /\ Limit \in [Rare -> Nat]

VARIABLES
  last,        \* the last id given
  stream,      \* the entries the stream holds
  delivered,   \* the group's last delivered id
  owner,       \* the group's pending entries and the consumer each is given to
  idle,        \* those that were last delivered longer than claimTimeout ago
  deliveries,  \* how often each entry has been delivered
  phase,       \* where each consumer loop is
  work,        \* what each consumer is doing with the entries of its batch
  handled,     \* history: how often a handler has returned for an entry
  dlq,         \* how many dead letters each entry has
  copyOf,      \* history: the entry a dead letter published again came from
  spent        \* how often each Rare event has happened

redis == <<stream, delivered, owner, idle, deliveries>>
vars  == <<last, redis, phase, work, handled, dlq, copyOf, spent>>

-----------------------------------------------------------------------------
(* Types *)

Owner  == Consumers \cup {Nobody, NotPending}
Phases == {"look", "own", "new", "work", "claim", "rework"}

\* handling: the handler runs; handled: to be acknowledged; failed: its
\* deliveries are to be looked up; burying: to be added to the dead letter
\* queue; buried: to be acknowledged.
Status == {"none", "handling", "handled", "failed", "burying", "buried"}

TypeOK ==
  /\ last \in 0 .. MaxId /\ delivered \in 0 .. last
  /\ stream \subseteq 1 .. last
  /\ owner \in [Ids -> Owner]
  /\ \A i \in Ids : i > delivered => owner[i] = NotPending
  /\ idle \subseteq {i \in Ids : owner[i] # NotPending}
  /\ deliveries \in [Ids -> Nat]
  /\ phase \in [Consumers -> Phases]
  /\ work \in [Consumers -> [Ids -> Status]]
  /\ handled \in [Ids -> Nat] /\ dlq \in [Ids -> Nat]
  /\ copyOf \in [Ids -> Ids]
  /\ spent \in [Rare -> Nat]

-----------------------------------------------------------------------------
(* Helpers *)

First(n, S) == {i \in S : Cardinality({j \in S : j < i}) < n}
Undelivered == {i \in stream : i > delivered}
Pending     == {i \in Ids : owner[i] # NotPending}
Claimable   == idle \cup (Pending \ stream)
OwnedBy(c)  == {i \in Ids : owner[i] = c}
Poisoned(i) == copyOf[i] # i

Idleness(c) == [i \in Ids |-> "none"]
Begun(S)    == [i \in Ids |-> IF i \in S THEN "handling" ELSE "none"]

\* What Redis does when it gives the entries S to c, and when c claims S: what
\* the stream no longer holds is pending no more.
Count(S) ==
  deliveries' = [i \in Ids |-> IF i \in S THEN deliveries[i] + 1 ELSE deliveries[i]]

Take(c, S) ==
  /\ owner' = [i \in Ids |-> IF i \notin S THEN owner[i]
                             ELSE IF i \in stream THEN c ELSE NotPending]
  /\ idle' = idle \ S

Deliver(c, S) == Take(c, S) /\ Count(S)

Go(c, p)     == phase' = [phase EXCEPT ![c] = p]
Set(c, i, s) == work' = [work EXCEPT ![c][i] = s]

Once(kind) ==
  /\ spent[kind] < Limit[kind]
  /\ spent' = [spent EXCEPT ![kind] = @ + 1]

-----------------------------------------------------------------------------
Init ==
  /\ last = 0 /\ stream = {} /\ delivered = 0
  /\ owner = [i \in Ids |-> NotPending]
  /\ idle = {}
  /\ deliveries = [i \in Ids |-> 0]
  /\ phase = [c \in Consumers |-> "look"]
  /\ work = [c \in Consumers |-> [i \in Ids |-> "none"]]
  /\ handled = [i \in Ids |-> 0]
  /\ dlq = [i \in Ids |-> 0]
  /\ copyOf = [i \in Ids |-> i]
  /\ spent = [kind \in Rare |-> 0]

\* XADD ... MAXLEN ~: what is beyond the limit may go, oldest first.
Publish ==
  /\ last < MaxId /\ last' = last + 1
  /\ \E from \in 1 .. last + 1 :
       /\ stream' = {i \in stream \cup {last + 1} : i >= from}
       /\ from = 1 \/ Cardinality(stream') >= MaxStreamLength
  /\ UNCHANGED <<delivered, owner, idle, deliveries, phase, work, handled, dlq,
                 copyOf, spent>>

\* An entry's claimTimeout passes.
BecomeIdle(i) ==
  /\ i \in Pending \ idle
  /\ idle' = idle \cup {i}
  /\ UNCHANGED <<last, stream, delivered, owner, deliveries, phase, work, handled,
                 dlq, copyOf, spent>>

-----------------------------------------------------------------------------
(* Reading *)

\* Variant: only the consumer's own pending entries are looked at.
LookAtOwn(c) ==
  /\ phase[c] = "look"
  /\ Go(c, IF OwnedBy(c) = {} THEN "new" ELSE "own")
  /\ UNCHANGED <<last, redis, work, handled, dlq, copyOf, spent>>

\* XPENDING is of the whole group.
Look(c) ==
  /\ phase[c] = "look"
  /\ Go(c, IF Pending = {} THEN "new" ELSE "own")
  /\ UNCHANGED <<last, redis, work, handled, dlq, copyOf, spent>>

New == First(BatchSize, Undelivered)

TakeNew(c) ==
  /\ Deliver(c, New)
  /\ \/ New = {} /\ UNCHANGED delivered
     \/ delivered' \in New /\ \A i \in New : i <= delivered'

ReadNew(c) ==
  /\ phase[c] = "new" /\ Go(c, "work")
  /\ TakeNew(c)
  /\ work' = [work EXCEPT ![c] = Begun(New)]
  /\ UNCHANGED <<last, stream, handled, dlq, copyOf, spent>>

ReadOwn(c) ==
  LET S == First(BatchSize, OwnedBy(c)) IN
  /\ phase[c] = "own" /\ S \subseteq stream /\ Go(c, "work")
  /\ Deliver(c, S)
  /\ work' = [work EXCEPT ![c] = Begun(S)]
  /\ UNCHANGED <<last, stream, delivered, handled, dlq, copyOf, spent>>

\* The entries that are left have been delivered, but the call has failed: the
\* loop goes on without claiming.
ReadOwnFails(c) ==
  LET S == First(BatchSize, OwnedBy(c)) IN
  /\ phase[c] = "own" /\ ~(S \subseteq stream) /\ Go(c, "look")
  /\ \A i \in S : deliveries[i] < MaxDeliveries
  /\ Deliver(c, S \cap stream)
  /\ UNCHANGED <<last, stream, delivered, work, handled, dlq, copyOf, spent>>

\* A command of the loop fails: Redis has carried it out, or has not.
LoopError(c) ==
  /\ phase[c] \in {"look", "own", "new", "claim"} /\ Once("error") /\ Go(c, "look")
  /\ \/ UNCHANGED redis
     \/ /\ phase[c] = "new" /\ TakeNew(c) /\ UNCHANGED stream
     \/ /\ phase[c] = "own"
        /\ Deliver(c, First(BatchSize, OwnedBy(c)) \cap stream)
        /\ UNCHANGED <<stream, delivered>>
     \/ /\ phase[c] = "claim"
        /\ LET S == First(BatchSize, Claimable) IN Take(c, S) /\ Count(S \cap stream)
        /\ UNCHANGED <<stream, delivered>>
  /\ UNCHANGED <<last, work, handled, dlq, copyOf>>

-----------------------------------------------------------------------------
(* Handling the entries of a batch *)

Succeed(c, i) ==
  /\ work[c][i] = "handling" /\ ~Poisoned(i)
  /\ Set(c, i, "handled")
  /\ handled' = [handled EXCEPT ![i] = @ + 1]
  /\ UNCHANGED <<last, redis, phase, dlq, copyOf, spent>>

\* What a dead letter is published with again is not an event: it cannot be
\* parsed, whatever the handler.
Fail(c, i) ==
  /\ work[c][i] = "handling"
  /\ \/ Poisoned(i) /\ UNCHANGED spent
     \/ ~Poisoned(i) /\ Once("fail")
  /\ Set(c, i, "failed")
  /\ UNCHANGED <<last, redis, phase, handled, dlq, copyOf>>

\* XACK removes the entry whoever it has been given to meanwhile.
Acked(i) ==
  /\ owner' = [owner EXCEPT ![i] = NotPending]
  /\ idle' = idle \ {i}

Ack(c, i) ==
  /\ work[c][i] \in {"handled", "buried"}
  /\ Acked(i) /\ Set(c, i, "none")
  /\ UNCHANGED <<last, stream, delivered, deliveries, phase, handled, dlq, copyOf,
                 spent>>

\* After a handler has returned a failed XACK counts as a failure of its own.
AckError(c, i) ==
  /\ work[c][i] \in {"handled", "buried"} /\ Once("error")
  /\ Set(c, i, IF work[c][i] = "handled" THEN "failed" ELSE "none")
  /\ Acked(i) \/ UNCHANGED <<owner, idle>>
  /\ UNCHANGED <<last, stream, delivered, deliveries, phase, handled, dlq, copyOf>>

\* Variant: the entry is acknowledged before it is in the dead letter queue.
InspectAndAck(c, i) ==
  /\ work[c][i] = "failed"
  /\ IF i \in Pending /\ deliveries[i] >= MaxRetries
     THEN Set(c, i, "burying") /\ Acked(i)
     ELSE Set(c, i, "none") /\ UNCHANGED <<owner, idle>>
  /\ UNCHANGED <<last, stream, delivered, deliveries, phase, handled, dlq, copyOf,
                 spent>>

\* XPENDING of the one entry, which may have been acknowledged meanwhile.
Inspect(c, i) ==
  /\ work[c][i] = "failed"
  /\ Set(c, i, IF i \in Pending /\ deliveries[i] >= MaxRetries
               THEN "burying" ELSE "none")
  /\ UNCHANGED <<last, redis, phase, handled, dlq, copyOf, spent>>

Bury(c, i) ==
  /\ work[c][i] = "burying" /\ Set(c, i, "buried")
  /\ dlq' = [dlq EXCEPT ![i] = @ + 1]
  /\ UNCHANGED <<last, redis, phase, handled, copyOf, spent>>

\* Looking it up or adding it to the dead letter queue fails: it stays pending.
GiveUp(c, i) ==
  /\ work[c][i] \in {"failed", "burying"} /\ Once("error")
  /\ Set(c, i, "none")
  /\ UNCHANGED <<last, redis, phase, handled, dlq, copyOf>>

EndBatch(c) ==
  /\ \A i \in Ids : work[c][i] = "none"
  /\ \/ phase[c] = "work" /\ Go(c, "claim")
     \/ phase[c] = "rework" /\ Go(c, "look")
  /\ UNCHANGED <<last, redis, work, handled, dlq, copyOf, spent>>

-----------------------------------------------------------------------------
(* Claiming, dead letters, crashes *)

\* Variant: only what the consumer was given itself is claimed.
ClaimOwn(c) ==
  LET S == First(BatchSize, idle \cap OwnedBy(c) \cap stream) IN
  /\ phase[c] = "claim" /\ Go(c, "rework")
  /\ Deliver(c, S)
  /\ work' = [work EXCEPT ![c] = Begun(S)]
  /\ UNCHANGED <<last, stream, delivered, handled, dlq, copyOf, spent>>

\* Variant: claiming does not count as a delivery.
ClaimUncounted(c) ==
  LET S == First(BatchSize, Claimable) IN
  /\ phase[c] = "claim" /\ Go(c, "rework")
  /\ Take(c, S) /\ UNCHANGED deliveries
  /\ work' = [work EXCEPT ![c] = Begun(S \cap stream)]
  /\ UNCHANGED <<last, stream, delivered, handled, dlq, copyOf, spent>>

Claim(c) ==
  LET S == First(BatchSize, Claimable) IN
  /\ phase[c] = "claim" /\ Go(c, "rework")
  /\ Take(c, S) /\ Count(S \cap stream)
  /\ work' = [work EXCEPT ![c] = Begun(S \cap stream)]
  /\ UNCHANGED <<last, stream, delivered, handled, dlq, copyOf, spent>>

\* The process ends; the one that replaces it has another consumer id.
Crash(c) ==
  /\ Once("crash")
  /\ phase' = [phase EXCEPT ![c] = "look"]
  /\ work' = [work EXCEPT ![c] = Begun({})]
  /\ owner' = [i \in Ids |-> IF owner[i] = c THEN Nobody ELSE owner[i]]
  /\ UNCHANGED <<last, stream, delivered, idle, deliveries, handled, dlq, copyOf>>

\* Variant: XDEL of the dead letter, then XADD, which may fail.
ReprocessDeletingFirst(i) ==
  /\ dlq[i] > 0 /\ last < MaxId /\ Once("reprocess")
  /\ dlq' = [dlq EXCEPT ![i] = @ - 1]
  /\ \/ UNCHANGED <<last, stream, copyOf>>
     \/ /\ last' = last + 1 /\ stream' = stream \cup {last'}
        /\ copyOf' = [copyOf EXCEPT ![last'] = i]
  /\ UNCHANGED <<delivered, owner, idle, deliveries, phase, work, handled>>

\* Variant: a dead letter that is gone already is not noticed.
ReprocessAgain(i) ==
  /\ last < MaxId /\ Once("reprocess")
  /\ last' = last + 1 /\ stream' = stream \cup {last'}
  /\ copyOf' = [copyOf EXCEPT ![last'] = i]
  /\ dlq' = [dlq EXCEPT ![i] = @ - 1]
  /\ UNCHANGED <<delivered, owner, idle, deliveries, phase, work, handled>>

\* XRANGE of the dead letter, XADD of the copy and XDEL of the dead letter, as
\* one step: no other command reads the dead letters.  The XDEL may fail; a
\* second run that has found the letter before the first deletes it adds a
\* further copy, and is taken as such a failure followed by the other run.
Reprocess(i) ==
  /\ dlq[i] > 0 /\ last < MaxId
  /\ last' = last + 1
  /\ stream' = stream \cup {last'}
  /\ copyOf' = [copyOf EXCEPT ![last'] = i]
  /\ \/ Once("reprocess") /\ dlq' = [dlq EXCEPT ![i] = @ - 1]
     \/ /\ spent["reprocess"] < Limit["reprocess"] /\ spent["error"] < Limit["error"]
        /\ spent' = [spent EXCEPT !["reprocess"] = @ + 1, !["error"] = @ + 1]
        /\ UNCHANGED dlq
  /\ UNCHANGED <<delivered, owner, idle, deliveries, phase, work, handled>>

-----------------------------------------------------------------------------
(* The specification *)

Loop(c) == Look(c) \/ ReadNew(c) \/ ReadOwn(c) \/ ReadOwnFails(c) \/ EndBatch(c) \/ Claim(c)

Work(c, i) == Succeed(c, i) \/ Fail(c, i) \/ Ack(c, i) \/ Inspect(c, i) \/ Bury(c, i)

Faults(c) ==
  \/ LoopError(c) \/ Crash(c)
  \/ \E i \in Ids : AckError(c, i) \/ GiveUp(c, i)

Next ==
  \/ Publish
  \/ \E i \in Ids : BecomeIdle(i) \/ Reprocess(i)
  \/ \E c \in Consumers : \/ Loop(c) \/ Faults(c)
                          \/ \E i \in Ids : Work(c, i)

Spec == Init /\ [][Next]_vars

\* A process that runs goes round its loop, its handlers end, and time passes.
FairSpec ==
  /\ Spec
  /\ \A c \in Consumers : WF_vars(Loop(c))
  /\ \A c \in Consumers, i \in Ids : WF_vars(Work(c, i))
  /\ \A i \in Ids : WF_vars(BecomeIdle(i))

-----------------------------------------------------------------------------
(* Properties *)

Republished(i) == \E j \in 1 .. last : j # i /\ copyOf[j] = i
Settled(i)     == handled[i] > 0 \/ dlq[i] > 0 \/ Republished(i)

\* Whatever process dies and whatever command fails, an event that the stream
\* has not dropped is still to be delivered, pending, handled, in the dead
\* letter queue, or published again from there.
NothingLost ==
  \A i \in 1 .. last :
    i > delivered \/ i \in Pending \/ i \notin stream \/ Settled(i)

\* Every run of a handler is a delivery that Redis has counted, so the retries
\* that the dead letter rule counts are never fewer than the runs.
RunsAreCounted ==
  \A i \in Ids :
    handled[i] + Cardinality({c \in Consumers : work[c][i] = "handling"})
      <= deliveries[i]

\* A consumer takes new entries only after it has seen the group with none
\* pending, so there is never more than a batch per consumer pending, crashes
\* and lost replies included.
PendingBounded ==
  Cardinality(Pending) + BatchSize * Cardinality({c \in Consumers : phase[c] = "new"})
    <= BatchSize * Cardinality(Consumers)

\* Every event is handled or becomes a dead letter in the end, unless the
\* stream drops it.  (Checked where it drops none.)
EventuallySettled == \A i \in Ids : (i <= last) ~> (Settled(i) \/ i \notin stream)

\* The consumer group is the queue the engine needs.
Open    == Undelivered \cup Pending
Handled == {i \in Ids : handled[i] > 0}
Buried  == {i \in Ids : dlq[i] > 0}
Copied  == {i \in Ids : Republished(i)}
Dropped == {i \in 1 .. last : i \notin stream \cup Pending /\ ~Settled(i)}

Queue == INSTANCE WorkQueue WITH
  open <- Open, handled <- Handled, buried <- Buried, copied <- Copied,
  dropped <- Dropped

\* The steps of the group are steps of the queue.
IsQueue == Queue!Spec

=============================================================================
