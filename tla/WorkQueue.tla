------------------------------- MODULE WorkQueue -------------------------------
(***************************************************************************)
(* What the workflow engine needs of an event stream, whoever reads it:     *)
(* an event that was published stays open until a handler has run for it,   *)
(* it is in the dead letter queue, or a copy of it has taken its place; or  *)
(* the stream, whose length is limited, has dropped it.                     *)
(***************************************************************************)
EXTENDS Integers

CONSTANT Ids        \* ids of stream entries

VARIABLES
  open,      \* published, and not yet settled
  handled,   \* a handler has returned normally for it
  buried,    \* it is in the dead letter queue
  copied,    \* a copy of it was published out of the dead letter queue
  dropped    \* the stream has dropped it before it was settled

vars == <<open, handled, buried, copied, dropped>>

Known   == open \cup handled \cup buried \cup copied \cup dropped
Settled == handled \cup buried \cup copied

Init == /\ open = {} /\ handled = {} /\ buried = {} /\ copied = {} /\ dropped = {}

\* What leaves the queue unsettled is dropped.
Close(S) == dropped' = dropped \cup (S \ Settled)

\* Publishing an event may drop others.
Submit(i, S) ==
  /\ i \in Ids \ Known /\ S \subseteq open
  /\ open' = (open \ S) \cup {i} /\ Close(S)
  /\ UNCHANGED <<handled, buried, copied>>

\* A handler that started before the event was settled or dropped may end after.
Handle(i) ==
  /\ i \in Known
  /\ handled' = handled \cup {i} /\ dropped' = dropped \ {i}
  /\ UNCHANGED <<open, buried, copied>>

Bury(i) ==
  /\ i \in Known
  /\ buried' = buried \cup {i} /\ dropped' = dropped \ {i}
  /\ UNCHANGED <<open, handled, copied>>

Settle(i) ==
  /\ i \in open \cap Settled /\ open' = open \ {i}
  /\ UNCHANGED <<handled, buried, copied, dropped>>

Drop(S) ==
  /\ S \subseteq open /\ open' = open \ S /\ Close(S)
  /\ UNCHANGED <<handled, buried, copied>>

\* An event in the dead letter queue is published again.
Resubmit(i, j) ==
  /\ i \in buried /\ j \in Ids \ Known
  /\ open' = open \cup {j} /\ copied' = copied \cup {i}
  /\ buried' \in {buried, buried \ {i}}
  /\ UNCHANGED <<handled, dropped>>

Next ==
  \/ \E i \in Ids, S \in SUBSET open : Submit(i, S)
  \/ \E i \in Ids : Handle(i) \/ Bury(i) \/ Settle(i)
  \/ \E S \in SUBSET open : Drop(S)
  \/ \E i, j \in Ids : Resubmit(i, j)

Spec == Init /\ [][Next]_vars

=============================================================================
