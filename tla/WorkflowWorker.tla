---------------------------- MODULE WorkflowWorker ----------------------------
(***************************************************************************)
(* The workflow worker over the queue of events: for an event it is given,  *)
(* it looks up the workflows attached to it, starts each, submits the event *)
(* to the execution, and returns normally whatever fails, so that the event *)
(* is acknowledged.  WorkQueue stands for the stream client, which          *)
(* implements it: an event may be given to several workers, and again.      *)
(*                                                                         *)
(* An execution is <<event, workflow, run>>: run counts how often the event *)
(* has been given to a worker.  Nothing is buried: the handler never throws.*)
(*                                                                         *)
(* An operator marked "Variant" is wrong on purpose: a run with it in the   *)
(* place of the definition that follows must find a property violated.      *)
(***************************************************************************)
EXTENDS Integers

CONSTANTS
  Workers,     \* worker processes
  Events,      \* ids of stream entries
  Workflows,   \* registered workflows
  Attached,    \* the workflows attached to the type of an event
  FirstStop,   \* where a workflow function first gives up control
  None,        \* no workflow
  MaxRuns,     \* bounds how often an event is given to a worker
  Limit        \* how often each of the Rare steps may happen

Rare == {"crash", "error", "drop"}

ASSUME WorkerAssumption ==
  /\ Attached \in [Events -> SUBSET Workflows]
  /\ FirstStop \in [Workflows -> {"busy", "waiting", "done"}]
  /\ None \notin Workflows
  /\ MaxRuns \in Nat /\ Limit \in [Rare -> Nat]

VARIABLES
  open, handled, dropped,   \* the queue
  runs,     \* how often an event has been given to a worker
  run,      \* what a worker is doing with an event
  exec,     \* executions: what the database and a worker's memory hold of them
  failed,   \* history: <<event, workflow>> for which a command has failed
  spent     \* how often each Rare step has happened

queue == <<open, handled, dropped>>
vars  == <<open, handled, dropped, runs, run, exec, failed, spent>>

Queue == INSTANCE WorkQueue WITH Ids <- Events, buried <- {}, copied <- {}

-----------------------------------------------------------------------------
(* Types *)

\* What the next command of a run is.
Steps == {"find", "next", "create", "start", "load", "persist", "record"}
Run   == [step : Steps, n : 1 .. MaxRuns, todo : SUBSET Workflows,
          flow : Workflows \cup {None}]
Idle  == [step |-> "idle"]

\* started: workflow.started is in the log; submitted: the event is; recorded:
\* the row shows the event.  fn is where the workflow function is; object is the
\* state object in executionStates, which the listeners are looked up in.
Execution ==
  [started : BOOLEAN, submitted : BOOLEAN, recorded : BOOLEAN,
   fn : {"none", "busy", "waiting", "done", "gone"},
   object : {"none", "context", "replayed", "gone"}, worker : Workers]

Ids == Events \X Workflows \X (1 .. MaxRuns)

TypeOK ==
  /\ open \subseteq Events /\ handled \subseteq Events /\ dropped \subseteq Events
  /\ runs \in [Events -> 0 .. MaxRuns]
  /\ run \in [Workers -> [Events -> Run \cup {Idle}]]
  /\ \A w \in Workers, i \in Events :
       run[w][i] # Idle => run[w][i].n <= runs[i] /\ run[w][i].todo \subseteq Attached[i]
  /\ DOMAIN exec \subseteq Ids /\ exec \in [DOMAIN exec -> Execution]
  /\ failed \subseteq Events \X Workflows
  /\ spent \in [Rare -> Nat]

-----------------------------------------------------------------------------
(* Helpers *)

At(w, i, s)   == run[w][i].step = s
To(w, i, s, T, f) ==
  run' = [run EXCEPT ![w][i] =
            [step |-> s, n |-> run[w][i].n, todo |-> T, flow |-> f]]
Go(w, i, s)   == To(w, i, s, run[w][i].todo, run[w][i].flow)
Skip(w, i)    == To(w, i, "next", run[w][i].todo, None)
ExecOf(w, i)   == <<i, run[w][i].flow, run[w][i].n>>
Put(e, x)     == exec' = [d \in DOMAIN exec \cup {e} |-> IF d = e THEN x ELSE exec[d]]
Once(kind)    == /\ spent[kind] < Limit[kind]
                 /\ spent' = [spent EXCEPT ![kind] = @ + 1]

Init ==
  /\ Queue!Init
  /\ runs = [i \in Events |-> 0]
  /\ run = [w \in Workers |-> [i \in Events |-> Idle]]
  /\ exec = <<>>
  /\ failed = {}
  /\ spent = [kind \in Rare |-> 0]

-----------------------------------------------------------------------------
(* The queue *)

Publish(i) == Queue!Submit(i, {}) /\ UNCHANGED <<runs, run, exec, failed, spent>>

Settle(i) == Queue!Settle(i) /\ UNCHANGED <<runs, run, exec, failed, spent>>

Drop(i) == Queue!Drop({i}) /\ Once("drop") /\ UNCHANGED <<runs, run, exec, failed>>

\* Variant: an event is given once.
BeginNew(w, i) ==
  /\ i \in open /\ runs[i] = 0
  /\ runs' = [runs EXCEPT ![i] = 1]
  /\ run' = [run EXCEPT ![w][i] = [step |-> "find", n |-> 1, todo |-> {}, flow |-> None]]
  /\ UNCHANGED <<queue, exec, failed, spent>>

Begin(w, i) ==
  /\ i \in open /\ run[w][i] = Idle /\ runs[i] < MaxRuns
  /\ runs' = [runs EXCEPT ![i] = @ + 1]
  /\ run' = [run EXCEPT ![w][i] =
               [step |-> "find", n |-> runs'[i], todo |-> {}, flow |-> None]]
  /\ UNCHANGED <<queue, exec, failed, spent>>

-----------------------------------------------------------------------------
(* processGlobalEvent *)

\* Variant: every registered workflow counts as attached.
FindEveryWorkflow(w, i) ==
  /\ At(w, i, "find")
  /\ To(w, i, "next", Workflows, None)
  /\ UNCHANGED <<queue, runs, exec, failed, spent>>

FindAttachedWorkflows(w, i) ==
  /\ At(w, i, "find")
  /\ To(w, i, "next", Attached[i], None)
  /\ UNCHANGED <<queue, runs, exec, failed, spent>>

\* An error counts as no workflow.
FindError(w, i) ==
  /\ At(w, i, "find") /\ Once("error")
  /\ To(w, i, "next", {}, None) /\ failed' = failed \cup ({i} \X Attached[i])
  /\ UNCHANGED <<queue, runs, exec>>

Next1(w, i, f) ==
  /\ At(w, i, "next") /\ f \in run[w][i].todo
  /\ To(w, i, "create", run[w][i].todo \ {f}, f)
  /\ UNCHANGED <<queue, runs, exec, failed, spent>>

\* Variant: an event ends with its first workflow.
ReturnAfterOne(w, i) ==
  /\ At(w, i, "next") /\ run[w][i].todo # Attached[i]
  /\ run' = [run EXCEPT ![w][i] = Idle]
  /\ Queue!Handle(i)
  /\ UNCHANGED <<runs, exec, failed, spent>>

Return(w, i) ==
  /\ At(w, i, "next") /\ run[w][i].todo = {}
  /\ run' = [run EXCEPT ![w][i] = Idle]
  /\ Queue!Handle(i)
  /\ UNCHANGED <<runs, exec, failed, spent>>

-----------------------------------------------------------------------------
(* startWorkflowFromEvent: startWorkflowByVersionId, then submitEvent *)

Create(w, i) ==
  /\ At(w, i, "create") /\ Go(w, i, "start")
  /\ Put(ExecOf(w, i), [started |-> FALSE, submitted |-> FALSE, recorded |-> FALSE,
                        fn |-> "none", object |-> "context", worker |-> w])
  /\ UNCHANGED <<queue, runs, failed, spent>>

\* The function runs at once to where it first waits for an event, acts or ends.
Start(w, i) ==
  /\ At(w, i, "start") /\ Go(w, i, "load")
  /\ exec' = [exec EXCEPT ![ExecOf(w, i)].started = TRUE,
                          ![ExecOf(w, i)].fn = FirstStop[run[w][i].flow]]
  /\ UNCHANGED <<queue, runs, failed, spent>>

Function(e) ==
  /\ exec[e].fn = "busy"
  /\ \E f \in {"waiting", "done"} : exec' = [exec EXCEPT ![e].fn = f]
  /\ UNCHANGED <<queue, runs, run, failed, spent>>

\* loadExecutionState: the cache knows only what it has loaded before, so the
\* state is replayed, into a new object.
LoadExecutionState(e) == "replayed"

\* notifyEventListeners: the listeners are those of the object.
Notified(e, o) ==
  IF o = "context" /\ exec[e].fn = "waiting" THEN "busy" ELSE exec[e].fn

Load(w, i) ==
  /\ At(w, i, "load") /\ Go(w, i, "persist")
  /\ LET e == ExecOf(w, i) IN
     LET o == LoadExecutionState(e) IN
       exec' = [exec EXCEPT ![e].object = o, ![e].fn = Notified(e, o)]
  /\ UNCHANGED <<queue, runs, failed, spent>>

\* Variant: the insertion of the event is not waited for, and its error is lost.
PersistUnawaited(w, i) ==
  /\ At(w, i, "persist") /\ Go(w, i, "record")
  /\ UNCHANGED exec
  /\ UNCHANGED <<queue, runs, failed, spent>>

Persist(w, i) ==
  /\ At(w, i, "persist") /\ Go(w, i, "record")
  /\ exec' = [exec EXCEPT ![ExecOf(w, i)].submitted = TRUE]
  /\ UNCHANGED <<queue, runs, failed, spent>>

Record(w, i) ==
  /\ At(w, i, "record")
  /\ Skip(w, i)
  /\ exec' = [exec EXCEPT ![ExecOf(w, i)].recorded = TRUE]
  /\ UNCHANGED <<queue, runs, failed, spent>>

\* A command fails: the workflow is given up, the next one is started.
StepError(w, i) ==
  /\ \E s \in Steps \ {"find", "next"} : At(w, i, s)
  /\ Once("error")
  /\ failed' = failed \cup {<<i, run[w][i].flow>>}
  /\ Skip(w, i)
  /\ UNCHANGED <<queue, runs, exec>>

Crash(w) ==
  /\ Once("crash")
  /\ run' = [run EXCEPT ![w] = [i \in Events |-> Idle]]
  /\ exec' = [e \in DOMAIN exec |->
                IF exec[e].worker # w THEN exec[e]
                ELSE [exec[e] EXCEPT !.object = "gone",
                        !.fn = IF @ = "done" THEN @ ELSE "gone"]]
  /\ UNCHANGED <<queue, runs, failed>>

-----------------------------------------------------------------------------
Handler(w, i) ==
  \/ FindAttachedWorkflows(w, i) \/ \E f \in Workflows : Next1(w, i, f)
  \/ Create(w, i) \/ Start(w, i) \/ Load(w, i) \/ Persist(w, i) \/ Record(w, i)
  \/ Return(w, i)

Next ==
  \/ \E i \in Events : Publish(i) \/ Settle(i) \/ Drop(i)
  \/ \E w \in Workers, i \in Events :
       Begin(w, i) \/ Handler(w, i) \/ FindError(w, i) \/ StepError(w, i)
  \/ \E e \in DOMAIN exec : Function(e)
  \/ \E w \in Workers : Crash(w)

Spec == Init /\ [][Next]_vars

\* A handler goes on, an event that is open is given to a worker again (which
\* the stream client does), and a function that does not wait goes on.
FairSpec ==
  /\ Spec
  /\ \A w \in Workers, i \in Events : WF_vars(Handler(w, i))
  /\ \A i \in Events : WF_vars(\E w \in Workers : Begin(w, i))
  /\ \A e \in Ids : WF_vars(e \in DOMAIN exec /\ Function(e))

-----------------------------------------------------------------------------
(* Properties *)

\* Some execution of f for i has got its event.
Submitted(i, f) ==
  \E n \in 1 .. MaxRuns : <<i, f, n>> \in DOMAIN exec /\ exec[<<i, f, n>>].submitted

\* When an event counts as handled, each workflow attached to it has an
\* execution that has got the event, but for those for which a command of the
\* database has failed: no crash and no second delivery loses a start.
NoStartLost ==
  \A i \in handled : \A f \in Attached[i] : Submitted(i, f) \/ <<i, f>> \in failed

\* An execution that has not got its event, or whose row does not show it, is
\* one that a worker is just starting, one for which a command has failed, or
\* one whose worker has ended in between.
HalfStarted ==
  \A e \in DOMAIN exec :
    ~ (exec[e].started /\ exec[e].submitted /\ exec[e].recorded) =>
      \/ run[exec[e].worker][e[1]] # Idle /\ ExecOf(exec[e].worker, e[1]) = e
      \/ <<e[1], e[2]>> \in failed
      \/ exec[e].object = "gone"

\* Every workflow attached to an event is started in the end, or its start has
\* failed, or the stream has dropped the event.
EventuallyStarted ==
  \A i \in Events : i \in open ~>
    (i \in dropped \/ \A f \in Attached[i] : Submitted(i, f) \/ <<i, f>> \in failed)

-----------------------------------------------------------------------------
\* "should handle multiple event types": a function that waits goes on when the
\* event is submitted to its execution, if its worker does not end.  It never
\* does: the event is announced on another object than the one it waits on.
Waits(e) == e \in DOMAIN exec /\ exec[e].fn = "waiting" /\ exec[e].object # "gone"

WaitIsAnswered ==
  \A e \in Ids : (Waits(e) /\ exec[e].recorded) ~> ~ Waits(e)

=============================================================================
