------------------------ MODULE WorkflowWorker_proofs -------------------------
(***************************************************************************)
(* Theorems about WorkflowWorker, for any workers, events and workflows.    *)
(*                                                                         *)
(* NoStartLost looks at an event when its handler has returned.  Inductive  *)
(* is what a handler knows on its way: RunOK says of each attached workflow *)
(* where it is, and of each step what it has left in the database.          *)
(***************************************************************************)
EXTENDS WorkflowWorker, TLAPS

\* The steps of a run that has an execution, and those where it is started.
Made    == {"start", "load", "persist", "record"}
Running == {"load", "persist", "record"}

\* The run of an event by a worker makes executions of its own, one for each
\* workflow, and knows how far each has got.
RunOK(w, i) ==
  LET r == run[w][i] IN
  r # Idle =>
    /\ r.step \in {"find", "next"} <=> r.flow = None
    /\ r.flow \notin r.todo
    /\ \A f \in Workflows :
         r.step = "find" \/ f \in r.todo \/ (r.step = "create" /\ r.flow = f)
           => <<i, f, r.n>> \notin DOMAIN exec
    /\ r.step \in Made => ExecOf(w, i) \in DOMAIN exec /\ exec[ExecOf(w, i)].worker = w
    /\ r.step \in Running => exec[ExecOf(w, i)].started
    /\ r.step = "record" => exec[ExecOf(w, i)].submitted
    /\ r.step # "find" =>
         \A f \in Attached[i] :
           f \in r.todo \/ f = r.flow \/ <<i, f>> \in failed \/ Submitted(i, f)

OwnRuns ==
  /\ \A v, w \in Workers, i \in Events :
       run[v][i] # Idle /\ run[w][i] # Idle /\ run[v][i].n = run[w][i].n => v = w
  /\ \A e \in DOMAIN exec : e[3] <= runs[e[1]]

RunsOK == \A w \in Workers, i \in Events : RunOK(w, i)

Inv == TypeOK /\ OwnRuns /\ RunsOK /\ NoStartLost /\ HalfStarted

-----------------------------------------------------------------------------
(* Helpers *)

LEMMA IdleType == Idle \notin Run /\ \A r \in Run : r # Idle /\ r.step \in Steps
<1>1. Idle.step = "idle" /\ "idle" \notin Steps
  BY DEF Idle, Steps
<1>2. \A r \in Run : r.step \in Steps
  BY DEF Run
<1> QED BY <1>1, <1>2

LEMMA RunType ==
  ASSUME TypeOK, NEW w \in Workers, NEW i \in Events
  PROVE  /\ run[w][i] \in Run \cup {Idle}
         /\ run[w][i] # Idle => run[w][i] \in Run /\ run[w][i].n <= runs[i]
                                /\ run[w][i].todo \subseteq Attached[i]
         /\ runs[i] \in 0 .. MaxRuns
  BY DEF TypeOK

\* A run that is at a step of the handler is a run.
LEMMA AtRun ==
  ASSUME TypeOK, NEW w \in Workers, NEW i \in Events, NEW s \in Steps, At(w, i, s)
  PROVE  run[w][i] \in Run /\ run[w][i] # Idle
<1>1. run[w][i] # Idle
  BY DEF At, Idle, Steps
<1> QED BY <1>1, RunType

\* One run goes to r, the others stay.
Moves(w, i, r) ==
  /\ r \in Run \cup {Idle}
  /\ run' \in [Workers -> [Events -> Run \cup {Idle}]]
  /\ run'[w][i] = r
  /\ \A v \in Workers, j \in Events : v # w \/ j # i => run'[v][j] = run[v][j]

Goes(w, i, s, T, f) == Moves(w, i, [step |-> s, n |-> run[w][i].n, todo |-> T, flow |-> f])

LEMMA ToMoves ==
  ASSUME TypeOK, NEW w \in Workers, NEW i \in Events, run[w][i] \in Run,
         NEW s \in Steps, NEW T \in SUBSET Workflows, NEW f \in Workflows \cup {None},
         To(w, i, s, T, f)
  PROVE  Goes(w, i, s, T, f)
<1> DEFINE r == [step |-> s, n |-> run[w][i].n, todo |-> T, flow |-> f]
<1>1. r \in Run
  BY DEF Run
<1>2. run' = [run EXCEPT ![w][i] = r]
  BY DEF To
<1> HIDE DEF r
<1>3. Moves(w, i, r)
  BY <1>1, <1>2 DEF TypeOK, Moves
<1> QED BY <1>3 DEF Goes, r

LEMMA StopMoves ==
  ASSUME TypeOK, NEW w \in Workers, NEW i \in Events, run' = [run EXCEPT ![w][i] = Idle]
  PROVE  Moves(w, i, Idle)
  BY DEF TypeOK, Moves

LEMMA MoveType ==
  ASSUME TypeOK, NEW w \in Workers, NEW i \in Events, NEW r,
         Moves(w, i, r), runs' = runs,
         r # Idle => r.n = run[w][i].n /\ run[w][i] # Idle /\ r.todo \subseteq Attached[i]
  PROVE  /\ run' \in [Workers -> [Events -> Run \cup {Idle}]]
         /\ \A v \in Workers, j \in Events :
              run'[v][j] # Idle => run'[v][j].n <= runs'[j] /\ run'[v][j].todo \subseteq Attached[j]
<1>2. ASSUME NEW v \in Workers, NEW j \in Events, run'[v][j] # Idle
      PROVE  run'[v][j].n <= runs'[j] /\ run'[v][j].todo \subseteq Attached[j]
  <2>1. CASE v = w /\ j = i
    BY <1>2, <2>1, RunType DEF Moves
  <2>2. CASE v # w \/ j # i
    BY <1>2, <2>2, RunType DEF Moves
  <2> QED BY <2>1, <2>2
<1> QED BY <1>2 DEF Moves

LEMMA ExecType ==
  ASSUME TypeOK, NEW e \in DOMAIN exec
  PROVE  e \in Ids /\ exec[e] \in Execution /\ e = <<e[1], e[2], e[3]>>
         /\ e[1] \in Events /\ e[2] \in Workflows /\ e[3] \in 1 .. MaxRuns
<1>1. e \in Ids /\ exec[e] \in Execution
  BY DEF TypeOK
<1> QED BY <1>1 DEF Ids

LEMMA OnceType ==
  ASSUME TypeOK, NEW kind \in Rare, Once(kind)
  PROVE  spent' \in [Rare -> Nat]
  BY DEF TypeOK, Once

-----------------------------------------------------------------------------
(* What a step of one run leaves of the others *)

\* A step takes nothing back of what it has written of an execution.
Kept(e) ==
  /\ e \in DOMAIN exec'
  /\ exec'[e].worker = exec[e].worker
  /\ exec[e].started => exec'[e].started
  /\ exec[e].submitted => exec'[e].submitted

LEMMA SubmittedKept ==
  ASSUME \A e \in DOMAIN exec : Kept(e), NEW i, NEW f, Submitted(i, f)
  PROVE  Submitted(i, f)'
<1>1. PICK n \in 1 .. MaxRuns : <<i, f, n>> \in DOMAIN exec /\ exec[<<i, f, n>>].submitted
  BY DEF Submitted
<1>2. <<i, f, n>> \in DOMAIN exec' /\ exec'[<<i, f, n>>].submitted
  BY <1>1 DEF Kept
<1> QED BY <1>1, <1>2 DEF Submitted

LEMMA RunKept ==
  ASSUME TypeOK, NEW v \in Workers, NEW j \in Events, RunOK(v, j),
         run'[v][j] = run[v][j], failed \subseteq failed',
         \A e \in DOMAIN exec : Kept(e),
         \A f \in Workflows : <<j, f, run[v][j].n>> \in DOMAIN exec' =>
                             <<j, f, run[v][j].n>> \in DOMAIN exec
  PROVE  RunOK(v, j)'
<1> DEFINE r == run[v][j]
<1> SUFFICES ASSUME r # Idle PROVE RunOK(v, j)'
  BY DEF RunOK
<1>1. ExecOf(v, j)' = ExecOf(v, j)
  BY DEF ExecOf
<1>2. r.step \in {"find", "next"} <=> r.flow = None
  BY DEF RunOK
<1>3. r.flow \notin r.todo
  BY DEF RunOK
<1>4. \A f \in Workflows :
        r.step = "find" \/ f \in r.todo \/ (r.step = "create" /\ r.flow = f)
          => <<j, f, r.n>> \notin DOMAIN exec'
  BY DEF RunOK
<1>5. r.step \in Made => ExecOf(v, j) \in DOMAIN exec' /\ exec'[ExecOf(v, j)].worker = v
  BY DEF RunOK, Kept
<1>6. r.step \in Running => exec'[ExecOf(v, j)].started
  BY DEF RunOK, Kept, Running, Made
<1>7. r.step = "record" => exec'[ExecOf(v, j)].submitted
  BY DEF RunOK, Kept, Made
<1>8. ASSUME r.step # "find", NEW f \in Attached[j]
      PROVE  f \in r.todo \/ f = r.flow \/ <<j, f>> \in failed' \/ Submitted(j, f)'
  BY <1>8, SubmittedKept DEF RunOK
<1> QED BY <1>1, <1>2, <1>3, <1>4, <1>5, <1>6, <1>7, <1>8 DEF RunOK

\* HalfStarted, of one execution.
Excused(e) ==
  ~ (exec[e].started /\ exec[e].submitted /\ exec[e].recorded) =>
    \/ run[exec[e].worker][e[1]] # Idle /\ ExecOf(exec[e].worker, e[1]) = e
    \/ <<e[1], e[2]>> \in failed
    \/ exec[e].object = "gone"

LEMMA ExcusedKept ==
  ASSUME TypeOK, NEW e \in DOMAIN exec, Excused(e), e \in DOMAIN exec', exec'[e] = exec[e],
         failed \subseteq failed',
         run'[exec[e].worker][e[1]] = run[exec[e].worker][e[1]]
  PROVE  Excused(e)'
<1>1. ExecOf(exec[e].worker, e[1])' = ExecOf(exec[e].worker, e[1])
  BY DEF ExecOf
<1> QED BY <1>1 DEF Excused

\* What the action of a run has to show for itself, and what follows for all.
LEMMA OneRun ==
  ASSUME Inv, NEW w \in Workers, NEW i \in Events, NEW r, run[w][i] # Idle,
         Moves(w, i, r), runs' = runs, r # Idle => r.n = run[w][i].n,
         failed \subseteq failed',
         NEW x, x = ExecOf(w, i),
         \A e \in DOMAIN exec : Kept(e),
         DOMAIN exec' \subseteq DOMAIN exec \cup {x},
         \A e \in DOMAIN exec \ {x} : exec'[e] = exec[e],
         RunOK(w, i)', x \in DOMAIN exec' => Excused(x)',
         \A j \in handled' \ handled : \A f \in Attached[j] : Submitted(j, f)' \/ <<j, f>> \in failed'
  PROVE  OwnRuns' /\ RunsOK' /\ NoStartLost' /\ HalfStarted'
<1>1. /\ run' \in [Workers -> [Events -> Run \cup {Idle}]]
      /\ run'[w][i] = r
      /\ \A v \in Workers, j \in Events : v # w \/ j # i => run'[v][j] = run[v][j]
  BY DEF Moves
<1>2. run[w][i] \in Run /\ run[w][i].n <= runs[i]
  BY RunType DEF Inv
<1>3. x[1] = i /\ x[3] = run[w][i].n
  BY DEF ExecOf
<1>4. OwnRuns'
  <2>1. ASSUME NEW v \in Workers, NEW u \in Workers, NEW j \in Events,
               run'[v][j] # Idle, run'[u][j] # Idle, run'[v][j].n = run'[u][j].n
        PROVE  v = u
    <3>1. run[v][j] # Idle /\ run'[v][j].n = run[v][j].n
      BY <1>1, <2>1
    <3>2. run[u][j] # Idle /\ run'[u][j].n = run[u][j].n
      BY <1>1, <2>1
    <3> QED BY <2>1, <3>1, <3>2 DEF Inv, OwnRuns
  <2>2. \A e \in DOMAIN exec' : e[3] <= runs'[e[1]]
    BY <1>2, <1>3 DEF Inv, OwnRuns
  <2> QED BY <2>1, <2>2 DEF OwnRuns
<1>5. RunsOK'
  <2>1. ASSUME NEW v \in Workers, NEW j \in Events, v # w \/ j # i
        PROVE  RunOK(v, j)'
    <3>1. CASE run[v][j] = Idle
      BY <1>1, <2>1, <3>1 DEF RunOK
    <3>2. CASE run[v][j] # Idle
      <4>1. \A f : <<j, f, run[v][j].n>> # x
        BY <1>3, <2>1, <3>2 DEF Inv, OwnRuns
      <4>2. \A f \in Workflows : <<j, f, run[v][j].n>> \in DOMAIN exec' =>
                                <<j, f, run[v][j].n>> \in DOMAIN exec
        BY <4>1
      <4> QED BY <1>1, <2>1, <4>2, RunKept DEF Inv, RunsOK
    <3> QED BY <3>1, <3>2
  <2> QED BY <2>1 DEF RunsOK
<1>6. NoStartLost'
  <2>1. ASSUME NEW j \in handled', NEW f \in Attached[j]
        PROVE  Submitted(j, f)' \/ <<j, f>> \in failed'
    BY <2>1, SubmittedKept DEF Inv, NoStartLost
  <2> QED BY <2>1 DEF NoStartLost
<1>7. HalfStarted'
  <2>1. ASSUME NEW e \in DOMAIN exec', e # x
        PROVE  Excused(e)'
    <3>1. e \in DOMAIN exec /\ exec'[e] = exec[e] /\ Excused(e)
      BY <2>1 DEF Inv, HalfStarted, Excused
    <3>2. exec[e].worker \in Workers /\ e[1] \in Events
      BY <3>1, ExecType DEF Inv, Execution
    <3>3. CASE exec[e].worker = w /\ e[1] = i
      BY <2>1, <3>1, <3>3 DEF Excused
    <3>4. CASE exec[e].worker # w \/ e[1] # i
      BY <1>1, <3>1, <3>2, <3>4, ExcusedKept DEF Inv
    <3> QED BY <3>3, <3>4
  <2> QED BY <2>1 DEF HalfStarted, Excused
<1> QED BY <1>4, <1>5, <1>6, <1>7

-----------------------------------------------------------------------------
(* The actions of a handler *)

LEMMA FindOK ==
  ASSUME Inv, NEW w \in Workers, NEW i \in Events, NEW T \in SUBSET Attached[i],
         At(w, i, "find"), To(w, i, "next", T, None),
         failed' = failed \cup ({i} \X (Attached[i] \ T)),
         UNCHANGED <<open, handled, dropped, runs, exec>>, spent' \in [Rare -> Nat]
  PROVE  Inv'
<1> DEFINE a == run[w][i]
           r == [step |-> "next", n |-> a.n, todo |-> T, flow |-> None]
<1>1. a \in Run /\ a # Idle /\ RunOK(w, i) /\ a.step = "find" /\ a.flow = None
  BY AtRun DEF Inv, RunsOK, RunOK, At, Steps
<1>2. Moves(w, i, r) /\ r # Idle /\ run'[w][i] = r
  <2>1. Goes(w, i, "next", T, None)
    BY <1>1, WorkerAssumption, ToMoves DEF Inv, Steps
  <2>2. r # Idle
    BY DEF Idle
  <2> QED BY <2>1, <2>2 DEF Goes, Moves
<1>4. RunOK(w, i)'
  <2>1. \A f \in Workflows : f \in T => <<i, f, a.n>> \notin DOMAIN exec'
    BY <1>1 DEF RunOK
  <2>2. \A f \in Attached[i] : f \in T \/ <<i, f>> \in failed'
    OBVIOUS
  <2>3. None \notin T
    BY WorkerAssumption
  <2> HIDE DEF a
  <2> QED BY <1>2, <2>1, <2>2, <2>3 DEF RunOK, Made, Running
<1>5. TypeOK'
  <2>1. /\ run' \in [Workers -> [Events -> Run \cup {Idle}]]
        /\ \A v \in Workers, j \in Events :
             run'[v][j] # Idle => run'[v][j].n <= runs'[j] /\ run'[v][j].todo \subseteq Attached[j]
    BY <1>1, <1>2, MoveType DEF Inv
  <2>2. failed' \subseteq Events \X Workflows
    BY WorkerAssumption DEF Inv, TypeOK
  <2> QED BY <2>1, <2>2 DEF Inv, TypeOK
<1>6. ExecOf(w, i) \notin DOMAIN exec'
  BY <1>1, ExecType, WorkerAssumption DEF ExecOf, Inv
<1>7. \A e \in DOMAIN exec : Kept(e)
  BY DEF Kept
<1>8. OwnRuns' /\ RunsOK' /\ NoStartLost' /\ HalfStarted'
  BY <1>1, <1>2, <1>4, <1>6, <1>7, OneRun
<1> QED BY <1>5, <1>8 DEF Inv

LEMMA NextOK ==
  ASSUME Inv, NEW w \in Workers, NEW i \in Events, NEW f \in Workflows, Next1(w, i, f)
  PROVE  Inv'
<1> DEFINE a == run[w][i]
           r == [step |-> "create", n |-> a.n, todo |-> a.todo \ {f}, flow |-> f]
<1>1. a \in Run /\ a # Idle /\ RunOK(w, i) /\ a.step = "next" /\ f \in a.todo /\ a.flow = None
  BY AtRun DEF Inv, RunsOK, RunOK, At, Steps, Next1
<1>2. Moves(w, i, r) /\ r # Idle /\ run'[w][i] = r
  <2>1. a.todo \ {f} \in SUBSET Workflows
    BY <1>1 DEF Run
  <2>2. Goes(w, i, "create", a.todo \ {f}, f)
    BY <1>1, <2>1, ToMoves DEF Inv, Steps, Next1
  <2>3. r # Idle
    BY DEF Idle
  <2> QED BY <2>2, <2>3 DEF Goes, Moves
<1>4. UNCHANGED <<open, handled, dropped, runs, exec, failed, spent>>
  BY DEF Next1, queue
<1>5. RunOK(w, i)'
  <2>1. \A g \in Workflows : g \in r.todo \/ g = f => <<i, g, a.n>> \notin DOMAIN exec'
    BY <1>1, <1>4 DEF RunOK
  <2>2. ASSUME NEW g \in Attached[i]
        PROVE  g \in r.todo \/ g = f \/ <<i, g>> \in failed' \/ Submitted(i, g)'
    BY <1>1, <1>4, WorkerAssumption DEF RunOK, Submitted
  <2>3. f # None
    BY WorkerAssumption
  <2> HIDE DEF a
  <2> QED BY <1>2, <2>1, <2>2, <2>3 DEF RunOK, Made, Running
<1>6. TypeOK'
  <2>1. /\ run' \in [Workers -> [Events -> Run \cup {Idle}]]
        /\ \A v \in Workers, j \in Events :
             run'[v][j] # Idle => run'[v][j].n <= runs'[j] /\ run'[v][j].todo \subseteq Attached[j]
    BY <1>1, <1>2, <1>4, RunType, MoveType DEF Inv
  <2> QED BY <1>4, <2>1 DEF Inv, TypeOK
<1>7. ExecOf(w, i) \notin DOMAIN exec'
  BY <1>1, <1>4, ExecType, WorkerAssumption DEF ExecOf, Inv
<1>8. \A e \in DOMAIN exec : Kept(e)
  BY <1>4 DEF Kept
<1>9. OwnRuns' /\ RunsOK' /\ NoStartLost' /\ HalfStarted'
  BY <1>1, <1>2, <1>4, <1>5, <1>7, <1>8, OneRun
<1> QED BY <1>6, <1>9 DEF Inv

LEMMA ReturnOK ==
  ASSUME Inv, NEW w \in Workers, NEW i \in Events, Return(w, i)
  PROVE  Inv'
<1> DEFINE a == run[w][i]
<1>1. a \in Run /\ a # Idle /\ RunOK(w, i) /\ a.step = "next" /\ a.todo = {} /\ a.flow = None
  BY AtRun DEF Inv, RunsOK, RunOK, At, Steps, Return
<1>2. Moves(w, i, Idle)
  BY StopMoves DEF Inv, Return
<1>3. /\ handled' = handled \cup {i} /\ dropped' = dropped \ {i}
      /\ UNCHANGED <<open, runs, exec, failed, spent>>
  BY DEF Return, Queue!Handle
<1>4. RunOK(w, i)'
  BY <1>2 DEF RunOK, Moves
<1>5. TypeOK'
  <2>1. /\ run' \in [Workers -> [Events -> Run \cup {Idle}]]
        /\ \A v \in Workers, j \in Events :
             run'[v][j] # Idle => run'[v][j].n <= runs'[j] /\ run'[v][j].todo \subseteq Attached[j]
    BY <1>2, <1>3, MoveType DEF Inv
  <2> QED BY <1>3, <2>1 DEF Inv, TypeOK
<1>6. \A f \in Attached[i] : Submitted(i, f)' \/ <<i, f>> \in failed'
  BY <1>1, <1>3, WorkerAssumption DEF RunOK, Submitted
<1>7. ExecOf(w, i) \notin DOMAIN exec'
  BY <1>1, <1>3, ExecType, WorkerAssumption DEF ExecOf, Inv
<1>8. \A e \in DOMAIN exec : Kept(e)
  BY <1>3 DEF Kept
<1>9. OwnRuns' /\ RunsOK' /\ NoStartLost' /\ HalfStarted'
  BY <1>1, <1>2, <1>3, <1>4, <1>6, <1>7, <1>8, OneRun
<1> QED BY <1>5, <1>9 DEF Inv

\* A step that inserts the execution, or writes to it, and goes on.
LEMMA WriteOK ==
  ASSUME Inv, NEW w \in Workers, NEW i \in Events, NEW t \in Made, NEW x, NEW y \in Execution,
         run[w][i].step \in {"create"} \cup Made,
         Go(w, i, t), x = ExecOf(w, i),
         exec' \in [DOMAIN exec \cup {x} -> Execution], exec'[x] = y,
         \A e \in DOMAIN exec \ {x} : exec'[e] = exec[e],
         x \in DOMAIN exec /\ exec[x].started => y.started,
         x \in DOMAIN exec /\ exec[x].submitted => y.submitted,
         y.worker = w, t \in Running => y.started, t = "record" => y.submitted,
         UNCHANGED <<open, handled, dropped, runs, failed, spent>>
  PROVE  Inv'
<1> DEFINE a == run[w][i]
           r == [step |-> t, n |-> a.n, todo |-> a.todo, flow |-> a.flow]
<1>1. a \in Run /\ a # Idle /\ RunOK(w, i)
  <2>1. a # Idle
    BY DEF Idle, Made
  <2> QED BY <2>1, RunType DEF Inv, RunsOK
<1>2. a.flow \in Workflows /\ a.flow # None /\ a.flow \notin a.todo
  BY <1>1 DEF RunOK, Run, Made
<1>3. Moves(w, i, r) /\ r # Idle /\ run'[w][i] = r
  <2>1. Goes(w, i, t, a.todo, a.flow)
    BY <1>1, ToMoves DEF Inv, Go, Made, Steps, Run
  <2>2. r # Idle
    BY DEF Idle, Made
  <2> QED BY <2>1, <2>2 DEF Goes, Moves
<1>4. x \in DOMAIN exec => a.step # "create" /\ exec[x].worker = w
  BY <1>1, <1>2 DEF RunOK, ExecOf
<1>5. \A e \in DOMAIN exec : Kept(e)
  BY <1>4 DEF Kept
<1>6. RunOK(w, i)'
  <2>1. ExecOf(w, i)' = x
    BY <1>3 DEF ExecOf
  <2>2. \A f \in Workflows : f \in a.todo => <<i, f, a.n>> \notin DOMAIN exec'
    <3>1. \A f \in Workflows : f \in a.todo => <<i, f, a.n>> \notin DOMAIN exec /\ <<i, f, a.n>> # x
      BY <1>1, <1>2 DEF RunOK, ExecOf
    <3> QED BY <3>1
  <2>3. ASSUME NEW f \in Attached[i]
        PROVE  f \in a.todo \/ f = a.flow \/ <<i, f>> \in failed' \/ Submitted(i, f)'
    BY <1>1, <1>5, SubmittedKept DEF RunOK, Made
  <2>4. t \notin {"find", "next", "create"}
    BY DEF Made
  <2> HIDE DEF a
  <2> QED BY <1>2, <1>3, <2>1, <2>2, <2>3, <2>4 DEF RunOK, Made
<1>7. Excused(x)'
  <2>1. x[1] = i /\ exec'[x].worker = w
    BY DEF ExecOf
  <2>2. ExecOf(w, i)' = x
    BY <1>3 DEF ExecOf
  <2> QED BY <1>3, <2>1, <2>2 DEF Excused
<1>8. TypeOK'
  <2>1. /\ run' \in [Workers -> [Events -> Run \cup {Idle}]]
        /\ \A v \in Workers, j \in Events :
             run'[v][j] # Idle => run'[v][j].n <= runs'[j] /\ run'[v][j].todo \subseteq Attached[j]
    BY <1>1, <1>3, RunType, MoveType DEF Inv
  <2>2. x \in Ids
    BY <1>1, <1>2 DEF Ids, ExecOf, Run
  <2> QED BY <2>1, <2>2 DEF Inv, TypeOK
<1>9. OwnRuns' /\ RunsOK' /\ NoStartLost' /\ HalfStarted'
  BY <1>1, <1>3, <1>5, <1>6, <1>7, OneRun
<1> QED BY <1>8, <1>9 DEF Inv

LEMMA CreateOK ==
  ASSUME Inv, NEW w \in Workers, NEW i \in Events, Create(w, i)
  PROVE  Inv'
<1> DEFINE x == ExecOf(w, i)
           y == [started |-> FALSE, submitted |-> FALSE, recorded |-> FALSE,
                 fn |-> "none", object |-> "context", worker |-> w]
<1>1. exec' = [d \in DOMAIN exec \cup {x} |-> IF d = x THEN y ELSE exec[d]]
  BY DEF Create, Put
<1>2. x \notin DOMAIN exec
  <2>1. run[w][i] \in Run /\ RunOK(w, i) /\ run[w][i].step = "create" /\ run[w][i] # Idle
    BY AtRun DEF Inv, RunsOK, Create, At, Steps
  <2>2. run[w][i].flow \in Workflows
    BY <2>1 DEF RunOK, Run
  <2> QED BY <2>1, <2>2 DEF RunOK, ExecOf
<1>3. y \in Execution
  BY DEF Execution
<1>4. y.worker = w
  OBVIOUS
<1>5. UNCHANGED <<open, handled, dropped, runs, failed, spent>>
  BY DEF Create, queue
<1>6. run[w][i].step = "create" /\ Go(w, i, "start")
  BY DEF Create, At
<1> HIDE DEF y, x
<1>7. exec' \in [DOMAIN exec \cup {x} -> Execution] /\ exec'[x] = y
      /\ \A e \in DOMAIN exec \ {x} : exec'[e] = exec[e]
  BY <1>1, <1>3 DEF Inv, TypeOK
<1> QED BY <1>2, <1>3, <1>4, <1>5, <1>6, <1>7, WriteOK DEF x, Made, Running

\* What a run may write to its execution.
LEMMA UpdateOK ==
  ASSUME Inv, NEW w \in Workers, NEW i \in Events, NEW s \in Made, NEW t \in Made, NEW y \in Execution,
         At(w, i, s), Go(w, i, t), exec' = [exec EXCEPT ![ExecOf(w, i)] = y],
         y.worker = exec[ExecOf(w, i)].worker,
         exec[ExecOf(w, i)].submitted => y.submitted, y.started, t = "record" => y.submitted,
         UNCHANGED <<open, handled, dropped, runs, failed, spent>>
  PROVE  Inv'
<1> DEFINE x == ExecOf(w, i)
<1>1. run[w][i] # Idle /\ run[w][i].step = s
  BY AtRun DEF Inv, At, Made, Steps
<1>2. x \in DOMAIN exec /\ exec[x].worker = w
  BY <1>1 DEF Inv, RunsOK, RunOK
<1> HIDE DEF x
<1>3. exec' \in [DOMAIN exec \cup {x} -> Execution] /\ exec'[x] = y
      /\ \A e \in DOMAIN exec \ {x} : exec'[e] = exec[e]
  BY <1>2 DEF Inv, TypeOK, x
<1> QED BY <1>1, <1>2, <1>3, WriteOK DEF x

LEMMA StepsOK ==
  ASSUME Inv, NEW w \in Workers, NEW i \in Events, Start(w, i) \/ Load(w, i) \/ Persist(w, i)
  PROVE  Inv'
<1> DEFINE x == ExecOf(w, i)
<1>1. ASSUME NEW s \in Made, At(w, i, s)
      PROVE  /\ x \in DOMAIN exec /\ exec[x] \in Execution
             /\ run[w][i].flow \in Workflows
             /\ s \in Running => exec[x].started
  <2>1. run[w][i] \in Run /\ run[w][i] # Idle /\ run[w][i].step = s
    BY <1>1, AtRun DEF Inv, At, Made, Steps
  <2>2. RunOK(w, i)
    BY DEF Inv, RunsOK
  <2>3. x \in DOMAIN exec /\ run[w][i].flow # None /\ (s \in Running => exec[x].started)
    BY <2>1, <2>2 DEF RunOK, Made
  <2> QED BY <2>1, <2>3, ExecType DEF Inv, Run
<1>2. CASE Start(w, i)
  <2> DEFINE y == [exec[x] EXCEPT !.started = TRUE, !.fn = FirstStop[run[w][i].flow]]
  <2>1. At(w, i, "start") /\ Go(w, i, "load") /\ exec' = [exec EXCEPT ![x] = y]
        /\ UNCHANGED <<open, handled, dropped, runs, failed, spent>>
    BY <1>2 DEF Start, queue
  <2>2. exec[x] \in Execution /\ FirstStop[run[w][i].flow] \in {"busy", "waiting", "done"}
    BY <1>1, <2>1, WorkerAssumption DEF Made
  <2>3. y \in Execution /\ y.worker = exec[x].worker /\ y.started /\ y.submitted = exec[x].submitted
    BY <2>2 DEF Execution
  <2> HIDE DEF y
  <2> QED BY <2>1, <2>3, UpdateOK DEF Made
<1>3. CASE Load(w, i)
  <2> DEFINE o == LoadExecutionState(x)
             y == [exec[x] EXCEPT !.object = o, !.fn = Notified(x, o)]
  <2>1. At(w, i, "load") /\ Go(w, i, "persist") /\ exec' = [exec EXCEPT ![x] = y]
        /\ UNCHANGED <<open, handled, dropped, runs, failed, spent>>
    BY <1>3 DEF Load, queue
  <2>2. exec[x] \in Execution /\ exec[x].started
    BY <1>1, <2>1 DEF Made, Running
  <2>3. o = "replayed" /\ Notified(x, o) = exec[x].fn
    BY DEF LoadExecutionState, Notified
  <2>4. y \in Execution /\ y.worker = exec[x].worker /\ y.started /\ y.submitted = exec[x].submitted
    BY <2>2, <2>3 DEF Execution
  <2> HIDE DEF y
  <2> QED BY <2>1, <2>4, UpdateOK DEF Made
<1>4. CASE Persist(w, i)
  <2> DEFINE y == [exec[x] EXCEPT !.submitted = TRUE]
  <2>1. At(w, i, "persist") /\ Go(w, i, "record") /\ exec' = [exec EXCEPT ![x] = y]
        /\ UNCHANGED <<open, handled, dropped, runs, failed, spent>>
    BY <1>4 DEF Persist, queue
  <2>2. exec[x] \in Execution /\ exec[x].started
    BY <1>1, <2>1 DEF Made, Running
  <2>3. y \in Execution /\ y.worker = exec[x].worker /\ y.started /\ y.submitted
    BY <2>2 DEF Execution
  <2> HIDE DEF y
  <2> QED BY <2>1, <2>3, UpdateOK DEF Made
<1> QED BY <1>2, <1>3, <1>4

\* A run that is done with a workflow: the event is recorded, or has failed.
Settled(w, i) ==
  <<i, run[w][i].flow>> \notin failed' =>
    run[w][i].step = "record" /\ exec'[ExecOf(w, i)].recorded

LEMMA SkipOK ==
  ASSUME Inv, NEW w \in Workers, NEW i \in Events, Skip(w, i),
         NEW g, g = run[w][i].flow, NEW x, x = ExecOf(w, i),
         run[w][i].step \in {"create"} \cup Made,
         failed \subseteq failed', failed' \subseteq Events \X Workflows, spent' \in [Rare -> Nat],
         UNCHANGED <<open, handled, dropped, runs>>,
         exec' \in [DOMAIN exec -> Execution], \A e \in DOMAIN exec : Kept(e),
         \A e \in DOMAIN exec \ {x} : exec'[e] = exec[e],
         Settled(w, i)
  PROVE  Inv'
<1> DEFINE a == run[w][i]
           r == [step |-> "next", n |-> a.n, todo |-> a.todo, flow |-> None]
<1>1. a \in Run /\ a # Idle /\ RunOK(w, i)
  <2>1. a # Idle
    BY DEF Idle, Made
  <2> QED BY <2>1, RunType DEF Inv, RunsOK
<1>2. Moves(w, i, r) /\ r # Idle /\ run'[w][i] = r
  <2>1. Goes(w, i, "next", a.todo, None)
    BY <1>1, ToMoves DEF Inv, Skip, Steps, Run
  <2>2. r # Idle
    BY DEF Idle
  <2> QED BY <2>1, <2>2 DEF Goes, Moves
<1>3. a.n \in 1 .. MaxRuns /\ x[1] = i /\ x[2] = g
  BY <1>1 DEF ExecOf, Run
<1>4. a.step = "record" => x \in DOMAIN exec' /\ exec'[x].submitted /\ exec'[x].started
  <2>1. a.step = "record" => x \in DOMAIN exec /\ exec[x].submitted /\ exec[x].started
    BY <1>1 DEF RunOK, Made, Running
  <2> QED BY <2>1 DEF Kept
<1>5. RunOK(w, i)'
  <2>1. \A f \in Workflows : f \in a.todo => <<i, f, a.n>> \notin DOMAIN exec'
    BY <1>1 DEF RunOK
  <2>2. <<i, g>> \in failed' \/ Submitted(i, g)'
    <3>1. CASE a.step = "record"
      <4>1. a.n \in 1 .. MaxRuns /\ <<i, g, a.n>> \in DOMAIN exec' /\ exec'[<<i, g, a.n>>].submitted
        BY <1>3, <1>4, <3>1, Zenon DEF ExecOf
      <4> QED BY <4>1, Zenon DEF Submitted
    <3>2. CASE a.step # "record"
      BY <3>2, Zenon DEF Settled
    <3> QED BY <3>1, <3>2
  <2>3. ASSUME NEW f \in Attached[i]
        PROVE  f \in a.todo \/ <<i, f>> \in failed' \/ Submitted(i, f)'
    <3>1. f \in a.todo \/ f = g \/ <<i, f>> \in failed \/ Submitted(i, f)
      BY <1>1 DEF RunOK, Made
    <3> QED BY <2>2, <3>1, SubmittedKept
  <2>4. None \notin a.todo
    BY <1>1, WorkerAssumption DEF Run
  <2> HIDE DEF a
  <2> QED BY <1>2, <2>1, <2>3, <2>4 DEF RunOK, Made, Running
<1>6. x \in DOMAIN exec' => Excused(x)'
  BY <1>3, <1>4 DEF Excused, Settled
<1>7. TypeOK'
  <2>1. /\ run' \in [Workers -> [Events -> Run \cup {Idle}]]
        /\ \A v \in Workers, j \in Events :
             run'[v][j] # Idle => run'[v][j].n <= runs'[j] /\ run'[v][j].todo \subseteq Attached[j]
    BY <1>1, <1>2, RunType, MoveType DEF Inv
  <2> QED BY <2>1 DEF Inv, TypeOK
<1>8. OwnRuns' /\ RunsOK' /\ NoStartLost' /\ HalfStarted'
  BY <1>1, <1>2, <1>5, <1>6, OneRun
<1> QED BY <1>7, <1>8 DEF Inv

LEMMA RecordOK ==
  ASSUME Inv, NEW w \in Workers, NEW i \in Events, Record(w, i)
  PROVE  Inv'
<1> DEFINE x == ExecOf(w, i)
           y == [exec[x] EXCEPT !.recorded = TRUE]
<1>1. run[w][i] # Idle /\ run[w][i].step = "record"
  BY AtRun DEF Inv, Record, At, Steps
<1>2. x \in DOMAIN exec /\ exec[x] \in Execution
  BY <1>1, ExecType DEF Inv, RunsOK, RunOK, Made
<1>3. exec' = [exec EXCEPT ![x] = y]
  BY DEF Record
<1>4. y \in Execution /\ y.worker = exec[x].worker /\ y.started = exec[x].started
      /\ y.submitted = exec[x].submitted /\ y.recorded
  BY <1>2 DEF Execution
<1> HIDE DEF x, y
<1>5. exec' \in [DOMAIN exec -> Execution] /\ exec'[x] = y
      /\ \A e \in DOMAIN exec \ {x} : exec'[e] = exec[e]
  BY <1>2, <1>3, <1>4 DEF Inv, TypeOK
<1>6. \A e \in DOMAIN exec : Kept(e)
  BY <1>4, <1>5 DEF Kept
<1>7. /\ UNCHANGED <<open, handled, dropped, runs, failed, spent>> /\ Skip(w, i)
      /\ failed' \subseteq Events \X Workflows /\ spent' \in [Rare -> Nat]
  BY DEF Record, queue, Inv, TypeOK
<1>8. Settled(w, i)
  BY <1>1, <1>4, <1>5 DEF Settled, x
<1> QED BY <1>1, <1>5, <1>6, <1>7, <1>8, SkipOK DEF x, Made

LEMMA StepErrorOK ==
  ASSUME Inv, NEW w \in Workers, NEW i \in Events, StepError(w, i)
  PROVE  Inv'
<1>1. PICK s \in Steps \ {"find", "next"} : At(w, i, s)
  BY DEF StepError
<1>2. run[w][i] \in Run /\ run[w][i] # Idle /\ run[w][i].step = s
  BY <1>1, AtRun DEF Inv, At
<1>3. run[w][i].flow \in Workflows
  BY <1>2 DEF Inv, RunsOK, RunOK, Run
<1>4. spent' \in [Rare -> Nat]
  BY OnceType DEF StepError, Inv, Rare
<1>5. /\ UNCHANGED <<open, handled, dropped, runs, exec>> /\ Skip(w, i)
      /\ failed' = failed \cup {<<i, run[w][i].flow>>}
  BY DEF StepError, queue
<1>6. failed' \subseteq Events \X Workflows
  BY <1>3, <1>5 DEF Inv, TypeOK
<1>7. exec' \in [DOMAIN exec -> Execution] /\ \A e \in DOMAIN exec : Kept(e)
  BY <1>5 DEF Inv, TypeOK, Kept
<1>8. run[w][i].step \in {"create"} \cup Made
  BY <1>1, <1>2 DEF Steps, Made
<1>9. Settled(w, i)
  BY <1>5 DEF Settled
<1> QED BY <1>4, <1>5, <1>6, <1>7, <1>8, <1>9, SkipOK

-----------------------------------------------------------------------------
(* The other actions *)

LEMMA BeginOK ==
  ASSUME Inv, NEW w \in Workers, NEW i \in Events, Begin(w, i)
  PROVE  Inv'
<1> DEFINE n == runs[i] + 1
           r == [step |-> "find", n |-> n, todo |-> {}, flow |-> None]
<1>1. runs[i] \in 0 .. MaxRuns /\ runs[i] < MaxRuns /\ MaxRuns \in Nat
  BY RunType, WorkerAssumption DEF Inv, Begin
<1>2. /\ runs' \in [Events -> 0 .. MaxRuns] /\ runs'[i] = n
      /\ \A j \in Events \ {i} : runs'[j] = runs[j]
  BY <1>1 DEF Begin, Inv, TypeOK
<1>3. UNCHANGED <<open, handled, dropped, exec, failed, spent>>
  BY DEF Begin, queue
<1>4. Moves(w, i, r) /\ r # Idle
  <2>1. r \in Run
    BY <1>1 DEF Run, Steps
  <2>2. run' = [run EXCEPT ![w][i] = r]
    BY <1>2 DEF Begin
  <2> HIDE DEF r
  <2>3. r # Idle
    BY <2>1, IdleType
  <2> QED BY <2>1, <2>2, <2>3 DEF Moves, Inv, TypeOK
<1>5. run'[w][i] = r /\ \A v \in Workers, j \in Events : v # w \/ j # i => run'[v][j] = run[v][j]
  BY <1>4 DEF Moves
<1>6. \A j \in Events : runs[j] \in Nat /\ runs[j] <= runs'[j]
  <2>1. \A j \in Events : runs[j] \in 0 .. MaxRuns
    BY DEF Inv, TypeOK
  <2> QED BY <1>1, <1>2, <2>1
<1>7. TypeOK'
  <2>1. ASSUME NEW v \in Workers, NEW j \in Events, run'[v][j] # Idle
        PROVE  run'[v][j].n <= runs'[j] /\ run'[v][j].todo \subseteq Attached[j]
    <3>1. CASE v = w /\ j = i
      BY <1>1, <1>2, <1>5, <3>1
    <3>2. CASE v # w \/ j # i
      <4>1. /\ run[v][j] # Idle /\ run'[v][j] = run[v][j]
            /\ run[v][j].n <= runs[j] /\ run[v][j].todo \subseteq Attached[j]
        BY <1>5, <2>1, <3>2, RunType DEF Inv
      <4>2. run[v][j].n \in Nat /\ runs[j] \in Nat /\ runs'[j] \in Nat
        BY <1>2, <1>6, <4>1, RunType DEF Inv, Run
      <4> QED BY <1>6, <4>1, <4>2
    <3> QED BY <3>1, <3>2
  <2> QED BY <1>2, <1>3, <1>4, <2>1 DEF Inv, TypeOK, Moves
<1>8. OwnRuns'
  <2>1. \A v \in Workers : run[v][i] # Idle => run[v][i].n \in Nat /\ run[v][i].n # n
    BY <1>1, RunType DEF Inv, Run
  <2>2. ASSUME NEW v \in Workers, NEW u \in Workers, NEW j \in Events,
               run'[v][j] # Idle, run'[u][j] # Idle, run'[v][j].n = run'[u][j].n
        PROVE  v = u
    BY <1>5, <2>1, <2>2 DEF Inv, OwnRuns
  <2>3. ASSUME NEW e \in DOMAIN exec'
        PROVE  e[3] <= runs'[e[1]]
    <3>1. e \in DOMAIN exec /\ e[1] \in Events /\ e[3] \in Nat /\ e[3] <= runs[e[1]]
      BY <1>3, <2>3, ExecType DEF Inv, OwnRuns
    <3> QED BY <1>2, <1>6, <3>1
  <2> QED BY <2>2, <2>3 DEF OwnRuns
<1>9. RunsOK'
  <2>1. ASSUME NEW v \in Workers, NEW j \in Events, v # w \/ j # i
        PROVE  RunOK(v, j)'
    BY <1>3, <1>5, <2>1, RunKept DEF Inv, RunsOK, Kept
  <2>2. \A f \in Workflows : <<i, f, n>> \notin DOMAIN exec'
    BY <1>1, <1>3 DEF Inv, OwnRuns
  <2>3. RunOK(w, i)'
    BY <1>5, <2>2 DEF RunOK, Made, Running
  <2> QED BY <2>1, <2>3 DEF RunsOK
<1>10. NoStartLost'
  BY <1>3 DEF Inv, NoStartLost, Submitted
<1>11. HalfStarted'
  <2>1. ASSUME NEW e \in DOMAIN exec'
        PROVE  Excused(e)'
    <3>1. e \in DOMAIN exec /\ exec'[e] = exec[e] /\ Excused(e)
      BY <1>3, <2>1 DEF Inv, HalfStarted, Excused
    <3>2. exec[e].worker \in Workers /\ e[1] \in Events
      BY <3>1, ExecType DEF Inv, Execution
    <3>3. CASE exec[e].worker = w /\ e[1] = i
      BY <1>3, <3>1, <3>3 DEF Excused, Begin
    <3>4. CASE exec[e].worker # w \/ e[1] # i
      BY <1>3, <1>5, <3>1, <3>2, <3>4, ExcusedKept DEF Inv
    <3> QED BY <3>3, <3>4
  <2> QED BY <2>1 DEF HalfStarted, Excused
<1> QED BY <1>7, <1>8, <1>9, <1>10, <1>11 DEF Inv

LEMMA FunctionOK ==
  ASSUME Inv, NEW e \in DOMAIN exec, Function(e)
  PROVE  Inv'
<1>1. PICK g \in {"waiting", "done"} : exec' = [exec EXCEPT ![e].fn = g]
  BY DEF Function
<1>2. UNCHANGED <<open, handled, dropped, runs, run, failed, spent>>
  BY DEF Function, queue
<1>3. e \in Ids /\ exec[e] \in Execution
  BY ExecType DEF Inv
<1> DEFINE y == [exec[e] EXCEPT !.fn = g]
<1>4. /\ y \in Execution /\ y.worker = exec[e].worker /\ y.object = exec[e].object
      /\ y.started = exec[e].started /\ y.submitted = exec[e].submitted /\ y.recorded = exec[e].recorded
  BY <1>3 DEF Execution
<1> HIDE DEF y
<1>5. /\ DOMAIN exec' = DOMAIN exec /\ exec' \in [DOMAIN exec -> Execution] /\ exec'[e] = y
      /\ \A d \in DOMAIN exec \ {e} : exec'[d] = exec[d]
  BY <1>1, <1>3, <1>4 DEF Inv, TypeOK, y
<1>6. \A d \in DOMAIN exec : Kept(d)
  BY <1>4, <1>5 DEF Kept
<1>7. TypeOK'
  BY <1>2, <1>5 DEF Inv, TypeOK
<1>8. OwnRuns'
  BY <1>2, <1>5 DEF Inv, OwnRuns
<1>9. RunsOK'
  BY <1>2, <1>5, <1>6, RunKept DEF Inv, RunsOK
<1>10. NoStartLost'
  BY <1>2, <1>6, SubmittedKept DEF Inv, NoStartLost
<1>11. HalfStarted'
  <2>1. ASSUME NEW d \in DOMAIN exec'
        PROVE  Excused(d)'
    <3>1. d \in DOMAIN exec /\ Excused(d)
      BY <1>5, <2>1 DEF Inv, HalfStarted, Excused
    <3>2. ExecOf(exec[d].worker, d[1])' = ExecOf(exec'[d].worker, d[1])
      BY <1>2 DEF ExecOf
    <3> QED BY <1>2, <1>4, <1>5, <3>1, <3>2 DEF Excused, ExecOf
  <2> QED BY <2>1 DEF HalfStarted, Excused
<1> QED BY <1>7, <1>8, <1>9, <1>10, <1>11 DEF Inv

LEMMA CrashOK ==
  ASSUME Inv, NEW w \in Workers, Crash(w)
  PROVE  Inv'
<1>1. /\ \A j \in Events : run'[w][j] = Idle
      /\ \A v \in Workers \ {w} : run'[v] = run[v]
      /\ run' \in [Workers -> [Events -> Run \cup {Idle}]]
  BY DEF Crash, Inv, TypeOK
<1>2. UNCHANGED <<open, handled, dropped, runs, failed>>
  BY DEF Crash, queue
<1>3. spent' \in [Rare -> Nat]
  BY OnceType DEF Crash, Inv, Rare
<1>4. /\ DOMAIN exec' = DOMAIN exec /\ exec' \in [DOMAIN exec -> Execution]
      /\ \A e \in DOMAIN exec :
           /\ exec[e].worker # w => exec'[e] = exec[e]
           /\ exec[e].worker = w => exec'[e].object = "gone"
           /\ exec'[e].worker = exec[e].worker
           /\ exec'[e].started = exec[e].started
           /\ exec'[e].submitted = exec[e].submitted
  <2> DEFINE y(e) == IF exec[e].worker # w THEN exec[e]
                     ELSE [exec[e] EXCEPT !.object = "gone",
                             !.fn = IF @ = "done" THEN @ ELSE "gone"]
  <2>1. exec' = [e \in DOMAIN exec |-> y(e)]
    BY DEF Crash
  <2>2. ASSUME NEW e \in DOMAIN exec
        PROVE  /\ y(e) \in Execution /\ y(e).worker = exec[e].worker
               /\ exec[e].worker # w => y(e) = exec[e]
               /\ exec[e].worker = w => y(e).object = "gone"
               /\ y(e).started = exec[e].started /\ y(e).submitted = exec[e].submitted
    <3>1. exec[e] \in Execution
      BY ExecType DEF Inv
    <3> QED BY <3>1 DEF Execution
  <2> HIDE DEF y
  <2> QED BY <2>1, <2>2
<1>5. \A e \in DOMAIN exec : Kept(e)
  BY <1>4 DEF Kept
<1>6. TypeOK'
  <2>1. \A v \in Workers, j \in Events :
          run'[v][j] # Idle => run'[v][j].n <= runs'[j] /\ run'[v][j].todo \subseteq Attached[j]
    BY <1>1, <1>2, RunType DEF Inv
  <2> QED BY <1>1, <1>2, <1>3, <1>4, <2>1 DEF Inv, TypeOK
<1>7. OwnRuns'
  <2>1. \A v \in Workers, j \in Events : run'[v][j] # Idle => run'[v][j] = run[v][j]
    BY <1>1
  <2> QED BY <1>2, <1>4, <2>1 DEF Inv, OwnRuns
<1>8. RunsOK'
  <2>1. ASSUME NEW v \in Workers, NEW j \in Events
        PROVE  RunOK(v, j)'
    <3>1. CASE v = w
      BY <1>1, <3>1 DEF RunOK
    <3>2. CASE v # w
      BY <1>1, <1>2, <1>4, <1>5, <3>2, RunKept DEF Inv, RunsOK
    <3> QED BY <3>1, <3>2
  <2> QED BY <2>1 DEF RunsOK
<1>9. NoStartLost'
  BY <1>2, <1>5, SubmittedKept DEF Inv, NoStartLost
<1>10. HalfStarted'
  <2>1. ASSUME NEW e \in DOMAIN exec'
        PROVE  Excused(e)'
    <3>1. e \in DOMAIN exec /\ Excused(e) /\ exec[e].worker \in Workers
      BY <1>4, <2>1, ExecType DEF Inv, HalfStarted, Excused, Execution
    <3>2. CASE exec[e].worker = w
      BY <1>4, <3>1, <3>2 DEF Excused
    <3>3. CASE exec[e].worker # w
      BY <1>1, <1>2, <1>4, <3>1, <3>3, ExcusedKept DEF Inv
    <3> QED BY <3>2, <3>3
  <2> QED BY <2>1 DEF HalfStarted, Excused
<1> QED BY <1>6, <1>7, <1>8, <1>9, <1>10 DEF Inv

LEMMA QueueOK ==
  ASSUME Inv, NEW i \in Events, Publish(i) \/ Settle(i) \/ Drop(i)
  PROVE  Inv'
<1>1. UNCHANGED <<handled, runs, run, exec, failed>>
  BY DEF Publish, Settle, Drop, Queue!Submit, Queue!Settle, Queue!Drop
<1>2. open' \subseteq Events /\ dropped' \subseteq Events
  BY DEF Publish, Settle, Drop, Queue!Submit, Queue!Settle, Queue!Drop, Queue!Close, Inv, TypeOK
<1>3. spent' \in [Rare -> Nat]
  BY OnceType DEF Publish, Settle, Drop, Inv, TypeOK, Rare
<1>4. TypeOK'
  BY <1>1, <1>2, <1>3 DEF Inv, TypeOK
<1>5. OwnRuns' /\ NoStartLost'
  BY <1>1 DEF Inv, OwnRuns, NoStartLost, Submitted
<1>6. RunsOK'
  BY <1>1, RunKept DEF Inv, RunsOK, Kept
<1>7. HalfStarted'
  BY <1>1 DEF Inv, HalfStarted, ExecOf
<1> QED BY <1>4, <1>5, <1>6, <1>7 DEF Inv

-----------------------------------------------------------------------------
(* The theorems *)

LEMMA InitOK == Init => Inv
<1> SUFFICES ASSUME Init PROVE Inv
  OBVIOUS
<1>1. \A w \in Workers, i \in Events : run[w][i] = Idle
  BY DEF Init
<1>2. DOMAIN exec = {} /\ handled = {}
  BY DEF Init, Queue!Init
<1>3. TypeOK
  <2>1. exec \in [DOMAIN exec -> Execution]
    BY DEF Init
  <2>2. runs \in [Events -> 0 .. MaxRuns]
    BY WorkerAssumption DEF Init
  <2> QED BY <1>1, <1>2, <2>1, <2>2 DEF Init, Queue!Init, TypeOK
<1>4. OwnRuns /\ RunsOK
  BY <1>1, <1>2 DEF OwnRuns, RunsOK, RunOK
<1>5. NoStartLost /\ HalfStarted
  BY <1>2 DEF NoStartLost, HalfStarted
<1> QED BY <1>3, <1>4, <1>5 DEF Inv

LEMMA NextKeeps == Inv /\ [Next]_vars => Inv'
<1> SUFFICES ASSUME Inv, [Next]_vars PROVE Inv'
  OBVIOUS
<1>1. ASSUME NEW i \in Events, Publish(i) \/ Settle(i) \/ Drop(i)
      PROVE  Inv'
  BY <1>1, QueueOK
<1>2. ASSUME NEW w \in Workers, NEW i \in Events, Begin(w, i)
      PROVE  Inv'
  BY <1>2, BeginOK
<1>3. ASSUME NEW w \in Workers, NEW i \in Events, Handler(w, i)
      PROVE  Inv'
  <2>1. CASE FindAttachedWorkflows(w, i)
    <3>1. /\ At(w, i, "find") /\ To(w, i, "next", Attached[i], None)
          /\ UNCHANGED <<open, handled, dropped, runs, exec, failed, spent>>
      BY <2>1 DEF FindAttachedWorkflows, queue
    <3>2. failed' = failed \cup ({i} \X (Attached[i] \ Attached[i]))
      BY <3>1
    <3>3. spent' \in [Rare -> Nat]
      BY <3>1 DEF Inv, TypeOK
    <3> QED BY <3>1, <3>2, <3>3, FindOK
  <2>2. ASSUME NEW f \in Workflows, Next1(w, i, f) PROVE Inv'
    BY <2>2, NextOK
  <2>3. CASE Create(w, i)
    BY <2>3, CreateOK
  <2>4. CASE Start(w, i) \/ Load(w, i) \/ Persist(w, i)
    BY <2>4, StepsOK
  <2>5. CASE Record(w, i)
    BY <2>5, RecordOK
  <2>6. CASE Return(w, i)
    BY <2>6, ReturnOK
  <2> QED BY <1>3, <2>1, <2>2, <2>3, <2>4, <2>5, <2>6 DEF Handler
<1>4. ASSUME NEW w \in Workers, NEW i \in Events, FindError(w, i)
      PROVE  Inv'
  <2>1. /\ At(w, i, "find") /\ To(w, i, "next", {}, None)
        /\ UNCHANGED <<open, handled, dropped, runs, exec>>
    BY <1>4 DEF FindError, queue
  <2>2. failed' = failed \cup ({i} \X (Attached[i] \ {}))
    BY <1>4 DEF FindError
  <2>3. spent' \in [Rare -> Nat]
    BY <1>4, OnceType DEF FindError, Inv, Rare
  <2> QED BY <2>1, <2>2, <2>3, FindOK
<1>5. ASSUME NEW w \in Workers, NEW i \in Events, StepError(w, i)
      PROVE  Inv'
  BY <1>5, StepErrorOK
<1>6. ASSUME NEW e \in DOMAIN exec, Function(e)
      PROVE  Inv'
  BY <1>6, FunctionOK
<1>7. ASSUME NEW w \in Workers, Crash(w)
      PROVE  Inv'
  BY <1>7, CrashOK
<1>8. CASE UNCHANGED vars
  <2>1. UNCHANGED <<open, handled, dropped, runs, run, exec, failed, spent>>
    BY <1>8 DEF vars
  <2>2. TypeOK'
    BY <2>1 DEF Inv, TypeOK
  <2>3. OwnRuns' /\ NoStartLost'
    BY <2>1 DEF Inv, OwnRuns, NoStartLost, Submitted
  <2>4. RunsOK'
    BY <2>1, RunKept DEF Inv, RunsOK, Kept
  <2>5. HalfStarted'
    BY <2>1 DEF Inv, HalfStarted, ExecOf
  <2> QED BY <2>2, <2>3, <2>4, <2>5 DEF Inv
<1> QED BY <1>1, <1>2, <1>3, <1>4, <1>5, <1>6, <1>7, <1>8 DEF Next

THEOREM Invariance == Spec => []Inv
  BY InitOK, NextKeeps, PTL DEF Spec

\* The variables of the worker and of the queue keep their types.
THEOREM TypeCorrect == Spec => []TypeOK
<1>1. Inv => TypeOK
  BY DEF Inv
<1> QED BY <1>1, Invariance, PTL

\* processGlobalEvent: when an event counts as handled, each workflow attached
\* to it has an execution that has got it, or a command has failed.
THEOREM StartsKept == Spec => []NoStartLost
<1>1. Inv => NoStartLost
  BY DEF Inv
<1> QED BY <1>1, Invariance, PTL

\* startWorkflowFromEvent: only a failed command or the end of its worker
\* leaves an execution without its event, or without a row that shows it.
THEOREM NoHalfStart == Spec => []HalfStarted
<1>1. Inv => HalfStarted
  BY DEF Inv
<1> QED BY <1>1, Invariance, PTL

=============================================================================
