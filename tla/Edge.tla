-------------------------------- MODULE Edge --------------------------------
(* Edge computing: the node registry and its scores (node.rs), the life of a *)
(* task (task.rs) and the counters of EDGE_STATE (mod.rs).  Ticks are the     *)
(* timer's; kernel_loop calls edge::tick when the tick it samples is a        *)
(* multiple of 1000, and may miss any number of those.                       *)
EXTENDS Naturals, FiniteSets

CONSTANTS EdgeNodes,  \* ids in the registry
          ProfileOf,  \* id -> capability profile, in percent of the scales
          StateOf,    \* id -> state it is registered with
          Kinds,      \* kinds of task submitted
          MaxTasks,   \* bound: tasks submitted
          Rounds      \* bound: when edge::tick may run, in thousands of ticks

ASSUME EdgeAssumption ==
  /\ StateOf \in [EdgeNodes -> {"discovered", "online"}]
  /\ MaxTasks \in Nat /\ Rounds \subseteq Nat \ {0}

VARIABLES
  round,      \* the last tick edge::tick was called with, in thousands
  tasks,      \* TASK_QUEUE.tasks: id -> task, ids counting from 1
  completed,  \* TASK_QUEUE.completed
  edgeState,  \* EDGE_STATE's counters
  uncounted   \* submissions between task::submit and the counter

edgeVars == << round, tasks, completed, edgeState, uncounted >>

EdgeInit ==
  /\ round = 0 /\ tasks = << >> /\ completed = {} /\ uncounted = 0
  /\ edgeState = [submitted |-> 0, completed |-> 0, failed |-> 0]

(* TaskKind::base_duration_ms. *)
BaseDuration(kind) == CASE kind = "Compute" -> 50
                        [] kind = "MLInference" -> 200
                        [] kind = "Render3D" -> 500
                        [] kind = "DataProcessing" -> 30
                        [] kind = "Compression" -> 20
                        [] kind = "Encryption" -> 10
                        [] kind = "QuantumOffload" -> 2000

----------------------------------------------------------------------------
(* Nodes.  A score is a product of fractions: here each is in hundredths.    *)
Percent(x, p) == (x * p) \div 100

ScoreFor(n, kind) ==
  LET p == ProfileOf[n]
      gpu == IF kind \in {"MLInference", "Render3D"} THEN p.gpu ELSE 20
      latency == 100 - (IF p.latency < 90 THEN p.latency ELSE 90)
      temp == IF p.hot THEN 50 ELSE 100
      battery == IF p.lowBattery THEN 30 ELSE 100
      ability == 35 * p.cpu + 20 * p.mem + 25 * gpu
  IN IF kind \notin p.supported THEN 0
     ELSE Percent(Percent(Percent(Percent(ability, 100 - p.load), latency), temp), battery)

(* is_available; nothing raises tasks_active, so the count never refuses and  *)
(* score_for_task's busy penalty is always 1.                                *)
Available(n) == StateOf[n] = "online"

(* best_node_for: a node that cannot do the task at all still scores 0, and   *)
(* of equal scores max_by takes the last.                                    *)
BestFor(kind) ==
  LET open == {n \in EdgeNodes : Available(n)}
  IN {n \in open : \A m \in open : \/ ScoreFor(m, kind) < ScoreFor(n, kind)
                                   \/ ScoreFor(m, kind) = ScoreFor(n, kind) /\ m <= n}

----------------------------------------------------------------------------
(* EdgeTask::new, always with tick 0: deadlines are absolute from boot. *)
NoNode == 0
NewTask(kind) == [kind |-> kind, state |-> "queued", node |-> NoNode, started |-> 0]
Deadline(task) == 10 * BaseDuration(task.kind)

(* submit_task: the queue's lock, then, on its own, EDGE_STATE's. *)
Submit(kind) ==
  /\ Cardinality(DOMAIN tasks) < MaxTasks /\ \E r \in Rounds : r > round
  /\ tasks' = [i \in 1 .. Cardinality(DOMAIN tasks) + 1 |->
                 IF i \in DOMAIN tasks THEN tasks[i] ELSE NewTask(kind)]
  /\ uncounted' = uncounted + 1
  /\ UNCHANGED << round, completed, edgeState >>

CountSubmitted ==
  /\ uncounted > 0
  /\ uncounted' = uncounted - 1
  /\ edgeState' = [edgeState EXCEPT !.submitted = @ + 1]
  /\ UNCHANGED << round, tasks, completed >>

(* process: a queued task starts on the best node; a running one completes    *)
(* when its time is over; then, either way, an overdue one is given up.      *)
\* TaskState::Dispatched, which no later pass looks at.
DispatchedOnly(task, tick) == [task EXCEPT !.state = "dispatched"]

Dispatched(task, tick) ==
  IF BestFor(task.kind) = {} THEN task
  ELSE [task EXCEPT !.state = "running", !.started = tick,
                    !.node = CHOOSE n \in BestFor(task.kind) : TRUE]

Advanced(task, tick) ==
  CASE task.state = "queued" -> Dispatched(task, tick)
    [] task.state = "running" /\ tick - task.started >= BaseDuration(task.kind) ->
         [task EXCEPT !.state = "completed"]
    [] OTHER -> task

\* Every overdue task is given up, the ones that just completed too.
GivesUpAll(task, tick) == tick > Deadline(task)

GivesUp(task, tick) == tick > Deadline(task) /\ task.state \in {"queued", "running"}

GivenUp(task, tick) ==
  IF GivesUp(task, tick) THEN [task EXCEPT !.state = "timed_out"] ELSE task

Processed(task, tick) == GivenUp(Advanced(task, tick), tick)

EdgeTick ==
  \E r \in {x \in Rounds : x > round} :
    LET after == [i \in DOMAIN tasks |-> Processed(tasks[i], 1000 * r)]
        finished == {i \in DOMAIN tasks : /\ tasks[i].state = "running"
                                          /\ Advanced(tasks[i], 1000 * r).state = "completed"}
        lost == {i \in DOMAIN tasks : GivesUp(Advanced(tasks[i], 1000 * r), 1000 * r)}
    IN /\ round' = r
       /\ tasks' = after
       /\ completed' = completed \cup finished
       /\ edgeState' = [edgeState EXCEPT !.completed = @ + Cardinality(finished),
                                         !.failed = @ + Cardinality(lost)]
       /\ UNCHANGED uncounted

EdgeNext == (\E kind \in Kinds : Submit(kind)) \/ CountSubmitted \/ EdgeTick
EdgeFairness == WF_edgeVars(EdgeTick)
EdgeSpec == EdgeInit /\ [][EdgeNext]_edgeVars

----------------------------------------------------------------------------
Task == [kind : Kinds, state : {"queued", "running", "completed", "timed_out"},
         node : EdgeNodes \cup {NoNode}, started : Nat]

EdgeTypeOK ==
  /\ round \in Rounds \cup {0}
  /\ DOMAIN tasks \subseteq 1 .. MaxTasks
  /\ \A i \in DOMAIN tasks : tasks[i] \in Task
  /\ completed \subseteq DOMAIN tasks
  /\ edgeState \in [submitted : Nat, completed : Nat, failed : Nat]
  /\ uncounted \in Nat

InState(s) == {i \in DOMAIN tasks : tasks[i].state = s}

(* A task is settled once and counted where it settled: the counters of       *)
(* EDGE_STATE, the queue's list of completed tasks and the states of the      *)
(* tasks agree, although a task may complete and be overdue in one pass       *)
(* (process, lines 151 to 180), and submissions lag by those in progress.    *)
SettledOnce ==
  /\ completed = InState("completed")
  /\ edgeState.completed = Cardinality(completed)
  /\ edgeState.failed = Cardinality(InState("timed_out"))
  /\ edgeState.submitted + uncounted = Cardinality(DOMAIN tasks)

(* Every task submitted is settled in the end, completed or timed out, as     *)
(* long as kernel_loop meets one of the multiples of 1000 that are left.     *)
EveryTaskSettles ==
  \A i \in 1 .. MaxTasks :
    i \in DOMAIN tasks ~> i \in InState("completed") \cup InState("timed_out")
=============================================================================
