----------------------------- MODULE MapReduce -----------------------------
(***************************************************************************)
(* The MapReduce of src/src/mr: the coordinator with its task queues,      *)
(* counts and timeout goroutines, and workers that write files and may     *)
(* crash.  The coordinator's handlers and goroutines run under c.mutex, so *)
(* each is one action; a worker talks to it over a local socket that loses *)
(* nothing.                                                                *)
(***************************************************************************)
EXTENDS Integers, FiniteSets, FiniteSetsExt, Bags

CONSTANTS
    Worker,      \* the worker processes
    Nobody,      \* the owner of a task that was never assigned
    NMap,        \* number of input files (totalMapTask)
    NReduce,     \* nReduce
    Emits,       \* Emits[m]: the reduce tasks map task m emits keys for
    MaxCrashes,  \* bound: workers that crash
    MaxSlow      \* bound: assignments that time out although the worker lives

MapTask == 0 .. NMap - 1
ReduceTask == 0 .. NReduce - 1

ASSUME TaskAssumption ==
    /\ NMap \in Nat \ {0} /\ NReduce \in Nat \ {0}
    /\ Emits \in [MapTask -> SUBSET ReduceTask]

ASSUME WorkerAssumption ==
    IsFiniteSet(Worker) /\ Nobody \notin Worker /\ MaxCrashes \in Nat /\ MaxSlow \in Nat

VARIABLES
    mapState,      \* taskState of each task of mapTaskQueue
    reduceState,   \* taskState of each task of reduceTaskQueue
    remainMap,     \* remainMapTaskCount
    remainReduce,  \* remainReduceTaskCount
    curPtrTask,    \* where the search for an idle task starts
    owner,         \* the worker whose assignment task.cancel belongs to
    watch,         \* bag of goroutines waiting for a context: task, worker, and
                   \* whether the context was cancelled
    coord,         \* the coordinator: running, done (Done() returned true and
                   \* keeps the mutex) or panicked
    worker,        \* what each worker is doing
    files,         \* intermediate files mr-m-r
    out,           \* out[r]: the map tasks whose keys are in mr-out-r
    crashes, slow  \* counters of the bounded faults

coordVars == <<mapState, reduceState, remainMap, remainReduce, curPtrTask, owner,
               watch, coord>>
vars == <<mapState, reduceState, remainMap, remainReduce, curPtrTask, owner, watch,
          coord, worker, files, out, crashes, slow>>

\* A worker without a task.
Without(doing) == [doing |-> doing, task |-> 0, todo |-> {}]

Task == ({"MAP"} \X MapTask) \cup ({"REDUCE"} \X ReduceTask)

-----------------------------------------------------------------------------
(* The coordinator.                                                        *)

\* The first idle task of a circular queue of n, searched from cur; n if none.
NextIdle(taskState, n, cur) ==
    LET idle == {k \in 0 .. n - 1 : taskState[(cur + k) % n] = "IDLE"}
    IN IF idle = {} THEN n ELSE (cur + Min(idle)) % n

Context(t, w, cancelled) == [task |-> t, worker |-> w, cancelled |-> cancelled]

\* Mutant of Assign: the pointer moves on to the next task without wrapping.
AssignAdvances(w, t) ==
    /\ curPtrTask' = t[2] + 1
    /\ owner' = [owner EXCEPT ![t] = w]
    /\ watch' = watch (+) SetToBag({Context(t, w, FALSE)})

\* GetTask hands task t to worker w, with a context of ten seconds and a
\* goroutine that waits for its end.
Assign(w, t) ==
    /\ curPtrTask' = t[2]
    /\ owner' = [owner EXCEPT ![t] = w]
    /\ watch' = watch (+) SetToBag({Context(t, w, FALSE)})

\* GetTask when map tasks remain.  The pointer may be beyond the map queue when
\* a late completion has made the count negative: the index panics, and with it
\* the process.
GetMapTask(w) ==
    LET m == NextIdle(mapState, NMap, curPtrTask) IN
    /\ coord = "running" /\ worker[w].doing = "asking" /\ remainMap # 0
    /\ \/ /\ curPtrTask >= NMap
          /\ coord' = "panicked"
          /\ UNCHANGED <<mapState, curPtrTask, owner, watch, worker>>
       \/ /\ curPtrTask < NMap /\ m < NMap
          /\ mapState' = [mapState EXCEPT ![m] = "WORK"]
          /\ Assign(w, <<"MAP", m>>)
          /\ worker' = [worker EXCEPT ![w] = [doing |-> "map", task |-> m, todo |-> Emits[m]]]
          /\ UNCHANGED coord
    /\ UNCHANGED <<reduceState, remainMap, remainReduce, files, out, crashes, slow>>

\* GetTask when only reduce tasks remain.
GetReduceTask(w) ==
    LET r == NextIdle(reduceState, NReduce, curPtrTask) IN
    /\ coord = "running" /\ worker[w].doing = "asking"
    /\ remainMap = 0 /\ remainReduce # 0
    /\ r < NReduce
    /\ reduceState' = [reduceState EXCEPT ![r] = "WORK"]
    /\ Assign(w, <<"REDUCE", r>>)
    /\ worker' = [worker EXCEPT ![w] = [doing |-> "reduce", task |-> r, todo |-> {}]]
    /\ UNCHANGED <<mapState, remainMap, remainReduce, coord, files, out, crashes, slow>>

\* GetTask when nothing remains: the worker is told to finish.
GetFinish(w) ==
    /\ coord = "running" /\ worker[w].doing = "asking"
    /\ remainMap = 0 /\ remainReduce = 0
    /\ worker' = [worker EXCEPT ![w] = Without("exited")]
    /\ UNCHANGED <<coordVars, files, out, crashes, slow>>

\* Mutant of Reset: a complete task becomes idle as well.
ResetAlways(taskState) == "IDLE"

\* Mutant of Reset: a task that was handed out stays with its worker.
ResetNever(taskState) == taskState

\* A task whose context is done, unless it is complete, may be handed out again.
Reset(taskState) == IF taskState = "COMPLETE" THEN taskState ELSE "IDLE"

\* The goroutine of GetTask, once its context has timed out or was cancelled: a
\* task that is not complete becomes idle again, whoever works on it by now.
ContextDone(g) ==
    LET t == g.task IN
    /\ coord = "running"
    /\ BagIn(g, watch)
    /\ \/ g.cancelled /\ UNCHANGED slow
       \/ ~g.cancelled /\ worker[g.worker].doing = "crashed" /\ UNCHANGED slow
       \/ ~g.cancelled /\ worker[g.worker].doing # "crashed" /\ slow < MaxSlow /\ slow' = slow + 1
    /\ watch' = watch (-) SetToBag({g})
    /\ IF t[1] = "MAP"
       THEN /\ mapState' = [mapState EXCEPT ![t[2]] = Reset(@)]
            /\ UNCHANGED reduceState
       ELSE /\ reduceState' = [reduceState EXCEPT ![t[2]] = Reset(@)]
            /\ UNCHANGED mapState
    /\ UNCHANGED <<remainMap, remainReduce, curPtrTask, owner, coord, worker, files, out, crashes>>

\* task.cancel(): ends the context of the task's last assignment.
Cancel(t) ==
    LET g == Context(t, owner[t], FALSE) IN
    watch' = IF BagIn(g, watch)
             THEN (watch (-) SetToBag({g})) (+) SetToBag({Context(t, owner[t], TRUE)})
             ELSE watch

\* CompleteTask for a map task, called when all its files are in place.
CompleteMapTask(w) ==
    LET m == worker[w].task
        last == remainMap = 1
    IN
    /\ coord = "running"
    /\ worker[w].doing = "map" /\ worker[w].todo = {}
    /\ mapState' = [mapState EXCEPT ![m] = "COMPLETE"]
    /\ Cancel(<<"MAP", m>>)
    /\ remainMap' = remainMap - 1
    /\ reduceState' = [r \in ReduceTask |-> IF r \in Emits[m] THEN "IDLE" ELSE reduceState[r]]
    /\ remainReduce' = IF last THEN Cardinality({r \in ReduceTask : reduceState'[r] = "IDLE"})
                               ELSE remainReduce
    /\ curPtrTask' = IF last THEN 0 ELSE curPtrTask
    /\ worker' = [worker EXCEPT ![w] = Without("asking")]
    /\ UNCHANGED <<owner, coord, files, out, crashes, slow>>

\* CompleteTask for a reduce task.
CompleteReduceTask(w) ==
    LET r == worker[w].task IN
    /\ coord = "running"
    /\ worker[w].doing = "written"
    /\ reduceState' = [reduceState EXCEPT ![r] = "COMPLETE"]
    /\ Cancel(<<"REDUCE", r>>)
    /\ remainReduce' = remainReduce - 1
    /\ worker' = [worker EXCEPT ![w] = Without("asking")]
    /\ UNCHANGED <<mapState, remainMap, curPtrTask, owner, coord, files, out, crashes, slow>>

\* Mutant of Done: looks at the map tasks only.
DoneAfterMaps ==
    /\ coord = "running"
    /\ remainMap = 0
    /\ coord' = "done"
    /\ UNCHANGED <<mapState, reduceState, remainMap, remainReduce, curPtrTask, owner, watch,
                   worker, files, out, crashes, slow>>

\* Done, polled by main/mrcoordinator.go.  It returns true without unlocking,
\* and the process ends a second later.
Done ==
    /\ coord = "running"
    /\ remainMap = 0 /\ remainReduce = 0
    /\ coord' = "done"
    /\ UNCHANGED <<mapState, reduceState, remainMap, remainReduce, curPtrTask, owner, watch,
                   worker, files, out, crashes, slow>>

-----------------------------------------------------------------------------
(* Workers.                                                                *)

\* Mutant of RenameFile: only the first temporary file gets its name.
RenameFirstOnly(w) ==
    /\ worker[w].doing = "map" /\ worker[w].todo # {}
    /\ files' = files \cup {<<worker[w].task, Min(worker[w].todo)>>}
    /\ worker' = [worker EXCEPT ![w].todo = {}]
    /\ UNCHANGED <<coordVars, out, crashes, slow>>

\* Map: the keys are written to temporary files, which are renamed one by one.
RenameFile(w) ==
    /\ worker[w].doing = "map" /\ worker[w].todo # {}
    /\ LET r == Min(worker[w].todo) IN
       /\ files' = files \cup {<<worker[w].task, r>>}
       /\ worker' = [worker EXCEPT ![w].todo = @ \ {r}]
    /\ UNCHANGED <<coordVars, out, crashes, slow>>

\* Reduce: createReadFileHandle opens every file of the task it finds, ...
OpenFiles(w) ==
    /\ worker[w].doing = "reduce"
    /\ worker' = [worker EXCEPT ![w].doing = "opened",
                       ![w].todo = {m \in MapTask : <<m, worker[w].task>> \in files}]
    /\ UNCHANGED <<coordVars, files, out, crashes, slow>>

\* ... os.Create truncates mr-out-r, ...
CreateOutput(w) ==
    /\ worker[w].doing = "opened"
    /\ out' = [out EXCEPT ![worker[w].task] = {}]
    /\ worker' = [worker EXCEPT ![w].doing = "created"]
    /\ UNCHANGED <<coordVars, files, crashes, slow>>

\* ... and the sorted and reduced keys are written.
WriteOutput(w) ==
    /\ worker[w].doing = "created"
    /\ out' = [out EXCEPT ![worker[w].task] = worker[w].todo]
    /\ worker' = [worker EXCEPT ![w].doing = "written"]
    /\ UNCHANGED <<coordVars, files, crashes, slow>>

Crash(w) ==
    /\ worker[w].doing \notin {"crashed", "exited"}
    /\ crashes < MaxCrashes
    /\ crashes' = crashes + 1
    /\ worker' = [worker EXCEPT ![w] = Without("crashed")]
    /\ UNCHANGED <<coordVars, files, out, slow>>

\* Mutant of Disconnected: the worker calls again and again.
DisconnectedRetries(w) == coord # "running" /\ UNCHANGED vars

\* A call fails once the coordinator's process is gone, and the worker ends.
Disconnected(w) ==
    /\ coord # "running"
    /\ \/ worker[w].doing \in {"asking", "written"}
       \/ worker[w].doing = "map" /\ worker[w].todo = {}
    /\ worker' = [worker EXCEPT ![w] = Without("exited")]
    /\ UNCHANGED <<coordVars, files, out, crashes, slow>>

-----------------------------------------------------------------------------

\* MakeCoordinator: reduce tasks are complete until a map task emits for them.
Init ==
    /\ mapState = [m \in MapTask |-> "IDLE"]
    /\ reduceState = [r \in ReduceTask |-> "COMPLETE"]
    /\ remainMap = NMap
    /\ remainReduce = NReduce
    /\ curPtrTask = 0
    /\ owner = [t \in Task |-> Nobody]
    /\ watch = EmptyBag
    /\ coord = "running"
    /\ worker = [w \in Worker |-> Without("asking")]
    /\ files = {}
    /\ out = [r \in ReduceTask |-> {}]
    /\ crashes = 0
    /\ slow = 0

WorkerStep(w) ==
    \/ GetMapTask(w)
    \/ GetReduceTask(w)
    \/ GetFinish(w)
    \/ RenameFile(w)
    \/ CompleteMapTask(w)
    \/ OpenFiles(w)
    \/ CreateOutput(w)
    \/ WriteOutput(w)
    \/ CompleteReduceTask(w)
    \/ Disconnected(w)

Next ==
    \/ Done
    \/ \E g \in BagToSet(watch) : ContextDone(g)
    \/ \E w \in Worker : WorkerStep(w) \/ Crash(w)

Spec == Init /\ [][Next]_vars

\* Main polls Done, a context ends once its worker has crashed or its task is
\* complete, and a worker that has not crashed goes on.  Nothing makes a worker
\* slow, or crashes it.
FairSpec ==
    /\ Spec
    /\ WF_vars(Done)
    /\ WF_vars((\E g \in BagToSet(watch) : ContextDone(g)) /\ UNCHANGED slow)
    /\ \A w \in Worker : WF_vars(WorkerStep(w))

-----------------------------------------------------------------------------
(* Properties.                                                             *)

TaskState == {"IDLE", "WORK", "COMPLETE"}

WorkerState == [doing : {"asking", "map", "reduce", "opened", "created", "written",
                         "crashed", "exited"},
                task : MapTask \cup ReduceTask,
                todo : SUBSET (MapTask \cup ReduceTask)]

\* Every variable keeps its type.
TypeOK ==
    /\ mapState \in [MapTask -> TaskState]
    /\ reduceState \in [ReduceTask -> TaskState]
    /\ remainMap \in Int /\ remainReduce \in Int
    /\ curPtrTask \in MapTask \cup ReduceTask
    /\ owner \in [Task -> Worker \cup {Nobody}]
    /\ IsABag(watch)
    /\ BagToSet(watch) \subseteq [task : Task, worker : Worker, cancelled : BOOLEAN]
    /\ coord \in {"running", "done", "panicked"}
    /\ worker \in [Worker -> WorkerState]
    /\ files \subseteq MapTask \X ReduceTask
    /\ out \in [ReduceTask -> SUBSET MapTask]
    /\ crashes \in 0 .. MaxCrashes /\ slow \in 0 .. MaxSlow

\* A map task is complete only when all its files have their final names, also
\* when it is given out again or finished by a worker that was thought dead.
CompleteMapHasFiles ==
    \A m \in MapTask : mapState[m] = "COMPLETE" => {m} \X Emits[m] \subseteq files

\* lab1/readme.md:45: a reduce task runs only when all map tasks are complete.
\* CompleteTask counts completions, and the count is what GetTask looks at.
ReduceAfterMap ==
    (\E w \in Worker : worker[w].doing \in {"reduce", "opened", "created", "written"})
        => \A m \in MapTask : mapState[m] = "COMPLETE"

\* coordinator.go:50 and 51: the counts are the numbers of unfinished tasks, the
\* second one from the end of the map phase on, as long as no worker outlives its
\* timeout.
CountsExact ==
    slow = 0 =>
        /\ remainMap = Cardinality({m \in MapTask : mapState[m] # "COMPLETE"})
        /\ remainMap = 0 =>
               remainReduce = Cardinality({r \in ReduceTask : reduceState[r] # "COMPLETE"})

\* When Done returns true and no worker has outlived its timeout, every output file
\* holds what all map tasks emitted for it, although crashed workers left files half
\* written.
OutputComplete ==
    coord = "done" /\ slow = 0 =>
        \A r \in ReduceTask : out[r] = {m \in MapTask : r \in Emits[m]}

\* lab1/readme.md:21: Done() returns true in the end, whichever workers crash as
\* long as one is left, unless a worker outlives its timeout.
JobFinishes == <>(coord = "done" \/ slow > 0)

\* lab1/readme.md:23: every worker that has not crashed ends in the end, unless one
\* outlives its timeout.
WorkersExit ==
    <>(slow > 0) \/ <>[](\A w \in Worker : worker[w].doing \in {"exited", "crashed"})

=============================================================================
