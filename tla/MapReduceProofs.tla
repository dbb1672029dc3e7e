-------------------------- MODULE MapReduceProofs --------------------------
(***************************************************************************)
(* Theorems about MapReduce: a complete map task has its files, and as     *)
(* long as no worker outlives its timeout the coordinator's counts are     *)
(* exact and the output is complete, whichever workers crash.              *)
(***************************************************************************)
EXTENDS MapReduce, FiniteSetTheorems, TLAPS

\* Every leaf is tried with Zenon for a moment, then with SMT, then with each of
\* them for longer.
USE ZenonT(2), SMTT(10), ZenonT(20), SMTT(40)

\* The worker is at a reduce task.
Reducing == {"reduce", "opened", "created", "written"}

\* A worker's task is of the kind it is at, and so is what it has to do.
WorkerTypes ==
    \A w \in Worker :
        /\ worker[w].doing = "map" =>
               worker[w].task \in MapTask /\ worker[w].todo \subseteq ReduceTask
        /\ worker[w].doing \in Reducing =>
               worker[w].task \in ReduceTask /\ worker[w].todo \subseteq MapTask

\* Temporary files that were renamed are in place.
RenamedInPlace ==
    \A w \in Worker : worker[w].doing = "map" =>
        {worker[w].task} \X (Emits[worker[w].task] \ worker[w].todo) \subseteq files

FilesInv == TypeOK /\ WorkerTypes /\ RenamedInPlace /\ CompleteMapHasFiles

-----------------------------------------------------------------------------
(* As long as no worker outlives its timeout.                              *)

StateOf(t) == IF t[1] = "MAP" THEN mapState[t[2]] ELSE reduceState[t[2]]

\* The task a worker in state s is at, if it is at one.
TaskOf(s) == <<IF s.doing = "map" THEN "MAP" ELSE "REDUCE", s.task>>

Busy(s) == s.doing \in {"map"} \cup Reducing

\* One goroutine waits for the end of an assignment, the last one of its task.
Watched ==
    \A g \in DOMAIN watch :
        /\ ~g.cancelled => /\ watch[g] = 1
                           /\ StateOf(g.task) = "WORK"
                           /\ owner[g.task] = g.worker
        /\ g.cancelled => StateOf(g.task) = "COMPLETE"

\* A task is worked on by the worker it was assigned to last.
Owned ==
    \A w \in Worker : Busy(worker[w]) =>
        StateOf(TaskOf(worker[w])) = "WORK" /\ owner[TaskOf(worker[w])] = w

Unfinished(taskState, tasks) == {k \in tasks : taskState[k] # "COMPLETE"}

\* The map tasks with keys for reduce task r.
Emitters(r) == {m \in MapTask : r \in Emits[m]}

\* Before the last map task is complete no reduce task is given out; a reduce task is
\* idle once a complete map task emits for it.
MapPhase ==
    remainMap # 0 =>
        /\ \A w \in Worker : worker[w].doing \notin Reducing
        /\ \A g \in DOMAIN watch : g.task[1] = "MAP"
        /\ \A r \in ReduceTask :
               /\ reduceState[r] = IF \E m \in Emitters(r) : mapState[m] = "COMPLETE"
                                   THEN "IDLE" ELSE "COMPLETE"
               /\ out[r] = {}

\* Afterwards a reduce task sees every file and writes what all of them hold.
ReducePhase ==
    remainMap = 0 =>
        /\ remainReduce = Cardinality(Unfinished(reduceState, ReduceTask))
        /\ \A w \in Worker :
               /\ worker[w].doing \in {"opened", "created"} =>
                      worker[w].todo = Emitters(worker[w].task)
               /\ worker[w].doing = "written" =>
                      out[worker[w].task] = Emitters(worker[w].task)
        /\ \A r \in ReduceTask : reduceState[r] = "COMPLETE" => out[r] = Emitters(r)

\* The only files are those that map tasks emit.
OnlyEmitted ==
    /\ \A f \in files : f[2] \in Emits[f[1]]
    /\ \A w \in Worker : worker[w].doing = "map" => worker[w].todo \subseteq Emits[worker[w].task]

Exact ==
    /\ Watched /\ Owned
    /\ remainMap = Cardinality(Unfinished(mapState, MapTask))
    /\ MapPhase /\ ReducePhase

\* When the coordinator is done nothing remains.
DoneAtEnd == coord = "done" => remainMap = 0 /\ remainReduce = 0

OnTime == slow = 0 => Exact

IInv == FilesInv /\ OnlyEmitted /\ DoneAtEnd /\ OnTime

-----------------------------------------------------------------------------
(* Operators.                                                              *)

\* Min of a non-empty set of naturals is in it.
LEMMA MinIn ==
  ASSUME NEW S \in SUBSET Nat, S # {}
  PROVE  Min(S) \in S
  <1>1. PICK x \in S : \A y \in S : ~(<<y, x>> \in OpToRel(<, Nat))
    BY NatLessThanWellFounded, WFMin
  <1>2. \A y \in S : ~(y < x)
    BY <1>1 DEF OpToRel
  <1>3. \A y \in S : x <= y
    BY <1>2
  <1> QED
    BY <1>3 DEF Min

\* The search of GetTask finds an idle task or none.
LEMMA NextIdleFinds ==
  ASSUME NEW s, NEW n \in Nat \ {0}, NEW cur \in Nat
  PROVE  /\ NextIdle(s, n, cur) \in 0 .. n
         /\ NextIdle(s, n, cur) < n => s[NextIdle(s, n, cur)] = "IDLE"
  <1> DEFINE idle == {k \in 0 .. n - 1 : s[(cur + k) % n] = "IDLE"}
  <1>1. CASE idle = {}
    BY <1>1 DEF NextIdle
  <1>2. CASE idle # {}
    <2>1. PICK k : k = Min(idle)
      OBVIOUS
    <2>2. k \in idle
      <3>1. idle \in SUBSET Nat
        OBVIOUS
      <3> HIDE DEF idle
      <3> QED
        BY <1>2, <2>1, <3>1, MinIn
    <2>3. k \in 0 .. n - 1 /\ s[(cur + k) % n] = "IDLE"
      BY <2>2
    <2>4. (cur + k) % n \in 0 .. n - 1
      BY <2>3
    <2>5. NextIdle(s, n, cur) = (cur + k) % n
      BY <1>2, <2>1 DEF NextIdle
    <2> QED
      BY <2>3, <2>4, <2>5
  <1> QED
    BY <1>1, <1>2

\* C is B with one x more, or with one less.
WithOne(B, x, C) ==
    /\ IsABag(C)
    /\ DOMAIN C = DOMAIN B \cup {x}
    /\ \A e \in DOMAIN B \ {x} : C[e] = B[e]
    /\ x \notin DOMAIN B => C[x] = 1

LessOne(B, x, C) ==
    /\ IsABag(C)
    /\ DOMAIN C \subseteq DOMAIN B
    /\ DOMAIN B \ {x} \subseteq DOMAIN C
    /\ \A e \in DOMAIN B \ {x} : C[e] = B[e]
    /\ B[x] = 1 => x \notin DOMAIN C

LEMMA Adding ==
  ASSUME NEW B, IsABag(B), NEW x
  PROVE  WithOne(B, x, B (+) SetToBag({x}))
  BY DEF WithOne, IsABag, SetToBag, (+)

LEMMA Removing ==
  ASSUME NEW B, IsABag(B), NEW x \in DOMAIN B
  PROVE  LessOne(B, x, B (-) SetToBag({x}))
  BY DEF LessOne, IsABag, SetToBag, (-)

\* Context g, if it is there, is replaced by h.
Replaced(g, h) ==
    /\ IsABag(watch')
    /\ g \notin DOMAIN watch => watch' = watch
    /\ g \in DOMAIN watch => /\ DOMAIN watch' \subseteq DOMAIN watch \cup {h}
                             /\ watch[g] = 1 => g \notin DOMAIN watch'
    /\ \A e \in DOMAIN watch \ {g, h} : e \in DOMAIN watch' /\ watch'[e] = watch[e]

\* Cancelling replaces the context of the last assignment.
LEMMA Cancelling ==
  ASSUME IsABag(watch), NEW t, Cancel(t), NEW g, g = Context(t, owner[t], FALSE),
         NEW h, h = Context(t, owner[t], TRUE)
  PROVE  Replaced(g, h)
  <1>1. g # h
    <2>1. ~g.cancelled /\ h.cancelled
      BY DEF Context
    <2> QED
      BY <2>1
  <1>2. CASE g \notin DOMAIN watch
    BY <1>1, <1>2 DEF Cancel, BagIn, BagToSet, Replaced
  <1>3. CASE g \in DOMAIN watch
    <2>1. PICK B : B = watch (-) SetToBag({g})
      OBVIOUS
    <2>2. watch' = B (+) SetToBag({h})
      BY <1>3, <2>1 DEF Cancel, BagIn, BagToSet
    <2>3. LessOne(watch, g, B)
      BY <1>3, <2>1, Removing
    <2>4. IsABag(B)
      BY <2>3 DEF LessOne
    <2>5. WithOne(B, h, watch')
      BY <2>2, <2>4, Adding
    <2> QED
      BY <1>1, <1>3, <2>3, <2>5 DEF Replaced, LessOne, WithOne
  <1> QED
    BY <1>2, <1>3

-----------------------------------------------------------------------------
(* Types.                                                                  *)

\* What one worker's state must be like.
TypedWorker(s) ==
    /\ s \in WorkerState
    /\ s.doing = "map" => s.task \in MapTask /\ s.todo \subseteq ReduceTask
    /\ s.doing \in Reducing => s.task \in ReduceTask /\ s.todo \subseteq MapTask

LEMMA Tasks ==
  /\ MapTask \subseteq Nat /\ ReduceTask \subseteq Nat
  /\ 0 \in MapTask /\ 0 \in ReduceTask
  /\ \A m \in MapTask : <<"MAP", m>> \in Task
  /\ \A r \in ReduceTask : <<"REDUCE", r>> \in Task
  /\ \A m \in MapTask : Emits[m] \subseteq ReduceTask
  BY TaskAssumption DEF MapTask, ReduceTask, Task

LEMMA WithoutTyped ==
  ASSUME NEW doing \in {"asking", "exited", "crashed"}
  PROVE  TypedWorker(Without(doing))
  BY Tasks DEF TypedWorker, Without, WorkerState, Reducing

\* One worker changes.
LEMMA WorkerTyped ==
  ASSUME TypeOK, WorkerTypes, NEW w \in Worker, NEW s, TypedWorker(s),
         worker' = [worker EXCEPT ![w] = s]
  PROVE  worker' \in [Worker -> WorkerState] /\ WorkerTypes'
  <1>1. /\ worker' \in [Worker -> WorkerState] /\ worker'[w] = s
        /\ \A v \in Worker \ {w} : worker'[v] = worker[v]
    BY DEF TypeOK, TypedWorker
  <1> QED
    BY <1>1 DEF WorkerTypes, TypedWorker

LEMMA AssignTyped ==
  ASSUME TypeOK, NEW w \in Worker, NEW t \in Task, Assign(w, t)
  PROVE  /\ curPtrTask' \in MapTask \cup ReduceTask
         /\ owner' \in [Task -> Worker \cup {Nobody}]
         /\ IsABag(watch')
         /\ BagToSet(watch') \subseteq [task : Task, worker : Worker, cancelled : BOOLEAN]
  <1>1. curPtrTask' \in MapTask \cup ReduceTask /\ owner' \in [Task -> Worker \cup {Nobody}]
    BY DEF Assign, Task, TypeOK
  <1>2. PICK g : g = Context(t, w, FALSE)
    OBVIOUS
  <1>3. g \in [task : Task, worker : Worker, cancelled : BOOLEAN]
    BY <1>2 DEF Context
  <1>4. IsABag(watch) /\ watch' = watch (+) SetToBag({g})
    BY <1>2 DEF TypeOK, Assign
  <1>5. WithOne(watch, g, watch')
    BY <1>4, Adding
  <1> QED
    BY <1>1, <1>3, <1>5 DEF BagToSet, TypeOK, WithOne

LEMMA CancelTyped ==
  ASSUME TypeOK, NEW t \in Task, Cancel(t)
  PROVE  /\ IsABag(watch')
         /\ BagToSet(watch') \subseteq [task : Task, worker : Worker, cancelled : BOOLEAN]
  <1>1. PICK g : g = Context(t, owner[t], FALSE)
    OBVIOUS
  <1>2. PICK h : h = Context(t, owner[t], TRUE)
    OBVIOUS
  <1>3. IsABag(watch)
    BY DEF TypeOK
  <1>4. Replaced(g, h)
    BY <1>1, <1>2, <1>3, Cancelling
  <1>5. CASE g \notin DOMAIN watch
    <2>1. watch' = watch
      BY <1>4, <1>5 DEF Replaced
    <2> QED
      BY <2>1 DEF TypeOK
  <1>6. CASE g \in DOMAIN watch
    <2>1. DOMAIN watch' \subseteq DOMAIN watch \cup {h}
      BY <1>4, <1>6 DEF Replaced
    <2>2. owner[t] \in Worker
      BY <1>1, <1>6 DEF TypeOK, BagToSet, Context
    <2>3. h \in [task : Task, worker : Worker, cancelled : BOOLEAN]
      BY <1>2, <2>2 DEF Context
    <2> QED
      BY <1>4, <2>1, <2>3 DEF BagToSet, TypeOK, Replaced
  <1> QED
    BY <1>5, <1>6

LEMMA GetMapTyped ==
  ASSUME TypeOK, WorkerTypes, NEW w \in Worker, GetMapTask(w)
  PROVE  TypeOK' /\ WorkerTypes'
  <1>1. CASE curPtrTask >= NMap
    <2>1. coord' = "panicked" /\ UNCHANGED <<mapState, curPtrTask, owner, watch, worker>>
      <3>1. curPtrTask \in Nat /\ NMap \in Nat
        BY Tasks, TaskAssumption DEF TypeOK
      <3>2. ~(curPtrTask < NMap)
        BY <1>1, <3>1
      <3> QED
        BY <3>2 DEF GetMapTask
    <2> QED
      BY <2>1 DEF GetMapTask, TypeOK, WorkerTypes
  <1>2. CASE ~(curPtrTask >= NMap)
    <2>1. PICK m : m = NextIdle(mapState, NMap, curPtrTask)
      OBVIOUS
    <2>2. curPtrTask \in Nat
      BY Tasks DEF TypeOK
    <2>3. m \in 0 .. NMap
      BY <2>1, <2>2, TaskAssumption, NextIdleFinds
    <2>4. /\ m < NMap /\ mapState' = [mapState EXCEPT ![m] = "WORK"] /\ Assign(w, <<"MAP", m>>)
          /\ worker' = [worker EXCEPT ![w] = [doing |-> "map", task |-> m, todo |-> Emits[m]]]
          /\ coord' = coord
      BY <1>2, <2>1 DEF GetMapTask
    <2>5. m \in MapTask /\ <<"MAP", m>> \in Task /\ Emits[m] \subseteq ReduceTask
      BY <2>3, <2>4, Tasks, TaskAssumption DEF MapTask
    <2>6. TypedWorker([doing |-> "map", task |-> m, todo |-> Emits[m]])
      BY <2>5 DEF TypedWorker, WorkerState, Reducing
    <2>7. worker' \in [Worker -> WorkerState] /\ WorkerTypes'
      BY <2>4, <2>6, WorkerTyped
    <2>8. /\ curPtrTask' \in MapTask \cup ReduceTask
          /\ owner' \in [Task -> Worker \cup {Nobody}]
          /\ IsABag(watch')
          /\ BagToSet(watch') \subseteq [task : Task, worker : Worker, cancelled : BOOLEAN]
      BY <2>4, <2>5, AssignTyped
    <2>9. mapState' \in [MapTask -> TaskState]
      BY <2>4, <2>5 DEF TypeOK, TaskState
    <2> QED
      BY <2>4, <2>7, <2>8, <2>9 DEF GetMapTask, TypeOK
  <1> QED
    BY <1>1, <1>2

LEMMA GetReduceTyped ==
  ASSUME TypeOK, WorkerTypes, NEW w \in Worker, GetReduceTask(w)
  PROVE  TypeOK' /\ WorkerTypes'
  <1>1. PICK r : r = NextIdle(reduceState, NReduce, curPtrTask)
    OBVIOUS
  <1>2. curPtrTask \in Nat
    BY Tasks DEF TypeOK
  <1>3. r \in 0 .. NReduce
    BY <1>1, <1>2, TaskAssumption, NextIdleFinds
  <1>4. /\ r < NReduce /\ reduceState' = [reduceState EXCEPT ![r] = "WORK"]
        /\ Assign(w, <<"REDUCE", r>>)
        /\ worker' = [worker EXCEPT ![w] = [doing |-> "reduce", task |-> r, todo |-> {}]]
    BY <1>1 DEF GetReduceTask
  <1>5. r \in ReduceTask /\ <<"REDUCE", r>> \in Task
    BY <1>3, <1>4, Tasks, TaskAssumption DEF ReduceTask
  <1>6. TypedWorker([doing |-> "reduce", task |-> r, todo |-> {}])
    BY <1>5 DEF TypedWorker, WorkerState, Reducing
  <1>7. worker' \in [Worker -> WorkerState] /\ WorkerTypes'
    BY <1>4, <1>6, WorkerTyped
  <1>8. /\ curPtrTask' \in MapTask \cup ReduceTask
        /\ owner' \in [Task -> Worker \cup {Nobody}]
        /\ IsABag(watch')
        /\ BagToSet(watch') \subseteq [task : Task, worker : Worker, cancelled : BOOLEAN]
    BY <1>4, <1>5, AssignTyped
  <1>9. reduceState' \in [ReduceTask -> TaskState]
    BY <1>4, <1>5 DEF TypeOK, TaskState
  <1> QED
    BY <1>7, <1>8, <1>9 DEF GetReduceTask, TypeOK

LEMMA ContextDoneTyped ==
  ASSUME TypeOK, WorkerTypes, NEW g \in BagToSet(watch), ContextDone(g)
  PROVE  TypeOK' /\ WorkerTypes'
  <1>1. g \in DOMAIN watch /\ IsABag(watch) /\ watch' = watch (-) SetToBag({g})
    BY DEF TypeOK, BagToSet, ContextDone
  <1>2. IsABag(watch') /\ DOMAIN watch' \subseteq DOMAIN watch
    <2>1. LessOne(watch, g, watch')
      BY <1>1, Removing
    <2> QED
      BY <2>1 DEF LessOne
  <1>3. BagToSet(watch') \subseteq [task : Task, worker : Worker, cancelled : BOOLEAN]
    BY <1>2 DEF TypeOK, BagToSet
  <1>4. \A s \in TaskState : Reset(s) \in TaskState
    BY DEF Reset, TaskState
  <1>5. mapState' \in [MapTask -> TaskState] /\ reduceState' \in [ReduceTask -> TaskState]
    BY <1>4 DEF ContextDone, TypeOK
  <1>6. slow' \in 0 .. MaxSlow
    BY WorkerAssumption DEF ContextDone, TypeOK
  <1> QED
    BY <1>2, <1>3, <1>5, <1>6 DEF ContextDone, TypeOK, WorkerTypes

LEMMA CompleteMapTyped ==
  ASSUME TypeOK, WorkerTypes, NEW w \in Worker, CompleteMapTask(w)
  PROVE  TypeOK' /\ WorkerTypes'
  <1>1. PICK m : m = worker[w].task
    OBVIOUS
  <1>2. m \in MapTask /\ <<"MAP", m>> \in Task /\ Cancel(<<"MAP", m>>)
    BY <1>1, Tasks DEF CompleteMapTask, WorkerTypes
  <1>3. /\ IsABag(watch')
        /\ BagToSet(watch') \subseteq [task : Task, worker : Worker, cancelled : BOOLEAN]
    BY <1>2, CancelTyped
  <1>4. worker' \in [Worker -> WorkerState] /\ WorkerTypes'
    BY WithoutTyped, WorkerTyped DEF CompleteMapTask
  <1>5. /\ mapState' = [mapState EXCEPT ![m] = "COMPLETE"]
        /\ reduceState' = [r \in ReduceTask |-> IF r \in Emits[m] THEN "IDLE" ELSE reduceState[r]]
    BY <1>1 DEF CompleteMapTask
  <1>6. mapState' \in [MapTask -> TaskState] /\ reduceState' \in [ReduceTask -> TaskState]
    BY <1>2, <1>5 DEF TypeOK, TaskState
  <1>7. remainMap' \in Int /\ remainReduce' \in Int
    <2>1. IsFiniteSet(ReduceTask)
      BY TaskAssumption, FS_Interval DEF ReduceTask
    <2>2. {r \in ReduceTask : reduceState'[r] = "IDLE"} \in SUBSET ReduceTask
      OBVIOUS
    <2>3. Cardinality({r \in ReduceTask : reduceState'[r] = "IDLE"}) \in Nat
      BY <2>1, <2>2, FS_Subset, FS_CardinalityType
    <2> QED
      BY <2>3 DEF CompleteMapTask, TypeOK
  <1>8. curPtrTask' \in MapTask \cup ReduceTask
    BY Tasks DEF CompleteMapTask, TypeOK
  <1> QED
    BY <1>3, <1>4, <1>6, <1>7, <1>8 DEF CompleteMapTask, TypeOK

LEMMA CompleteReduceTyped ==
  ASSUME TypeOK, WorkerTypes, NEW w \in Worker, CompleteReduceTask(w)
  PROVE  TypeOK' /\ WorkerTypes'
  <1>1. PICK r : r = worker[w].task
    OBVIOUS
  <1>2. r \in ReduceTask /\ <<"REDUCE", r>> \in Task /\ Cancel(<<"REDUCE", r>>)
    BY <1>1, Tasks DEF CompleteReduceTask, WorkerTypes, Reducing
  <1>3. /\ IsABag(watch')
        /\ BagToSet(watch') \subseteq [task : Task, worker : Worker, cancelled : BOOLEAN]
    BY <1>2, CancelTyped
  <1>4. worker' \in [Worker -> WorkerState] /\ WorkerTypes'
    BY WithoutTyped, WorkerTyped DEF CompleteReduceTask
  <1>5. reduceState' \in [ReduceTask -> TaskState]
    BY <1>1, <1>2 DEF CompleteReduceTask, TypeOK, TaskState
  <1> QED
    BY <1>3, <1>4, <1>5 DEF CompleteReduceTask, TypeOK

\* Steps of a worker on its own: r is its new state.
LEMMA WorkerTypedStep ==
  ASSUME TypeOK, WorkerTypes, NEW w \in Worker,
         \/ GetFinish(w) \/ RenameFile(w) \/ OpenFiles(w) \/ CreateOutput(w)
         \/ WriteOutput(w) \/ Disconnected(w) \/ Crash(w)
  PROVE  TypeOK' /\ WorkerTypes'
  <1>1. TypedWorker(worker[w])
    BY DEF TypeOK, WorkerTypes, TypedWorker
  <1>2. CASE GetFinish(w) \/ Disconnected(w)
    <2>1. worker' = [worker EXCEPT ![w] = Without("exited")]
      BY <1>2 DEF GetFinish, Disconnected
    <2>2. worker' \in [Worker -> WorkerState] /\ WorkerTypes'
      BY <2>1, WithoutTyped, WorkerTyped
    <2> QED
      BY <1>2, <2>2 DEF GetFinish, Disconnected, coordVars, TypeOK
  <1>3. CASE Crash(w)
    <2>1. worker' \in [Worker -> WorkerState] /\ WorkerTypes'
      BY <1>3, WithoutTyped, WorkerTyped DEF Crash
    <2>2. crashes' \in 0 .. MaxCrashes
      BY <1>3, WorkerAssumption DEF Crash, TypeOK
    <2> QED
      BY <1>3, <2>1, <2>2 DEF Crash, coordVars, TypeOK
  <1>4. CASE RenameFile(w)
    <2>1. PICK r : r = Min(worker[w].todo)
      OBVIOUS
    <2>2. /\ worker[w].doing = "map" /\ worker[w].todo # {}
          /\ worker[w].todo \subseteq ReduceTask /\ worker[w].task \in MapTask
      BY <1>1, <1>4 DEF RenameFile, TypedWorker
    <2>3. r \in worker[w].todo
      BY <2>1, <2>2, Tasks, MinIn
    <2>4. PICK s : s = [worker[w] EXCEPT !.todo = @ \ {r}]
      OBVIOUS
    <2>5. TypedWorker(s)
      BY <1>1, <2>2, <2>4 DEF TypedWorker, WorkerState, Reducing
    <2>6. /\ worker' = [worker EXCEPT ![w] = s]
          /\ files' = files \cup {<<worker[w].task, r>>}
      BY <1>4, <2>1, <2>4 DEF RenameFile
    <2>7. worker' \in [Worker -> WorkerState] /\ WorkerTypes'
      BY <2>5, <2>6, WorkerTyped
    <2> QED
      BY <1>4, <2>2, <2>3, <2>6, <2>7 DEF RenameFile, coordVars, TypeOK
  <1>5. CASE OpenFiles(w)
    <2>1. PICK s : s = [worker[w] EXCEPT !.doing = "opened",
                          !.todo = {m \in MapTask : <<m, worker[w].task>> \in files}]
      OBVIOUS
    <2>2. TypedWorker(s)
      BY <1>1, <1>5, <2>1 DEF OpenFiles, TypedWorker, WorkerState, Reducing
    <2>3. worker' = [worker EXCEPT ![w] = s]
      BY <1>5, <2>1 DEF OpenFiles
    <2>4. worker' \in [Worker -> WorkerState] /\ WorkerTypes'
      BY <2>2, <2>3, WorkerTyped
    <2> QED
      BY <1>5, <2>4 DEF OpenFiles, coordVars, TypeOK
  <1>6. CASE CreateOutput(w) \/ WriteOutput(w)
    <2>1. PICK s : s = [worker[w] EXCEPT !.doing =
                                 IF worker[w].doing = "opened" THEN "created" ELSE "written"]
      OBVIOUS
    <2>2. worker[w].doing \in Reducing
      BY <1>6 DEF CreateOutput, WriteOutput, Reducing
    <2>3. TypedWorker(s)
      BY <1>1, <2>1, <2>2 DEF TypedWorker, WorkerState, Reducing
    <2>4. worker' = [worker EXCEPT ![w] = s]
      BY <1>6, <2>1 DEF CreateOutput, WriteOutput
    <2>5. worker' \in [Worker -> WorkerState] /\ WorkerTypes'
      BY <2>3, <2>4, WorkerTyped
    <2>6. out' \in [ReduceTask -> SUBSET MapTask]
      BY <1>1, <1>6, <2>2 DEF CreateOutput, WriteOutput, TypeOK, TypedWorker
    <2> QED
      BY <1>6, <2>5, <2>6 DEF CreateOutput, WriteOutput, coordVars, TypeOK
  <1> QED
    BY <1>2, <1>3, <1>4, <1>5, <1>6

LEMMA TypeStep ==
  ASSUME TypeOK, WorkerTypes, [Next]_vars
  PROVE  TypeOK' /\ WorkerTypes'
  <1>1. CASE Done
    BY <1>1 DEF Done, TypeOK, WorkerTypes
  <1>2. ASSUME NEW g \in BagToSet(watch), ContextDone(g) PROVE TypeOK' /\ WorkerTypes'
    BY <1>2, ContextDoneTyped
  <1>3. ASSUME NEW w \in Worker, WorkerStep(w) \/ Crash(w) PROVE TypeOK' /\ WorkerTypes'
    BY <1>3, GetMapTyped, GetReduceTyped, CompleteMapTyped, CompleteReduceTyped,
       WorkerTypedStep DEF WorkerStep
  <1>4. CASE UNCHANGED vars
    BY <1>4 DEF vars, TypeOK, WorkerTypes
  <1> QED
    BY <1>1, <1>2, <1>3, <1>4 DEF Next

-----------------------------------------------------------------------------
(* Intermediate files.                                                     *)

\* Worker w changes to s; the others and their files stay as they are.
LEMMA FilesKept ==
  ASSUME TypeOK, RenamedInPlace, OnlyEmitted, NEW w \in Worker, NEW s,
         worker' = [worker EXCEPT ![w] = s], files \subseteq files',
         \A f \in files' : f[2] \in Emits[f[1]],
         s.doing = "map" => /\ {s.task} \X (Emits[s.task] \ s.todo) \subseteq files'
                            /\ s.todo \subseteq Emits[s.task]
  PROVE  RenamedInPlace' /\ OnlyEmitted'
  <1>1. worker'[w] = s /\ \A v \in Worker \ {w} : worker'[v] = worker[v]
    BY DEF TypeOK
  <1>2. RenamedInPlace'
    BY <1>1 DEF RenamedInPlace
  <1>3. OnlyEmitted'
    BY <1>1 DEF OnlyEmitted
  <1> QED
    BY <1>2, <1>3

LEMMA FilesStep ==
  ASSUME FilesInv, OnlyEmitted, [Next]_vars
  PROVE  RenamedInPlace' /\ CompleteMapHasFiles' /\ OnlyEmitted'
  <1> USE DEF FilesInv
  <1>1. ASSUME files \subseteq files',
               \A m \in MapTask : mapState'[m] = "COMPLETE" => mapState[m] = "COMPLETE"
        PROVE  CompleteMapHasFiles'
    BY <1>1 DEF CompleteMapHasFiles
  <1>2. ASSUME NEW w \in Worker, GetMapTask(w)
        PROVE  RenamedInPlace' /\ CompleteMapHasFiles' /\ OnlyEmitted'
    <2>1. files' = files
      BY <1>2 DEF GetMapTask
    <2>2. CASE worker' = worker /\ mapState' = mapState
      BY <2>1, <2>2 DEF RenamedInPlace, OnlyEmitted, CompleteMapHasFiles
    <2>3. CASE ~(worker' = worker /\ mapState' = mapState)
      <3>1. PICK m : m = NextIdle(mapState, NMap, curPtrTask)
        OBVIOUS
      <3>2. PICK s : s = [doing |-> "map", task |-> m, todo |-> Emits[m]]
        OBVIOUS
      <3>3. worker' = [worker EXCEPT ![w] = s] /\ mapState' = [mapState EXCEPT ![m] = "WORK"]
        BY <1>2, <2>3, <3>1, <3>2 DEF GetMapTask
      <3>4. s.task = m /\ s.todo = Emits[m] /\ \A f \in files' : f[2] \in Emits[f[1]]
        BY <2>1, <3>2 DEF OnlyEmitted
      <3>5. RenamedInPlace' /\ OnlyEmitted'
        BY <2>1, <3>3, <3>4, FilesKept
      <3>6. \A k \in MapTask : mapState'[k] = "COMPLETE" => mapState[k] = "COMPLETE"
        BY <3>3 DEF TypeOK
      <3> QED
        BY <1>1, <2>1, <3>5, <3>6
    <2> QED
      BY <2>2, <2>3
  <1>3. ASSUME NEW w \in Worker, RenameFile(w)
        PROVE  RenamedInPlace' /\ CompleteMapHasFiles' /\ OnlyEmitted'
    <2>1. PICK t, todo, r : t = worker[w].task /\ todo = worker[w].todo /\ r = Min(todo)
      OBVIOUS
    <2>2. /\ worker[w].doing = "map" /\ todo # {} /\ todo \subseteq ReduceTask
          /\ todo \subseteq Emits[t] /\ {t} \X (Emits[t] \ todo) \subseteq files
      BY <1>3, <2>1 DEF RenameFile, WorkerTypes, OnlyEmitted, RenamedInPlace
    <2>3. r \in todo
      BY <2>1, <2>2, Tasks, MinIn
    <2>4. PICK s : s = [worker[w] EXCEPT !.todo = todo \ {r}]
      OBVIOUS
    <2>5. /\ worker' = [worker EXCEPT ![w] = s] /\ files' = files \cup {<<t, r>>}
          /\ mapState' = mapState
      BY <1>3, <2>1, <2>4 DEF RenameFile, coordVars
    <2>6. s.task = t /\ s.todo = todo \ {r}
      BY <2>1, <2>4 DEF TypeOK, WorkerState
    <2>7. {t} \X (Emits[t] \ (todo \ {r})) \subseteq files'
      BY <2>2, <2>5
    <2>8. \A f \in files' : f[2] \in Emits[f[1]]
      BY <2>2, <2>3, <2>5 DEF OnlyEmitted
    <2>9. RenamedInPlace' /\ OnlyEmitted'
      BY <2>2, <2>5, <2>6, <2>7, <2>8, FilesKept
    <2> QED
      BY <1>1, <2>5, <2>9
  <1>4. ASSUME NEW w \in Worker, NEW s, s.doing # "map",
               worker' = [worker EXCEPT ![w] = s], files' = files
        PROVE  RenamedInPlace' /\ OnlyEmitted'
    BY <1>4, FilesKept DEF OnlyEmitted
  <1>5. ASSUME NEW w \in Worker, CompleteMapTask(w)
        PROVE  RenamedInPlace' /\ CompleteMapHasFiles' /\ OnlyEmitted'
    <2>1. PICK m : m = worker[w].task
      OBVIOUS
    <2>2. /\ m \in MapTask /\ mapState' = [mapState EXCEPT ![m] = "COMPLETE"]
          /\ files' = files /\ {m} \X Emits[m] \subseteq files
      BY <1>5, <2>1 DEF CompleteMapTask, WorkerTypes, RenamedInPlace
    <2>3. CompleteMapHasFiles'
      BY <2>2 DEF CompleteMapHasFiles, TypeOK
    <2>4. Without("asking").doing # "map"
      BY DEF Without
    <2>5. RenamedInPlace' /\ OnlyEmitted'
      BY <1>4, <1>5, <2>4 DEF CompleteMapTask
    <2> QED
      BY <2>3, <2>5
  <1>6. ASSUME NEW w \in Worker, GetFinish(w) \/ Disconnected(w) \/ Crash(w) \/ CompleteReduceTask(w)
        PROVE  RenamedInPlace' /\ CompleteMapHasFiles' /\ OnlyEmitted'
    <2>1. PICK doing \in {"asking", "exited", "crashed"} :
              worker' = [worker EXCEPT ![w] = Without(doing)]
      BY <1>6 DEF GetFinish, Disconnected, Crash, CompleteReduceTask
    <2>2. files' = files /\ mapState' = mapState /\ Without(doing).doing # "map"
      BY <1>6 DEF GetFinish, Disconnected, Crash, CompleteReduceTask, coordVars, Without
    <2> QED
      BY <1>1, <1>4, <2>1, <2>2
  <1>7. ASSUME NEW w \in Worker,
               GetReduceTask(w) \/ OpenFiles(w) \/ CreateOutput(w) \/ WriteOutput(w)
        PROVE  RenamedInPlace' /\ CompleteMapHasFiles' /\ OnlyEmitted'
    <2>1. PICK s : s = worker'[w]
      OBVIOUS
    <2>2. worker' = [worker EXCEPT ![w] = s] /\ s.doing # "map"
      BY <1>7, <2>1 DEF GetReduceTask, OpenFiles, CreateOutput, WriteOutput, TypeOK, WorkerState
    <2>3. files' = files /\ mapState' = mapState
      BY <1>7 DEF GetReduceTask, OpenFiles, CreateOutput, WriteOutput, coordVars
    <2> QED
      BY <1>1, <1>4, <2>2, <2>3
  <1>8. ASSUME NEW g \in BagToSet(watch), ContextDone(g)
        PROVE  RenamedInPlace' /\ CompleteMapHasFiles' /\ OnlyEmitted'
    <2>1. worker' = worker /\ files' = files
      BY <1>8 DEF ContextDone
    <2>2. \A m \in MapTask : mapState'[m] = "COMPLETE" => mapState[m] = "COMPLETE"
      BY <1>8 DEF ContextDone, Reset, TypeOK
    <2> QED
      BY <1>1, <2>1, <2>2 DEF RenamedInPlace, OnlyEmitted
  <1>9. CASE Done \/ UNCHANGED vars
    BY <1>9 DEF Done, vars, RenamedInPlace, OnlyEmitted, CompleteMapHasFiles
  <1> QED
    BY <1>2, <1>3, <1>5, <1>6, <1>7, <1>8, <1>9 DEF Next, WorkerStep

-----------------------------------------------------------------------------
(* Assignments: one worker for a task, and one goroutine that waits for it. *)

LEMMA BusyTask ==
  ASSUME NEW s, TypedWorker(s), Busy(s)
  PROVE  TaskOf(s) \in Task
  <1>1. CASE s.doing = "map"
    BY <1>1, Tasks DEF TypedWorker, TaskOf
  <1>2. CASE s.doing # "map"
    BY <1>2, Tasks DEF TypedWorker, TaskOf, Busy
  <1> QED
    BY <1>1, <1>2

LEMMA AllTyped ==
  ASSUME TypeOK, WorkerTypes, NEW w \in Worker
  PROVE  TypedWorker(worker[w])
  BY DEF TypeOK, WorkerTypes, TypedWorker

\* No goroutine and no worker is concerned with task u.
Unattended(u) ==
    /\ \A g \in DOMAIN watch : g.task # u
    /\ \A v \in Worker : Busy(worker[v]) => TaskOf(worker[v]) # u

\* An idle task is given to a worker without one.
LEMMA AssignExact ==
  ASSUME TypeOK, WorkerTypes, Watched, Owned, NEW w \in Worker, NEW t \in Task, NEW s,
         Assign(w, t), worker' = [worker EXCEPT ![w] = s], TaskOf(s) = t,
         StateOf(t) = "IDLE", StateOf(t)' = "WORK",
         \A u \in Task \ {t} : StateOf(u)' = StateOf(u)
  PROVE  Watched' /\ Owned'
  <1>1. PICK g : g = Context(t, w, FALSE)
    OBVIOUS
  <1>2. g.task = t /\ g.worker = w /\ ~g.cancelled
    BY <1>1 DEF Context
  <1>3. /\ IsABag(watch) /\ watch' = watch (+) SetToBag({g})
        /\ owner' = [owner EXCEPT ![t] = w] /\ owner \in [Task -> Worker \cup {Nobody}]
        /\ \A h \in DOMAIN watch : h.task \in Task
    BY <1>1 DEF TypeOK, Assign, BagToSet
  <1>4. \A h \in DOMAIN watch : h.task # t
    BY DEF Watched
  <1>5. g \notin DOMAIN watch
    BY <1>2, <1>4
  <1>6. /\ DOMAIN watch' = DOMAIN watch \cup {g} /\ watch'[g] = 1
        /\ \A h \in DOMAIN watch \ {g} : watch'[h] = watch[h]
    <2>1. WithOne(watch, g, watch')
      BY <1>3, Adding
    <2> QED
      BY <1>5, <2>1 DEF WithOne
  <1>7. Watched'
    <2> SUFFICES ASSUME NEW h \in DOMAIN watch'
                 PROVE  /\ ~h.cancelled => /\ watch'[h] = 1
                                           /\ StateOf(h.task)' = "WORK"
                                           /\ owner'[h.task] = h.worker
                        /\ h.cancelled => StateOf(h.task)' = "COMPLETE"
      BY DEF Watched, StateOf
    <2>1. CASE h = g
      BY <1>2, <1>3, <1>6, <2>1
    <2>2. CASE h # g
      <3>1. h \in DOMAIN watch /\ watch'[h] = watch[h] /\ h.task \in Task \ {t}
        BY <1>3, <1>4, <1>6, <2>2
      <3>2. StateOf(h.task)' = StateOf(h.task) /\ owner'[h.task] = owner[h.task]
        BY <1>3, <3>1
      <3> QED
        BY <3>1, <3>2 DEF Watched
    <2> QED
      BY <2>1, <2>2
  <1>8. Owned'
    <2> SUFFICES ASSUME NEW v \in Worker, Busy(worker'[v])
                 PROVE  StateOf(TaskOf(worker[v]))' = "WORK" /\ owner'[TaskOf(worker'[v])] = v
      BY DEF Owned, StateOf, TaskOf, Busy
    <2>1. CASE v = w
      <3>1. TaskOf(worker'[v]) = t
        BY <2>1 DEF TypeOK
      <3>2. StateOf(TaskOf(worker[v]))' = StateOf(t)'
        BY <3>1 DEF StateOf, TaskOf
      <3> QED
        BY <1>3, <2>1, <3>1, <3>2
    <2>2. CASE v # w
      <3>1. worker'[v] = worker[v]
        BY <2>2 DEF TypeOK
      <3>2. PICK u : u = TaskOf(worker[v])
        OBVIOUS
      <3>3. Busy(worker[v]) /\ u \in Task /\ StateOf(u) = "WORK" /\ owner[u] = v
        BY <3>1, <3>2, AllTyped, BusyTask DEF Owned
      <3>4. u # t /\ StateOf(u)' = StateOf(u)
        BY <3>3
      <3>5. StateOf(TaskOf(worker[v]))' = StateOf(u)'
        BY <3>1, <3>2 DEF StateOf, TaskOf
      <3> QED
        BY <1>3, <3>1, <3>2, <3>3, <3>4, <3>5
    <2> QED
      BY <2>1, <2>2
  <1> QED
    BY <1>7, <1>8

\* A task is completed by the worker it was assigned to.
LEMMA CompleteExact ==
  ASSUME TypeOK, WorkerTypes, Watched, Owned, NEW w \in Worker, NEW t \in Task,
         Busy(worker[w]), TaskOf(worker[w]) = t, Cancel(t), owner' = owner,
         worker' = [worker EXCEPT ![w] = Without("asking")],
         StateOf(t)' = "COMPLETE",
         \A u \in Task \ {t} : StateOf(u)' = StateOf(u) \/ Unattended(u)
  PROVE  Watched' /\ Owned' /\ \A g \in DOMAIN watch' : \E h \in DOMAIN watch : g.task = h.task
  <1>1. StateOf(t) = "WORK" /\ owner[t] = w
    BY DEF Owned
  <1>2. PICK g : g = Context(t, owner[t], FALSE)
    OBVIOUS
  <1>3. PICK h : h = Context(t, owner[t], TRUE)
    OBVIOUS
  <1>4. /\ g.task = t /\ g.worker = w /\ ~g.cancelled
        /\ h.task = t /\ h.worker = w /\ h.cancelled
    BY <1>1, <1>2, <1>3 DEF Context
  <1>5. IsABag(watch)
    BY DEF TypeOK
  <1>6. Replaced(g, h)
    BY <1>2, <1>3, <1>5, Cancelling
  <1>7. \A e \in DOMAIN watch : e.task = t => e = g
    <2> SUFFICES ASSUME NEW e \in DOMAIN watch, e.task = t PROVE e = g
      OBVIOUS
    <2>1. ~e.cancelled /\ e.worker = w
      BY <1>1 DEF Watched
    <2>2. e \in [task : Task, worker : Worker, cancelled : BOOLEAN]
      BY DEF TypeOK, BagToSet
    <2> QED
      BY <1>1, <1>2, <2>1, <2>2 DEF Context
  <1>8. \A e \in DOMAIN watch' : e = h \/ (e \in DOMAIN watch /\ e.task # t /\ watch'[e] = watch[e])
    <2> SUFFICES ASSUME NEW e \in DOMAIN watch', e # h
                 PROVE  e \in DOMAIN watch /\ e.task # t /\ watch'[e] = watch[e]
      OBVIOUS
    <2>1. e \in DOMAIN watch
      BY <1>6 DEF Replaced
    <2>2. e # g
      BY <1>4, <1>6, <2>1 DEF Watched, Replaced
    <2> QED
      BY <1>6, <1>7, <2>1, <2>2 DEF Replaced
  <1>9. \A e \in DOMAIN watch : e.task \in Task
    BY DEF TypeOK, BagToSet
  <1>10. Watched'
    <2> SUFFICES ASSUME NEW e \in DOMAIN watch'
                 PROVE  /\ ~e.cancelled => /\ watch'[e] = 1
                                           /\ StateOf(e.task)' = "WORK"
                                           /\ owner'[e.task] = e.worker
                        /\ e.cancelled => StateOf(e.task)' = "COMPLETE"
      BY DEF Watched, StateOf
    <2>1. CASE e = h
      BY <1>4, <2>1
    <2>2. CASE e # h
      <3>1. e \in DOMAIN watch /\ e.task \in Task \ {t} /\ watch'[e] = watch[e]
        BY <1>8, <1>9, <2>2
      <3>2. StateOf(e.task)' = StateOf(e.task)
        BY <3>1 DEF Unattended
      <3> QED
        BY <3>1, <3>2 DEF Watched
    <2> QED
      BY <2>1, <2>2
  <1>11. Owned'
    <2> SUFFICES ASSUME NEW v \in Worker, Busy(worker'[v])
                 PROVE  StateOf(TaskOf(worker[v]))' = "WORK" /\ owner'[TaskOf(worker'[v])] = v
      BY DEF Owned, StateOf, TaskOf, Busy
    <2>1. v # w
      BY DEF TypeOK, Busy, Without, Reducing
    <2>2. worker'[v] = worker[v]
      BY <2>1 DEF TypeOK
    <2>3. PICK u : u = TaskOf(worker[v])
      OBVIOUS
    <2>4. Busy(worker[v]) /\ u \in Task /\ StateOf(u) = "WORK" /\ owner[u] = v
      BY <2>2, <2>3, AllTyped, BusyTask DEF Owned
    <2>5. u # t /\ ~Unattended(u)
      BY <1>1, <2>1, <2>3, <2>4 DEF Unattended
    <2>6. StateOf(TaskOf(worker[v]))' = StateOf(u)'
      BY <2>2, <2>3 DEF StateOf, TaskOf
    <2> QED
      BY <2>2, <2>3, <2>4, <2>5, <2>6
  <1>12. ASSUME NEW e \in DOMAIN watch' PROVE \E f \in DOMAIN watch : e.task = f.task
    BY <1>4, <1>6, <1>8 DEF Replaced
  <1> QED
    BY <1>10, <1>11, <1>12

\* A worker goes on with its task, or is rid of it.
LEMMA WorkerExact ==
  ASSUME TypeOK, WorkerTypes, Watched, Owned, NEW w \in Worker, NEW s,
         worker' = [worker EXCEPT ![w] = s],
         Busy(s) => Busy(worker[w]) /\ TaskOf(s) = TaskOf(worker[w]),
         mapState' = mapState, reduceState' = reduceState, watch' = watch, owner' = owner
  PROVE  Watched' /\ Owned'
  <1>1. Watched'
    BY DEF Watched, StateOf
  <1>2. ASSUME NEW v \in Worker, Busy(worker'[v])
        PROVE  StateOf(TaskOf(worker[v]))' = "WORK" /\ owner'[TaskOf(worker'[v])] = v
    <2>1. Busy(worker[v]) /\ TaskOf(worker'[v]) = TaskOf(worker[v])
      BY <1>2 DEF TypeOK
    <2>2. StateOf(TaskOf(worker[v]))' = StateOf(TaskOf(worker[v]))
      BY <2>1 DEF StateOf, TaskOf
    <2> QED
      BY <2>1, <2>2 DEF Owned
  <1>3. Owned'
    BY <1>2 DEF Owned, Busy
  <1> QED
    BY <1>1, <1>3

\* One task changes its state to x.
LEMMA MapStateOf ==
  ASSUME TypeOK, NEW m \in MapTask, NEW x, NEW t, t = <<"MAP", m>>,
         mapState' = [mapState EXCEPT ![m] = x]
  PROVE  /\ StateOf(t)' = x /\ StateOf(t) = mapState[m]
         /\ \A u \in Task \ {t} : u[1] = "MAP" \/ reduceState' = reduceState
                                      => StateOf(u)' = StateOf(u)
  <1>1. mapState'[m] = x /\ \A k \in MapTask \ {m} : mapState'[k] = mapState[k]
    BY DEF TypeOK
  <1>2. t[1] = "MAP" /\ t[2] = m
    OBVIOUS
  <1>3. \A u \in Task \ {t} : u[1] = "MAP" => u[2] \in MapTask \ {m}
    BY DEF Task
  <1> QED
    BY <1>1, <1>2, <1>3 DEF StateOf

LEMMA ReduceStateOf ==
  ASSUME TypeOK, NEW r \in ReduceTask, NEW x, NEW t, t = <<"REDUCE", r>>,
         reduceState' = [reduceState EXCEPT ![r] = x], mapState' = mapState
  PROVE  /\ StateOf(t)' = x /\ StateOf(t) = reduceState[r]
         /\ \A u \in Task \ {t} : StateOf(u)' = StateOf(u)
  <1>1. reduceState'[r] = x /\ \A k \in ReduceTask \ {r} : reduceState'[k] = reduceState[k]
    BY DEF TypeOK
  <1>2. t[1] = "REDUCE" /\ t[2] = r
    OBVIOUS
  <1>3. \A u \in Task \ {t} : u[1] # "MAP" => u[2] \in ReduceTask \ {r}
    BY DEF Task
  <1> QED
    BY <1>1, <1>2, <1>3 DEF StateOf

\* What a context that is done does to the task states.
LEMMA ContextDoneStates ==
  ASSUME TypeOK, NEW g \in BagToSet(watch), ContextDone(g)
  PROVE  /\ g.task \in Task
         /\ StateOf(g.task)' = Reset(StateOf(g.task))
         /\ \A u \in Task \ {g.task} : StateOf(u)' = StateOf(u)
         /\ g.task[1] = "MAP" => reduceState' = reduceState
         /\ \A m \in MapTask : mapState'[m] = "COMPLETE" <=> mapState[m] = "COMPLETE"
         /\ \A r \in ReduceTask : reduceState'[r] = "COMPLETE" <=> reduceState[r] = "COMPLETE"
  <1>1. PICK t : t = g.task
    OBVIOUS
  <1>2. t \in Task
    BY <1>1 DEF TypeOK, BagToSet
  <1>3. CASE t[1] = "MAP"
    <2>1. t[2] \in MapTask /\ t = <<"MAP", t[2]>>
      BY <1>2, <1>3 DEF Task
    <2>2. mapState' = [mapState EXCEPT ![t[2]] = Reset(@)] /\ reduceState' = reduceState
      BY <1>1, <1>3 DEF ContextDone
    <2>3. /\ StateOf(t)' = Reset(StateOf(t))
          /\ \A u \in Task \ {t} : StateOf(u)' = StateOf(u)
      <3>1. PICK m, x : m = t[2] /\ x = Reset(mapState[m])
        OBVIOUS
      <3>2. mapState' = [mapState EXCEPT ![m] = x] /\ m \in MapTask /\ t = <<"MAP", m>>
        BY <2>1, <2>2, <3>1
      <3>3. reduceState' = reduceState
        BY <2>2
      <3>4. /\ StateOf(t)' = x /\ StateOf(t) = mapState[m]
            /\ \A u \in Task \ {t} : StateOf(u)' = StateOf(u)
        BY <3>2, <3>3, MapStateOf
      <3> QED
        BY <3>1, <3>4
    <2>5. \A m \in MapTask : mapState'[m] = "COMPLETE" <=> mapState[m] = "COMPLETE"
      BY <2>1, <2>2 DEF TypeOK, Reset
    <2> QED
      BY <1>1, <1>2, <2>2, <2>3, <2>5
  <1>4. CASE t[1] # "MAP"
    <2>1. t[2] \in ReduceTask /\ t = <<"REDUCE", t[2]>>
      BY <1>2, <1>4 DEF Task
    <2>2. reduceState' = [reduceState EXCEPT ![t[2]] = Reset(@)] /\ mapState' = mapState
      BY <1>1, <1>4 DEF ContextDone
    <2>3. /\ StateOf(t)' = Reset(StateOf(t))
          /\ \A u \in Task \ {t} : StateOf(u)' = StateOf(u)
      <3>1. PICK r, x : r = t[2] /\ x = Reset(reduceState[r])
        OBVIOUS
      <3>2. reduceState' = [reduceState EXCEPT ![r] = x] /\ r \in ReduceTask /\ t = <<"REDUCE", r>>
        BY <2>1, <2>2, <3>1
      <3>3. mapState' = mapState
        BY <2>2
      <3>4. /\ StateOf(t)' = x /\ StateOf(t) = reduceState[r]
            /\ \A u \in Task \ {t} : StateOf(u)' = StateOf(u)
        BY <3>2, <3>3, ReduceStateOf
      <3> QED
        BY <3>1, <3>4
    <2>5. \A r \in ReduceTask : reduceState'[r] = "COMPLETE" <=> reduceState[r] = "COMPLETE"
      BY <2>1, <2>2 DEF TypeOK, Reset
    <2> QED
      BY <1>1, <1>2, <1>4, <2>2, <2>3, <2>5
  <1> QED
    BY <1>3, <1>4

LEMMA ContextDoneExact ==
  ASSUME TypeOK, WorkerTypes, Watched, Owned, NEW g \in BagToSet(watch), ContextDone(g),
         slow' = slow
  PROVE  Watched' /\ Owned' /\ DOMAIN watch' \subseteq DOMAIN watch
  <1>1. PICK t : t = g.task
    OBVIOUS
  <1>2. /\ t \in Task /\ StateOf(t)' = Reset(StateOf(t))
        /\ \A u \in Task \ {t} : StateOf(u)' = StateOf(u)
    <2>1. StateOf(t)' = StateOf(g.task)'
      BY <1>1 DEF StateOf
    <2> QED
      BY <1>1, <2>1, ContextDoneStates
  <1>3. /\ g \in DOMAIN watch /\ IsABag(watch) /\ watch' = watch (-) SetToBag({g})
        /\ worker' = worker /\ owner' = owner
    BY DEF TypeOK, BagToSet, ContextDone
  <1>4. /\ DOMAIN watch' \subseteq DOMAIN watch
        /\ \A e \in DOMAIN watch \ {g} : watch'[e] = watch[e]
        /\ watch[g] = 1 => g \notin DOMAIN watch'
    <2>1. LessOne(watch, g, watch')
      BY <1>3, Removing
    <2> QED
      BY <2>1 DEF LessOne
  <1>5. \A e \in DOMAIN watch : e.task \in Task
    BY DEF TypeOK, BagToSet
  <1>6. ~g.cancelled => worker[g.worker].doing = "crashed"
    <2>1. slow' # slow + 1
      BY DEF TypeOK
    <2> QED
      BY <2>1 DEF ContextDone
  <1>7. \A e \in DOMAIN watch' : StateOf(e.task)' = StateOf(e.task) /\ (e # g => watch'[e] = watch[e])
                                   /\ (e = g => g.cancelled)
    <2> SUFFICES ASSUME NEW e \in DOMAIN watch'
                 PROVE  /\ StateOf(e.task)' = StateOf(e.task)
                        /\ e # g => watch'[e] = watch[e]
                        /\ e = g => g.cancelled
      OBVIOUS
    <2>1. e \in DOMAIN watch /\ e.task \in Task /\ (e # g => watch'[e] = watch[e])
      BY <1>4, <1>5
    <2>2. e = g => g.cancelled
      BY <1>3, <1>4 DEF Watched
    <2>3. CASE e.task # t
      BY <1>2, <2>1, <2>2, <2>3
    <2>4. CASE e.task = t
      <3>1. StateOf(e.task)' = StateOf(t)'
        BY <2>4 DEF StateOf
      <3>2. CASE g.cancelled
        <4>1. StateOf(t) = "COMPLETE"
          BY <1>1, <1>3, <3>2 DEF Watched
        <4> QED
          BY <1>2, <2>1, <2>2, <2>4, <3>1, <4>1 DEF Reset
      <3>3. CASE ~g.cancelled
        <4>1. StateOf(t) = "WORK" /\ owner[t] = g.worker
          BY <1>1, <1>3, <3>3 DEF Watched
        <4>2. ~e.cancelled /\ e.worker = g.worker
          BY <2>1, <2>4, <4>1 DEF Watched
        <4>3. /\ e \in [task : Task, worker : Worker, cancelled : BOOLEAN]
              /\ g \in [task : Task, worker : Worker, cancelled : BOOLEAN]
          BY <1>3, <2>1 DEF TypeOK, BagToSet
        <4>4. e = g
          <5>1. e = [task |-> t, worker |-> g.worker, cancelled |-> FALSE]
            BY <2>4, <4>2, <4>3
          <5>2. g = [task |-> t, worker |-> g.worker, cancelled |-> FALSE]
            BY <1>1, <3>3, <4>3
          <5> QED
            BY <5>1, <5>2
        <4> QED
          BY <2>2, <3>3, <4>4
      <3> QED
        BY <3>2, <3>3
    <2> QED
      BY <2>3, <2>4
  <1>8. Watched'
    <2> SUFFICES ASSUME NEW e \in DOMAIN watch'
                 PROVE  /\ ~e.cancelled => /\ watch'[e] = 1
                                           /\ StateOf(e.task)' = "WORK"
                                           /\ owner'[e.task] = e.worker
                        /\ e.cancelled => StateOf(e.task)' = "COMPLETE"
      BY DEF Watched, StateOf
    <2> QED
      BY <1>3, <1>4, <1>7 DEF Watched
  <1>9. Owned'
    <2> SUFFICES ASSUME NEW v \in Worker, Busy(worker'[v])
                 PROVE  StateOf(TaskOf(worker[v]))' = "WORK" /\ owner'[TaskOf(worker'[v])] = v
      BY DEF Owned, StateOf, TaskOf, Busy
    <2>1. PICK u : u = TaskOf(worker[v])
      OBVIOUS
    <2>2. Busy(worker[v]) /\ u \in Task /\ StateOf(u) = "WORK" /\ owner[u] = v
      BY <1>3, <2>1, AllTyped, BusyTask DEF Owned
    <2>3. u # t
      BY <1>1, <1>3, <1>6, <2>2 DEF Watched, Busy, Reducing
    <2>4. StateOf(TaskOf(worker[v]))' = StateOf(u)'
      BY <1>3, <2>1 DEF StateOf, TaskOf
    <2> QED
      BY <1>2, <1>3, <2>1, <2>2, <2>3, <2>4
  <1> QED
    BY <1>4, <1>8, <1>9

-----------------------------------------------------------------------------
(* The counts and the phases.                                              *)

LEMMA TasksFinite == IsFiniteSet(MapTask) /\ IsFiniteSet(ReduceTask)
  BY TaskAssumption, FS_Interval DEF MapTask, ReduceTask

\* One task less is unfinished.
LEMMA OneLess ==
  ASSUME NEW tasks, IsFiniteSet(tasks), NEW old, NEW new, NEW k \in tasks,
         old[k] # "COMPLETE", new[k] = "COMPLETE",
         \A j \in tasks \ {k} : new[j] = "COMPLETE" <=> old[j] = "COMPLETE"
  PROVE  /\ Cardinality(Unfinished(new, tasks)) = Cardinality(Unfinished(old, tasks)) - 1
         /\ Cardinality(Unfinished(old, tasks)) # 0
  <1>1. Unfinished(new, tasks) = Unfinished(old, tasks) \ {k} /\ k \in Unfinished(old, tasks)
    BY DEF Unfinished
  <1>2. IsFiniteSet(Unfinished(old, tasks))
    BY FS_Subset DEF Unfinished
  <1> QED
    BY <1>1, <1>2, FS_RemoveElement, FS_EmptySet

LEMMA SameCount ==
  ASSUME NEW tasks, NEW old, NEW new,
         \A k \in tasks : new[k] = "COMPLETE" <=> old[k] = "COMPLETE"
  PROVE  Unfinished(new, tasks) = Unfinished(old, tasks)
  BY DEF Unfinished

LEMMA NoneLeft ==
  ASSUME NEW tasks, IsFiniteSet(tasks), NEW s
  PROVE  Cardinality(Unfinished(s, tasks)) = 0 <=> \A k \in tasks : s[k] = "COMPLETE"
  <1>1. IsFiniteSet(Unfinished(s, tasks))
    BY FS_Subset DEF Unfinished
  <1>2. Cardinality(Unfinished(s, tasks)) = 0 <=> Unfinished(s, tasks) = {}
    BY <1>1, FS_EmptySet
  <1> QED
    BY <1>2 DEF Unfinished

\* The file of every key is there once the map tasks are complete.
LEMMA AllFiles ==
  ASSUME TypeOK, CompleteMapHasFiles, OnlyEmitted, NEW r \in ReduceTask,
         \A m \in MapTask : mapState[m] = "COMPLETE"
  PROVE  {m \in MapTask : <<m, r>> \in files} = Emitters(r)
  BY DEF CompleteMapHasFiles, OnlyEmitted, Emitters

LEMMA ExactUnchanged ==
  ASSUME Exact, UNCHANGED <<mapState, reduceState, remainMap, remainReduce, owner, watch, worker, out>>
  PROVE  Exact'
  <1>1. Watched'
    BY DEF Exact, Watched, StateOf
  <1>2. Owned'
    BY DEF Exact, Owned, StateOf, TaskOf, Busy
  <1>3. MapPhase' /\ ReducePhase'
    BY DEF Exact, MapPhase, ReducePhase
  <1> QED
    BY <1>1, <1>2, <1>3 DEF Exact

LEMMA GetMapExact ==
  ASSUME TypeOK, WorkerTypes, Exact, NEW w \in Worker, GetMapTask(w)
  PROVE  Exact'
  <1>1. CASE worker' = worker /\ mapState' = mapState /\ watch' = watch /\ owner' = owner
    <2>1. UNCHANGED <<mapState, reduceState, remainMap, remainReduce, owner, watch, worker, out>>
      BY <1>1 DEF GetMapTask
    <2> QED
      BY <2>1, ExactUnchanged
  <1>2. CASE ~(worker' = worker /\ mapState' = mapState /\ watch' = watch /\ owner' = owner)
    <2>1. PICK m : m = NextIdle(mapState, NMap, curPtrTask)
      OBVIOUS
    <2>2. PICK s : s = [doing |-> "map", task |-> m, todo |-> Emits[m]]
      OBVIOUS
    <2>3. /\ m < NMap /\ mapState' = [mapState EXCEPT ![m] = "WORK"] /\ Assign(w, <<"MAP", m>>)
          /\ worker' = [worker EXCEPT ![w] = s] /\ remainMap # 0 /\ remainMap' = remainMap
          /\ reduceState' = reduceState /\ out' = out
      BY <1>2, <2>1, <2>2 DEF GetMapTask
    <2>4. m \in MapTask /\ mapState[m] = "IDLE"
      <3>1. curPtrTask \in Nat /\ NMap \in Nat \ {0}
        BY Tasks, TaskAssumption DEF TypeOK
      <3>2. m \in 0 .. NMap /\ (m < NMap => mapState[m] = "IDLE")
        BY <2>1, <3>1, NextIdleFinds
      <3> QED
        BY <2>3, <3>1, <3>2 DEF MapTask
    <2>5. PICK t \in Task : t = <<"MAP", m>>
      BY <2>4, Tasks
    <2>6. Watched' /\ Owned'
      <3>1. TaskOf(s) = t
        BY <2>2, <2>5 DEF TaskOf
      <3>2. /\ StateOf(t) = "IDLE" /\ StateOf(t)' = "WORK"
            /\ \A u \in Task \ {t} : StateOf(u)' = StateOf(u)
        BY <2>3, <2>4, <2>5, MapStateOf
      <3> QED
        BY <2>3, <2>5, <3>1, <3>2, AssignExact DEF Exact
    <2>7. \A k \in MapTask : mapState'[k] = "COMPLETE" <=> mapState[k] = "COMPLETE"
      BY <2>3, <2>4 DEF TypeOK
    <2>8. remainMap' = Cardinality(Unfinished(mapState', MapTask))
      BY <2>3, <2>7, SameCount DEF Exact
    <2>9. MapPhase'
      <3>1. /\ \A v \in Worker : worker[v].doing \notin Reducing
            /\ \A g \in DOMAIN watch : g.task[1] = "MAP"
            /\ \A r \in ReduceTask :
                   /\ reduceState[r] = IF \E k \in Emitters(r) : mapState[k] = "COMPLETE"
                                       THEN "IDLE" ELSE "COMPLETE"
                   /\ out[r] = {}
        BY <2>3 DEF Exact, MapPhase
      <3>2. \A v \in Worker : worker'[v].doing \notin Reducing
        BY <2>2, <2>3, <3>1 DEF TypeOK, Reducing
      <3>3. PICK g : g = Context(t, w, FALSE)
        OBVIOUS
      <3>4. IsABag(watch) /\ watch' = watch (+) SetToBag({g}) /\ g.task = t
        BY <2>3, <2>5, <3>3 DEF TypeOK, Assign, Context
      <3>5. WithOne(watch, g, watch')
        BY <3>4, Adding
      <3>6. \A h \in DOMAIN watch' : h.task[1] = "MAP"
        <4>1. DOMAIN watch' = DOMAIN watch \cup {g}
          BY <3>5 DEF WithOne
        <4>2. g.task[1] = "MAP"
          BY <2>5, <3>4
        <4> QED
          BY <3>1, <4>1, <4>2
      <3>7. \A r \in ReduceTask : \A k \in Emitters(r) :
                mapState'[k] = "COMPLETE" <=> mapState[k] = "COMPLETE"
        BY <2>7 DEF Emitters
      <3> QED
        BY <2>3, <3>1, <3>2, <3>6, <3>7 DEF MapPhase
    <2>10. ReducePhase'
      BY <2>3 DEF ReducePhase
    <2> QED
      BY <2>6, <2>8, <2>9, <2>10 DEF Exact
  <1> QED
    BY <1>1, <1>2

LEMMA GetReduceExact ==
  ASSUME TypeOK, WorkerTypes, Exact, NEW w \in Worker, GetReduceTask(w)
  PROVE  Exact'
  <1>1. PICK r : r = NextIdle(reduceState, NReduce, curPtrTask)
    OBVIOUS
  <1>2. PICK s : s = [doing |-> "reduce", task |-> r, todo |-> {}]
    OBVIOUS
  <1>3. /\ r < NReduce /\ reduceState' = [reduceState EXCEPT ![r] = "WORK"]
        /\ Assign(w, <<"REDUCE", r>>)
        /\ worker' = [worker EXCEPT ![w] = s] /\ remainMap = 0 /\ remainMap' = remainMap
        /\ remainReduce' = remainReduce /\ mapState' = mapState /\ out' = out
    BY <1>1, <1>2 DEF GetReduceTask
  <1>4. r \in ReduceTask /\ reduceState[r] = "IDLE"
    <2>1. curPtrTask \in Nat /\ NReduce \in Nat \ {0}
      BY Tasks, TaskAssumption DEF TypeOK
    <2>2. r \in 0 .. NReduce /\ (r < NReduce => reduceState[r] = "IDLE")
      BY <1>1, <2>1, NextIdleFinds
    <2> QED
      BY <1>3, <2>1, <2>2 DEF ReduceTask
  <1>5. PICK t \in Task : t = <<"REDUCE", r>>
    BY <1>4, Tasks
  <1>6. Watched' /\ Owned'
    <2>1. TaskOf(s) = t
      BY <1>2, <1>5 DEF TaskOf
    <2>2. /\ StateOf(t) = "IDLE" /\ StateOf(t)' = "WORK"
          /\ \A u \in Task \ {t} : StateOf(u)' = StateOf(u)
      BY <1>3, <1>4, <1>5, ReduceStateOf
    <2> QED
      BY <1>3, <1>5, <2>1, <2>2, AssignExact DEF Exact
  <1>7. \A k \in ReduceTask : reduceState'[k] = "COMPLETE" <=> reduceState[k] = "COMPLETE"
    BY <1>3, <1>4 DEF TypeOK
  <1>8. ReducePhase'
    <2>1. remainReduce' = Cardinality(Unfinished(reduceState', ReduceTask))
      BY <1>3, <1>7, SameCount DEF Exact, ReducePhase
    <2>2. s.doing = "reduce"
      BY <1>2
    <2>3. worker'[w] = s /\ \A v \in Worker \ {w} : worker'[v] = worker[v]
      BY <1>3 DEF TypeOK
    <2>4. \A v \in Worker : worker'[v].doing \in {"opened", "created", "written"} =>
              worker'[v] = worker[v]
      BY <2>2, <2>3
    <2> QED
      BY <1>3, <1>7, <2>1, <2>4 DEF Exact, ReducePhase
  <1>9. MapPhase' /\ remainMap' = Cardinality(Unfinished(mapState', MapTask))
    BY <1>3 DEF Exact, MapPhase
  <1> QED
    BY <1>6, <1>8, <1>9 DEF Exact

LEMMA CompleteMapExact ==
  ASSUME TypeOK, WorkerTypes, Exact, NEW w \in Worker, CompleteMapTask(w)
  PROVE  Exact'
  <1>1. PICK m : m = worker[w].task
    OBVIOUS
  <1>2. /\ worker[w].doing = "map" /\ mapState' = [mapState EXCEPT ![m] = "COMPLETE"]
        /\ Cancel(<<"MAP", m>>) /\ remainMap' = remainMap - 1 /\ owner' = owner
        /\ reduceState' = [r \in ReduceTask |-> IF r \in Emits[m] THEN "IDLE" ELSE reduceState[r]]
        /\ worker' = [worker EXCEPT ![w] = Without("asking")] /\ out' = out
    BY <1>1 DEF CompleteMapTask
  <1>3. PICK t \in Task : t = <<"MAP", m>> /\ m \in MapTask
    BY <1>1, <1>2, Tasks DEF WorkerTypes
  <1>4. Busy(worker[w]) /\ TaskOf(worker[w]) = t
    BY <1>1, <1>2, <1>3 DEF Busy, TaskOf
  <1>5. mapState[m] = "WORK"
    BY <1>3, <1>4 DEF Exact, Owned, StateOf
  <1>6. /\ remainMap' = Cardinality(Unfinished(mapState', MapTask))
        /\ remainMap # 0
    <2>1. /\ mapState'[m] = "COMPLETE" /\ mapState[m] # "COMPLETE"
          /\ \A k \in MapTask \ {m} : mapState'[k] = "COMPLETE" <=> mapState[k] = "COMPLETE"
      BY <1>2, <1>3, <1>5 DEF TypeOK
    <2>2. /\ Cardinality(Unfinished(mapState', MapTask)) = Cardinality(Unfinished(mapState, MapTask)) - 1
          /\ Cardinality(Unfinished(mapState, MapTask)) # 0
      BY <1>3, <2>1, TasksFinite, OneLess
    <2> QED
      BY <1>2, <2>2 DEF Exact
  <1>7. /\ \A v \in Worker : worker[v].doing \notin Reducing
        /\ \A g \in DOMAIN watch : g.task[1] = "MAP"
        /\ \A r \in ReduceTask :
               /\ reduceState[r] = IF \E k \in Emitters(r) : mapState[k] = "COMPLETE"
                                   THEN "IDLE" ELSE "COMPLETE"
               /\ out[r] = {}
    BY <1>6 DEF Exact, MapPhase
  <1>8. /\ Watched' /\ Owned'
        /\ \A g \in DOMAIN watch' : \E h \in DOMAIN watch : g.task = h.task
    <2>1. /\ StateOf(t)' = "COMPLETE"
          /\ \A u \in Task \ {t} : u[1] = "MAP" => StateOf(u)' = StateOf(u)
      BY <1>2, <1>3, MapStateOf
    <2>2. ASSUME NEW u \in Task \ {t} PROVE StateOf(u)' = StateOf(u) \/ Unattended(u)
      <3>1. CASE u[1] = "MAP"
        BY <2>1, <2>2, <3>1
      <3>2. CASE u[1] # "MAP"
        <4>1. \A g \in DOMAIN watch : g.task # u
          BY <1>7, <3>2
        <4>2. \A v \in Worker : Busy(worker[v]) => TaskOf(worker[v])[1] = "MAP"
          BY <1>7 DEF Busy, TaskOf
        <4> QED
          BY <3>2, <4>1, <4>2 DEF Unattended
      <3> QED
        BY <3>1, <3>2
    <2> QED
      BY <1>2, <1>3, <1>4, <2>1, <2>2, CompleteExact DEF Exact
  <1>9. \A v \in Worker : worker'[v].doing \notin Reducing
    BY <1>2, <1>7 DEF TypeOK, Without, Reducing
  <1>10. ASSUME NEW r \in ReduceTask
         PROVE  /\ reduceState'[r] = IF \E k \in Emitters(r) : mapState'[k] = "COMPLETE"
                                     THEN "IDLE" ELSE "COMPLETE"
                /\ out'[r] = {}
    <2>1. \A k \in MapTask : mapState'[k] = "COMPLETE" <=> k = m \/ mapState[k] = "COMPLETE"
      BY <1>2, <1>3 DEF TypeOK
    <2>2. (\E k \in Emitters(r) : mapState'[k] = "COMPLETE") <=>
              r \in Emits[m] \/ \E k \in Emitters(r) : mapState[k] = "COMPLETE"
      BY <1>3, <2>1 DEF Emitters
    <2>3. reduceState'[r] = IF r \in Emits[m] THEN "IDLE" ELSE reduceState[r]
      BY <1>2
    <2> QED
      BY <1>2, <1>7, <2>2, <2>3
  <1>11. MapPhase'
    BY <1>7, <1>8, <1>9, <1>10 DEF MapPhase
  <1>12. ReducePhase'
    <2> SUFFICES ASSUME remainMap' = 0 PROVE ReducePhase'
      BY DEF ReducePhase
    <2>1. \A k \in MapTask : mapState'[k] = "COMPLETE"
      <3>1. IsFiniteSet(MapTask)
        BY TasksFinite
      <3>2. Cardinality(Unfinished(mapState', MapTask)) = 0
        BY <1>6
      <3> QED
        BY <3>1, <3>2, NoneLeft
    <2>2. ASSUME NEW r \in ReduceTask, reduceState'[r] = "COMPLETE" PROVE out'[r] = Emitters(r)
      <3>1. ~\E k \in Emitters(r) : mapState'[k] = "COMPLETE"
        BY <1>10, <2>2
      <3>2. Emitters(r) = {}
        BY <2>1, <3>1 DEF Emitters
      <3> QED
        BY <1>10, <3>2
    <2>3. remainMap = 1
      <3>1. remainMap \in Int
        BY DEF TypeOK
      <3>2. remainMap' = remainMap - 1
        BY <1>2
      <3> QED
        BY <3>1, <3>2
    <2>4. remainReduce' = Cardinality({r \in ReduceTask : reduceState'[r] = "IDLE"})
      BY <2>3 DEF CompleteMapTask
    <2>5. {r \in ReduceTask : reduceState'[r] = "IDLE"} = Unfinished(reduceState', ReduceTask)
      BY <1>10 DEF Unfinished
    <2>6. \A v \in Worker : worker'[v].doing \notin {"opened", "created", "written"}
      BY <1>9 DEF Reducing
    <2> QED
      BY <2>2, <2>4, <2>5, <2>6 DEF ReducePhase, Emitters
  <1> QED
    BY <1>6, <1>8, <1>11, <1>12 DEF Exact

LEMMA CompleteReduceExact ==
  ASSUME TypeOK, WorkerTypes, Exact, NEW w \in Worker, CompleteReduceTask(w)
  PROVE  Exact'
  <1>1. PICK r : r = worker[w].task
    OBVIOUS
  <1>2. /\ worker[w].doing = "written" /\ reduceState' = [reduceState EXCEPT ![r] = "COMPLETE"]
        /\ Cancel(<<"REDUCE", r>>) /\ remainReduce' = remainReduce - 1 /\ owner' = owner
        /\ mapState' = mapState /\ remainMap' = remainMap
        /\ worker' = [worker EXCEPT ![w] = Without("asking")] /\ out' = out
    BY <1>1 DEF CompleteReduceTask
  <1>3. PICK t \in Task : t = <<"REDUCE", r>> /\ r \in ReduceTask
    BY <1>1, <1>2, Tasks DEF WorkerTypes, Reducing
  <1>4. Busy(worker[w]) /\ TaskOf(worker[w]) = t
    BY <1>1, <1>2, <1>3 DEF Busy, TaskOf, Reducing
  <1>5. reduceState[r] = "WORK"
    <2>1. StateOf(t) = "WORK"
      BY <1>4 DEF Exact, Owned
    <2> QED
      BY <1>3, <2>1 DEF StateOf
  <1>6. remainMap = 0
    BY <1>2 DEF Exact, MapPhase, Reducing
  <1>7. Watched' /\ Owned'
    <2>1. StateOf(t)' = "COMPLETE" /\ \A u \in Task \ {t} : StateOf(u)' = StateOf(u)
      BY <1>2, <1>3, ReduceStateOf
    <2> QED
      BY <1>2, <1>3, <1>4, <2>1, CompleteExact DEF Exact
  <1>8. ReducePhase'
    <2>1. /\ reduceState'[r] = "COMPLETE" /\ reduceState[r] # "COMPLETE"
          /\ \A k \in ReduceTask \ {r} : reduceState'[k] = "COMPLETE" <=> reduceState[k] = "COMPLETE"
      BY <1>2, <1>3, <1>5 DEF TypeOK
    <2>2. Cardinality(Unfinished(reduceState', ReduceTask))
             = Cardinality(Unfinished(reduceState, ReduceTask)) - 1
      BY <1>3, <2>1, TasksFinite, OneLess
    <2>3. remainReduce' = Cardinality(Unfinished(reduceState', ReduceTask))
      BY <1>2, <1>6, <2>2 DEF Exact, ReducePhase
    <2>4. /\ worker'[w].doing = "asking" /\ \A v \in Worker \ {w} : worker'[v] = worker[v]
      BY <1>2 DEF TypeOK, Without
    <2>5. out[r] = Emitters(r)
      BY <1>1, <1>2, <1>6 DEF Exact, ReducePhase
    <2>6. \A v \in Worker : worker'[v].doing \in {"opened", "created", "written"} =>
              worker'[v] = worker[v]
      BY <2>4
    <2>7. \A q \in ReduceTask : reduceState'[q] = "COMPLETE" => out'[q] = Emitters(q)
      BY <1>2, <1>6, <2>1, <2>5 DEF Exact, ReducePhase
    <2> QED
      BY <1>2, <1>6, <2>3, <2>6, <2>7 DEF Exact, ReducePhase
  <1>9. MapPhase' /\ remainMap' = Cardinality(Unfinished(mapState', MapTask))
    BY <1>2, <1>6 DEF Exact, MapPhase
  <1> QED
    BY <1>7, <1>8, <1>9 DEF Exact

\* A worker ends, crashes or renames a file: nothing that counts changes.
LEMMA LeavingExact ==
  ASSUME TypeOK, WorkerTypes, Exact, NEW w \in Worker,
         GetFinish(w) \/ Disconnected(w) \/ Crash(w) \/ RenameFile(w)
  PROVE  Exact'
  <1>1. UNCHANGED <<mapState, reduceState, remainMap, remainReduce, owner, watch, out>>
    BY DEF GetFinish, Disconnected, Crash, RenameFile, coordVars
  <1>2. PICK s : /\ worker' = [worker EXCEPT ![w] = s]
                 /\ \/ s.doing \in {"exited", "crashed"}
                    \/ s.doing = "map" /\ worker[w].doing = "map" /\ s.task = worker[w].task
    <2>1. CASE RenameFile(w)
      <3>1. PICK s : s = [worker[w] EXCEPT !.todo = @ \ {Min(worker[w].todo)}]
        OBVIOUS
      <3>2. worker[w] \in WorkerState /\ worker[w].doing = "map"
        BY <2>1 DEF TypeOK, RenameFile
      <3>3. s.doing = "map" /\ s.task = worker[w].task
        BY <3>1, <3>2 DEF WorkerState
      <3>4. worker' = [worker EXCEPT ![w] = s]
        BY <2>1, <3>1 DEF RenameFile
      <3> QED
        BY <3>2, <3>3, <3>4
    <2>2. CASE ~RenameFile(w)
      <3>1. /\ Without("exited").doing = "exited" /\ Without("crashed").doing = "crashed"
            /\ \/ worker' = [worker EXCEPT ![w] = Without("exited")]
               \/ worker' = [worker EXCEPT ![w] = Without("crashed")]
        BY <2>2 DEF GetFinish, Disconnected, Crash, Without
      <3> QED
        BY <3>1
    <2> QED
      BY <2>1, <2>2
  <1>3. Watched' /\ Owned'
    <2>1. Busy(s) => Busy(worker[w]) /\ TaskOf(s) = TaskOf(worker[w])
      BY <1>2 DEF Busy, TaskOf, Reducing
    <2> QED
      BY <1>1, <1>2, <2>1, WorkerExact DEF Exact
  <1>4. \A v \in Worker : worker'[v].doing \in Reducing => worker'[v] = worker[v]
    BY <1>2 DEF TypeOK, Reducing
  <1>5. MapPhase'
    BY <1>1, <1>4 DEF Exact, MapPhase
  <1>6. ReducePhase'
    BY <1>1, <1>4 DEF Exact, ReducePhase, Reducing
  <1> QED
    BY <1>1, <1>3, <1>5, <1>6 DEF Exact

\* Whoever is at the task of a worker is that worker.
LEMMA OneWorker ==
  ASSUME Owned, NEW v \in Worker, NEW w \in Worker, Busy(worker[v]), Busy(worker[w]),
         TaskOf(worker[v]) = TaskOf(worker[w])
  PROVE  v = w
  BY DEF Owned

LEMMA ReducingExact ==
  ASSUME TypeOK, WorkerTypes, CompleteMapHasFiles, OnlyEmitted, Exact, NEW w \in Worker,
         OpenFiles(w) \/ CreateOutput(w) \/ WriteOutput(w)
  PROVE  Exact'
  <1>1. UNCHANGED <<mapState, reduceState, remainMap, remainReduce, owner, watch>>
    BY DEF OpenFiles, CreateOutput, WriteOutput, coordVars
  <1>2. PICK r : r = worker[w].task
    OBVIOUS
  <1>3. worker[w] \in WorkerState /\ worker[w].doing \in Reducing /\ r \in ReduceTask
    BY <1>2 DEF OpenFiles, CreateOutput, WriteOutput, TypeOK, WorkerTypes, Reducing
  <1>4. remainMap = 0 /\ reduceState[r] = "WORK"
    BY <1>2, <1>3 DEF Exact, MapPhase, Owned, Busy, TaskOf, StateOf, Reducing
  <1>5. PICK s : s = worker'[w]
    OBVIOUS
  <1>6. /\ worker' = [worker EXCEPT ![w] = s] /\ s.task = r /\ s.doing \in Reducing
        /\ worker'[w] = s /\ \A v \in Worker \ {w} : worker'[v] = worker[v]
    BY <1>2, <1>3, <1>5 DEF OpenFiles, CreateOutput, WriteOutput, TypeOK, WorkerState, Reducing
  <1>7. Watched' /\ Owned'
    <2>1. Busy(worker[w]) /\ TaskOf(s) = TaskOf(worker[w])
      BY <1>2, <1>3, <1>6 DEF Busy, TaskOf, Reducing
    <2> QED
      BY <1>1, <1>6, <2>1, WorkerExact DEF Exact
  <1>8. \A q \in ReduceTask \ {r} : out'[q] = out[q]
    BY <1>2 DEF OpenFiles, CreateOutput, WriteOutput, TypeOK
  <1>9. \A v \in Worker \ {w} : worker[v].doing = "written" =>
            worker[v].task \in ReduceTask \ {r}
    <2> SUFFICES ASSUME NEW v \in Worker \ {w}, worker[v].doing = "written"
                 PROVE  worker[v].task \in ReduceTask /\ worker[v].task # r
      OBVIOUS
    <2>1. worker[v].task \in ReduceTask
      BY DEF WorkerTypes, Reducing
    <2>2. Busy(worker[v]) /\ Busy(worker[w])
      BY <1>3 DEF Busy, Reducing
    <2>3. worker[v].task = r => TaskOf(worker[v]) = TaskOf(worker[w])
      BY <1>2, <1>3 DEF TaskOf, Reducing
    <2> QED
      BY <2>1, <2>2, <2>3, OneWorker DEF Exact
  <1>10. /\ s.doing \in {"opened", "created"} => s.todo = Emitters(r)
         /\ s.doing = "written" => out'[r] = Emitters(r)
    <2>1. CASE OpenFiles(w)
      <3>1. \A m \in MapTask : mapState[m] = "COMPLETE"
        BY <1>4, TasksFinite, NoneLeft DEF Exact
      <3>2. {m \in MapTask : <<m, r>> \in files} = Emitters(r)
        BY <1>3, <3>1, AllFiles
      <3>3. s.doing = "opened" /\ s.todo = {m \in MapTask : <<m, r>> \in files}
        BY <1>2, <1>3, <1>5, <2>1 DEF OpenFiles, TypeOK, WorkerState
      <3> QED
        BY <3>2, <3>3
    <2>2. CASE CreateOutput(w) \/ WriteOutput(w)
      <3>1. worker[w].doing \in {"opened", "created"} /\ worker[w].todo = Emitters(r)
        BY <1>2, <1>4, <2>2 DEF CreateOutput, WriteOutput, Exact, ReducePhase
      <3>2. s.todo = worker[w].todo
        BY <1>3, <1>5, <2>2 DEF CreateOutput, WriteOutput, TypeOK, WorkerState
      <3>3. CreateOutput(w) => s.doing = "created"
        BY <1>3, <1>5 DEF CreateOutput, TypeOK, WorkerState
      <3>4. WriteOutput(w) => out'[r] = worker[w].todo
        BY <1>2, <1>3 DEF WriteOutput, TypeOK
      <3> QED
        BY <2>2, <3>1, <3>2, <3>3, <3>4
    <2> QED
      BY <2>1, <2>2
  <1>11. ReducePhase'
    <2>1. remainReduce' = Cardinality(Unfinished(reduceState', ReduceTask))
      BY <1>1, <1>4 DEF Exact, ReducePhase
    <2>2. ASSUME NEW v \in Worker
          PROVE  /\ worker'[v].doing \in {"opened", "created"} =>
                        worker'[v].todo = Emitters(worker'[v].task)
                 /\ worker'[v].doing = "written" =>
                        out'[worker'[v].task] = Emitters(worker'[v].task)
      <3>1. CASE v = w
        BY <1>6, <1>10, <3>1
      <3>2. CASE v # w
        <4>1. /\ worker[v].doing \in {"opened", "created"} =>
                     worker[v].todo = Emitters(worker[v].task)
              /\ worker[v].doing = "written" =>
                     out[worker[v].task] = Emitters(worker[v].task)
          BY <1>4 DEF Exact, ReducePhase
        <4>2. worker'[v] = worker[v]
          BY <1>6, <3>2
        <4>3. worker[v].doing = "written" => out'[worker[v].task] = out[worker[v].task]
          BY <1>8, <1>9, <3>2
        <4> QED
          BY <4>1, <4>2, <4>3
      <3> QED
        BY <3>1, <3>2
    <2>3. \A q \in ReduceTask : reduceState'[q] = "COMPLETE" => out'[q] = Emitters(q)
      BY <1>1, <1>4, <1>8 DEF Exact, ReducePhase
    <2> QED
      BY <2>1, <2>2, <2>3 DEF ReducePhase, Emitters
  <1>12. MapPhase' /\ remainMap' = Cardinality(Unfinished(mapState', MapTask))
    BY <1>1, <1>4 DEF Exact, MapPhase
  <1> QED
    BY <1>7, <1>11, <1>12 DEF Exact

LEMMA ContextDonePhases ==
  ASSUME TypeOK, WorkerTypes, Exact, NEW g \in BagToSet(watch), ContextDone(g), slow' = slow
  PROVE  Exact'
  <1>1. UNCHANGED <<remainMap, remainReduce, owner, worker, out>>
    BY DEF ContextDone
  <1>2. Watched' /\ Owned' /\ DOMAIN watch' \subseteq DOMAIN watch
    BY ContextDoneExact DEF Exact
  <1>3. /\ g.task[1] = "MAP" => reduceState' = reduceState
        /\ \A m \in MapTask : mapState'[m] = "COMPLETE" <=> mapState[m] = "COMPLETE"
        /\ \A r \in ReduceTask : reduceState'[r] = "COMPLETE" <=> reduceState[r] = "COMPLETE"
    BY ContextDoneStates
  <1>4. /\ Unfinished(mapState', MapTask) = Unfinished(mapState, MapTask)
        /\ Unfinished(reduceState', ReduceTask) = Unfinished(reduceState, ReduceTask)
    BY <1>3, SameCount
  <1>5. MapPhase'
    <2> SUFFICES ASSUME remainMap # 0 PROVE MapPhase'
      BY <1>1 DEF MapPhase
    <2>1. g.task[1] = "MAP"
      BY DEF Exact, MapPhase, BagToSet
    <2>2. \A r \in ReduceTask : \A k \in Emitters(r) :
              mapState'[k] = "COMPLETE" <=> mapState[k] = "COMPLETE"
      BY <1>3 DEF Emitters
    <2> QED
      BY <1>1, <1>2, <1>3, <2>1, <2>2 DEF Exact, MapPhase
  <1>6. ReducePhase'
    BY <1>1, <1>3, <1>4 DEF Exact, ReducePhase, Emitters
  <1> QED
    BY <1>1, <1>2, <1>4, <1>5, <1>6 DEF Exact

LEMMA ExactStep ==
  ASSUME FilesInv, OnlyEmitted, Exact, [Next]_vars, slow' = slow
  PROVE  Exact'
  <1> USE DEF FilesInv
  <1>1. ASSUME NEW g \in BagToSet(watch), ContextDone(g) PROVE Exact'
    BY <1>1, ContextDonePhases
  <1>2. ASSUME NEW w \in Worker, WorkerStep(w) \/ Crash(w) PROVE Exact'
    BY <1>2, GetMapExact, GetReduceExact, CompleteMapExact, CompleteReduceExact,
       LeavingExact, ReducingExact DEF WorkerStep
  <1>3. CASE Done \/ UNCHANGED vars
    <2>1. UNCHANGED <<mapState, reduceState, remainMap, remainReduce, owner, watch, worker, out>>
      BY <1>3 DEF Done, vars
    <2> QED
      BY <2>1, ExactUnchanged
  <1> QED
    BY <1>1, <1>2, <1>3 DEF Next

\* The number of slow workers never goes down.
LEMMA SlowGrows ==
  ASSUME TypeOK, [Next]_vars, slow' = 0
  PROVE  slow' = slow
  <1>1. slow \in Nat
    BY WorkerAssumption DEF TypeOK
  <1>2. ASSUME NEW g \in BagToSet(watch), ContextDone(g) PROVE slow' = slow
    <2>1. slow' # slow + 1
      BY <1>1
    <2> QED
      BY <1>2, <2>1 DEF ContextDone
  <1>3. ASSUME NEW w \in Worker, WorkerStep(w) \/ Crash(w) PROVE slow' = slow
    BY <1>3 DEF WorkerStep, GetMapTask, GetReduceTask, GetFinish, RenameFile, CompleteMapTask,
                OpenFiles, CreateOutput, WriteOutput, CompleteReduceTask, Disconnected, Crash
  <1> QED
    BY <1>2, <1>3 DEF Next, Done, vars

\* Once it is done the coordinator does nothing any more.
LEMMA DoneStep ==
  ASSUME TypeOK, DoneAtEnd, [Next]_vars
  PROVE  DoneAtEnd'
  <1>1. CASE Done
    BY <1>1 DEF Done, DoneAtEnd
  <1>2. ASSUME NEW g \in BagToSet(watch), ContextDone(g) PROVE DoneAtEnd'
    BY <1>2 DEF ContextDone, DoneAtEnd
  <1>3. ASSUME NEW w \in Worker, WorkerStep(w) \/ Crash(w) PROVE DoneAtEnd'
    <2>1. CASE GetMapTask(w) \/ GetReduceTask(w) \/ CompleteMapTask(w) \/ CompleteReduceTask(w)
      BY <2>1 DEF GetMapTask, GetReduceTask, CompleteMapTask, CompleteReduceTask, DoneAtEnd
    <2>2. CASE coordVars' = coordVars
      BY <2>2 DEF coordVars, DoneAtEnd
    <2> QED
      BY <1>3, <2>1, <2>2 DEF WorkerStep, GetFinish, RenameFile, OpenFiles, CreateOutput,
                              WriteOutput, Disconnected, Crash
  <1>4. CASE UNCHANGED vars
    BY <1>4 DEF vars, DoneAtEnd
  <1> QED
    BY <1>1, <1>2, <1>3, <1>4 DEF Next

-----------------------------------------------------------------------------
(* The theorems.                                                           *)

LEMMA Initially ==
  ASSUME Init
  PROVE  IInv
  <1>1. TypeOK /\ WorkerTypes
    <2>1. worker \in [Worker -> WorkerState] /\ WorkerTypes
      BY WithoutTyped DEF Init, WorkerTypes, TypedWorker, Without, Reducing
    <2>2. IsABag(watch) /\ BagToSet(watch) = {}
      BY DEF Init, EmptyBag, SetToBag, IsABag, BagToSet
    <2> QED
      BY <2>1, <2>2, Tasks, TaskAssumption, WorkerAssumption DEF Init, TypeOK, TaskState
  <1>2. RenamedInPlace /\ CompleteMapHasFiles /\ OnlyEmitted /\ DoneAtEnd
    BY DEF Init, RenamedInPlace, CompleteMapHasFiles, OnlyEmitted, DoneAtEnd, Without
  <1>3. DOMAIN watch = {}
    BY DEF Init, EmptyBag, SetToBag
  <1>4. Watched /\ Owned /\ MapPhase
    BY <1>3 DEF Init, Watched, Owned, MapPhase, Without, Busy, Reducing, Emitters
  <1>5. remainMap = Cardinality(Unfinished(mapState, MapTask)) /\ remainMap # 0
    <2>1. Unfinished(mapState, MapTask) = 0 .. NMap - 1
      BY DEF Init, Unfinished, MapTask
    <2>2. Cardinality(0 .. NMap - 1) = NMap
      BY TaskAssumption, FS_Interval
    <2> QED
      BY <2>1, <2>2, TaskAssumption DEF Init
  <1> QED
    BY <1>1, <1>2, <1>4, <1>5 DEF IInv, FilesInv, OnTime, Exact, ReducePhase

\* The invariant holds initially and every step keeps it.
THEOREM Invariance == Spec => []IInv
  <1>1. Init => IInv
    BY Initially
  <1>2. ASSUME IInv, [Next]_vars PROVE IInv'
    <2>1. TypeOK' /\ WorkerTypes'
      BY <1>2, TypeStep DEF IInv, FilesInv
    <2>2. RenamedInPlace' /\ CompleteMapHasFiles' /\ OnlyEmitted'
      BY <1>2, FilesStep DEF IInv
    <2>3. DoneAtEnd'
      BY <1>2, DoneStep DEF IInv, FilesInv
    <2>4. OnTime'
      <3> SUFFICES ASSUME slow' = 0 PROVE Exact'
        BY DEF OnTime
      <3>1. slow' = slow
        BY <1>2, SlowGrows DEF IInv, FilesInv
      <3> QED
        BY <1>2, <3>1, ExactStep DEF IInv, OnTime
    <2> QED
      BY <2>1, <2>2, <2>3, <2>4 DEF IInv, FilesInv
  <1> QED
    BY <1>1, <1>2, PTL DEF Spec

\* Every variable keeps its type.
THEOREM TypeCorrect == Spec => []TypeOK
  <1>1. IInv => TypeOK
    BY DEF IInv, FilesInv
  <1> QED
    BY <1>1, Invariance, PTL

\* A map task is complete only when all its files have their final names, whichever
\* workers crash or outlive their timeout (mr/worker.go, CompleteTask).
THEOREM FilesComplete == Spec => []CompleteMapHasFiles
  <1>1. IInv => CompleteMapHasFiles
    BY DEF IInv, FilesInv
  <1> QED
    BY <1>1, Invariance, PTL

\* The coordinator's counts are the numbers of unfinished tasks, whichever workers
\* crash, as long as none outlives its timeout.
THEOREM Counting == Spec => []CountsExact
  <1>1. IInv => CountsExact
    BY DEF IInv, OnTime, Exact, ReducePhase, Unfinished, CountsExact
  <1> QED
    BY <1>1, Invariance, PTL

\* When Done returns true every output file holds what all map tasks emitted for it,
\* whichever workers crashed, as long as none outlived its timeout.
THEOREM OutputRight == Spec => []OutputComplete
  <1>1. ASSUME IInv PROVE OutputComplete
    <2> SUFFICES ASSUME coord = "done", slow = 0, NEW r \in ReduceTask
                 PROVE  out[r] = Emitters(r)
      BY DEF OutputComplete, Emitters
    <2>1. Exact /\ remainMap = 0 /\ remainReduce = 0
      BY <1>1 DEF IInv, OnTime, DoneAtEnd
    <2>2. Cardinality(Unfinished(reduceState, ReduceTask)) = 0
      BY <2>1 DEF Exact, ReducePhase
    <2>3. reduceState[r] = "COMPLETE"
      BY <2>2, TasksFinite, NoneLeft
    <2> QED
      BY <2>1, <2>3 DEF Exact, ReducePhase
  <1> QED
    BY <1>1, Invariance, PTL

=============================================================================
