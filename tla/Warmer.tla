--------------------------------- MODULE Warmer ---------------------------------
(***************************************************************************)
(* The warm-up engine (service/account_warmer.rs): it keeps accounts busy  *)
(* by driving interactive clients.  A task is a row of the database; the   *)
(* runner of a task starts one worker per token, joins them and writes     *)
(* the task's verdict into the row.  Runners are spawned by start_task     *)
(* and by a supervisor that lists the running rows, so that a restart      *)
(* resumes them.  The row and the map of runners are two records of what   *)
(* runs, and every write of the row is an await away from the map.         *)
(***************************************************************************)
EXTENDS Naturals, FiniteSets

CONSTANTS
  Tasks,          \* the rows of warmup_tasks
  Tokens,         \* the warm-up tokens
  TokenList,      \* TokenList[t]: the tokens task t names
  MaxProcesses,   \* permits of the semaphore: clients that may run at a time
  MaxOrders,      \* bound: start, stop and delete requests
  MaxFaults       \* bound: failed queries, dropped requests, restarts

ASSUME WarmerAssumption ==
  /\ TokenList \in [Tasks -> SUBSET Tokens]
  /\ MaxProcesses \in Nat \ {0}
  /\ MaxOrders \in Nat
  /\ MaxFaults \in Nat

VARIABLES
  status,      \* the row's status, or "gone"
  clock,       \* the row's started_at: none, its time still open, its time over
  tasks,       \* the keys of the map of runners
  cancelled,   \* the tasks of that map whose flag is set
  runner,      \* runner[t]: what the runner of t is about to do
  deadline,    \* its deadline: that of the row, one of its own, or over
  worker,      \* worker[t][k]: what the worker of t for token k is about to do
  active,      \* active_tokens
  listed,      \* the supervisor's list of running tasks it has still to look at
  start,       \* start[t]: a start request that is under way
  stop,        \* stop[t]: a stop or delete request that is under way
  orders, faults

rowVars == <<status, clock>>
runVars == <<tasks, cancelled, runner, deadline>>
workVars == <<worker, active>>
orderVars == <<listed, start, stop, orders>>
vars == <<rowVars, runVars, workVars, orderVars, faults>>

Statuses == {"pending", "running", "completed", "stopped", "error", "gone"}

(***************************************************************************)
(* Runner: "load" reads the row, "gather" its tokens; "late" and "barren"  *)
(* write the verdict of a task whose time is over or that has no token;    *)
(* "join" waits for the workers, "reread" looks for an error they wrote,   *)
(* "halt" and "complete" write the verdict, "leave" gives the map entry up.*)
(***************************************************************************)
RunnerSteps ==
  {"none", "load", "late", "gather", "barren", "join", "reread", "halt", "complete", "leave"}

(***************************************************************************)
(* Worker: "claim" takes the token, "queue" waits for a permit or for the  *)
(* cancellation, which "woken" has seen; "launch" starts the client, "run" *)
(* talks to it, "report" writes that it could not be started.              *)
(***************************************************************************)
WorkerSteps == {"off", "claim", "queue", "woken", "launch", "report", "run"}

Permitted == {"launch", "report", "run"}
Holding == Permitted \cup {"queue", "woken"}

Permits == Cardinality({p \in Tasks \X Tokens : worker[p[1]][p[2]] \in Permitted})

Init ==
  /\ status = [t \in Tasks |-> "pending"]
  /\ clock = [t \in Tasks |-> "none"]
  /\ tasks = {}
  /\ cancelled = {}
  /\ runner = [t \in Tasks |-> "none"]
  /\ deadline = [t \in Tasks |-> "none"]
  /\ worker = [t \in Tasks |-> [k \in Tokens |-> "off"]]
  /\ active = {}
  /\ listed = {}
  /\ start = [t \in Tasks |-> "idle"]
  /\ stop = [t \in Tasks |-> "idle"]
  /\ orders = 0
  /\ faults = 0

Fault == faults < MaxFaults /\ faults' = faults + 1

Order == orders < MaxOrders /\ orders' = orders + 1

---------------------------------------------------------------------------
(* The row.  A deadline read from started_at is that of the row until the  *)
(* row is given another start.                                             *)

SetStatus(t, s) == status' = [status EXCEPT ![t] = IF @ = "gone" THEN @ ELSE s]

UpdateRuntime(t, s, c) ==
  /\ SetStatus(t, s)
  /\ clock' = [clock EXCEPT ![t] = IF status[t] = "gone" THEN @ ELSE c]
  /\ deadline' =
       [deadline EXCEPT ![t] = IF @ = "row" /\ status[t] # "gone" THEN "own" ELSE @]

\* The time of the row passes, or that of a runner whose start is older than it.
Expire(t) ==
  /\ \/ /\ clock[t] = "open"
        /\ clock' = [clock EXCEPT ![t] = "over"]
     \/ deadline[t] = "own" /\ UNCHANGED clock
  /\ deadline' = [deadline EXCEPT ![t] = IF @ = "none" THEN @ ELSE "over"]
  /\ UNCHANGED <<status, tasks, cancelled, runner, workVars, orderVars, faults>>

---------------------------------------------------------------------------
(* Runners are spawned: spawn_task_runner, under the lock of the map.      *)

\* Fault: the map is not asked, and a second runner takes the place of the first.
SpawnAgain(t) ==
  /\ tasks' = tasks \cup {t}
  /\ runner' = [runner EXCEPT ![t] = "load"]

Spawn(t) ==
  IF t \in tasks
    THEN UNCHANGED <<tasks, runner>>
    ELSE /\ tasks' = tasks \cup {t}
         /\ runner' = [runner EXCEPT ![t] = "load"]

\* A tick of the supervisor whose query succeeds; one that fails changes nothing.
List ==
  /\ listed = {}
  /\ listed' = {t \in Tasks : status[t] = "running"}
  /\ UNCHANGED <<rowVars, runVars, workVars, start, stop, orders, faults>>

Resume(t) ==
  /\ t \in listed
  /\ listed' = listed \ {t}
  /\ Spawn(t)
  /\ UNCHANGED <<rowVars, cancelled, deadline, workVars, start, stop, orders, faults>>

\* The loop of the supervisor: run.
Supervise == List \/ \E t \in Tasks : Resume(t)

---------------------------------------------------------------------------
(* Requests: start_task, stop_task and delete_warmup_task.                 *)

StartCheck(t) ==
  /\ start[t] = "idle"
  /\ status[t] # "gone"
  /\ t \notin tasks
  /\ start' = [start EXCEPT ![t] = "write"]
  /\ Order
  /\ UNCHANGED <<rowVars, runVars, workVars, listed, stop, faults>>

StartWrite(t) ==
  /\ start[t] = "write"
  /\ \/ /\ UpdateRuntime(t, "running", "open")
        /\ start' = [start EXCEPT ![t] = "spawn"]
        /\ UNCHANGED faults
     \/ /\ Fault
        /\ start' = [start EXCEPT ![t] = "idle"]
        /\ UNCHANGED <<rowVars, deadline>>
  /\ UNCHANGED <<tasks, cancelled, runner, workVars, listed, stop, orders>>

StartSpawn(t) ==
  /\ start[t] = "spawn"
  /\ Spawn(t)
  /\ start' = [start EXCEPT ![t] = "idle"]
  /\ UNCHANGED <<rowVars, cancelled, deadline, workVars, listed, stop, orders, faults>>

\* The flag is set, and only the workers that wait are woken.
StopCancel(t) ==
  /\ stop[t] = "idle"
  /\ status[t] # "gone"
  /\ stop' \in {[stop EXCEPT ![t] = s] : s \in {"stop", "delete"}}
  /\ Order
  /\ IF t \in tasks
       THEN /\ cancelled' = cancelled \cup {t}
            /\ worker' = [worker EXCEPT ![t] =
                 [k \in Tokens |-> IF @[k] = "queue" THEN "woken" ELSE @[k]]]
       ELSE UNCHANGED <<cancelled, worker>>
  /\ UNCHANGED <<rowVars, tasks, runner, deadline, active, listed, start, faults>>

StopWrite(t) ==
  /\ stop[t] \in {"stop", "delete"}
  /\ \/ SetStatus(t, "stopped") /\ UNCHANGED faults
     \/ Fault /\ UNCHANGED status
  /\ stop' = [stop EXCEPT ![t] = IF @ = "stop" THEN "idle" ELSE "erase"]
  /\ UNCHANGED <<clock, runVars, workVars, listed, start, orders>>

Delete(t) ==
  /\ stop[t] = "erase"
  /\ \/ status' = [status EXCEPT ![t] = "gone"] /\ UNCHANGED faults
     \/ Fault /\ UNCHANGED status
  /\ stop' = [stop EXCEPT ![t] = "idle"]
  /\ UNCHANGED <<clock, runVars, workVars, listed, start, orders>>

---------------------------------------------------------------------------
(* The runner: run_task.                                                   *)

Go(t, step) == runner' = [runner EXCEPT ![t] = step]

\* Fault: a runner that ends forgets its entry of the map.
ForgetEntry(t) == Go(t, "none") /\ UNCHANGED <<tasks, cancelled>>

\* The row is not there or not readable: the entry goes, and the row stays.
GiveUp(t) ==
  /\ Go(t, "none")
  /\ tasks' = tasks \ {t}
  /\ cancelled' = cancelled \ {t}

Load(t) ==
  /\ runner[t] = "load"
  /\ \/ /\ status[t] # "gone"
        /\ Go(t, IF clock[t] = "over" THEN "late" ELSE "gather")
        /\ deadline' = [deadline EXCEPT ![t] =
             CASE clock[t] = "over" -> "over" [] clock[t] = "open" -> "row" [] OTHER -> "own"]
        /\ UNCHANGED <<tasks, cancelled, faults>>
     \/ status[t] = "gone" /\ GiveUp(t) /\ UNCHANGED <<deadline, faults>>
     \/ Fault /\ GiveUp(t) /\ UNCHANGED deadline
  /\ UNCHANGED <<rowVars, workVars, orderVars>>

\* A token that is missing, of another category or not readable is skipped.
Gather(t) ==
  /\ runner[t] = "gather"
  /\ \E usable \in SUBSET TokenList[t] :
       /\ Go(t, IF usable = {} THEN "barren" ELSE "join")
       /\ worker' = [worker EXCEPT ![t] =
            [k \in Tokens |-> IF k \in usable THEN "claim" ELSE "off"]]
  /\ UNCHANGED <<rowVars, tasks, cancelled, deadline, active, orderVars, faults>>

\* Fault: the handles of the workers are not awaited.
NotAwaited(t) == TRUE

Joined(t) == \A k \in Tokens : worker[t][k] = "off"

Join(t) ==
  /\ runner[t] = "join"
  /\ Joined(t)
  /\ Go(t, IF t \in cancelled THEN "halt" ELSE "reread")
  /\ UNCHANGED <<rowVars, tasks, cancelled, deadline, workVars, orderVars, faults>>

Reread(t) ==
  /\ runner[t] = "reread"
  /\ \/ Go(t, IF status[t] = "error" THEN "leave" ELSE "complete") /\ UNCHANGED faults
     \/ Fault /\ Go(t, "complete")
  /\ UNCHANGED <<rowVars, tasks, cancelled, deadline, workVars, orderVars>>

\* The start a runner without tokens has read goes back into the row: one that was
\* written since then is overwritten.
Restored(t) ==
  IF deadline[t] = "row" \/ status[t] = "gone"
    THEN {clock[t]} ELSE {"none", "open", "over"}

\* The verdict; a write that fails is not noticed.
Write(t) ==
  /\ runner[t] \in {"late", "barren", "halt", "complete"}
  /\ Go(t, "leave")
  /\ \/ /\ \/ runner[t] \in {"late", "complete"} /\ SetStatus(t, "completed")
           \/ runner[t] = "halt" /\ SetStatus(t, "stopped")
        /\ UNCHANGED <<clock, faults>>
     \/ /\ runner[t] = "barren"
        /\ SetStatus(t, "error")
        /\ \E c \in Restored(t) : clock' = [clock EXCEPT ![t] = c]
        /\ UNCHANGED faults
     \/ Fault /\ UNCHANGED rowVars
  /\ UNCHANGED <<tasks, cancelled, deadline, workVars, orderVars>>

Leave(t) ==
  /\ runner[t] = "leave"
  /\ GiveUp(t)
  /\ deadline' = [deadline EXCEPT ![t] = "none"]
  /\ UNCHANGED <<rowVars, workVars, orderVars, faults>>

---------------------------------------------------------------------------
(* A worker: session_worker.  Scope guards give the token and the permit   *)
(* back when it ends.                                                      *)

Turn(t, k, step) ==
  /\ worker' = [worker EXCEPT ![t][k] = step]
  /\ active' = IF step = "off" THEN active \ {k} ELSE active

\* Fault: the token is taken without a look at who has it.
ClaimAnyway(t, k) ==
  /\ worker[t][k] = "claim"
  /\ worker' = [worker EXCEPT ![t][k] = "queue"]
  /\ active' = active \cup {k}
  /\ UNCHANGED <<rowVars, runVars, orderVars, faults>>

\* One worker per token: the one that finds it taken ends without a word.
Claim(t, k) ==
  /\ worker[t][k] = "claim"
  /\ worker' = [worker EXCEPT ![t][k] = IF k \in active THEN "off" ELSE "queue"]
  /\ active' = active \cup {k}
  /\ UNCHANGED <<rowVars, runVars, orderVars, faults>>

\* A permit.  One who began to wait after the flag was set looks at it only now.
Admit(t, k) ==
  /\ worker[t][k] = "queue"
  /\ Permits < MaxProcesses
  /\ Turn(t, k, IF t \in cancelled THEN "off" ELSE "launch")
  /\ UNCHANGED <<rowVars, runVars, orderVars, faults>>

Woken(t, k) ==
  /\ worker[t][k] = "woken"
  /\ Turn(t, k, "off")
  /\ UNCHANGED <<rowVars, runVars, orderVars, faults>>

\* The client starts or does not (external).
Launch(t, k) ==
  /\ worker[t][k] = "launch"
  /\ \E step \in {"run", "report"} : Turn(t, k, step)
  /\ UNCHANGED <<rowVars, runVars, orderVars, faults>>

\* The task is in error, and update_runtime wipes its start and its end.
Report(t, k) ==
  /\ worker[t][k] = "report"
  /\ Turn(t, k, "off")
  /\ \/ UpdateRuntime(t, "error", "none") /\ UNCHANGED faults
     \/ Fault /\ UNCHANGED <<rowVars, deadline>>
  /\ UNCHANGED <<tasks, cancelled, runner, orderVars>>

\* Turns are taken until the flag is set or the time is over.
Finish(t, k) ==
  /\ worker[t][k] = "run"
  /\ t \in cancelled \/ deadline[t] = "over"
  /\ Turn(t, k, "off")
  /\ UNCHANGED <<rowVars, runVars, orderVars, faults>>

\* The client exits by itself: end of file (external).
ClientExits(t, k) ==
  /\ worker[t][k] = "run"
  /\ Turn(t, k, "off")
  /\ UNCHANGED <<rowVars, runVars, orderVars, faults>>

---------------------------------------------------------------------------
(* Faults.                                                                 *)

\* The client of a request goes away, and its handler is dropped at an await.
Drop(t) ==
  /\ Fault
  /\ \/ start[t] # "idle" /\ start' = [start EXCEPT ![t] = "idle"] /\ UNCHANGED stop
     \/ stop[t] # "idle" /\ stop' = [stop EXCEPT ![t] = "idle"] /\ UNCHANGED start
  /\ UNCHANGED <<rowVars, runVars, workVars, listed, orders>>

\* The process restarts: the rows are what is left.
Restart ==
  /\ Fault
  /\ tasks # {}
  /\ tasks' = {}
  /\ cancelled' = {}
  /\ runner' = [t \in Tasks |-> "none"]
  /\ deadline' = [t \in Tasks |-> "none"]
  /\ worker' = [t \in Tasks |-> [k \in Tokens |-> "off"]]
  /\ active' = {}
  /\ listed' = {}
  /\ start' = [t \in Tasks |-> "idle"]
  /\ stop' = [t \in Tasks |-> "idle"]
  /\ UNCHANGED <<rowVars, orders>>

---------------------------------------------------------------------------

RunnerStep(t) ==
  Load(t) \/ Gather(t) \/ Join(t) \/ Reread(t) \/ Write(t) \/ Leave(t)

RequestStep(t) == StartWrite(t) \/ StartSpawn(t) \/ StopWrite(t) \/ Delete(t)

WorkerStep(t, k) ==
  Claim(t, k) \/ Admit(t, k) \/ Woken(t, k) \/ Launch(t, k) \/ Report(t, k) \/ Finish(t, k)

\* What the process owes task t: its time, its requests, its runner, its workers.
Progress(t) ==
  \/ Expire(t) \/ RunnerStep(t) \/ RequestStep(t)
  \/ \E k \in Tokens : WorkerStep(t, k)

Next ==
  \/ Supervise
  \/ Restart
  \/ \E t \in Tasks :
       \/ StartCheck(t) \/ StopCancel(t) \/ Drop(t) \/ Progress(t)
       \/ \E k \in Tokens : ClientExits(t, k)

(***************************************************************************)
(* The runtime polls every spawned future and every request, the ticks of  *)
(* the supervisor go on, and time passes.                                  *)
(***************************************************************************)
Fairness ==
  /\ WF_vars(Supervise)
  /\ \A t \in Tasks : WF_vars(Progress(t))

Spec == Init /\ [][Next]_vars /\ Fairness

---------------------------------------------------------------------------
(* Properties.                                                             *)

(***************************************************************************)
(* Types; and the map of runners has exactly the runners that are there,   *)
(* with workers only while theirs joins them.                              *)
(***************************************************************************)
TypeOK ==
  /\ status \in [Tasks -> Statuses]
  /\ clock \in [Tasks -> {"none", "open", "over"}]
  /\ tasks = {t \in Tasks : runner[t] # "none"}
  /\ cancelled \subseteq tasks
  /\ runner \in [Tasks -> RunnerSteps]
  /\ deadline \in [Tasks -> {"none", "row", "own", "over"}]
  /\ worker \in [Tasks -> [Tokens -> WorkerSteps]]
  /\ \A t \in Tasks : runner[t] = "join" \/ Joined(t)
  /\ active \subseteq Tokens
  /\ listed \subseteq Tasks
  /\ start \in [Tasks -> {"idle", "write", "spawn"}]
  /\ stop \in [Tasks -> {"idle", "stop", "delete", "erase"}]
  /\ orders \in 0..MaxOrders
  /\ faults \in 0..MaxFaults

Holders(k) == {t \in Tasks : worker[t][k] \in Holding}

(***************************************************************************)
(* A token is driven by at most one worker, whatever tasks name it, and it *)
(* is marked as active exactly while one holds it: no end of a worker,     *)
(* early or late, keeps it from later tasks ("同一令牌只允许一个 worker").   *)
(***************************************************************************)
TokenAlone ==
  \A k \in Tokens : Cardinality(Holders(k)) <= 1 /\ (k \in active <=> Holders(k) # {})

(***************************************************************************)
(* A task that becomes completed leaves no worker behind that still holds  *)
(* a token or drives a client for it.                                      *)
(***************************************************************************)
NoStragglers ==
  [][\A t \in Tasks :
       status'[t] = "completed" /\ status[t] # "completed" =>
         \A k \in Tokens : worker'[t][k] = "off"]_vars

(***************************************************************************)
(* A task comes to rest: its row no longer says running and its runner is  *)
(* gone, even over a restart, a dropped request or a failed query (the     *)
(* supervisor takes up what has lost its runner), and when a worker misses *)
(* the notification of a cancellation and has only the flag to look at.    *)
(***************************************************************************)
Busy(t) == status[t] = "running" \/ t \in tasks

TasksEnd == \A t \in Tasks : Busy(t) ~> ~Busy(t)

(***************************************************************************)
(* What stop_task says of itself: "取消 worker 并置 stopped" (it cancels    *)
(* the workers and sets the status to stopped).  The client of a task that *)
(* is stopped, with no request under way, does not go on talking.          *)
(***************************************************************************)
StopStops ==
  \A t \in Tasks :
    status[t] = "stopped" /\ start[t] = "idle" /\ stop[t] = "idle" =>
      t \in cancelled \/ \A k \in Tokens : worker[t][k] # "run"
===============================================================================
