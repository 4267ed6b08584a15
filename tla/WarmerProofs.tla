------------------------------ MODULE WarmerProofs ------------------------------
(***************************************************************************)
(* Proofs about Warmer for any tasks, tokens, permits, orders and faults:  *)
(* the map of runners is what runs, a token has one worker, and a task is  *)
(* completed only when its workers are gone.                               *)
(***************************************************************************)
EXTENDS Warmer, FiniteSetTheorems, TLAPS

-------------------------------------------------------------------------------
(* Types.                                                                  *)

\* What the row, the runners and the workers are, apart from each other.
RowOK ==
  /\ status \in [Tasks -> Statuses]
  /\ clock \in [Tasks -> {"none", "open", "over"}]
  /\ deadline \in [Tasks -> {"none", "row", "own", "over"}]

RunnersOK ==
  /\ tasks = {t \in Tasks : runner[t] # "none"}
  /\ cancelled \subseteq tasks
  /\ runner \in [Tasks -> RunnerSteps]

WorkersOK ==
  /\ worker \in [Tasks -> [Tokens -> WorkerSteps]]
  /\ \A t \in Tasks : runner[t] = "join" \/ Joined(t)
  /\ active \subseteq Tokens

OrdersOK ==
  /\ listed \subseteq Tasks
  /\ start \in [Tasks -> {"idle", "write", "spawn"}]
  /\ stop \in [Tasks -> {"idle", "stop", "delete", "erase"}]
  /\ orders \in 0..MaxOrders
  /\ faults \in 0..MaxFaults

LEMMA TypeParts == TypeOK <=> RowOK /\ RunnersOK /\ WorkersOK /\ OrdersOK
  BY DEF TypeOK, RowOK, RunnersOK, WorkersOK, OrdersOK

LEMMA TypePartsPrime == TypeOK' <=> RowOK' /\ RunnersOK' /\ WorkersOK' /\ OrdersOK'
  BY TypeParts, PTL

\* The row and its reader: SetStatus and UpdateRuntime with a status of the table.
LEMMA RowStep ==
  ASSUME TypeOK, [Next]_vars
  PROVE  RowOK'
  <1> USE DEF TypeOK, RowOK, Statuses, SetStatus
  <1>1. ASSUME UNCHANGED <<status, clock, deadline>> PROVE RowOK'
    BY <1>1
  <1>2. ASSUME NEW t \in Tasks, NEW s \in {"running", "error"},
               NEW c \in {"none", "open"}, UpdateRuntime(t, s, c)
        PROVE  RowOK'
    BY <1>2 DEF UpdateRuntime
  <1>3. ASSUME NEW t \in Tasks, Expire(t) PROVE RowOK'
    BY <1>3 DEF Expire
  <1>4. ASSUME NEW t \in Tasks, StopWrite(t) \/ Delete(t) PROVE RowOK'
    BY <1>4 DEF StopWrite, Delete, runVars
  <1>5. ASSUME NEW t \in Tasks, Load(t) PROVE RowOK'
    BY <1>5 DEF Load, rowVars
  <1>6. ASSUME NEW t \in Tasks, Write(t) PROVE RowOK'
    BY <1>6 DEF Write, Restored, rowVars
  <1>7. ASSUME NEW t \in Tasks, Leave(t) PROVE RowOK'
    BY <1>7 DEF Leave, rowVars
  <1>8. ASSUME Restart PROVE RowOK'
    BY <1>8 DEF Restart, rowVars
  <1>9. ASSUME NEW t \in Tasks, StartWrite(t) PROVE RowOK'
    BY <1>9, <1>1, <1>2 DEF StartWrite, rowVars
  <1>10. ASSUME NEW t \in Tasks, NEW k \in Tokens, Report(t, k) PROVE RowOK'
    BY <1>10, <1>1, <1>2 DEF Report, rowVars
  <1>11. ASSUME NEW t \in Tasks, NEW k \in Tokens,
                \/ Claim(t, k) \/ Admit(t, k) \/ Woken(t, k) \/ Launch(t, k)
                \/ Finish(t, k) \/ ClientExits(t, k)
         PROVE  RowOK'
    BY <1>11, <1>1
       DEF Claim, Admit, Woken, Launch, Finish, ClientExits, rowVars, runVars
  <1>12. ASSUME NEW t \in Tasks,
                \/ StartCheck(t) \/ StopCancel(t) \/ Drop(t) \/ StartSpawn(t)
                \/ Resume(t) \/ Gather(t) \/ Join(t) \/ Reread(t)
         PROVE  RowOK'
    BY <1>12, <1>1
       DEF StartCheck, StopCancel, Drop, StartSpawn, Resume, Gather, Join, Reread,
           rowVars, runVars
  <1>13. ASSUME List \/ UNCHANGED vars PROVE RowOK'
    BY <1>13, <1>1 DEF List, vars, rowVars, runVars
  <1> QED
    BY <1>3, <1>4, <1>5, <1>6, <1>7, <1>8, <1>9, <1>10, <1>11, <1>12, <1>13
       DEF Next, Supervise, Progress, RunnerStep, RequestStep, WorkerStep

\* The map of runners: an entry comes with a runner, and goes with it.
LEMMA RunnersStep ==
  ASSUME TypeOK, [Next]_vars
  PROVE  RunnersOK'
  <1> USE DEF TypeOK, RunnersOK, RunnerSteps
  <1>1. ASSUME UNCHANGED <<tasks, cancelled, runner>> PROVE RunnersOK'
    BY <1>1
  <1>2. ASSUME NEW t \in Tasks, Spawn(t), UNCHANGED cancelled PROVE RunnersOK'
    BY <1>2 DEF Spawn
  <1>3. ASSUME NEW t \in Tasks, GiveUp(t) PROVE RunnersOK'
    BY <1>3 DEF GiveUp, Go
  <1>4. ASSUME NEW t \in Tasks, NEW step \in RunnerSteps \ {"none"}, Go(t, step),
               runner[t] # "none", UNCHANGED <<tasks, cancelled>>
        PROVE  RunnersOK'
    BY <1>4 DEF Go
  <1>5. ASSUME NEW t \in Tasks, StopCancel(t) PROVE RunnersOK'
    BY <1>5 DEF StopCancel
  <1>6. ASSUME Restart PROVE RunnersOK'
    BY <1>6 DEF Restart
  <1>7. ASSUME NEW t \in Tasks, Resume(t) \/ StartSpawn(t) PROVE RunnersOK'
    BY <1>7, <1>2 DEF Resume, StartSpawn
  <1>8. ASSUME NEW t \in Tasks,
               Load(t) \/ Gather(t) \/ Join(t) \/ Reread(t) \/ Write(t) \/ Leave(t)
        PROVE  RunnersOK'
    <2>1. runner[t] # "none"
      BY <1>8 DEF Load, Gather, Join, Reread, Write, Leave
    <2>2. \/ GiveUp(t)
          \/ \E step \in RunnerSteps \ {"none"} : Go(t, step) /\ UNCHANGED <<tasks, cancelled>>
      BY <1>8 DEF Load, Gather, Join, Reread, Write, Leave
    <2> QED BY <2>1, <2>2, <1>3, <1>4
  <1>9. ASSUME NEW t \in Tasks,
               \/ Expire(t) \/ StartWrite(t) \/ StopWrite(t) \/ Delete(t)
               \/ StartCheck(t) \/ Drop(t)
        PROVE  RunnersOK'
    BY <1>9, <1>1 DEF Expire, StartWrite, StopWrite, Delete, StartCheck, Drop, runVars
  <1>10. ASSUME NEW t \in Tasks, NEW k \in Tokens,
                WorkerStep(t, k) \/ ClientExits(t, k)
         PROVE  RunnersOK'
    BY <1>10, <1>1
       DEF WorkerStep, Claim, Admit, Woken, Launch, Report, Finish, ClientExits, runVars
  <1>11. ASSUME List \/ UNCHANGED vars PROVE RunnersOK'
    BY <1>11, <1>1 DEF List, vars, runVars
  <1> QED
    BY <1>5, <1>6, <1>7, <1>8, <1>9, <1>10, <1>11
       DEF Next, Supervise, Progress, RunnerStep, RequestStep

\* A worker that is there takes a turn: its runner is joining it.
LEMMA TurnOK ==
  ASSUME TypeOK, NEW t \in Tasks, NEW k \in Tokens, worker[t][k] # "off",
         NEW step \in WorkerSteps,
         worker' = [worker EXCEPT ![t][k] = step],
         active' \subseteq Tokens, UNCHANGED runner
  PROVE  WorkersOK'
  <1> USE DEF TypeOK, WorkersOK
  <1>1. worker' \in [Tasks -> [Tokens -> WorkerSteps]]
    OBVIOUS
  <1>2. runner[t] = "join"
    BY DEF Joined
  <1>3. \A u \in Tasks \ {t} : worker'[u] = worker[u]
    OBVIOUS
  <1>4. ASSUME NEW u \in Tasks PROVE runner'[u] = "join" \/ Joined(u)'
    BY <1>2, <1>3 DEF Joined
  <1> QED BY <1>1, <1>4

\* Workers are there only while their runner joins them.
LEMMA WorkersStep ==
  ASSUME TypeOK, [Next]_vars
  PROVE  WorkersOK'
  <1> USE DEF TypeOK, WorkersOK
  <1>1. ASSUME UNCHANGED workVars, \A t \in Tasks : runner[t] # "join" \/ runner'[t] = "join"
        PROVE  WorkersOK'
    BY <1>1 DEF workVars, Joined
  <1>2. ASSUME NEW t \in Tasks, NEW k \in Tokens,
               WorkerStep(t, k) \/ ClientExits(t, k)
        PROVE  WorkersOK'
    <2> USE DEF WorkerSteps
    <2>1. worker[t][k] # "off" /\ UNCHANGED runner
      BY <1>2 DEF WorkerStep, Claim, Admit, Woken, Launch, Report, Finish, ClientExits,
                  runVars
    <2>2. /\ active' \subseteq Tokens
          /\ \E step \in WorkerSteps : worker' = [worker EXCEPT ![t][k] = step]
      BY <1>2 DEF WorkerStep, Claim, Admit, Woken, Launch, Report, Finish, ClientExits, Turn
    <2> HIDE DEF WorkerSteps
    <2> QED BY <2>1, <2>2, TurnOK
  <1>3. ASSUME NEW t \in Tasks, StopCancel(t) PROVE WorkersOK'
    <2>1. /\ UNCHANGED <<runner, active>>
          /\ \/ UNCHANGED worker
             \/ worker' = [worker EXCEPT ![t] =
                  [k \in Tokens |-> IF @[k] = "queue" THEN "woken" ELSE @[k]]]
      BY <1>3 DEF StopCancel
    <2>2. worker' \in [Tasks -> [Tokens -> WorkerSteps]]
      BY <2>1 DEF WorkerSteps
    <2>3. \A u \in Tasks, k \in Tokens : worker[u][k] = "off" => worker'[u][k] = "off"
      BY <2>1
    <2> QED BY <2>1, <2>2, <2>3 DEF Joined
  <1>4. ASSUME NEW t \in Tasks, Gather(t) PROVE WorkersOK'
    <2>1. PICK usable \in SUBSET TokenList[t] :
            /\ Go(t, IF usable = {} THEN "barren" ELSE "join")
            /\ worker' = [worker EXCEPT ![t] =
                 [k \in Tokens |-> IF k \in usable THEN "claim" ELSE "off"]]
      BY <1>4 DEF Gather
    <2>2. worker' \in [Tasks -> [Tokens -> WorkerSteps]]
      BY <2>1 DEF WorkerSteps
    <2>3. /\ \A u \in Tasks \ {t} : worker'[u] = worker[u] /\ runner'[u] = runner[u]
          /\ runner'[t] = IF usable = {} THEN "barren" ELSE "join"
          /\ \A k \in Tokens : worker'[t][k] = IF k \in usable THEN "claim" ELSE "off"
      BY <2>1 DEF Go
    <2>4. active' = active
      BY <1>4 DEF Gather
    <2>5. ASSUME NEW u \in Tasks PROVE runner'[u] = "join" \/ Joined(u)'
      <3>1. CASE u = t /\ usable # {}
        BY <2>3, <3>1
      <3>2. CASE u = t /\ usable = {}
        BY <2>3, <3>2 DEF Joined
      <3>3. CASE u # t
        BY <2>3, <3>3 DEF Joined
      <3> QED BY <3>1, <3>2, <3>3
    <2> QED BY <2>2, <2>4, <2>5
  <1>5. ASSUME Restart PROVE WorkersOK'
    BY <1>5 DEF Restart, Joined, WorkerSteps
  <1>6. ASSUME NEW t \in Tasks, Join(t) PROVE WorkersOK'
    BY <1>6 DEF Join, Go, Joined, workVars
  <1>7. ASSUME NEW t \in Tasks,
               Load(t) \/ Reread(t) \/ Write(t) \/ Leave(t)
        PROVE  WorkersOK'
    BY <1>7, <1>1 DEF Load, Reread, Write, Leave, Go, GiveUp
  <1>8. ASSUME NEW t \in Tasks, Resume(t) \/ StartSpawn(t) PROVE WorkersOK'
    BY <1>8, <1>1 DEF Resume, StartSpawn, Spawn
  <1>9. ASSUME NEW t \in Tasks,
               \/ Expire(t) \/ StartWrite(t) \/ StopWrite(t) \/ Delete(t)
               \/ StartCheck(t) \/ Drop(t)
        PROVE  WorkersOK'
    BY <1>9, <1>1 DEF Expire, StartWrite, StopWrite, Delete, StartCheck, Drop, runVars
  <1>10. ASSUME List \/ UNCHANGED vars PROVE WorkersOK'
    BY <1>10, <1>1 DEF List, vars, runVars
  <1> QED
    BY <1>2, <1>3, <1>4, <1>5, <1>6, <1>7, <1>8, <1>9, <1>10
       DEF Next, Supervise, Progress, RunnerStep, RequestStep

\* The requests, the supervisor's list and the bounds.
LEMMA OrdersStep ==
  ASSUME TypeOK, [Next]_vars
  PROVE  OrdersOK'
  <1> USE WarmerAssumption DEF TypeOK, OrdersOK, Fault, Order
  <1>1. ASSUME UNCHANGED <<orderVars, faults>> PROVE OrdersOK'
    BY <1>1 DEF orderVars
  <1>2. ASSUME UNCHANGED orderVars, Fault PROVE OrdersOK'
    BY <1>2 DEF orderVars
  <1>3. ASSUME List PROVE OrdersOK'
    BY <1>3 DEF List
  <1>4. ASSUME NEW t \in Tasks, Resume(t) \/ StartSpawn(t) PROVE OrdersOK'
    BY <1>4 DEF Resume, StartSpawn
  <1>5. ASSUME NEW t \in Tasks, StartCheck(t) PROVE OrdersOK'
    BY <1>5 DEF StartCheck
  <1>6. ASSUME NEW t \in Tasks, StartWrite(t) PROVE OrdersOK'
    BY <1>6 DEF StartWrite
  <1>7. ASSUME NEW t \in Tasks, StopCancel(t) PROVE OrdersOK'
    <2>1. /\ \E s \in {"stop", "delete"} : stop' = [stop EXCEPT ![t] = s]
          /\ orders < MaxOrders /\ orders' = orders + 1
          /\ UNCHANGED <<listed, start, faults>>
      BY <1>7 DEF StopCancel
    <2> QED BY <2>1
  <1>8. ASSUME NEW t \in Tasks, StopWrite(t) \/ Delete(t) PROVE OrdersOK'
    <2>1. /\ UNCHANGED faults \/ Fault
          /\ \E s \in {"idle", "erase"} : stop' = [stop EXCEPT ![t] = s]
          /\ UNCHANGED <<listed, start, orders>>
      BY <1>8 DEF StopWrite, Delete
    <2> QED BY <2>1
  <1>9. ASSUME NEW t \in Tasks, Drop(t) PROVE OrdersOK'
    <2>1. /\ Fault
          /\ UNCHANGED <<listed, orders>>
          /\ \/ start' = [start EXCEPT ![t] = "idle"] /\ UNCHANGED stop
             \/ stop' = [stop EXCEPT ![t] = "idle"] /\ UNCHANGED start
      BY <1>9 DEF Drop
    <2>2. /\ start' \in [Tasks -> {"idle", "write", "spawn"}]
          /\ stop' \in [Tasks -> {"idle", "stop", "delete", "erase"}]
      BY <2>1
    <2>3. faults' \in 0..MaxFaults
      BY <2>1
    <2> QED BY <2>1, <2>2, <2>3
  <1>10. ASSUME Restart PROVE OrdersOK'
    BY <1>10 DEF Restart
  <1>11. ASSUME NEW t \in Tasks, RunnerStep(t) \/ Expire(t) PROVE OrdersOK'
    BY <1>11, <1>1, <1>2 DEF RunnerStep, Load, Gather, Join, Reread, Write, Leave, Expire
  <1>12. ASSUME NEW t \in Tasks, NEW k \in Tokens,
                WorkerStep(t, k) \/ ClientExits(t, k)
         PROVE  OrdersOK'
    BY <1>12, <1>1, <1>2
       DEF WorkerStep, Claim, Admit, Woken, Launch, Report, Finish, ClientExits
  <1>13. ASSUME UNCHANGED vars PROVE OrdersOK'
    BY <1>13, <1>1 DEF vars
  <1> QED
    BY <1>3, <1>4, <1>5, <1>6, <1>7, <1>8, <1>9, <1>10, <1>11, <1>12, <1>13
       DEF Next, Supervise, Progress, RequestStep

(***************************************************************************)
(* Types; the map of runners (account_warmer.rs, WarmupRuntime) has an     *)
(* entry exactly for the runners that are there, and a worker only lives   *)
(* while its runner joins it.                                              *)
(***************************************************************************)
THEOREM WarmerTypeCorrect == Spec => []TypeOK
  <1>1. Init => TypeOK
    BY WarmerAssumption
       DEF Init, TypeOK, Statuses, RunnerSteps, WorkerSteps, Joined
  <1>2. TypeOK /\ [Next]_vars => TypeOK'
    BY RowStep, RunnersStep, WorkersStep, OrdersStep, TypePartsPrime
  <1> QED BY <1>1, <1>2, PTL DEF Spec
-------------------------------------------------------------------------------
(* One worker per token.                                                   *)

\* Two workers that hold a token are one; a token is active while it is held.
Alone(k) ==
  /\ \A t, u \in Holders(k) : t = u
  /\ k \in active <=> Holders(k) # {}

AllAlone == \A k \in Tokens : Alone(k)

\* What is said pairwise is said of the number of holders.
LEMMA AloneIsTokenAlone == AllAlone => TokenAlone
  <1> SUFFICES ASSUME AllAlone, NEW k \in Tokens
               PROVE  /\ Cardinality(Holders(k)) <= 1
                      /\ k \in active <=> Holders(k) # {}
    BY DEF TokenAlone
  <1>1. Alone(k)
    BY DEF AllAlone
  <1>2. CASE Holders(k) = {}
    BY <1>1, <1>2, FS_EmptySet DEF Alone
  <1>3. CASE Holders(k) # {}
    <2>1. PICK t : t \in Holders(k)
      BY <1>3
    <2>2. Holders(k) = {t}
      BY <1>1, <2>1 DEF Alone
    <2>3. Cardinality(Holders(k)) = 1
      BY <2>2, FS_Singleton
    <2> QED BY <1>1, <2>3 DEF Alone
  <1> QED BY <1>2, <1>3

\* The workers and active_tokens are left alone, or those that hold still hold.
LEMMA SameHolders ==
  ASSUME AllAlone, UNCHANGED active,
         \A t \in Tasks, k \in Tokens : worker'[t][k] \in Holding <=> worker[t][k] \in Holding
  PROVE  AllAlone'
  <1>1. \A k \in Tokens : Holders(k)' = Holders(k)
    BY DEF Holders
  <1> QED BY <1>1 DEF AllAlone, Alone

\* A turn of a worker that holds its token: it goes on holding it, or gives it back.
LEMMA TurnAlone ==
  ASSUME TypeOK, AllAlone, NEW t \in Tasks, NEW k \in Tokens, worker[t][k] \in Holding,
         NEW step \in Holding \cup {"off"}, Turn(t, k, step)
  PROVE  AllAlone'
  <1> USE DEF TypeOK, AllAlone, Alone
  <1>1. /\ \A u \in Tasks, j \in Tokens :
             worker'[u][j] = IF u = t /\ j = k THEN step ELSE worker[u][j]
        /\ active' = IF step = "off" THEN active \ {k} ELSE active
    BY DEF Turn
  <1>2. t \in Holders(k)
    BY DEF Holders
  <1>3. ASSUME NEW j \in Tokens, j # k PROVE Holders(j)' = Holders(j)
    BY <1>1, <1>3 DEF Holders
  <1>4. Holders(k)' = IF step = "off" THEN Holders(k) \ {t} ELSE Holders(k)
    BY <1>1, <1>2 DEF Holders, Holding, Permitted
  <1>5. Holders(k) = {t} /\ k \in active
    BY <1>2
  <1>6. ASSUME NEW j \in Tokens, j # k PROVE Alone(j)'
    BY <1>1, <1>3, <1>6
  <1>7. Alone(k)'
    <2>1. CASE step = "off"
      BY <1>1, <1>4, <1>5, <2>1
    <2>2. CASE step # "off"
      BY <1>1, <1>4, <1>5, <2>2
    <2> QED BY <2>1, <2>2
  <1> HIDE DEF Alone
  <1> QED BY <1>6, <1>7

LEMMA AloneStep ==
  ASSUME TypeOK, AllAlone, [Next]_vars
  PROVE  AllAlone'
  <1> USE DEF TypeOK
  <1>1. ASSUME UNCHANGED workVars PROVE AllAlone'
    BY <1>1, SameHolders DEF workVars
  <1>2. ASSUME NEW t \in Tasks, NEW k \in Tokens, Claim(t, k) PROVE AllAlone'
    <2> USE DEF AllAlone, Alone, Claim
    <2>1. /\ \A u \in Tasks, j \in Tokens :
               worker'[u][j] = IF u = t /\ j = k
                                 THEN IF k \in active THEN "off" ELSE "queue"
                                 ELSE worker[u][j]
          /\ active' = active \cup {k}
      BY <1>2
    <2>2. t \notin Holders(k)
      BY <1>2 DEF Holders, Holding, Permitted
    <2>3. ASSUME NEW j \in Tokens, j # k PROVE Holders(j)' = Holders(j)
      BY <2>1, <2>3 DEF Holders
    <2>4. Holders(k)' = IF k \in active THEN Holders(k) ELSE Holders(k) \cup {t}
      BY <2>1, <2>2 DEF Holders, Holding, Permitted
    <2>5. \A j \in Tokens : j \in active <=> Holders(j) # {}
      OBVIOUS
    <2>6. ASSUME NEW j \in Tokens, j # k PROVE Alone(j)'
      BY <2>1, <2>3, <2>6
    <2>7. Alone(k)'
      <3>1. CASE k \in active
        BY <2>1, <2>4, <3>1
      <3>2. CASE k \notin active
        <4>1. Holders(k)' = {t}
          BY <2>4, <2>5, <3>2
        <4> QED BY <2>1, <4>1
      <3> QED BY <3>1, <3>2
    <2> HIDE DEF Claim, Alone
    <2> QED BY <2>6, <2>7
  <1>3. ASSUME NEW t \in Tasks, NEW k \in Tokens,
               \/ Admit(t, k) \/ Woken(t, k) \/ Launch(t, k)
               \/ Report(t, k) \/ Finish(t, k) \/ ClientExits(t, k)
        PROVE  AllAlone'
    <2>1. /\ worker[t][k] \in Holding
          /\ \E step \in Holding \cup {"off"} : Turn(t, k, step)
      BY <1>3 DEF Admit, Woken, Launch, Report, Finish, ClientExits, Holding, Permitted
    <2> QED BY <2>1, TurnAlone
  <1>4. ASSUME NEW t \in Tasks, StopCancel(t) PROVE AllAlone'
    <2>1. /\ UNCHANGED active
          /\ \A u \in Tasks, k \in Tokens :
               \/ worker'[u][k] = worker[u][k]
               \/ worker[u][k] = "queue" /\ worker'[u][k] = "woken"
      BY <1>4 DEF StopCancel
    <2> QED BY <2>1, SameHolders DEF Holding
  <1>5. ASSUME NEW t \in Tasks, Gather(t) PROVE AllAlone'
    <2>1. \A k \in Tokens : worker[t][k] = "off" /\ worker'[t][k] \in {"off", "claim"}
      BY <1>5 DEF Gather, Joined
    <2>2. UNCHANGED active /\ \A u \in Tasks \ {t} : worker'[u] = worker[u]
      BY <1>5 DEF Gather
    <2>3. \A u \in Tasks, k \in Tokens :
            worker'[u][k] \in Holding <=> worker[u][k] \in Holding
      BY <2>1, <2>2 DEF Holding, Permitted
    <2> QED BY <2>2, <2>3, SameHolders
  <1>6. ASSUME Restart PROVE AllAlone'
    <2>1. active' = {} /\ \A t \in Tasks, k \in Tokens : worker'[t][k] = "off"
      BY <1>6 DEF Restart
    <2>2. \A k \in Tokens : Holders(k)' = {}
      BY <2>1 DEF Holders, Holding, Permitted
    <2> QED BY <2>1, <2>2 DEF AllAlone, Alone
  <1>7. ASSUME NEW t \in Tasks,
               Load(t) \/ Join(t) \/ Reread(t) \/ Write(t) \/ Leave(t)
        PROVE  AllAlone'
    BY <1>7, <1>1 DEF Load, Join, Reread, Write, Leave
  <1>8. ASSUME NEW t \in Tasks,
               \/ Expire(t) \/ RequestStep(t) \/ StartCheck(t) \/ Drop(t) \/ Resume(t)
        PROVE  AllAlone'
    BY <1>8, <1>1 DEF Expire, RequestStep, StartWrite, StartSpawn, StopWrite, Delete,
                      StartCheck, Drop, Resume
  <1>9. ASSUME List \/ UNCHANGED vars PROVE AllAlone'
    BY <1>9, <1>1 DEF List, vars
  <1> QED
    BY <1>2, <1>3, <1>4, <1>5, <1>6, <1>7, <1>8, <1>9
       DEF Next, Supervise, Progress, RunnerStep, WorkerStep

(***************************************************************************)
(* A token is driven by at most one worker of all tasks, and it is marked  *)
(* as active exactly while it is (active_tokens and the guards of          *)
(* session_worker).                                                        *)
(***************************************************************************)
THEOREM TokensAlone == Spec => []TokenAlone
  <1>1. Init => AllAlone
    <2> SUFFICES ASSUME Init, NEW k \in Tokens PROVE Alone(k)
      BY DEF AllAlone
    <2>1. Holders(k) = {} /\ active = {}
      BY DEF Init, Holders, Holding, Permitted
    <2> QED BY <2>1 DEF Alone
  <1>2. TypeOK /\ AllAlone /\ [Next]_vars => AllAlone'
    BY AloneStep
  <1>3. AllAlone => TokenAlone
    BY AloneIsTokenAlone
  <1> QED BY <1>1, <1>2, <1>3, WarmerTypeCorrect, PTL DEF Spec
-------------------------------------------------------------------------------
(* Nobody is left behind.                                                  *)

\* Only the verdict of a runner that has joined its workers, or whose time was over
\* before it had any, completes a task.
LEMMA OnlyVerdictCompletes ==
  ASSUME TypeOK, [Next]_vars, NEW t \in Tasks,
         status'[t] = "completed", status[t] # "completed"
  PROVE  runner[t] \in {"late", "complete"} /\ UNCHANGED worker
  <1> USE DEF TypeOK, SetStatus
  <1> DEFINE Goal == runner[t] \in {"late", "complete"} /\ UNCHANGED worker
  <1>1. ASSUME UNCHANGED status PROVE Goal
    BY <1>1
  <1>2. ASSUME NEW u \in Tasks, NEW s \in {"running", "stopped", "error", "gone"},
               status' = [status EXCEPT ![u] = IF @ = "gone" THEN @ ELSE s]
        PROVE  Goal
    BY <1>2
  <1>3. ASSUME NEW u \in Tasks, Write(u) PROVE Goal
    BY <1>3, <1>1, <1>2 DEF Write, rowVars, workVars
  <1>4. ASSUME NEW u \in Tasks, StartWrite(u) PROVE Goal
    BY <1>4, <1>1, <1>2 DEF StartWrite, UpdateRuntime, rowVars
  <1>5. ASSUME NEW u \in Tasks, NEW k \in Tokens, Report(u, k) PROVE Goal
    BY <1>5, <1>1, <1>2 DEF Report, UpdateRuntime, rowVars
  <1>6. ASSUME NEW u \in Tasks, StopWrite(u) PROVE Goal
    BY <1>6, <1>1, <1>2 DEF StopWrite
  <1>7. ASSUME NEW u \in Tasks, Delete(u) PROVE Goal
    BY <1>7, <1>1 DEF Delete
  <1>8. ASSUME NEW u \in Tasks,
               \/ Load(u) \/ Gather(u) \/ Join(u) \/ Reread(u) \/ Leave(u)
               \/ Expire(u) \/ StartSpawn(u) \/ StartCheck(u) \/ StopCancel(u)
               \/ Drop(u) \/ Resume(u)
        PROVE  Goal
    BY <1>8, <1>1 DEF Load, Gather, Join, Reread, Leave, Expire, StartSpawn, StartCheck,
                      StopCancel, Drop, Resume, rowVars
  <1>9. ASSUME NEW u \in Tasks, NEW k \in Tokens,
               \/ Claim(u, k) \/ Admit(u, k) \/ Woken(u, k) \/ Launch(u, k)
               \/ Finish(u, k) \/ ClientExits(u, k)
        PROVE  Goal
    BY <1>9, <1>1 DEF Claim, Admit, Woken, Launch, Finish, ClientExits, rowVars
  <1>10. ASSUME Restart \/ List \/ UNCHANGED vars PROVE Goal
    BY <1>10, <1>1 DEF Restart, List, vars, rowVars
  <1> QED
    BY <1>3, <1>4, <1>5, <1>6, <1>7, <1>8, <1>9, <1>10
       DEF Next, Supervise, Progress, RunnerStep, RequestStep, WorkerStep

(***************************************************************************)
(* A task that becomes completed leaves no worker behind: run_task writes  *)
(* that verdict after it has joined its workers, or before it has any.     *)
(***************************************************************************)
THEOREM CompletedAlone == Spec => NoStragglers
  <1> DEFINE Clean(t) ==
        status'[t] = "completed" /\ status[t] # "completed" =>
          \A k \in Tokens : worker'[t][k] = "off"
  <1>1. ASSUME TypeOK, [Next]_vars, NEW t \in Tasks PROVE Clean(t)
    <2> SUFFICES ASSUME status'[t] = "completed", status[t] # "completed",
                        NEW k \in Tokens
                 PROVE  worker'[t][k] = "off"
      OBVIOUS
    <2>1. runner[t] \in {"late", "complete"} /\ UNCHANGED worker
      BY <1>1, OnlyVerdictCompletes
    <2>2. Joined(t)
      BY <1>1, <2>1 DEF TypeOK
    <2> QED BY <2>1, <2>2 DEF Joined
  <1>2. TypeOK /\ [Next]_vars => [\A t \in Tasks : Clean(t)]_vars
    BY <1>1
  <1> QED BY <1>2, WarmerTypeCorrect, PTL DEF Spec, NoStragglers
===============================================================================
