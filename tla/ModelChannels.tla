------------------------------ MODULE ModelChannels ------------------------------
(***************************************************************************)
(* The registered models behind their channels, as the HTTP server sees    *)
(* them. A batched model is served by a worker thread that takes commands  *)
(* and jobs between rounds and is replaced when it panics; the others are  *)
(* called under a mutex, held for the whole of a call, which a panic       *)
(* poisons for good. Each request has at most one job, run by run_job on a *)
(* thread of its own, and a listener thread that drains the job's text.    *)
(* A worker short of memory may evict the youngest job it decodes and take *)
(* it up again later.                                                      *)
(***************************************************************************)
EXTENDS Naturals, FiniteSets

CONSTANTS Requests, Models,
          Scenarios,    \* what the requests may ask for: functions on Requests
          Streams,      \* the requests whose text is written to a client's stream
          Batched,      \* the models served by a BatchingChannel
          Fragile,      \* the models whose load, or a generation, may panic
          QueueDepth,   \* the jobs that may wait for one batched model
          MaxText       \* bound on the pieces of text of a job

Nobody == "Nobody"

ASSUME ChannelAssumption ==
  /\ Nobody \notin Requests \cup Models
  /\ IsFiniteSet(Requests) /\ Streams \subseteq Requests /\ Batched \subseteq Models /\ Fragile \subseteq Models
  /\ QueueDepth \in Nat /\ MaxText \in Nat

VARIABLES
  wanted,       \* per request, what it asks for
  loaded,       \* per model, whether its weights are in memory
  holder,       \* per model, the request its server is busy with, or Nobody
  poisoned,     \* the models whose mutex is poisoned
  job,          \* per request, how far its job has got
  ahead,        \* per batched job, those it joined the worker's batch behind
  result,       \* per request, what run_job returned
  cancelled,    \* the requests whose cancel signal has fired
  spoken,       \* per stream, the pieces of text generated
  unsent        \* per stream, those still queued for its listener

channelVars ==
  <<wanted, loaded, holder, poisoned, job, ahead, result, cancelled, spoken, unsent>>

ChannelInit ==
  /\ wanted \in Scenarios
  /\ loaded = [m \in Models |-> FALSE]
  /\ holder = [m \in Models |-> Nobody]
  /\ poisoned = {}
  /\ job = [r \in Requests |-> "None"] /\ result = [r \in Requests |-> "None"]
  /\ ahead = [r \in Requests |-> {}]
  /\ cancelled = {}
  /\ spoken = [r \in Requests |-> 0] /\ unsent = [r \in Requests |-> 0]

JobsOf(m) == {r \in Requests : wanted[r] = m}
JobsThat(m, are) == {r \in JobsOf(m) : job[r] \in are}
WaitingOn(m) == JobsThat(m, {"Queued", "Loading"})
Active(m) == JobsThat(m, {"Running"})
Parked(m) == JobsThat(m, {"Evicted", "Resuming"})
InWork(m) == WaitingOn(m) \cup Active(m) \cup Parked(m)

(* is_overloaded: a mutex has no queue to be full.                         *)
Overloaded(m) == m \in Batched /\ Cardinality(WaitingOn(m)) >= QueueDepth

(* A command is taken between rounds, a call waits for the mutex.          *)
Reachable(m) == holder[m] = Nobody

(* unload: the weights go, unless a batched model has jobs in its queue or *)
(* its batch. Those it has evicted are not asked about.                    *)
Busy(m) == m \in Batched /\ WaitingOn(m) \cup Active(m) # {}
Unloaded(m) == IF Busy(m) THEN loaded ELSE [loaded EXCEPT ![m] = FALSE]

(* Mutant: a panicking worker leaves its channel unusable.                 *)
PoisonsAll(m) == poisoned \cup {m}

(* A panic under the mutex poisons it; a worker's is caught.               *)
Poisons(m) == IF m \in Batched THEN poisoned ELSE poisoned \cup {m}

-------------------------------------------------------------------------------
(* load, on behalf of a streaming request, and inside run_job.             *)

Occupy(r) == holder' = [holder EXCEPT ![wanted[r]] = r]
Vacate(m) == holder' = [holder EXCEPT ![m] = Nobody]

(* What a panic does: the worker dies with everything in its hands, the    *)
(* mutex is poisoned. The replacement worker starts with nothing loaded.   *)
Crash(m) ==
  /\ m \in Fragile
  /\ poisoned' = Poisons(m)
  /\ loaded' = IF m \in Batched THEN [loaded EXCEPT ![m] = FALSE] ELSE loaded
  /\ Vacate(m)
  /\ LET lost == IF m \in Batched THEN InWork(m) ELSE {r \in JobsOf(m) : holder[m] = r} IN
       /\ job' = [r \in Requests |-> IF r \in lost /\ job[r] # "None" THEN "Over" ELSE job[r]]
       /\ result' = [r \in Requests |->
                       IF r \notin lost \/ job[r] = "None" THEN result[r]
                       ELSE IF m \in Batched THEN "Failed" ELSE "Panicked"]

-------------------------------------------------------------------------------
(* run_job on a batched model: submit, and wait for the worker.            *)

Shed(r) ==
  /\ job[r] = "Called" /\ Overloaded(wanted[r])
  /\ job' = [job EXCEPT ![r] = "Over"]
  /\ result' = [result EXCEPT ![r] = "Overloaded"]
  /\ UNCHANGED <<wanted, ahead, loaded, holder, poisoned, cancelled, spoken, unsent>>

Submit(r) ==
  /\ job[r] = "Called" /\ wanted[r] \in Batched /\ ~Overloaded(wanted[r])
  /\ job' = [job EXCEPT ![r] = "Queued"]
  /\ UNCHANGED <<wanted, ahead, loaded, holder, poisoned, result, cancelled, spoken, unsent>>

(* A job joins the batch behind all that are in it.                        *)
Joins(r) ==
  ahead' = [q \in Requests |-> IF q = r THEN Active(wanted[r]) ELSE ahead[q] \ {r}]

(* Evicted jobs come before the queue. One always fits an empty batch, and *)
(* may find no memory in another.                                          *)
HasTurn(r) ==
  /\ job[r] = "Queued" /\ Reachable(wanted[r])
  /\ Parked(wanted[r]) = {} \/ Active(wanted[r]) # {}

(* Borrowing the decoder loads the model first.                            *)
AdmitLoads(r) ==
  /\ HasTurn(r) /\ ~loaded[wanted[r]]
  /\ Occupy(r)
  /\ job' = [job EXCEPT ![r] = "Loading"]
  /\ UNCHANGED <<wanted, ahead, loaded, poisoned, result, cancelled, spoken, unsent>>

Admit(r) ==
  /\ HasTurn(r) /\ loaded[wanted[r]]
  /\ job' = [job EXCEPT ![r] = "Running"]
  /\ Joins(r)
  /\ UNCHANGED <<wanted, loaded, holder, poisoned, result, cancelled, spoken, unsent>>

(* grant_kv_growth: an older job needs memory, and the youngest that is    *)
(* not on its way out makes room for it.                                   *)
Evict(r) ==
  /\ job[r] = "Running" /\ wanted[r] \in Batched /\ Reachable(wanted[r])
  /\ ahead[r] \cap Active(wanted[r]) # {}
  /\ {q \in Active(wanted[r]) : r \in ahead[q]} \subseteq cancelled
  /\ job' = [job EXCEPT ![r] = "Evicted"]
  /\ UNCHANGED <<wanted, ahead, loaded, holder, poisoned, result, cancelled, spoken, unsent>>

(* Mutant: the model that was there at the eviction is taken to be there.  *)
TakenForLoaded(m) == TRUE

(* The decoder is borrowed anew, and loads what was unloaded meanwhile.    *)
StillLoaded(m) == loaded[m]

Resume(r) ==
  /\ job[r] = "Evicted" /\ Reachable(wanted[r]) /\ StillLoaded(wanted[r])
  /\ job' = [job EXCEPT ![r] = "Running"]
  /\ Joins(r)
  /\ UNCHANGED <<wanted, loaded, holder, poisoned, result, cancelled, spoken, unsent>>

ResumeLoads(r) ==
  /\ job[r] = "Evicted" /\ Reachable(wanted[r]) /\ ~StillLoaded(wanted[r])
  /\ Occupy(r)
  /\ job' = [job EXCEPT ![r] = "Resuming"]
  /\ UNCHANGED <<wanted, ahead, loaded, poisoned, result, cancelled, spoken, unsent>>

(* Mutant: a job that is being decoded is left to its end.                 *)
SweptQueued == {"Queued"}

(* The sweep of a cancelled job, queued or running. One that is evicted is *)
(* swept when it is back.                                                  *)
Swept == {"Queued", "Running"}

Sweep(r) ==
  /\ r \in cancelled /\ wanted[r] \in Batched
  /\ Reachable(wanted[r])
  /\ job[r] \in Swept
  /\ job' = [job EXCEPT ![r] = "Over"]
  /\ result' = [result EXCEPT ![r] = IF job[r] = "Queued" THEN "Failed" ELSE "Done"]
  /\ UNCHANGED <<wanted, ahead, loaded, holder, poisoned, cancelled, spoken, unsent>>

-------------------------------------------------------------------------------
(* run_job on any other model, under its mutex.                            *)

Lock(r) ==
  /\ job[r] = "Called" /\ wanted[r] \notin Batched
  /\ Reachable(wanted[r]) /\ wanted[r] \notin poisoned
  /\ Occupy(r)
  /\ job' = [job EXCEPT ![r] = IF loaded[wanted[r]] THEN "Running" ELSE "Loading"]
  /\ UNCHANGED <<wanted, ahead, loaded, poisoned, result, cancelled, spoken, unsent>>

LockPoisoned(r) ==
  /\ job[r] = "Called" /\ wanted[r] \in poisoned
  /\ job' = [job EXCEPT ![r] = "Over"]
  /\ result' = [result EXCEPT ![r] = "Panicked"]
  /\ UNCHANGED <<wanted, ahead, loaded, holder, poisoned, cancelled, spoken, unsent>>

-------------------------------------------------------------------------------
(* Both.                                                                   *)

FinishLoad(r) ==
  /\ job[r] \in {"Loading", "Resuming"}
  /\ loaded' = [loaded EXCEPT ![wanted[r]] = TRUE]
  /\ IF wanted[r] \in Batched THEN Vacate(wanted[r]) ELSE UNCHANGED holder
  /\ job' = [job EXCEPT ![r] = "Running"]
  /\ Joins(r)
  /\ UNCHANGED <<wanted, poisoned, result, cancelled, spoken, unsent>>

(* A worker decodes for everybody in turn, unless it is loading.           *)
AtWork(r) == holder[wanted[r]] \in {Nobody, r}

JobPanics(r) ==
  /\ job[r] \in {"Loading", "Resuming", "Running"} /\ AtWork(r)
  /\ Crash(wanted[r])
  /\ UNCHANGED <<wanted, ahead, cancelled, spoken, unsent>>

(* The text goes into an unbounded queue: saying something never waits. A  *)
(* listener that collects its text keeps up on its own and is left out.    *)
Say(r) ==
  /\ r \in Streams
  /\ job[r] = "Running" /\ AtWork(r) /\ spoken[r] < MaxText
  /\ spoken' = [spoken EXCEPT ![r] = @ + 1]
  /\ unsent' = [unsent EXCEPT ![r] = @ + 1]
  /\ UNCHANGED <<wanted, ahead, loaded, holder, poisoned, job, result, cancelled>>

(* A failed forward is an error, everything else a normal end.             *)
Finish(r) ==
  /\ job[r] = "Running" /\ AtWork(r)
  /\ job' = [job EXCEPT ![r] = "Over"]
  /\ \E res \in {"Done", "Failed"} : result' = [result EXCEPT ![r] = res]
  /\ IF wanted[r] \in Batched THEN UNCHANGED holder ELSE Vacate(wanted[r])
  /\ UNCHANGED <<wanted, ahead, loaded, poisoned, cancelled, spoken, unsent>>

JobStep(r) ==
  \/ Shed(r) \/ Submit(r) \/ AdmitLoads(r) \/ Admit(r) \/ Sweep(r)
  \/ Lock(r) \/ LockPoisoned(r) \/ FinishLoad(r) \/ ResumeLoads(r)
===============================================================================
