------------------------------- MODULE SubmitGate -------------------------------
(***************************************************************************)
(* The shared front of a BatchingChannel: many threads submit jobs or send *)
(* requests through one lazily spawned worker, which may panic at any time *)
(* and is replaced by the next caller to find its thread finished. The     *)
(* jobs that wait are counted by an atomic counter; each owns a permit     *)
(* that gives its count back when it is dropped, on whatever path.         *)
(***************************************************************************)
EXTENDS Naturals, Sequences, FiniteSets, SequencesExt

CONSTANTS Submitters,       \* the threads that submit a job each
          Requesters,       \* the threads that send another command each
          MaxQueueDepth,
          MaxWorkers        \* bound on the workers ever spawned

ASSUME GateAssumption ==
  /\ IsFiniteSet(Submitters) /\ Submitters \cap Requesters = {}
  /\ MaxQueueDepth \in Nat /\ MaxWorkers \in Nat

Callers == Submitters \cup Requesters
Workers == 1 .. MaxWorkers

VARIABLES
  pending,      \* the atomic counter
  pc,           \* per caller, where it is in its call
  to,           \* per caller, the worker it has a sender to, or 0
  answer,       \* per caller, what its call returned
  inner,        \* the worker in the mutex, or 0
  thread,       \* per worker, the state of its thread
  channel,      \* per worker, its command channel
  queue,        \* per worker, its queued jobs
  active        \* per worker, its admitted jobs

callVars == <<pc, answer>>
workerVars == <<thread, channel, queue, active>>
vars == <<pending, callVars, to, inner, workerVars>>

Init ==
  /\ pending = 0 /\ inner = 0
  /\ pc = [c \in Callers |-> "Start"] /\ to = [c \in Callers |-> 0]
  /\ answer = [c \in Callers |-> "None"]
  /\ thread = [w \in Workers |-> "Unborn"]
  /\ channel = [w \in Workers |-> <<>>] /\ queue = [w \in Workers |-> <<>>]
  /\ active = [w \in Workers |-> {}]

(* Mutant: jobs that leave together give back one count.                   *)
PermitsOnce(cs) == IF cs \cap Submitters = {} THEN 0 ELSE 1

(* The permits the dropped calls of cs give back.                          *)
Permits(cs) == Cardinality(cs \cap Submitters)

Return(cs, value) ==
  /\ pc' = [c \in Callers |-> IF c \in cs THEN "Returned" ELSE pc[c]]
  /\ answer' = [c \in Callers |-> IF c \in cs THEN value ELSE answer[c]]

Moves(c, from, next) == pc[c] = from /\ pc' = [pc EXCEPT ![c] = next]

-------------------------------------------------------------------------------
(* A call: count, get a sender, send, wait.                                *)

Full == pending >= MaxQueueDepth

(* fetch_add, which tells the count before it.                             *)
Count(c) ==
  /\ c \in Submitters
  /\ Moves(c, "Start", IF Full THEN "Shedding" ELSE "Counted")
  /\ pending' = pending + 1
  /\ UNCHANGED <<answer, to, inner, workerVars>>

Shed(c) ==
  /\ pc[c] = "Shedding"
  /\ pending' = pending - 1
  /\ Return({c}, "Overloaded")
  /\ UNCHANGED <<to, inner, workerVars>>

(* A request has no permit.                                                *)
Ask(c) ==
  /\ c \in Requesters
  /\ Moves(c, "Start", "Counted")
  /\ UNCHANGED <<pending, answer, to, inner, workerVars>>

(* Mutants: a dying worker is replaced at once; a finished one is kept.    *)
GoneEarly(w) == thread[w] \in {"Panicked", "Closed", "Finished"}
GoneNever(w) == FALSE

Gone(w) == thread[w] = "Finished"

(* sender(), under the mutex: the worker there, or a new one.              *)
Vacant == inner \in {0} \cup {w \in Workers : Gone(w)}
Unborn == {w \in Workers : thread[w] = "Unborn"}

ConnectExisting(c) ==
  /\ ~Vacant
  /\ Moves(c, "Counted", "Connected")
  /\ to' = [to EXCEPT ![c] = inner]
  /\ UNCHANGED <<pending, answer, inner, workerVars>>

ConnectSpawns(c) ==
  /\ Vacant
  /\ Moves(c, "Counted", "Connected")
  /\ \E w \in Unborn :
       /\ \A v \in Unborn : w <= v
       /\ inner' = w
       /\ thread' = [thread EXCEPT ![w] = "Up"]
       /\ to' = [to EXCEPT ![c] = w]
  /\ UNCHANGED <<pending, answer, channel, queue, active>>

(* The thread cannot be spawned: the caller is told, the slot is empty.    *)
ConnectFails(c) ==
  /\ Vacant
  /\ pc[c] = "Counted"
  /\ inner' = 0
  /\ pending' = pending - Permits({c})
  /\ Return({c}, "WorkerDied")
  /\ UNCHANGED <<to, workerVars>>

(* Mutant: a queue that outlives its worker takes whatever is sent.        *)
AlwaysOpen(w) == TRUE

Open(w) == thread[w] \in {"Up", "Panicked"}

Send(c) ==
  /\ Moves(c, "Connected", "Waiting")
  /\ Open(to[c])
  /\ channel' = [channel EXCEPT ![to[c]] = Append(@, c)]
  /\ UNCHANGED <<pending, answer, to, inner, thread, queue, active>>

SendFails(c) ==
  /\ pc[c] = "Connected"
  /\ ~Open(to[c])
  /\ pending' = pending - Permits({c})
  /\ Return({c}, "WorkerDied")
  /\ UNCHANGED <<to, inner, workerVars>>

-------------------------------------------------------------------------------
(* A worker.                                                               *)

(* handle_command: a job is queued, a request is answered.                 *)
Receive(w) ==
  /\ thread[w] = "Up" /\ channel[w] # <<>>
  /\ LET c == Head(channel[w]) IN
       \/ /\ c \in Submitters
          /\ queue' = [queue EXCEPT ![w] = Append(@, c)]
          /\ UNCHANGED callVars
       \/ /\ c \in Requesters
          /\ Return({c}, "Done")
          /\ UNCHANGED queue
  /\ channel' = [channel EXCEPT ![w] = Tail(@)]
  /\ UNCHANGED <<pending, to, inner, thread, active>>

(* The head of the queue leaves it, and its permit goes.                   *)
Dequeue(w) ==
  /\ thread[w] = "Up" /\ queue[w] # <<>>
  /\ queue' = [queue EXCEPT ![w] = Tail(@)]
  /\ pending' = pending - Permits({Head(queue[w])})
  /\ UNCHANGED <<to, inner, thread, channel>>

AdmitJob(w) ==
  /\ Dequeue(w)
  /\ active' = [active EXCEPT ![w] = @ \cup {Head(queue[w])}]
  /\ UNCHANGED callVars

RejectJob(w) ==
  /\ Dequeue(w)
  /\ Return({Head(queue[w])}, "Error")
  /\ UNCHANGED active

Retire(w) ==
  /\ thread[w] = "Up"
  /\ \E c \in active[w] :
       /\ active' = [active EXCEPT ![w] = @ \ {c}]
       /\ Return({c}, "Done")
  /\ UNCHANGED <<pending, to, inner, thread, channel, queue>>

(* A panicking turn, caught: fail_everything answers the queue. A worker   *)
(* whose emission thread cannot be spawned ends the same way.              *)
Panic(w) ==
  /\ thread[w] = "Up"
  /\ thread' = [thread EXCEPT ![w] = "Panicked"]
  /\ Return(Range(queue[w]), "WorkerDied")
  /\ pending' = pending - Permits(Range(queue[w]))
  /\ queue' = [queue EXCEPT ![w] = <<>>]
  /\ UNCHANGED <<to, inner, channel, active>>

(* The receiver drops, and with it every buffered command.                 *)
Close(w) ==
  /\ thread[w] = "Panicked"
  /\ thread' = [thread EXCEPT ![w] = "Closed"]
  /\ Return(Range(channel[w]), "WorkerDied")
  /\ pending' = pending - Permits(Range(channel[w]))
  /\ channel' = [channel EXCEPT ![w] = <<>>]
  /\ UNCHANGED <<to, inner, queue, active>>

EndThread(w) ==
  /\ thread[w] = "Closed"
  /\ thread' = [thread EXCEPT ![w] = "Finished"]
  /\ UNCHANGED <<pending, callVars, to, inner, channel, queue, active>>

(* The emission thread of a dead worker answers whoever it still owns.     *)
AnswerOrphan(w) ==
  /\ thread[w] \in {"Panicked", "Closed", "Finished"}
  /\ \E c \in active[w] :
       /\ active' = [active EXCEPT ![w] = @ \ {c}]
       /\ Return({c}, "WorkerDied")
  /\ UNCHANGED <<pending, to, inner, thread, channel, queue>>

-------------------------------------------------------------------------------
Call(c) ==
  \/ Count(c) \/ Shed(c) \/ Ask(c)
  \/ ConnectExisting(c) \/ ConnectSpawns(c) \/ ConnectFails(c)
  \/ Send(c) \/ SendFails(c)

Turn(w) == Receive(w) \/ AdmitJob(w) \/ RejectJob(w) \/ Retire(w)

Ending(w) == Close(w) \/ EndThread(w) \/ AnswerOrphan(w)

Next ==
  \/ \E c \in Callers : Call(c)
  \/ \E w \in Workers : Turn(w) \/ Panic(w) \/ Ending(w)

Spec == Init /\ [][Next]_vars

(* Threads are scheduled; nothing makes a worker panic.                    *)
FairSpec ==
  /\ Spec
  /\ \A c \in Callers : WF_vars(Call(c))
  /\ \A w \in Workers : WF_vars(Turn(w)) /\ WF_vars(Ending(w))

-------------------------------------------------------------------------------
(* Properties.                                                             *)

Inside == {c \in Submitters : pc[c] \in {"Shedding", "Counted", "Connected"}}
Buffered(w) == Range(channel[w]) \cup Range(queue[w])
QueuedJobs == Submitters \cap UNION {Buffered(w) : w \in Workers}

(* The counter is exact whatever order calls, replies and deaths come in:  *)
(* "no path, present or future, can leak the counter upward" (mod.rs), and *)
(* none takes it below zero, which would wrap to a count that sheds all.   *)
(* So, however the submitters race, no more jobs wait than the bound       *)
(* allows.                                                                 *)
PermitsExact ==
  /\ pending = Cardinality(Inside) + Cardinality(QueuedJobs)
  /\ Cardinality(QueuedJobs) <= MaxQueueDepth

(* Two workers never run at once: a second server would load the model a   *)
(* second time while the first still holds its own.                        *)
Running == {w \in Workers : thread[w] \in {"Up", "Panicked", "Closed"}}
OneWorkerRuns == Cardinality(Running) <= 1

(* A caller is never handed a worker that has already finished: one panic  *)
(* does not leave the channel unusable (mod.rs, sender).                   *)
NeverBricked ==
  [][\A c \in Callers : to'[c] # to[c] => thread'[to'[c]] # "Finished"]_vars

(* Every call returns, also the one whose worker dies under it at whatever *)
(* step of the call: no caller is left blocked on a reply that cannot come. *)
EveryCallReturns == \A c \in Callers : pc[c] # "Start" ~> pc[c] = "Returned"
===============================================================================
