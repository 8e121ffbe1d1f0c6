------------------------------- MODULE ChatServer -------------------------------
(***************************************************************************)
(* The HTTP server: the chat store, which remembers the current model and  *)
(* unloads it when another one is asked for, the streaming and the plain   *)
(* chat handlers, the model list, and the server-sent events of a stream.  *)
(*                                                                         *)
(* The handlers are tasks on the runtime's worker threads. A synchronous   *)
(* call from a task keeps its thread until the call returns, an await      *)
(* gives it back; loading and generating run on threads of their own.      *)
(***************************************************************************)
EXTENDS ModelChannels, Sequences

CONSTANTS Threads,      \* the runtime's worker threads
          PipeSize,     \* the frames a stream's channel holds
          MaxBeats,     \* bound on the comments of a stream
          Leavers,      \* the streams whose client may go away
          Dozers,       \* the streams whose client may stop reading for good
          Endless       \* the requests whose generation need not end by itself

Nowhere == "Nowhere"        \* a model that is not registered
Catalogue == "Catalogue"    \* the list of models
Absent == "Absent"          \* nothing: the request is never made

ASSUME ServerAssumption ==
  /\ Scenarios \subseteq [Requests -> Models \cup {Nowhere, Catalogue, Absent}]
  /\ {Nowhere, Catalogue, Absent} \cap Models = {}
  /\ Leavers \subseteq Streams /\ Dozers \subseteq Streams
  /\ Endless \subseteq Requests
  /\ Threads \in Nat \ {0} /\ PipeSize \in Nat \ {0} /\ MaxBeats \in Nat

VARIABLES
  current,      \* the store's current_plugin_name, or Nobody
  store,        \* the request that holds the store's lock, or Nobody
  pc,           \* per request, what its handler or its stream task does
  oldModel,     \* per request, whether a switch told it of an old model
  unasked,      \* per request for the list, the models still to ask
  status,       \* per request, the status line it got, or 0
  pipe,         \* per stream, the frames in its channel
  got,          \* per stream, the frames its client has
  beats,        \* per stream, the comments sent
  client,       \* per stream, "Here", "Gone", or "Ended" once it saw the end
  watcher       \* the streams with a disconnect watcher

handlerVars == <<current, store, pc, oldModel, unasked, status>>
streamVars == <<pipe, got, beats, client, watcher>>
vars == <<channelVars, handlerVars, streamVars>>

ServerInit ==
  /\ current = Nobody /\ store = Nobody
  /\ pc = [r \in Requests |-> "Start"]
  /\ oldModel = [r \in Requests |-> FALSE]
  /\ unasked = [r \in Requests |-> {}]
  /\ status = [r \in Requests |-> 0]
  /\ pipe = [r \in Requests |-> <<>>] /\ got = [r \in Requests |-> <<>>]
  /\ beats = [r \in Requests |-> 0]
  /\ client = [r \in Requests |-> "Here"]
  /\ watcher = {}

Init == ChannelInit /\ ServerInit

(* The tasks inside a synchronous call, each with a thread to itself.      *)
Blocking == {r \in Requests : pc[r] \in {"Switching", "Asking", "Probing"}}
Runs(r) == r \in Blocking \/ Cardinality(Blocking) < Threads

At(r, here) == pc[r] = here /\ Runs(r)
To(r, next) == pc' = [pc EXCEPT ![r] = next]
Answer(r, code) == To(r, "Answered") /\ status' = [status EXCEPT ![r] = code]

(* A panicking task: its connection is dropped, or its stream cut short.   *)
Abort(r) == To(r, "Aborted")

-------------------------------------------------------------------------------
(* acquire_plugin: the store's lock, for as long as get_plugin takes.      *)

NotFound(r) ==
  /\ At(r, "Start") /\ store = Nobody /\ wanted[r] = Nowhere
  /\ Answer(r, 404)
  /\ UNCHANGED <<channelVars, current, store, oldModel, unasked, streamVars>>

Resolve(r) ==
  /\ At(r, "Start") /\ store = Nobody
  /\ wanted[r] \in Models /\ current \in {Nobody, wanted[r]}
  /\ current' = wanted[r]
  /\ To(r, "Acquired")
  /\ UNCHANGED <<channelVars, store, oldModel, unasked, status, streamVars>>

BeginSwitch(r) ==
  /\ At(r, "Start") /\ store = Nobody
  /\ wanted[r] \in Models /\ current \notin {Nobody, wanted[r]}
  /\ store' = r
  /\ To(r, "Switching")
  /\ UNCHANGED <<channelVars, current, oldModel, unasked, status, streamVars>>

(* Mutant: the lock stays with a request that panicked.                    *)
StoreStuck(r) == r

(* An asynchronous lock is freed by an unwinding task, and not poisoned.   *)
StoreAfterPanic(r) == Nobody

(* A refused unload is logged, and the old model reported all the same.    *)
Switch(r) ==
  /\ pc[r] = "Switching"
  /\ Reachable(current) /\ current \notin poisoned
  /\ loaded' = Unloaded(current)
  /\ oldModel' = [oldModel EXCEPT ![r] = TRUE]
  /\ current' = wanted[r]
  /\ store' = Nobody
  /\ To(r, "Acquired")
  /\ UNCHANGED <<wanted, ahead, holder, poisoned, job, result, cancelled, spoken, unsent, unasked, status,
                 streamVars>>

SwitchPanics(r) ==
  /\ pc[r] = "Switching"
  /\ current \in poisoned
  /\ store' = StoreAfterPanic(r)
  /\ Abort(r)
  /\ UNCHANGED <<channelVars, current, oldModel, unasked, status, streamVars>>

-------------------------------------------------------------------------------
(* list_models: every model is asked in turn, under the store's lock.      *)

BeginList(r) ==
  /\ At(r, "Start") /\ store = Nobody /\ wanted[r] = Catalogue
  /\ store' = r
  /\ unasked' = [unasked EXCEPT ![r] = Models]
  /\ To(r, "Asking")
  /\ UNCHANGED <<channelVars, current, oldModel, status, streamVars>>

Ask(r, m) ==
  /\ pc[r] = "Asking" /\ m \in unasked[r]
  /\ Reachable(m) /\ m \notin poisoned
  /\ unasked' = [unasked EXCEPT ![r] = @ \ {m}]
  /\ UNCHANGED <<channelVars, current, store, pc, oldModel, status, streamVars>>

AskPanics(r, m) ==
  /\ pc[r] = "Asking" /\ m \in unasked[r]
  /\ m \in poisoned
  /\ store' = StoreAfterPanic(r)
  /\ Abort(r)
  /\ UNCHANGED <<channelVars, current, oldModel, unasked, status, streamVars>>

EndList(r) ==
  /\ pc[r] = "Asking" /\ unasked[r] = {}
  /\ store' = Nobody
  /\ Answer(r, 200)
  /\ UNCHANGED <<channelVars, current, oldModel, unasked, streamVars>>

-------------------------------------------------------------------------------
(* The plain handler: the job on a thread of its own, then the answer.     *)

CallJob(r) == job' = [job EXCEPT ![r] = "Called"]

Generate(r) ==
  /\ At(r, "Acquired") /\ r \notin Streams
  /\ CallJob(r)
  /\ To(r, "Generating")
  /\ UNCHANGED <<wanted, ahead, loaded, holder, poisoned, result, cancelled, spoken, unsent, current, store,
                 oldModel, unasked, status, streamVars>>

(* Mutant: the blocking task does not wait for the listener.               *)
DrainedOrNot(r) == TRUE

(* handle.join: the listener has dealt with everything that was said. A    *)
(* job that panicked is not joined.                                        *)
Drained(r) == result[r] = "Panicked" \/ unsent[r] = 0

Join(r) ==
  /\ job[r] = "Over" /\ Drained(r)
  /\ job' = [job EXCEPT ![r] = "Joined"]
  /\ UNCHANGED <<wanted, ahead, loaded, holder, poisoned, result, cancelled, spoken, unsent, handlerVars,
                 streamVars>>

StatusOf(res) ==
  CASE res = "Done" -> 200 [] res = "Overloaded" -> 429 [] OTHER -> 500

Respond(r) ==
  /\ At(r, "Generating") /\ r \notin Streams /\ job[r] = "Joined"
  /\ Answer(r, StatusOf(result[r]))
  /\ UNCHANGED <<channelVars, current, store, oldModel, unasked, streamVars>>

-------------------------------------------------------------------------------
(* The streaming handler.                                                  *)

(* The last moment a 429 can be sent.                                      *)
TurnAway(r) ==
  /\ At(r, "Acquired") /\ r \in Streams /\ Overloaded(wanted[r])
  /\ Answer(r, 429)
  /\ UNCHANGED <<channelVars, current, store, oldModel, unasked, streamVars>>

Open(r) ==
  /\ At(r, "Acquired") /\ r \in Streams /\ ~Overloaded(wanted[r])
  /\ status' = [status EXCEPT ![r] = 200]
  /\ To(r, IF oldModel[r] THEN "Announcing" ELSE "Opened")
  /\ UNCHANGED <<channelVars, current, store, oldModel, unasked, streamVars>>

(* Sending into a stream's channel waits for room, and fails once the      *)
(* client is gone.                                                         *)
Sends(r, frame) ==
  /\ client[r] # "Gone" /\ Len(pipe[r]) < PipeSize
  /\ pipe' = [pipe EXCEPT ![r] = Append(@, frame)]
Lost(r) == client[r] = "Gone" /\ UNCHANGED pipe

(* The preamble: a frame that cannot be sent panics the task.              *)
Preamble(r, here, frame, next) ==
  /\ At(r, here)
  /\ \/ Sends(r, frame) /\ To(r, next)
     \/ Lost(r) /\ Abort(r)
  /\ UNCHANGED <<channelVars, current, store, oldModel, unasked, status, got, beats, client, watcher>>

Announce(r) == Preamble(r, "Announcing", "Unloaded", "Opened")

(* is_loaded is called from the task, and waits for the model's server.    *)
BeginProbe(r) ==
  /\ At(r, "Opened")
  /\ To(r, "Probing")
  /\ UNCHANGED <<channelVars, current, store, oldModel, unasked, status, streamVars>>

Probe(r) ==
  /\ pc[r] = "Probing" /\ Reachable(wanted[r])
  /\ IF wanted[r] \in poisoned THEN Abort(r)
     ELSE To(r, IF loaded[wanted[r]] THEN "Marking" ELSE "Warming")
  /\ UNCHANGED <<channelVars, current, store, oldModel, unasked, status, streamVars>>

Warm(r) == Preamble(r, "Warming", "Loading", "Warmed")

(* load, on a blocking thread; somebody else may have loaded it meanwhile. *)
BeginLoad(r) ==
  /\ pc[r] = "Warmed" /\ Reachable(wanted[r]) /\ wanted[r] \notin poisoned
  /\ Occupy(r)
  /\ To(r, "Loading")
  /\ UNCHANGED <<wanted, ahead, loaded, poisoned, job, result, cancelled, spoken, unsent, current, store,
                 oldModel, unasked, status, streamVars>>

EndLoad(r) ==
  /\ pc[r] = "Loading"
  /\ loaded' = [loaded EXCEPT ![wanted[r]] = TRUE]
  /\ Vacate(wanted[r])
  /\ To(r, "Loaded")
  /\ UNCHANGED <<wanted, ahead, poisoned, job, result, cancelled, spoken, unsent, current, store, oldModel,
                 unasked, status, streamVars>>

(* The load commands a dying worker already has in hand are answered with  *)
(* an error, which panics the tasks that sent them.                        *)
Strand(m, aborting) ==
  \E lost \in SUBSET {r \in Requests : pc[r] = "Warmed" /\ wanted[r] = m /\ m \in Batched} :
    pc' = [r \in Requests |-> IF r \in lost \cup aborting THEN "Aborted" ELSE pc[r]]

(* A load that panics, or finds the mutex poisoned, panics the task.       *)
LoadPanics(r) ==
  /\ pc[r] = "Loading" /\ ~loaded[wanted[r]]
  /\ Crash(wanted[r]) /\ Strand(wanted[r], {r})
  /\ UNCHANGED <<wanted, ahead, cancelled, spoken, unsent, current, store, oldModel, unasked, status,
                 streamVars>>

Panic(r) ==
  /\ JobPanics(r) /\ Strand(wanted[r], {})
  /\ UNCHANGED <<current, store, oldModel, unasked, status, streamVars>>

LoadPoisoned(r) ==
  /\ pc[r] = "Warmed" /\ wanted[r] \in poisoned
  /\ Abort(r)
  /\ UNCHANGED <<channelVars, current, store, oldModel, unasked, status, streamVars>>

Welcome(r) == Preamble(r, "Loaded", "Loaded", "Marking")

(* The reply marker; with it go the job, its listener and the watcher.     *)
Mark(r) ==
  /\ At(r, "Marking")
  /\ \/ Sends(r, "Marker") /\ To(r, "Generating") /\ CallJob(r) /\ watcher' = watcher \cup {r}
     \/ Lost(r) /\ Abort(r) /\ UNCHANGED <<job, watcher>>
  /\ UNCHANGED <<wanted, ahead, loaded, holder, poisoned, result, cancelled, spoken, unsent, current, store,
                 oldModel, unasked, status, got, beats, client>>

(* The listener thread writes; a write to a client that has gone is lost.  *)
Write(r) ==
  /\ r \in Streams /\ unsent[r] > 0
  /\ Sends(r, "Text") \/ Lost(r)
  /\ unsent' = [unsent EXCEPT ![r] = @ - 1]
  /\ UNCHANGED <<wanted, ahead, loaded, holder, poisoned, job, result, cancelled, spoken, handlerVars, got, beats,
                 client, watcher>>

(* A comment, while loading or generating keeps the stream silent.         *)
Heartbeat(r) ==
  /\ r \in Streams /\ beats[r] < MaxBeats
  /\ Runs(r) /\ pc[r] \in {"Warmed", "Loading", "Generating"} /\ job[r] # "Joined"
  /\ Sends(r, "Comment")
  /\ beats' = [beats EXCEPT ![r] = @ + 1]
  /\ UNCHANGED <<channelVars, handlerVars, got, client, watcher>>

(* Mutant: the watcher is left to itself.                                  *)
StillWatched(r) == watcher

Unwatched(r) == watcher \ {r}

Conclude(r) ==
  /\ At(r, "Generating") /\ r \in Streams /\ job[r] = "Joined"
  /\ watcher' = Unwatched(r)
  /\ To(r, CASE result[r] = "Done" -> "Summing" [] result[r] = "Overloaded" -> "Excusing"
             [] OTHER -> "Closing")
  /\ UNCHANGED <<channelVars, current, store, oldModel, unasked, status, pipe, got, beats, client>>

(* The epilogue: a frame that cannot be sent ends it, or is left out.      *)
Epilogue(r, here, frame, next, otherwise) ==
  /\ At(r, here)
  /\ \/ Sends(r, frame) /\ To(r, next)
     \/ Lost(r) /\ To(r, otherwise)
  /\ UNCHANGED <<channelVars, current, store, oldModel, unasked, status, got, beats, client, watcher>>

Summarize(r) == Epilogue(r, "Summing", "Stats", "Finishing", "Closed")
SayFinished(r) == Epilogue(r, "Finishing", "Finish", "Closing", "Closed")
Excuse(r) == Epilogue(r, "Excusing", "Error", "Closing", "Closing")
Close(r) == Epilogue(r, "Closing", "Done", "Closed", "Closed")

-------------------------------------------------------------------------------
(* The connection and the client at its other end.                         *)

Read(r) ==
  /\ client[r] = "Here" /\ pipe[r] # <<>> /\ Runs(r)
  /\ pipe' = [pipe EXCEPT ![r] = Tail(@)]
  /\ got' = [got EXCEPT ![r] = Append(@, Head(pipe[r]))]
  /\ UNCHANGED <<channelVars, handlerVars, beats, client, watcher>>

Leave(r) ==
  /\ r \in Leavers /\ client[r] = "Here" /\ status[r] = 200
  /\ client' = [client EXCEPT ![r] = "Gone"]
  /\ pipe' = [pipe EXCEPT ![r] = <<>>]
  /\ UNCHANGED <<channelVars, handlerVars, got, beats, watcher>>

(* closed() wakes the watcher, which fires the job's cancel signal.        *)
Watch(r) ==
  /\ r \in watcher /\ client[r] = "Gone" /\ Runs(r)
  /\ cancelled' = cancelled \cup {r}
  /\ watcher' = watcher \ {r}
  /\ UNCHANGED <<wanted, ahead, loaded, holder, poisoned, job, result, spoken, unsent, handlerVars, pipe,
                 got, beats, client>>

(* The channel of a stream closes with its last sender: the task, the      *)
(* watcher, the listener's writer.                                         *)
Senders(r) ==
  (IF pc[r] \in {"Closed", "Aborted"} THEN {} ELSE {"Task"})
    \cup (watcher \cap {r})
    \cup (IF job[r] \in {"None", "Joined"} /\ unsent[r] = 0 THEN {} ELSE {"Writer"})

SeeEnd(r) ==
  /\ client[r] = "Here" /\ status[r] = 200 /\ r \in Streams
  /\ Senders(r) = {} /\ pipe[r] = <<>>
  /\ client' = [client EXCEPT ![r] = "Ended"]
  /\ UNCHANGED <<channelVars, handlerVars, pipe, got, beats, watcher>>

-------------------------------------------------------------------------------
Store(r) ==
  \/ NotFound(r) \/ Resolve(r) \/ BeginSwitch(r) \/ Switch(r) \/ SwitchPanics(r)
  \/ BeginList(r) \/ EndList(r) \/ \E m \in Models : Ask(r, m) \/ AskPanics(r, m)

Plain(r) == Generate(r) \/ Respond(r) \/ Join(r)

Stream(r) ==
  \/ TurnAway(r) \/ Open(r) \/ Announce(r) \/ BeginProbe(r) \/ Probe(r) \/ Warm(r)
  \/ BeginLoad(r) \/ EndLoad(r) \/ LoadPoisoned(r) \/ Welcome(r) \/ Mark(r)
  \/ Conclude(r) \/ Summarize(r) \/ SayFinished(r) \/ Excuse(r) \/ Close(r) \/ Watch(r)

Job(r) == JobStep(r) /\ UNCHANGED <<handlerVars, streamVars>>
Generation(r) == (Say(r) \/ Finish(r)) /\ UNCHANGED <<handlerVars, streamVars>>
Eviction(r) == (Evict(r) \/ Resume(r)) /\ UNCHANGED <<handlerVars, streamVars>>

(* An evicted job is taken up when nothing else is left to decode.         *)
Return(r) == Active(wanted[r]) = {} /\ Resume(r) /\ UNCHANGED <<handlerVars, streamVars>>

Next == \E r \in Requests :
  \/ Store(r) \/ Plain(r) \/ Stream(r) \/ Job(r) \/ Generation(r) \/ Eviction(r)
  \/ Panic(r) \/ LoadPanics(r)
  \/ Write(r) \/ Heartbeat(r) \/ Read(r) \/ SeeEnd(r) \/ Leave(r)

Spec == Init /\ [][Next]_vars

(* The threads and tasks are scheduled, a client that does not doze reads, *)
(* and a generation ends unless it is endless. Nobody has to leave, no     *)
(* load has to panic, no job to be evicted, and one that is may be taken   *)
(* up before it must. Every counter is bounded, so no weak fairness below  *)
(* can be starved by another step of the same request.                     *)
Progress(r) ==
  /\ wanted[r] # Absent
  /\ \/ Store(r) \/ Plain(r) \/ Stream(r) \/ Job(r) \/ Return(r) \/ Write(r) \/ SeeEnd(r)
     \/ r \notin Dozers /\ Read(r)
     \/ r \notin Endless /\ Generation(r)

FairSpec == Spec /\ \A r \in Requests : WF_vars(Progress(r))
===============================================================================
