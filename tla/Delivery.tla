-------------------------------- MODULE Delivery --------------------------------
(***************************************************************************)
(* The way of a request's text and of its reply from the worker to the     *)
(* caller: the worker's events pass through the emission thread, which     *)
(* owns the request from admission to retirement and feeds the channel of  *)
(* its listener thread; the caller waits for the reply and then joins the  *)
(* listener. One worker, one emission thread, one listener and one caller  *)
(* per request, all running concurrently.                                  *)
(*                                                                         *)
(* A token is its number within its request. Whether its bytes complete a  *)
(* character or are held back until later ones do is free.                 *)
(***************************************************************************)
EXTENDS WorkerPort, FiniteSets

CONSTANTS MaxTokens,    \* bound on the tokens of a request
          Mortal        \* the requests whose listener may panic

ASSUME DeliveryAssumption == IsFiniteSet(Jobs) /\ MaxTokens \in Nat /\ Mortal \subseteq Jobs

VARIABLES
  worker,       \* "Up", or "Gone" once its thread has dropped the event sender
  events,       \* the emission channel
  live,         \* the requests the emission thread owns
  held,         \* per request, tokens held back by its UTF-8 cursor
  finishing,    \* the request whose completion is about to fire, at most one
  items,        \* per request, the channel of its listener
  done,         \* per request, the emitter's latch
  listener,     \* per request, whether its listener thread still receives
  heard,        \* per request, the tokens whose text reached the listener
  completion,   \* per request, its one-shot reply channel
  caller,       \* per request, what its caller is doing
  answer        \* per request, the reply its caller got

workerVars == <<told, worker>>
emissionVars == <<events, live, held, finishing>>
callerVars == <<caller, answer>>
vars == <<workerVars, emissionVars, items, done, listener, heard, completion, callerVars>>

None == "None"

(* What the caller's join sends the listener: a text without a token, as   *)
(* no text of the emission thread is.                                      *)
Finished == <<>>

Init ==
  /\ PortInit /\ worker = "Up"
  /\ events = <<>> /\ live = {} /\ held = [j \in Jobs |-> <<>>] /\ finishing = <<>>
  /\ items = [j \in Jobs |-> <<>>] /\ done = [j \in Jobs |-> FALSE]
  /\ listener = [j \in Jobs |-> "Up"] /\ heard = [j \in Jobs |-> <<>>]
  /\ completion = [j \in Jobs |-> None]
  /\ caller = [j \in Jobs |-> "Waiting"] /\ answer = [j \in Jobs |-> None]

-------------------------------------------------------------------------------
(* The worker.                                                             *)

Produced(j) == Cardinality({i \in DOMAIN told[j] : told[j][i] = "Token"})

Tell(js, e) ==
  /\ worker = "Up"
  /\ \A j \in js : e \in Sayable(j)
  /\ told' = [j \in Jobs |-> IF j \in js THEN Append(told[j], e) ELSE told[j]]
  /\ UNCHANGED <<live, held, finishing, items, done, listener, heard, callerVars>>

(* A queued job is answered by the worker itself.                          *)
Refuse(j) ==
  /\ Queued(j)
  /\ Tell({j}, "Error")
  /\ completion' = [completion EXCEPT ![j] = "Error"]
  /\ UNCHANGED <<worker, events>>

Admit(j) ==
  /\ Tell({j}, "Admitted")
  /\ events' = Append(events, [kind |-> "Admitted", job |-> j])
  /\ UNCHANGED <<worker, completion>>

(* One event carries the tokens of a whole round.                          *)
ShipTokens(js) ==
  /\ js # {} /\ \A j \in js : Produced(j) < MaxTokens
  /\ Tell(js, "Token")
  /\ LET entry(j) == [job |-> j, token |-> Produced(j) + 1]
         order == SetToSeq(js) IN
       events' = Append(events, [kind |-> "Tokens",
                                 batch |-> [i \in DOMAIN order |-> entry(order[i])]])
  /\ UNCHANGED <<worker, completion>>

Retire(j, reply) ==
  /\ ~Queued(j)
  /\ Tell({j}, reply)
  /\ events' = Append(events, [kind |-> "Retire", job |-> j, reply |-> reply])
  /\ UNCHANGED <<worker, completion>>

(* Shutdown or a panic: whoever is queued is answered or disconnected, the *)
(* admitted ones are left to the emission thread.                          *)
Exit ==
  /\ worker = "Up"
  /\ worker' = "Gone"
  /\ told' = [j \in Jobs |-> IF "WorkerDied" \in Sayable(j) THEN Append(told[j], "WorkerDied")
                             ELSE told[j]]
  /\ completion' = [j \in Jobs |-> IF Queued(j) THEN "WorkerDied" ELSE completion[j]]
  /\ UNCHANGED <<emissionVars, items, done, listener, heard, callerVars>>

-------------------------------------------------------------------------------
(* The emission thread.                                                    *)

Receives(kind) == finishing = <<>> /\ events # <<>> /\ Head(events).kind = kind

(* Mutant: the listener's channel holds one item, and a send waits.        *)
PostBounded(j, text) ==
  /\ Len(items[j]) < 1
  /\ items' = [items EXCEPT ![j] = Append(@, text)]
  /\ UNCHANGED done

(* Hand text to the listener; a closed channel latches `done`.             *)
Post(j, text) ==
  \/ /\ ~done[j] /\ listener[j] = "Up"
     /\ items' = [items EXCEPT ![j] = Append(@, text)]
     /\ UNCHANGED done
  \/ /\ ~done[j] /\ listener[j] = "Gone"
     /\ done' = [done EXCEPT ![j] = TRUE]
     /\ UNCHANGED items
  \/ /\ done[j]
     /\ UNCHANGED <<items, done>>

TakeAdmitted ==
  /\ Receives("Admitted")
  /\ live' = live \cup {Head(events).job}
  /\ events' = Tail(events)
  /\ UNCHANGED <<workerVars, held, finishing, items, done, listener, heard, completion, callerVars>>

Entry == Head(Head(events).batch)
NextEntry ==
  events' = IF Len(Head(events).batch) = 1 THEN Tail(events)
            ELSE [events EXCEPT ![1] = [kind |-> "Tokens", batch |-> Tail(@.batch)]]

(* The bytes are held back, or complete everything held before.            *)
Push(j, token) ==
  \/ /\ held' = [held EXCEPT ![j] = Append(@, token)]
     /\ UNCHANGED <<items, done>>
  \/ /\ held' = [held EXCEPT ![j] = <<>>]
     /\ Post(j, Append(held[j], token))

(* A token of a request retired before is nobody's, and is dropped.        *)
DeliverToken ==
  /\ Receives("Tokens")
  /\ IF Entry.job \in live THEN Push(Entry.job, Entry.token)
     ELSE UNCHANGED <<held, items, done>>
  /\ NextEntry
  /\ UNCHANGED <<workerVars, live, finishing, listener, heard, completion, callerVars>>

(* Mutants: the held-back text is not flushed; the request stays.          *)
FlushNothing(j) == UNCHANGED <<held, items, done>>
StillLive(j) == live

Flush(j) ==
  /\ held' = [held EXCEPT ![j] = <<>>]
  /\ IF held[j] = <<>> THEN UNCHANGED <<items, done>> ELSE Post(j, held[j])

NoLonger(j) == live \ {j}

(* finish, first half: the request leaves the table, its text is flushed.  *)
Finish(j, reply) ==
  /\ live' = NoLonger(j)
  /\ Flush(j)
  /\ finishing' = <<[job |-> j, reply |-> reply]>>
  /\ UNCHANGED <<workerVars, listener, heard, completion, callerVars>>

FinishRetired ==
  /\ Receives("Retire") /\ Head(events).job \in live
  /\ Finish(Head(events).job, Head(events).reply)
  /\ events' = Tail(events)

IgnoreRetire ==
  /\ Receives("Retire") /\ Head(events).job \notin live
  /\ events' = Tail(events)
  /\ UNCHANGED <<workerVars, live, held, finishing, items, done, listener, heard, completion,
                 callerVars>>

(* The channel closes for its receiver once it is drained.                 *)
Disconnected == worker = "Gone" /\ events = <<>>

(* Whoever is left is answered, in any order.                              *)
FinishOrphan(j) ==
  /\ Disconnected /\ finishing = <<>>
  /\ j \in live
  /\ Finish(j, "WorkerDied")
  /\ UNCHANGED events

(* finish, second half: the reply, into a channel of capacity one.         *)
Reply ==
  /\ finishing # <<>>
  /\ LET f == Head(finishing) IN
       /\ completion[f.job] = None
       /\ completion' = [completion EXCEPT ![f.job] = f.reply]
  /\ finishing' = <<>>
  /\ UNCHANGED <<workerVars, events, live, held, items, done, listener, heard, callerVars>>

-------------------------------------------------------------------------------
(* The listener threads. Each may block in on_text for as long as its      *)
(* client likes, so nothing is assumed about their progress.               *)

HearText(j) ==
  /\ listener[j] = "Up" /\ items[j] # <<>> /\ Head(items[j]) # Finished
  /\ heard' = [heard EXCEPT ![j] = @ \o Head(items[j])]
  /\ items' = [items EXCEPT ![j] = Tail(@)]
  /\ UNCHANGED <<workerVars, emissionVars, done, listener, completion, callerVars>>

(* on_finished, the joined value to the caller, the latch.                 *)
HearFinished(j) ==
  /\ listener[j] = "Up" /\ items[j] # <<>> /\ Head(items[j]) = Finished
  /\ listener' = [listener EXCEPT ![j] = "Gone"]
  /\ items' = [items EXCEPT ![j] = <<>>]
  /\ caller' = [caller EXCEPT ![j] = "Returned"]
  /\ done' = [done EXCEPT ![j] = TRUE]
  /\ UNCHANGED <<workerVars, emissionVars, heard, completion, answer>>

(* on_text panics: the channel closes, and a caller already in join panics *)
(* on its closed reply.                                                    *)
ListenerDies(j) ==
  /\ j \in Mortal
  /\ listener[j] = "Up" /\ items[j] # <<>> /\ Head(items[j]) # Finished
  /\ listener' = [listener EXCEPT ![j] = "Gone"]
  /\ items' = [items EXCEPT ![j] = <<>>]
  /\ caller' = [caller EXCEPT ![j] = IF @ = "Joining" THEN "Broken" ELSE @]
  /\ UNCHANGED <<workerVars, emissionVars, done, heard, completion, answer>>

-------------------------------------------------------------------------------
(* The callers: run_job, then join, which some leave out after an error.   *)

Took(j) ==
  /\ caller[j] = "Waiting" /\ completion[j] # None
  /\ answer' = [answer EXCEPT ![j] = completion[j]]
  /\ completion' = [completion EXCEPT ![j] = None]
  /\ UNCHANGED <<workerVars, emissionVars, done, listener, heard>>

Join(j) ==
  /\ Took(j)
  /\ listener[j] = "Up"
  /\ items' = [items EXCEPT ![j] = Append(@, Finished)]
  /\ caller' = [caller EXCEPT ![j] = "Joining"]

JoinFails(j) ==
  /\ Took(j)
  /\ listener[j] = "Gone"
  /\ caller' = [caller EXCEPT ![j] = "Broken"]
  /\ UNCHANGED items

Leave(j) ==
  /\ Took(j)
  /\ completion[j] # "Done"
  /\ caller' = [caller EXCEPT ![j] = "Left"]
  /\ UNCHANGED items

-------------------------------------------------------------------------------
Worker ==
  \/ \E j \in Jobs : Refuse(j) \/ Admit(j) \/ Retire(j, "Done") \/ Retire(j, "Error")
  \/ \E js \in SUBSET Jobs : ShipTokens(js)
  \/ Exit

Emission ==
  \/ TakeAdmitted \/ DeliverToken \/ FinishRetired \/ IgnoreRetire
  \/ \E j \in Jobs : FinishOrphan(j)
  \/ Reply

Listener(j) == HearText(j) \/ HearFinished(j) \/ ListenerDies(j)
Caller(j) == Join(j) \/ JoinFails(j) \/ Leave(j)

Next == Worker \/ Emission \/ \E j \in Jobs : Listener(j) \/ Caller(j)

Spec == Init /\ [][Next]_vars

(* The emission thread and the callers keep running; the worker and the    *)
(* listeners owe nothing.                                                  *)
FairSpec == Spec /\ WF_vars(Emission) /\ \A j \in Jobs : WF_vars(Caller(j))
===============================================================================
