------------------------------- MODULE ChatProofs -------------------------------
(***************************************************************************)
(* The HTTP server's safety properties, for every set of models, requests, *)
(* streams and clients, every queue, pipe and number of runtime threads:   *)
(* who holds the locks, where a panic ends, whose weights are in memory,   *)
(* and the order of a stream's frames.                                     *)
(***************************************************************************)
EXTENDS ChatProperties, SequenceTheorems, FiniteSetTheorems, TLAPS

(* The places of a handler: before and in the preamble of its stream it    *)
(* has no job, after the stream's text the job is over and joined.         *)
Preambles == {"Announcing", "Opened", "Probing", "Warming", "Warmed", "Loading", "Loaded", "Marking"}
Epilogues == {"Summing", "Finishing", "Excusing", "Closing", "Closed"}
Early == {"Start", "Switching", "Asking", "Acquired", "Aborted"} \cup Preambles
Places == Early \cup Epilogues \cup {"Generating", "Answered"}

Results == {"None", "Done", "Failed", "Overloaded", "Panicked"}
PipeFrames == FrameSet \cup {"Comment"}

(* The types of the channels' state.                                       *)
ChannelTypes ==
  /\ wanted \in [Requests -> Models \cup {Nowhere, Catalogue, Absent}]
  /\ loaded \in [Models -> BOOLEAN]
  /\ holder \in [Models -> Requests \cup {Nobody}]
  /\ poisoned \in SUBSET (Models \ Batched)
  /\ job \in [Requests -> JobStates] /\ result \in [Requests -> Results]
  /\ cancelled \in SUBSET Requests
  /\ spoken \in [Requests -> 0 .. MaxText] /\ unsent \in [Requests -> Nat]

(* The types of the handlers' state.                                       *)
HandlerTypes ==
  /\ current \in Models \cup {Nobody} /\ store \in Requests \cup {Nobody}
  /\ pc \in [Requests -> Places]
  /\ oldModel \in [Requests -> BOOLEAN]
  /\ unasked \in [Requests -> SUBSET Models]
  /\ status \in [Requests -> Nat]

(* The types of the streams' state.                                        *)
StreamTypes ==
  /\ pipe \in [Requests -> Seq(PipeFrames)] /\ got \in [Requests -> Seq(PipeFrames)]
  /\ beats \in [Requests -> Nat]
  /\ client \in [Requests -> {"Here", "Gone", "Ended"}]
  /\ watcher \in SUBSET Streams

(* The job of a request against the place of its handler.                  *)
StageOK(r) ==
  /\ pc[r] \in Preambles \cup Epilogues => r \in Streams
  /\ pc[r] \notin {"Start", "Asking", "Answered", "Aborted"} => wanted[r] \in Models
  /\ job[r] # "None" => wanted[r] \in Models
  /\ job[r] \in {"Queued", "Evicted", "Resuming"} => wanted[r] \in Batched
  /\ pc[r] \in Early => job[r] = "None"
  /\ pc[r] \in Epilogues => job[r] = "Joined"
  /\ pc[r] = "Answered" => job[r] \in {"None", "Joined"}
  /\ pc[r] = "Generating" => job[r] # "None"
  /\ result[r] = "None" <=> job[r] \notin {"Over", "Joined"}

StageInv == \A r \in Requests : StageOK(r)

ChatTypes == ChannelTypes /\ HandlerTypes /\ StreamTypes /\ StageInv

-------------------------------------------------------------------------------
(* The locks of LocksHeld: the store's, and the models'.                   *)
StoreInv == \A r \in Requests : pc[r] \in {"Switching", "Asking"} <=> store = r

HolderInv ==
  /\ \A r \in Requests :
       /\ pc[r] = "Loading" \/ job[r] \in {"Loading", "Resuming"} => holder[wanted[r]] = r
       /\ job[r] = "Running" /\ wanted[r] \notin Batched => holder[wanted[r]] = r
  /\ \A m \in Models : holder[m] # Nobody =>
       LET r == holder[m] IN
         /\ wanted[r] = m
         /\ \/ pc[r] = "Loading" \/ job[r] \in {"Loading", "Resuming"}
            \/ m \notin Batched /\ job[r] = "Running"

(* The text on its way, and the room in a stream's channel.                *)
RoomInv == \A r \in Requests : unsent[r] <= spoken[r] /\ Len(pipe[r]) <= PipeSize

LockInv == StoreInv /\ HolderInv /\ RoomInv

-------------------------------------------------------------------------------
(* The highest rank of a frame sent before a place is left.                *)
Highest(place) ==
  CASE place \in {"Opened", "Probing", "Warming"} -> 1
    [] place \in {"Warmed", "Loading", "Loaded"} -> 2
    [] place \in {"Marking", "Aborted"} -> 3
    [] place \in {"Generating", "Summing", "Excusing"} -> 5
    [] place = "Finishing" -> 6
    [] place = "Closing" -> 8
    [] place = "Closed" -> 9
    [] OTHER -> 0

Sorted(s) ==
  \A i, j \in DOMAIN s : i < j /\ {s[i], s[j]} \subseteq FrameSet =>
    Rank(s[i]) < Rank(s[j]) \/ (s[i] = "Text" /\ s[j] = "Text")
UpTo(h, s) == \A i \in DOMAIN s : s[i] \in FrameSet => Rank(s[i]) <= h
Has(f, s) == \E i \in DOMAIN s : s[i] = f

(* A stream whose job did not panic: what the client was sent is sorted    *)
(* and no further than its task; the text in it and the text on its way    *)
(* make up what was said; and what the epilogue says of the job is so.     *)
InStep(s, at, place, j, res, said, left) ==
  /\ Sorted(s) /\ UpTo(Highest(place), s)
  /\ j = "None" => said = 0
  /\ j = "Joined" => left = 0
  /\ at # "Gone" => Times("Text", s) + left = said
  /\ Has("Stats", s) => j = "Joined" /\ Times("Text", s) = said
  /\ at # "Gone" /\ place \in {"Warmed", "Loading", "Loaded"} => Has("Loading", s)
  /\ Has("Loaded", s) => Has("Loading", s)
  /\ Has("Error", s) \/ place = "Excusing" => res = "Overloaded"
  /\ Has("Finish", s) \/ place \in {"Summing", "Finishing"} => res = "Done"
  /\ at # "Gone" /\ place = "Closed" => s # <<>> /\ s[Len(s)] = "Done"
  /\ at = "Ended" => place \in {"Closed", "Aborted"}

StreamOK(r) == InStep(Sent(r), client[r], pc[r], job[r], result[r], spoken[r], unsent[r])

StreamInv == \A r \in Streams : result[r] # "Panicked" => StreamOK(r)

-------------------------------------------------------------------------------
LEMMA NobodyElse ==
  /\ Nobody \notin Requests /\ Nobody \notin Models
  /\ Nowhere \notin Models /\ Catalogue \notin Models /\ Absent \notin Models
  /\ Streams \subseteq Requests /\ Batched \subseteq Models /\ Fragile \subseteq Models
  /\ MaxText \in Nat /\ PipeSize \in Nat \ {0} /\ MaxBeats \in Nat
  BY ChannelAssumption, ServerAssumption

LEMMA FramesAre ==
  FrameSet = {"Unloaded", "Loading", "Loaded", "Marker", "Text", "Stats", "Finish", "Error", "Done"}
<1>1. DOMAIN Frames = 1 .. 9
  BY DEF Frames
<1> QED
  BY <1>1 DEF FrameSet, Frames

(* The initial states have the types.                                      *)
LEMMA TypesAtFirst == Init => ChatTypes
<1> SUFFICES ASSUME Init PROVE ChatTypes
  OBVIOUS
<1> USE NobodyElse
<1>1. ChannelTypes
  BY ServerAssumption DEF Init, ChannelInit, ChannelTypes, JobStates, Results
<1>2. HandlerTypes
  BY DEF Init, ServerInit, HandlerTypes, Places, Early
<1>3. StreamTypes
  BY EmptySeq DEF Init, ServerInit, StreamTypes
<1>4. StageInv
  BY DEF Init, ChannelInit, ServerInit, StageInv, StageOK, Early, Preambles, Epilogues
<1> QED
  BY <1>1, <1>2, <1>3, <1>4 DEF ChatTypes

(* Every step keeps the types of the channels' state.                      *)
LEMMA ChannelTypesStep ==
  ASSUME ChatTypes, [Next]_vars
  PROVE  ChannelTypes'
<1> USE NobodyElse DEF ChatTypes, ChannelTypes
<1>1. ASSUME NEW r \in Requests, Store(r)
      PROVE  ChannelTypes'
  <2>1. CASE Switch(r)
    BY <2>1 DEF Switch, Unloaded
  <2> QED
    BY <1>1, <2>1 DEF Store, NotFound, Resolve, BeginSwitch, SwitchPanics, BeginList, EndList, Ask,
       AskPanics, channelVars
<1>2. ASSUME NEW r \in Requests, Plain(r)
      PROVE  ChannelTypes'
  BY <1>2 DEF Plain, Generate, Respond, Join, CallJob, channelVars, JobStates
<1>3. ASSUME NEW r \in Requests, Stream(r)
      PROVE  ChannelTypes'
  <2>1. CASE TurnAway(r) \/ Open(r) \/ Announce(r) \/ BeginProbe(r) \/ Probe(r) \/ Warm(r) \/ Welcome(r)
    BY <2>1 DEF TurnAway, Open, Announce, BeginProbe, Probe, Warm, Welcome, Preamble, channelVars
  <2>2. CASE BeginLoad(r)
    BY <2>2 DEF BeginLoad, Occupy
  <2>3. CASE EndLoad(r)
    BY <2>3 DEF EndLoad, Vacate
  <2>4. CASE LoadPoisoned(r) \/ Conclude(r) \/ Summarize(r) \/ SayFinished(r) \/ Excuse(r) \/ Close(r)
    BY <2>4 DEF LoadPoisoned, Conclude, Summarize, SayFinished, Excuse, Close, Epilogue, channelVars
  <2>5. CASE Mark(r)
    BY <2>5 DEF Mark, CallJob, JobStates
  <2>6. CASE Watch(r)
    BY <2>6 DEF Watch, StreamTypes
  <2> QED
    BY <1>3, <2>1, <2>2, <2>3, <2>4, <2>5, <2>6 DEF Stream
<1>4. ASSUME NEW r \in Requests, JobStep(r)
      PROVE  ChannelTypes'
  <2>1. CASE Shed(r) \/ Submit(r) \/ Admit(r) \/ Sweep(r) \/ LockPoisoned(r)
    BY <2>1 DEF Shed, Submit, Admit, Sweep, LockPoisoned, JobStates, Results
  <2>2. CASE AdmitLoads(r) \/ ResumeLoads(r) \/ Lock(r)
    BY <2>2 DEF AdmitLoads, ResumeLoads, Lock, Occupy, JobStates
  <2>3. CASE FinishLoad(r)
    BY <2>3 DEF FinishLoad, Vacate, JobStates
  <2> QED
    BY <1>4, <2>1, <2>2, <2>3 DEF JobStep
<1>5. ASSUME NEW r \in Requests, Say(r) \/ Finish(r) \/ Evict(r) \/ Resume(r)
      PROVE  ChannelTypes'
  <2>1. CASE Say(r)
    BY <2>1 DEF Say
  <2>2. CASE Finish(r)
    BY <2>2 DEF Finish, Vacate, JobStates, Results
  <2>3. CASE Evict(r) \/ Resume(r)
    BY <2>3 DEF Evict, Resume, JobStates
  <2> QED
    BY <1>5, <2>1, <2>2, <2>3
<1>6. ASSUME NEW m \in Models, Crash(m), UNCHANGED <<wanted, cancelled, spoken, unsent>>
      PROVE  ChannelTypes'
  BY <1>6 DEF Crash, Poisons, Vacate, JobStates, Results
<1>7. ASSUME NEW r \in Requests, Panic(r)
      PROVE  ChannelTypes'
  BY <1>6, <1>7 DEF Panic, JobPanics, StageInv, StageOK
<1>8. ASSUME NEW r \in Requests, LoadPanics(r)
      PROVE  ChannelTypes'
  BY <1>6, <1>8 DEF LoadPanics, StageInv, StageOK
<1>9. ASSUME NEW r \in Requests, Write(r)
      PROVE  ChannelTypes'
  BY <1>9 DEF Write
<1>10. ASSUME NEW r \in Requests, Heartbeat(r) \/ Read(r) \/ SeeEnd(r) \/ Leave(r)
       PROVE  ChannelTypes'
  BY <1>10 DEF Heartbeat, Read, SeeEnd, Leave, channelVars
<1>11. CASE UNCHANGED vars
  BY <1>11 DEF vars, channelVars
<1> QED
  BY <1>1, <1>2, <1>3, <1>4, <1>5, <1>7, <1>8, <1>9, <1>10, <1>11 DEF Next, Job, Generation, Eviction

(* Every step keeps the types of the handlers' state.                      *)
LEMMA HandlerTypesStep ==
  ASSUME ChatTypes, [Next]_vars
  PROVE  HandlerTypes'
<1> USE NobodyElse DEF ChatTypes, HandlerTypes, Places, Early, Preambles, Epilogues, To, Answer, Abort
<1>1. ASSUME NEW r \in Requests, Store(r)
      PROVE  HandlerTypes'
  <2>1. CASE NotFound(r) \/ Resolve(r) \/ BeginSwitch(r)
    BY <2>1 DEF NotFound, Resolve, BeginSwitch
  <2>2. CASE Switch(r) \/ SwitchPanics(r)
    <3>1. pc[r] = "Switching" => wanted[r] \in Models
      BY DEF StageInv, StageOK
    <3> QED
      BY <2>2, <3>1 DEF Switch, SwitchPanics, StoreAfterPanic
  <2>3. CASE BeginList(r) \/ EndList(r) \/ \E m \in Models : Ask(r, m) \/ AskPanics(r, m)
    BY <2>3 DEF BeginList, EndList, Ask, AskPanics, StoreAfterPanic
  <2> QED
    BY <1>1, <2>1, <2>2, <2>3 DEF Store
<1>2. ASSUME NEW r \in Requests, Plain(r)
      PROVE  HandlerTypes'
  BY <1>2 DEF Plain, Generate, Respond, Join, StatusOf, handlerVars
<1>3. ASSUME NEW r \in Requests, Stream(r)
      PROVE  HandlerTypes'
  <2>1. CASE TurnAway(r) \/ Open(r)
    BY <2>1 DEF TurnAway, Open
  <2>2. CASE Announce(r) \/ Warm(r) \/ Welcome(r)
    BY <2>2 DEF Announce, Warm, Welcome, Preamble
  <2>3. CASE BeginProbe(r) \/ Probe(r) \/ BeginLoad(r) \/ EndLoad(r) \/ LoadPoisoned(r)
    BY <2>3 DEF BeginProbe, Probe, BeginLoad, EndLoad, LoadPoisoned
  <2>4. CASE Mark(r) \/ Watch(r)
    BY <2>4 DEF Mark, Watch, handlerVars
  <2>5. CASE Conclude(r)
    BY <2>5 DEF Conclude
  <2>6. CASE Summarize(r) \/ SayFinished(r) \/ Excuse(r) \/ Close(r)
    BY <2>6 DEF Summarize, SayFinished, Excuse, Close, Epilogue
  <2> QED
    BY <1>3, <2>1, <2>2, <2>3, <2>4, <2>5, <2>6 DEF Stream
<1>4. ASSUME NEW r \in Requests, Panic(r) \/ LoadPanics(r)
      PROVE  HandlerTypes'
  BY <1>4 DEF Panic, LoadPanics, Strand
<1>5. ASSUME NEW r \in Requests,
             \/ Job(r) \/ Generation(r) \/ Eviction(r) \/ Write(r) \/ Heartbeat(r) \/ Read(r) \/ SeeEnd(r) \/ Leave(r)
      PROVE  HandlerTypes'
  BY <1>5 DEF Job, Generation, Eviction, Evict, Resume, Write, Heartbeat, Read, SeeEnd, Leave, handlerVars
<1>6. CASE UNCHANGED vars
  BY <1>6 DEF vars, handlerVars
<1> QED
  BY <1>1, <1>2, <1>3, <1>4, <1>5, <1>6 DEF Next

(* Every step keeps the types of the streams' state.                       *)
LEMMA StreamTypesStep ==
  ASSUME ChatTypes, [Next]_vars
  PROVE  StreamTypes'
<1> USE NobodyElse DEF ChatTypes, StreamTypes
<1>0. ASSUME NEW r \in Requests, NEW frame \in PipeFrames, Sends(r, frame) \/ Lost(r)
      PROVE  pipe' \in [Requests -> Seq(PipeFrames)]
  <2>1. Append(pipe[r], frame) \in Seq(PipeFrames)
    BY AppendProperties
  <2> QED
    BY <1>0, <2>1 DEF Sends, Lost
<1>f. FrameSet \cup {"Comment"} = PipeFrames
  BY DEF PipeFrames
<1>g. \A r \in Requests : pc[r] \in Preambles => r \in Streams
  BY DEF StageInv, StageOK
<1>1. ASSUME NEW r \in Requests, Store(r)
      PROVE  StreamTypes'
  BY <1>1 DEF Store, NotFound, Resolve, BeginSwitch, Switch, SwitchPanics, BeginList, EndList, Ask,
       AskPanics, streamVars
<1>2. ASSUME NEW r \in Requests, Plain(r)
      PROVE  StreamTypes'
  BY <1>2 DEF Plain, Generate, Respond, Join, streamVars
<1>3. ASSUME NEW r \in Requests, Stream(r)
      PROVE  StreamTypes'
  <2>1. CASE TurnAway(r) \/ Open(r) \/ BeginProbe(r) \/ Probe(r) \/ BeginLoad(r) \/ EndLoad(r) \/ LoadPoisoned(r)
    BY <2>1 DEF TurnAway, Open, BeginProbe, Probe, BeginLoad, EndLoad, LoadPoisoned, streamVars
  <2>2. CASE Announce(r) \/ Warm(r) \/ Welcome(r)
    BY <2>2, <1>0, <1>f, FramesAre DEF Announce, Warm, Welcome, Preamble
  <2>3. CASE Mark(r)
    BY <2>3, <1>0, <1>f, <1>g, FramesAre DEF Mark, At, Preambles
  <2>4. CASE Watch(r) \/ Conclude(r)
    BY <2>4 DEF Watch, Conclude, Unwatched
  <2>5. CASE Summarize(r) \/ SayFinished(r) \/ Excuse(r) \/ Close(r)
    BY <2>5, <1>0, <1>f, FramesAre DEF Summarize, SayFinished, Excuse, Close, Epilogue
  <2> QED
    BY <1>3, <2>1, <2>2, <2>3, <2>4, <2>5 DEF Stream
<1>4. ASSUME NEW r \in Requests, Job(r) \/ Generation(r) \/ Eviction(r) \/ Panic(r) \/ LoadPanics(r)
      PROVE  StreamTypes'
  BY <1>4 DEF Job, Generation, Eviction, Panic, LoadPanics, streamVars
<1>5. ASSUME NEW r \in Requests, Write(r)
      PROVE  StreamTypes'
  BY <1>5, <1>0, <1>f, FramesAre DEF Write
<1>6. ASSUME NEW r \in Requests, Heartbeat(r)
      PROVE  StreamTypes'
  BY <1>6, <1>0, <1>f, FramesAre DEF Heartbeat
<1>7. ASSUME NEW r \in Requests, Read(r)
      PROVE  StreamTypes'
  <2>1. /\ Tail(pipe[r]) \in Seq(PipeFrames) /\ Head(pipe[r]) \in PipeFrames
    BY <1>7, HeadTailProperties DEF Read
  <2>2. Append(got[r], Head(pipe[r])) \in Seq(PipeFrames)
    BY <2>1, AppendProperties
  <2> QED
    BY <1>7, <2>1, <2>2 DEF Read
<1>8. ASSUME NEW r \in Requests, SeeEnd(r) \/ Leave(r)
      PROVE  StreamTypes'
  <2>1. <<>> \in Seq(PipeFrames)
    BY EmptySeq
  <2>2. ASSUME NEW none \in Seq(PipeFrames), pipe' = [pipe EXCEPT ![r] = none]
        PROVE  pipe' \in [Requests -> Seq(PipeFrames)]
    BY <2>2
  <2>3. CASE Leave(r)
    BY <2>1, <2>2, <2>3 DEF Leave
  <2>4. CASE SeeEnd(r)
    <3>1. /\ client' = [client EXCEPT ![r] = "Ended"]
          /\ UNCHANGED <<pipe, got, beats, watcher>>
      BY <2>4 DEF SeeEnd
    <3> QED
      BY <3>1
  <2> QED
    BY <1>8, <2>3, <2>4
<1>9. CASE UNCHANGED vars
  BY <1>9 DEF vars, streamVars
<1> QED
  BY <1>1, <1>2, <1>3, <1>4, <1>5, <1>6, <1>7, <1>8, <1>9 DEF Next

(* A panic of a model's server ends exactly the jobs in its hands.         *)
LEMMA CrashEnds ==
  ASSUME ChatTypes, HolderInv, NEW m \in Models, Crash(m), NEW q \in Requests
  PROVE  \/ /\ job'[q] = job[q] /\ result'[q] = result[q]
            /\ wanted[q] = m => job[q] \notin {"Loading", "Running", "Resuming"}
         \/ /\ wanted[q] = m /\ job[q] \in {"Queued", "Loading", "Running", "Evicted", "Resuming"}
            /\ job'[q] = "Over" /\ result'[q] = IF m \in Batched THEN "Failed" ELSE "Panicked"
<1> USE NobodyElse DEF ChatTypes, ChannelTypes
<1> DEFINE lost == IF m \in Batched THEN InWork(m) ELSE {r \in JobsOf(m) : holder[m] = r}
<1>1. /\ job'[q] = IF q \in lost /\ job[q] # "None" THEN "Over" ELSE job[q]
      /\ result'[q] = IF q \notin lost \/ job[q] = "None" THEN result[q]
                      ELSE IF m \in Batched THEN "Failed" ELSE "Panicked"
  BY DEF Crash
<1>2. CASE m \in Batched
  <2>1. q \in lost <=>
          wanted[q] = m /\ job[q] \in {"Queued", "Loading", "Running", "Evicted", "Resuming"}
    BY <1>2 DEF InWork, WaitingOn, Active, Parked, JobsThat, JobsOf
  <2> QED
    BY <1>1, <1>2, <2>1
<1>3. CASE m \notin Batched
  <2>1. q \in lost <=> wanted[q] = m /\ holder[m] = q
    BY <1>3 DEF JobsOf
  <2>2. wanted[q] = m /\ job[q] \in {"Loading", "Running", "Resuming"} => holder[m] = q
    BY <1>3 DEF HolderInv
  <2>3. holder[m] = q => pc[q] = "Loading" \/ job[q] \in {"Loading", "Running", "Resuming"}
    BY DEF HolderInv
  <2>4. pc[q] = "Loading" => job[q] = "None"
    BY DEF StageInv, StageOK, Early, Preambles
  <2> QED
    BY <1>1, <1>3, <2>1, <2>2, <2>3, <2>4
<1> QED
  BY <1>2, <1>3

(* Every step keeps the job of a request in line with its handler.         *)
LEMMA StageStep ==
  ASSUME ChatTypes, HolderInv, [Next]_vars
  PROVE  StageInv'
<1> SUFFICES ASSUME NEW q \in Requests
             PROVE  StageOK(q)'
  BY DEF StageInv
<1>0. StageOK(q)
  BY DEF ChatTypes, StageInv
<1> USE NobodyElse, <1>0 DEF ChatTypes, ChannelTypes, HandlerTypes, StageOK, Early, Preambles, Epilogues, To, Answer, Abort, At
<1>1. ASSUME NEW r \in Requests, Store(r)
      PROVE  StageOK(q)'
  <2>1. CASE NotFound(r) \/ Resolve(r) \/ BeginSwitch(r)
    BY <2>1 DEF NotFound, Resolve, BeginSwitch, channelVars
  <2>2. CASE Switch(r) \/ SwitchPanics(r)
    BY <2>2 DEF Switch, SwitchPanics, channelVars
  <2>3. CASE BeginList(r) \/ EndList(r) \/ \E m \in Models : Ask(r, m) \/ AskPanics(r, m)
    BY <2>3 DEF BeginList, EndList, Ask, AskPanics, channelVars
  <2> QED
    BY <1>1, <2>1, <2>2, <2>3 DEF Store
<1>2. ASSUME NEW r \in Requests, Plain(r)
      PROVE  StageOK(q)'
  BY <1>2 DEF Plain, Generate, Respond, Join, CallJob, handlerVars, channelVars
<1>3. ASSUME NEW r \in Requests, Stream(r)
      PROVE  StageOK(q)'
  <2>1. CASE TurnAway(r) \/ Open(r)
    BY <2>1 DEF TurnAway, Open, channelVars
  <2>2. CASE Announce(r) \/ Warm(r) \/ Welcome(r)
    BY <2>2 DEF Announce, Warm, Welcome, Preamble, channelVars
  <2>3. CASE BeginProbe(r) \/ Probe(r) \/ BeginLoad(r) \/ EndLoad(r) \/ LoadPoisoned(r)
    BY <2>3 DEF BeginProbe, Probe, BeginLoad, EndLoad, LoadPoisoned, channelVars
  <2>4. CASE Mark(r) \/ Watch(r)
    BY <2>4 DEF Mark, Watch, CallJob, handlerVars
  <2>5. CASE Conclude(r)
    BY <2>5 DEF Conclude, channelVars
  <2>6. CASE Summarize(r) \/ SayFinished(r) \/ Excuse(r) \/ Close(r)
    BY <2>6 DEF Summarize, SayFinished, Excuse, Close, Epilogue, channelVars
  <2> QED
    BY <1>3, <2>1, <2>2, <2>3, <2>4, <2>5, <2>6 DEF Stream
<1>4. ASSUME NEW r \in Requests, JobStep(r), UNCHANGED handlerVars
      PROVE  StageOK(q)'
  <2>1. CASE Shed(r) \/ Submit(r) \/ Admit(r) \/ LockPoisoned(r)
    BY <1>4, <2>1 DEF Shed, Submit, Admit, HasTurn, LockPoisoned, handlerVars
  <2>2. CASE AdmitLoads(r) \/ ResumeLoads(r) \/ Lock(r) \/ FinishLoad(r)
    BY <1>4, <2>2 DEF AdmitLoads, HasTurn, ResumeLoads, Lock, FinishLoad, handlerVars
  <2>3. CASE Sweep(r)
    BY <1>4, <2>3 DEF Sweep, Swept, handlerVars
  <2> QED
    BY <1>4, <2>1, <2>2, <2>3 DEF JobStep
<1>5. ASSUME NEW r \in Requests, Say(r) \/ Finish(r) \/ Evict(r) \/ Resume(r), UNCHANGED handlerVars
      PROVE  StageOK(q)'
  BY <1>5 DEF Say, Finish, Evict, Resume, handlerVars
<1>6. ASSUME NEW m \in Models, NEW s \in SUBSET Requests, Crash(m), Strand(m, s), UNCHANGED wanted,
             \A r \in s : pc[r] = "Loading"
      PROVE  StageOK(q)'
  <2>1. \/ pc'[q] = pc[q]
        \/ pc'[q] = "Aborted" /\ pc[q] \in {"Warmed", "Loading"}
    BY <1>6 DEF Strand
  <2> QED
    BY <1>6, <2>1, CrashEnds
<1>7. ASSUME NEW r \in Requests, Panic(r)
      PROVE  StageOK(q)'
  <2>1. wanted[r] \in Models
    BY <1>7 DEF Panic, JobPanics, StageInv
  <2> QED
    BY <1>7, <1>6, <2>1 DEF Panic, JobPanics
<1>8. ASSUME NEW r \in Requests, LoadPanics(r)
      PROVE  StageOK(q)'
  <2>1. wanted[r] \in Models
    BY <1>8 DEF LoadPanics, StageInv
  <2> QED
    BY <1>8, <1>6, <2>1 DEF LoadPanics
<1>9. ASSUME NEW r \in Requests, Write(r) \/ Heartbeat(r) \/ Read(r) \/ SeeEnd(r) \/ Leave(r)
      PROVE  StageOK(q)'
  BY <1>9 DEF Write, Heartbeat, Read, SeeEnd, Leave, handlerVars, channelVars
<1>10. CASE UNCHANGED vars
  BY <1>10 DEF vars, handlerVars, channelVars
<1> QED
  BY <1>1, <1>2, <1>3, <1>4, <1>5, <1>7, <1>8, <1>9, <1>10 DEF Next, Job, Generation, Eviction

-------------------------------------------------------------------------------
LEMMA LocksAtFirst == Init => LockInv
<1> SUFFICES ASSUME Init PROVE LockInv
  OBVIOUS
<1> USE NobodyElse DEF Init, ChannelInit, ServerInit
<1>1. StoreInv
  BY DEF StoreInv
<1>2. HolderInv
  BY DEF HolderInv
<1>3. RoomInv
  BY EmptySeq DEF RoomInv
<1> QED
  BY <1>1, <1>2, <1>3 DEF LockInv

(* Every step keeps the store's lock with whoever switches or lists.       *)
LEMMA StoreStep ==
  ASSUME ChatTypes, StoreInv, [Next]_vars
  PROVE  StoreInv'
<1> SUFFICES ASSUME NEW q \in Requests
             PROVE  (pc[q] \in {"Switching", "Asking"} <=> store = q)'
  BY DEF StoreInv
<1> DEFINE Same == pc'[q] \in {"Switching", "Asking"} <=> store' = q
<1>0. /\ pc[q] \in {"Switching", "Asking"} <=> store = q
      /\ \A r \in Requests : pc[r] \in {"Switching", "Asking"} <=> store = r
  BY DEF StoreInv
<1> USE NobodyElse, <1>0 DEF ChatTypes, HandlerTypes, To, Answer, Abort, At, StoreAfterPanic
<1>1. ASSUME NEW r \in Requests, Store(r)
      PROVE  Same
  <2>1. CASE NotFound(r) \/ Resolve(r) \/ BeginSwitch(r)
    BY <2>1 DEF NotFound, Resolve, BeginSwitch
  <2>2. CASE Switch(r) \/ SwitchPanics(r)
    BY <2>2 DEF Switch, SwitchPanics
  <2>3. CASE BeginList(r) \/ EndList(r) \/ \E m \in Models : Ask(r, m) \/ AskPanics(r, m)
    BY <2>3 DEF BeginList, EndList, Ask, AskPanics
  <2> QED
    BY <1>1, <2>1, <2>2, <2>3 DEF Store
<1>2. ASSUME NEW r \in Requests, Plain(r)
      PROVE  Same
  BY <1>2 DEF Plain, Generate, Respond, Join, handlerVars
<1>3. ASSUME NEW r \in Requests, Stream(r)
      PROVE  Same
  <2>1. CASE TurnAway(r) \/ Open(r)
    BY <2>1 DEF TurnAway, Open
  <2>2. CASE Announce(r) \/ Warm(r) \/ Welcome(r)
    BY <2>2 DEF Announce, Warm, Welcome, Preamble
  <2>3. CASE BeginProbe(r) \/ Probe(r) \/ BeginLoad(r) \/ EndLoad(r) \/ LoadPoisoned(r)
    BY <2>3 DEF BeginProbe, Probe, BeginLoad, EndLoad, LoadPoisoned
  <2>4. CASE Mark(r) \/ Watch(r) \/ Conclude(r)
    BY <2>4 DEF Mark, Watch, Conclude, handlerVars
  <2>5. CASE Summarize(r) \/ SayFinished(r) \/ Excuse(r) \/ Close(r)
    BY <2>5 DEF Summarize, SayFinished, Excuse, Close, Epilogue
  <2> QED
    BY <1>3, <2>1, <2>2, <2>3, <2>4, <2>5 DEF Stream
<1>4. ASSUME NEW r \in Requests, Panic(r) \/ LoadPanics(r)
      PROVE  Same
  BY <1>4 DEF Panic, LoadPanics, Strand
<1>5. ASSUME NEW r \in Requests,
             \/ Job(r) \/ Generation(r) \/ Eviction(r) \/ Write(r) \/ Heartbeat(r) \/ Read(r) \/ SeeEnd(r) \/ Leave(r)
      PROVE  Same
  BY <1>5 DEF Job, Generation, Eviction, Evict, Resume, Write, Heartbeat, Read, SeeEnd, Leave, handlerVars
<1>6. CASE UNCHANGED vars
  BY <1>6 DEF vars, handlerVars
<1> QED
  BY <1>1, <1>2, <1>3, <1>4, <1>5, <1>6 DEF Next

(* Every step keeps a model's server busy exactly for a load or a call.    *)
LEMMA HolderStep ==
  ASSUME ChatTypes, HolderInv, [Next]_vars
  PROVE  HolderInv'
<1> DEFINE Loads(r) == pc[r] = "Loading" \/ job[r] \in {"Loading", "Resuming"}
           Holds(r) == Loads(r) \/ (job[r] = "Running" /\ wanted[r] \notin Batched)
           OneAt(m) == /\ holder[m] # Nobody => wanted[holder[m]] = m /\ Holds(holder[m])
                       /\ \A r \in Requests : wanted[r] = m /\ Holds(r) => holder[m] = r
<1>a. HolderInv <=> \A m \in Models : OneAt(m)
  BY NobodyElse DEF ChatTypes, ChannelTypes, StageInv, StageOK, HolderInv, Early, Preambles
<1>b. ChatTypes' => (HolderInv' <=> \A m \in Models : OneAt(m)')
  BY NobodyElse DEF ChatTypes, ChannelTypes, StageInv, StageOK, HolderInv, Early, Preambles
<1>c. ChatTypes'
  BY ChannelTypesStep, HandlerTypesStep, StreamTypesStep, StageStep DEF ChatTypes
<1> SUFFICES ASSUME NEW m \in Models
             PROVE  OneAt(m)'
  BY <1>b, <1>c
<1>d. OneAt(m)
  BY <1>a
<1>e. \A r \in Requests : /\ pc[r] = "Loading" => job[r] = "None" /\ wanted[r] \in Models
                          /\ job[r] # "None" => wanted[r] \in Models
  BY DEF ChatTypes, StageInv, StageOK, Early, Preambles
<1> HIDE DEF HolderInv
<1>1. ASSUME UNCHANGED <<wanted, holder, job>>,
             \A q \in Requests : pc'[q] = "Loading" <=> pc[q] = "Loading"
      PROVE  OneAt(m)'
  BY <1>1, <1>d DEF ChatTypes, ChannelTypes, HandlerTypes
<1>2. ASSUME UNCHANGED <<wanted, holder, pc>>, NEW r \in Requests, NEW new,
             job' = [job EXCEPT ![r] = new],
             new \in {"Loading", "Running", "Resuming"} => new = "Running" /\ wanted[r] \in Batched,
             job[r] \notin {"Loading", "Running", "Resuming"} \/ (job[r] = "Running" /\ wanted[r] \in Batched)
      PROVE  OneAt(m)'
  BY <1>2, <1>d, <1>e DEF ChatTypes, ChannelTypes, HandlerTypes
<1> USE NobodyElse DEF ChatTypes, ChannelTypes, HandlerTypes, To, Answer, Abort, At
<1>3. ASSUME NEW r \in Requests, Store(r)
      PROVE  OneAt(m)'
  <2>1. /\ UNCHANGED <<wanted, holder, job>>
        /\ \A q \in Requests : pc'[q] = "Loading" <=> pc[q] = "Loading"
    <3>1. CASE NotFound(r) \/ Resolve(r) \/ BeginSwitch(r)
      BY <3>1 DEF NotFound, Resolve, BeginSwitch, channelVars
    <3>2. CASE Switch(r) \/ SwitchPanics(r)
      BY <3>2 DEF Switch, SwitchPanics, channelVars
    <3>3. CASE BeginList(r) \/ EndList(r) \/ \E n \in Models : Ask(r, n) \/ AskPanics(r, n)
      BY <3>3 DEF BeginList, EndList, Ask, AskPanics, channelVars
    <3> QED
      BY <1>3, <3>1, <3>2, <3>3 DEF Store
  <2> QED
    BY <2>1, <1>1
<1>4. ASSUME NEW r \in Requests, Plain(r)
      PROVE  OneAt(m)'
  <2>1. CASE Generate(r)
    BY <2>1, <1>d, <1>e DEF Generate, CallJob, StageInv, StageOK, Early
  <2>2. CASE Join(r)
    BY <2>2, <1>2 DEF Join, handlerVars
  <2>3. CASE Respond(r)
    BY <2>3, <1>1 DEF Respond, channelVars
  <2> QED
    BY <1>4, <2>1, <2>2, <2>3 DEF Plain
<1>5. ASSUME NEW r \in Requests, Stream(r)
      PROVE  OneAt(m)'
  <2>1. CASE TurnAway(r) \/ Open(r) \/ Announce(r) \/ Warm(r) \/ Welcome(r) \/ BeginProbe(r)
             \/ Probe(r) \/ LoadPoisoned(r)
    <3>1. /\ UNCHANGED <<wanted, holder, job>>
          /\ \A q \in Requests : pc'[q] = "Loading" <=> pc[q] = "Loading"
      BY <2>1 DEF TurnAway, Open, Announce, Warm, Welcome, Preamble, BeginProbe, Probe, LoadPoisoned,
         channelVars
    <3> QED
      BY <3>1, <1>1
  <2>2. CASE BeginLoad(r)
    BY <2>2, <1>d, <1>e DEF BeginLoad, Occupy, Reachable
  <2>3. CASE EndLoad(r)
    BY <2>3, <1>d, <1>e DEF EndLoad, Vacate
  <2>4. CASE Mark(r)
    <3>1. job[r] = "None"
      BY <2>4 DEF Mark, StageInv, StageOK, Early, Preambles
    <3> QED
      BY <2>4, <3>1, <1>d, <1>e DEF Mark, CallJob
  <2>5. CASE Watch(r) \/ Conclude(r) \/ Summarize(r) \/ SayFinished(r) \/ Excuse(r) \/ Close(r)
    <3>1. /\ UNCHANGED <<wanted, holder, job>>
          /\ \A q \in Requests : pc'[q] = "Loading" <=> pc[q] = "Loading"
      BY <2>5 DEF Watch, Conclude, Summarize, SayFinished, Excuse, Close, Epilogue, handlerVars,
         channelVars
    <3> QED
      BY <3>1, <1>1
  <2> QED
    BY <1>5, <2>1, <2>2, <2>3, <2>4, <2>5 DEF Stream
<1>6. ASSUME NEW r \in Requests, JobStep(r), UNCHANGED handlerVars
      PROVE  OneAt(m)'
  <2>0. UNCHANGED pc
    BY <1>6 DEF handlerVars
  <2>1. CASE Shed(r) \/ Submit(r) \/ Admit(r) \/ Sweep(r) \/ LockPoisoned(r)
    <3>1. CASE Shed(r) \/ Submit(r) \/ LockPoisoned(r)
      BY <2>0, <3>1, <1>2 DEF Shed, Submit, LockPoisoned
    <3>2. CASE Admit(r)
      BY <2>0, <3>2, <1>2 DEF Admit, HasTurn, StageInv, StageOK
    <3>3. CASE Sweep(r)
      BY <2>0, <3>3, <1>2 DEF Sweep, Swept
    <3> QED
      BY <2>1, <3>1, <3>2, <3>3
  <2>2. CASE AdmitLoads(r) \/ ResumeLoads(r)
    BY <2>0, <2>2, <1>d, <1>e DEF AdmitLoads, HasTurn, ResumeLoads, Occupy, Reachable
  <2>3. CASE Lock(r)
    BY <2>0, <2>3, <1>d, <1>e DEF Lock, Occupy, Reachable
  <2>4. CASE FinishLoad(r)
    BY <2>0, <2>4, <1>d, <1>e DEF FinishLoad, Vacate
  <2> QED
    BY <1>6, <2>1, <2>2, <2>3, <2>4 DEF JobStep
<1>7. ASSUME NEW r \in Requests, Say(r) \/ Finish(r) \/ Evict(r) \/ Resume(r), UNCHANGED handlerVars
      PROVE  OneAt(m)'
  <2>1. CASE Say(r)
    BY <1>7, <2>1, <1>1 DEF Say, handlerVars
  <2>2. CASE Finish(r)
    BY <1>7, <2>2, <1>d, <1>e DEF Finish, Vacate, AtWork, handlerVars
  <2>3. CASE Evict(r) \/ Resume(r)
    BY <1>7, <2>3, <1>2 DEF Evict, Resume, StageInv, StageOK, handlerVars
  <2> QED
    BY <1>7, <2>1, <2>2, <2>3
<1>8. ASSUME NEW n \in Models, NEW s \in SUBSET Requests, Crash(n), Strand(n, s), UNCHANGED wanted,
             \A q \in Requests : pc[q] = "Loading" => (wanted[q] = n <=> q \in s)
      PROVE  OneAt(m)'
  <2>1. \A q \in Requests : pc'[q] = "Loading" <=> pc[q] = "Loading" /\ q \notin s
    BY <1>8 DEF Strand
  <2>2. \A q \in Requests : /\ job'[q] \in {"Loading", "Running", "Resuming"} => job'[q] = job[q]
                            /\ wanted[q] = n => job'[q] \notin {"Loading", "Running", "Resuming"}
                            /\ wanted[q] # n => job'[q] = job[q]
    BY <1>8, CrashEnds
  <2>3. holder' = [holder EXCEPT ![n] = Nobody]
    BY <1>8 DEF Crash, Vacate
  <2>4. CASE n = m
    <3>1. holder'[m] = Nobody
      BY <2>3, <2>4
    <3>2. ASSUME NEW q \in Requests, wanted'[q] = m
          PROVE  pc'[q] # "Loading" /\ job'[q] \notin {"Loading", "Running", "Resuming"}
      BY <1>8, <2>1, <2>2, <2>4, <3>2
    <3> QED
      BY <3>1, <3>2
  <2>5. CASE n # m
    BY <1>8, <1>d, <2>1, <2>2, <2>3, <2>5
  <2> QED
    BY <2>4, <2>5
<1>9. ASSUME NEW r \in Requests, Panic(r)
      PROVE  OneAt(m)'
  <2>1. wanted[r] \in Models
    BY <1>9, <1>e DEF Panic, JobPanics
  <2> QED
    BY <1>9, <1>8, <2>1, <1>a, <1>e DEF Panic, JobPanics, AtWork
<1>10. ASSUME NEW r \in Requests, LoadPanics(r)
       PROVE  OneAt(m)'
  <2>1. wanted[r] \in Models
    BY <1>10, <1>e DEF LoadPanics
  <2> QED
    BY <1>10, <1>8, <2>1, <1>a DEF LoadPanics
<1>11. ASSUME NEW r \in Requests, Write(r) \/ Heartbeat(r) \/ Read(r) \/ SeeEnd(r) \/ Leave(r)
       PROVE  OneAt(m)'
  BY <1>11, <1>1 DEF Write, Heartbeat, Read, SeeEnd, Leave, handlerVars, channelVars
<1>12. CASE UNCHANGED vars
  BY <1>12, <1>1 DEF vars, handlerVars, channelVars
<1> QED
  BY <1>3, <1>4, <1>5, <1>6, <1>7, <1>9, <1>10, <1>11, <1>12 DEF Next, Job, Generation, Eviction

(* Every step keeps the text on its way within what was said, and the      *)
(* channels of the streams within their size.                              *)
LEMMA RoomStep ==
  ASSUME ChatTypes, RoomInv, [Next]_vars
  PROVE  RoomInv'
<1> USE NobodyElse DEF ChatTypes, ChannelTypes, StreamTypes, RoomInv
<1>1. ASSUME UNCHANGED <<spoken, unsent>>,
             UNCHANGED pipe \/ \E r \in Requests, frame \in PipeFrames : Sends(r, frame)
      PROVE  RoomInv'
  <2>1. CASE UNCHANGED pipe
    BY <1>1, <2>1
  <2>2. ASSUME NEW r \in Requests, NEW frame \in PipeFrames, Sends(r, frame)
        PROVE  RoomInv'
    <3>1. Len(Append(pipe[r], frame)) <= PipeSize
      BY <2>2, AppendProperties, LenProperties DEF Sends
    <3> QED
      BY <1>1, <2>2, <3>1 DEF Sends
  <2> QED
    BY <1>1, <2>1, <2>2
<1>2. {"Comment", "Text", "Unloaded", "Loading", "Loaded", "Marker", "Stats", "Finish", "Error", "Done"}
        \subseteq PipeFrames
  BY FramesAre DEF PipeFrames
<1>3. ASSUME NEW r \in Requests, Store(r) \/ Plain(r) \/ Panic(r) \/ LoadPanics(r)
      PROVE  UNCHANGED <<spoken, unsent, pipe>>
  <2>1. CASE Store(r)
    BY <2>1 DEF Store, NotFound, Resolve, BeginSwitch, Switch, SwitchPanics, BeginList, EndList, Ask,
       AskPanics, channelVars, streamVars
  <2>2. CASE Plain(r) \/ Panic(r) \/ LoadPanics(r)
    BY <2>2 DEF Plain, Generate, Join, Respond, Panic, JobPanics, LoadPanics, channelVars, streamVars
  <2> QED
    BY <1>3, <2>1, <2>2
<1>4. ASSUME NEW r \in Requests, Stream(r)
      PROVE  RoomInv'
  <2>1. CASE TurnAway(r) \/ Open(r) \/ BeginProbe(r) \/ Probe(r) \/ BeginLoad(r) \/ EndLoad(r) \/ LoadPoisoned(r)
    BY <2>1, <1>1 DEF TurnAway, Open, BeginProbe, Probe, BeginLoad, EndLoad, LoadPoisoned,
       channelVars, streamVars
  <2>2. CASE Announce(r) \/ Warm(r) \/ Welcome(r) \/ Mark(r)
    BY <2>2, <1>1, <1>2 DEF Announce, Warm, Welcome, Mark, Preamble, Lost, channelVars
  <2>3. CASE Watch(r) \/ Conclude(r)
    BY <2>3, <1>1 DEF Watch, Conclude, channelVars
  <2>4. CASE Summarize(r) \/ SayFinished(r) \/ Excuse(r) \/ Close(r)
    BY <2>4, <1>1, <1>2 DEF Summarize, SayFinished, Excuse, Close, Epilogue, Lost, channelVars
  <2> QED
    BY <1>4, <2>1, <2>2, <2>3, <2>4 DEF Stream
<1>5. ASSUME NEW r \in Requests, Job(r) \/ Generation(r) \/ Eviction(r)
      PROVE  RoomInv'
  <2>1. CASE Say(r) /\ UNCHANGED streamVars
    BY <2>1 DEF Say, streamVars
  <2>2. CASE (Finish(r) \/ Evict(r) \/ Resume(r) \/ JobStep(r)) /\ UNCHANGED streamVars
    BY <2>2, <1>1 DEF Finish, Evict, Resume, JobStep, Shed, Submit, AdmitLoads, ResumeLoads, Admit, Sweep,
       Lock, LockPoisoned, FinishLoad, streamVars
  <2> QED
    BY <1>5, <2>1, <2>2 DEF Job, Generation, Eviction
<1>6. ASSUME NEW r \in Requests, Write(r)
      PROVE  RoomInv'
  <2>1. /\ spoken' = spoken
        /\ unsent[r] > 0 /\ unsent' = [unsent EXCEPT ![r] = @ - 1]
        /\ Sends(r, "Text") \/ UNCHANGED pipe
    BY <1>6 DEF Write, Lost
  <2>2. \A q \in Requests : unsent'[q] <= spoken'[q]
    BY <2>1
  <2>3. \A q \in Requests : Len(pipe'[q]) <= PipeSize
    <3>1. CASE Sends(r, "Text")
      <4>1. Len(Append(pipe[r], "Text")) <= PipeSize
        BY <3>1, <1>2, AppendProperties, LenProperties DEF Sends
      <4> QED
        BY <3>1, <4>1 DEF Sends
    <3> QED
      BY <2>1, <3>1
  <2> QED
    BY <2>2, <2>3
<1>7. ASSUME NEW r \in Requests, Heartbeat(r)
      PROVE  RoomInv'
  BY <1>7, <1>1, <1>2 DEF Heartbeat, channelVars
<1>8. ASSUME NEW r \in Requests, Read(r) \/ Leave(r)
      PROVE  RoomInv'
  <2>1. UNCHANGED <<spoken, unsent>>
    BY <1>8 DEF Read, Leave, channelVars
  <2>2. \E rest \in Seq(PipeFrames) : Len(rest) <= PipeSize /\ pipe' = [pipe EXCEPT ![r] = rest]
    <3>1. CASE Read(r)
      <4>1. Tail(pipe[r]) \in Seq(PipeFrames) /\ Len(Tail(pipe[r])) = Len(pipe[r]) - 1
        BY <3>1, HeadTailProperties DEF Read
      <4>2. Len(Tail(pipe[r])) <= PipeSize
        BY <4>1, LenProperties
      <4> QED
        BY <3>1, <4>1, <4>2 DEF Read
    <3>2. CASE Leave(r)
      <4>1. <<>> \in Seq(PipeFrames) /\ Len(<<>>) <= PipeSize
        BY EmptySeq
      <4> QED
        BY <3>2, <4>1 DEF Leave
    <3> QED
      BY <1>8, <3>1, <3>2
  <2> QED
    BY <2>1, <2>2
<1>9. ASSUME NEW r \in Requests, SeeEnd(r)
      PROVE  RoomInv'
  BY <1>9, <1>1 DEF SeeEnd, channelVars
<1>10. CASE UNCHANGED vars
  BY <1>10 DEF vars, channelVars, streamVars
<1> QED
  BY <1>1, <1>3, <1>4, <1>5, <1>6, <1>7, <1>8, <1>9, <1>10 DEF Next

LEMMA LocksHold == Spec => [](ChatTypes /\ LockInv)
<1>1. Init => ChatTypes /\ LockInv
  BY TypesAtFirst, LocksAtFirst
<1>2. ChatTypes /\ LockInv /\ [Next]_vars => (ChatTypes /\ LockInv)'
  BY ChannelTypesStep, HandlerTypesStep, StreamTypesStep, StageStep, StoreStep, HolderStep, RoomStep
     DEF ChatTypes, LockInv
<1> QED
  BY <1>1, <1>2, PTL DEF Spec

(* The store's lock is with exactly the request that switches or lists,    *)
(* also after a panic under it, and a model's server is busy exactly for a *)
(* load or, under a mutex, a job.                                          *)
THEOREM LocksAlwaysHeld == Spec => []LocksHeld
<1>1. ChatTypes /\ LockInv => LocksHeld
  <2> SUFFICES ASSUME ChatTypes, LockInv PROVE LocksHeld
    OBVIOUS
  <2>1. \A r \in Requests : /\ unsent[r] \in 0 .. spoken[r]
                            /\ Len(pipe[r]) <= PipeSize
    BY DEF ChatTypes, ChannelTypes, LockInv, RoomInv
  <2> QED
    BY <2>1 DEF ChatTypes, ChannelTypes, HandlerTypes, StreamTypes, LockInv, StoreInv, HolderInv, LocksHeld
<1> QED
  BY <1>1, LocksHold, PTL

-------------------------------------------------------------------------------
(* A poisoned mutex stays poisoned, and a client that has gone stays away. *)
LEMMA GoneForGood ==
  ASSUME ChatTypes, [Next]_vars
  PROVE  /\ poisoned \subseteq poisoned'
         /\ \A q \in Requests : client[q] = "Gone" => client'[q] = "Gone"
<1> USE DEF ChatTypes, StreamTypes
<1>1. ASSUME NEW r \in Requests, Store(r)
      PROVE  UNCHANGED <<poisoned, client>>
  BY <1>1 DEF Store, NotFound, Resolve, BeginSwitch, Switch, SwitchPanics, BeginList, EndList, Ask,
     AskPanics, channelVars, streamVars
<1>2. ASSUME NEW r \in Requests, Plain(r)
      PROVE  UNCHANGED <<poisoned, client>>
  BY <1>2 DEF Plain, Generate, Respond, Join, streamVars, channelVars
<1>3. ASSUME NEW r \in Requests, Stream(r)
      PROVE  UNCHANGED <<poisoned, client>>
  <2>1. CASE TurnAway(r) \/ Open(r) \/ BeginProbe(r) \/ Probe(r) \/ BeginLoad(r) \/ EndLoad(r) \/ LoadPoisoned(r)
    BY <2>1 DEF TurnAway, Open, BeginProbe, Probe, BeginLoad, EndLoad, LoadPoisoned, channelVars, streamVars
  <2>2. CASE Announce(r) \/ Warm(r) \/ Welcome(r) \/ Mark(r)
    BY <2>2 DEF Announce, Warm, Welcome, Mark, Preamble, channelVars
  <2>3. CASE Watch(r) \/ Conclude(r) \/ Summarize(r) \/ SayFinished(r) \/ Excuse(r) \/ Close(r)
    BY <2>3 DEF Watch, Conclude, Summarize, SayFinished, Excuse, Close, Epilogue, channelVars
  <2> QED
    BY <1>3, <2>1, <2>2, <2>3 DEF Stream
<1>4. ASSUME NEW r \in Requests, Job(r) \/ Generation(r) \/ Eviction(r)
      PROVE  UNCHANGED <<poisoned, client>>
  BY <1>4 DEF Job, Generation, Eviction, Say, Finish, Evict, Resume, JobStep, Shed, Submit, AdmitLoads,
     ResumeLoads, Admit, Sweep, Lock,
     LockPoisoned, FinishLoad, streamVars
<1>5. ASSUME NEW r \in Requests, Panic(r) \/ LoadPanics(r)
      PROVE  poisoned \subseteq poisoned' /\ UNCHANGED client
  BY <1>5 DEF Panic, JobPanics, LoadPanics, Crash, Poisons, streamVars
<1>6. ASSUME NEW r \in Requests, Write(r) \/ Heartbeat(r) \/ Read(r)
      PROVE  UNCHANGED <<poisoned, client>>
  BY <1>6 DEF Write, Heartbeat, Read, channelVars
<1>7. ASSUME NEW r \in Requests, SeeEnd(r) \/ Leave(r)
      PROVE  UNCHANGED poisoned /\ client[r] = "Here" /\ \E new : client' = [client EXCEPT ![r] = new]
  BY <1>7 DEF SeeEnd, Leave, channelVars
<1>8. CASE UNCHANGED vars
  BY <1>8 DEF vars, channelVars, streamVars
<1> QED
  BY <1>1, <1>2, <1>3, <1>4, <1>5, <1>6, <1>7, <1>8 DEF Next

(* A handler is cut short because its client has gone, because a mutex is  *)
(* poisoned, or because the load it asked a batched model for has failed.  *)
LEMMA WhoAborts ==
  ASSUME ChatTypes, [Next]_vars, NEW q \in Requests, pc'[q] = "Aborted", pc[q] # "Aborted"
  PROVE  \/ client[q] = "Gone"
         \/ poisoned' # {}
         \/ q \in Streams /\ wanted[q] \in Batched \cap Fragile
<1> USE DEF ChatTypes, ChannelTypes, HandlerTypes, To, Answer, Abort, At
<1>0. poisoned \subseteq poisoned'
  BY GoneForGood
<1>1. ASSUME NEW r \in Requests, Store(r)
      PROVE  poisoned' # {}
  <2>1. poisoned # {}
    <3>1. CASE NotFound(r) \/ Resolve(r) \/ BeginSwitch(r) \/ BeginList(r) \/ EndList(r) \/ Switch(r)
      BY <3>1 DEF NotFound, Resolve, BeginSwitch, BeginList, EndList, Switch
    <3>2. CASE SwitchPanics(r) \/ \E m \in Models : Ask(r, m) \/ AskPanics(r, m)
      BY <3>2 DEF SwitchPanics, Ask, AskPanics
    <3> QED
      BY <1>1, <3>1, <3>2 DEF Store
  <2> QED
    BY <1>0, <2>1
<1>2. ASSUME NEW r \in Requests, Plain(r)
      PROVE  FALSE
  BY <1>2 DEF Plain, Generate, Respond, Join, handlerVars
<1>3. ASSUME NEW r \in Requests, Stream(r)
      PROVE  client[q] = "Gone" \/ poisoned' # {}
  <2>1. CASE TurnAway(r) \/ Open(r) \/ BeginProbe(r) \/ BeginLoad(r) \/ EndLoad(r)
    BY <2>1 DEF TurnAway, Open, BeginProbe, BeginLoad, EndLoad
  <2>2. CASE Probe(r) \/ LoadPoisoned(r)
    <3>1. poisoned # {}
      BY <2>2 DEF Probe, LoadPoisoned
    <3> QED
      BY <3>1, <1>0
  <2>3. CASE Announce(r) \/ Warm(r) \/ Welcome(r) \/ Mark(r)
    BY <2>3 DEF Announce, Warm, Welcome, Mark, Preamble, Lost
  <2>4. CASE Watch(r)
    BY <2>4 DEF Watch, handlerVars
  <2>5. CASE Conclude(r)
    BY <2>5 DEF Conclude
  <2>6. CASE Summarize(r) \/ SayFinished(r) \/ Excuse(r) \/ Close(r)
    BY <2>6 DEF Summarize, SayFinished, Excuse, Close, Epilogue
  <2> QED
    BY <1>3, <2>1, <2>2, <2>3, <2>4, <2>5, <2>6 DEF Stream
<1>4. ASSUME NEW r \in Requests, Job(r) \/ Generation(r) \/ Eviction(r)
      PROVE  FALSE
  BY <1>4 DEF Job, Generation, Eviction, handlerVars
<1>5. ASSUME NEW r \in Requests, Panic(r)
      PROVE  q \in Streams /\ wanted[q] \in Batched \cap Fragile
  <2>1. Crash(wanted[r]) /\ Strand(wanted[r], {})
    BY <1>5 DEF Panic, JobPanics
  <2>2. wanted[q] = wanted[r] /\ wanted[r] \in Batched /\ pc[q] = "Warmed"
    BY <2>1 DEF Strand
  <2> QED
    BY <2>1, <2>2 DEF Crash, StageInv, StageOK, Preambles
<1>6. ASSUME NEW r \in Requests, LoadPanics(r)
      PROVE  poisoned' # {} \/ (q \in Streams /\ wanted[q] \in Batched \cap Fragile)
  <2>1. pc[r] = "Loading" /\ Crash(wanted[r]) /\ Strand(wanted[r], {r})
    BY <1>6 DEF LoadPanics
  <2>2. CASE wanted[r] \notin Batched
    BY <2>1, <2>2 DEF Crash, Poisons
  <2>3. CASE wanted[r] \in Batched
    <3>1. wanted[q] = wanted[r] /\ pc[q] \in {"Warmed", "Loading"}
      BY <2>1 DEF Strand
    <3> QED
      BY <2>1, <2>3, <3>1 DEF Crash, StageInv, StageOK, Preambles
  <2> QED
    BY <2>2, <2>3
<1>7. ASSUME NEW r \in Requests, Write(r) \/ Heartbeat(r) \/ Read(r) \/ SeeEnd(r) \/ Leave(r)
      PROVE  FALSE
  BY <1>7 DEF Write, Heartbeat, Read, SeeEnd, Leave, handlerVars
<1>8. CASE UNCHANGED vars
  BY <1>8 DEF vars, handlerVars
<1> QED
  BY <1>1, <1>2, <1>3, <1>4, <1>5, <1>6, <1>7, <1>8 DEF Next

(* What a request asks for is settled before it is made.                   *)
LEMMA WantedStays ==
  ASSUME ChatTypes, [Next]_vars
  PROVE  UNCHANGED wanted
<1>1. ASSUME NEW r \in Requests, Store(r) \/ Plain(r)
      PROVE  UNCHANGED wanted
  BY <1>1 DEF Store, NotFound, Resolve, BeginSwitch, Switch, SwitchPanics, BeginList, EndList, Ask,
     AskPanics, Plain, Generate, Respond, Join, channelVars
<1>2. ASSUME NEW r \in Requests, Stream(r)
      PROVE  UNCHANGED wanted
  BY <1>2 DEF Stream, TurnAway, Open, BeginProbe, Probe, BeginLoad, EndLoad, LoadPoisoned, Announce, Warm,
     Welcome, Mark, Preamble, Watch, Conclude, Summarize, SayFinished, Excuse, Close, Epilogue, channelVars
<1>3. ASSUME NEW r \in Requests, Job(r) \/ Generation(r) \/ Eviction(r) \/ Panic(r) \/ LoadPanics(r)
      PROVE  UNCHANGED wanted
  BY <1>3 DEF Job, Generation, Eviction, Say, Finish, Evict, Resume, JobStep, Shed, Submit, AdmitLoads,
     ResumeLoads, Admit, Sweep, Lock,
     LockPoisoned, FinishLoad, Panic, JobPanics, LoadPanics
<1>4. ASSUME NEW r \in Requests, Write(r) \/ Heartbeat(r) \/ Read(r) \/ SeeEnd(r) \/ Leave(r)
      PROVE  UNCHANGED wanted
  BY <1>4 DEF Write, Heartbeat, Read, SeeEnd, Leave, channelVars
<1> QED
  BY <1>1, <1>2, <1>3, <1>4 DEF Next, vars, channelVars

(* A panic stays with the model it happened in, unless that model is       *)
(* served under a mutex.                                                   *)
THEOREM PanicsAlwaysContained == Spec => []PanicsContained
<1>1. Init => PanicsContained
  BY DEF Init, ServerInit, PanicsContained
<1>2. ChatTypes /\ PanicsContained /\ [Next]_vars => PanicsContained'
  <2> SUFFICES ASSUME ChatTypes, PanicsContained, [Next]_vars, (poisoned \ Batched = {})',
                      NEW q \in Requests, pc'[q] = "Aborted", client'[q] # "Gone"
               PROVE  q \in Streams /\ wanted'[q] \in Batched \cap Fragile
    BY DEF PanicsContained
  <2>1. poisoned' = {} /\ poisoned = {}
    BY ChannelTypesStep, GoneForGood DEF ChatTypes, ChannelTypes
  <2>2. client[q] # "Gone" /\ wanted' = wanted
    BY GoneForGood, WantedStays
  <2>3. CASE pc[q] = "Aborted"
    BY <2>1, <2>2, <2>3 DEF PanicsContained
  <2>4. CASE pc[q] # "Aborted"
    BY <2>1, <2>2, <2>4, WhoAborts
  <2> QED
    BY <2>3, <2>4
<1> QED
  BY <1>1, <1>2, LocksHold, PTL DEF Spec

-------------------------------------------------------------------------------
(* Every step leaves the weights of a running job in memory.               *)
LEMMA WeightsStep ==
  ASSUME ChatTypes, HolderInv, WeightsStay, [Next]_vars
  PROVE  WeightsStay'
<1> SUFFICES ASSUME NEW q \in Requests, job'[q] = "Running"
             PROVE  loaded'[wanted[q]]
  BY WantedStays DEF WeightsStay
<1> USE NobodyElse DEF ChatTypes, ChannelTypes
<1>a. job[q] = "Running" => loaded[wanted[q]] /\ wanted[q] \in Models
  BY DEF WeightsStay, StageInv, StageOK
<1>b. ASSUME UNCHANGED loaded, job'[q] = job[q]
      PROVE  loaded'[wanted[q]]
  BY <1>a, <1>b
<1>1. ASSUME NEW r \in Requests, Store(r)
      PROVE  loaded'[wanted[q]]
  <2>1. CASE NotFound(r) \/ Resolve(r) \/ BeginSwitch(r) \/ SwitchPanics(r)
    BY <2>1, <1>b DEF NotFound, Resolve, BeginSwitch, SwitchPanics, channelVars
  <2>2. CASE Switch(r)
    <3>1. Reachable(current) /\ loaded' = Unloaded(current) /\ job' = job
      BY <2>2 DEF Switch
    <3>2. CASE wanted[q] = current /\ current \in Batched
      <4>1. q \in Active(current)
        BY <3>1, <3>2 DEF Active, JobsThat, JobsOf
      <4> QED
        BY <3>1, <3>2, <4>1, <1>a DEF Unloaded, Busy
    <3>3. CASE wanted[q] = current /\ current \notin Batched
      <4>1. holder[current] = q
        BY <3>1, <3>3 DEF HolderInv
      <4> QED
        BY <3>1, <4>1 DEF Reachable
    <3>4. CASE wanted[q] # current
      BY <3>1, <3>4, <1>a DEF Unloaded
    <3> QED
      BY <3>2, <3>3, <3>4
  <2>3. CASE BeginList(r) \/ EndList(r) \/ \E m \in Models : Ask(r, m) \/ AskPanics(r, m)
    BY <2>3, <1>b DEF BeginList, EndList, Ask, AskPanics, channelVars
  <2> QED
    BY <1>1, <2>1, <2>2, <2>3 DEF Store
<1>2. ASSUME NEW r \in Requests, Plain(r)
      PROVE  loaded'[wanted[q]]
  <2>1. UNCHANGED loaded /\ job'[q] = job[q]
    BY <1>2 DEF Plain, Generate, Respond, Join, CallJob, channelVars
  <2> QED
    BY <2>1, <1>b
<1>3. ASSUME NEW r \in Requests, Stream(r)
      PROVE  loaded'[wanted[q]]
  <2>1. CASE TurnAway(r) \/ Open(r) \/ BeginProbe(r) \/ Probe(r) \/ BeginLoad(r) \/ LoadPoisoned(r)
    BY <2>1, <1>b DEF TurnAway, Open, BeginProbe, Probe, BeginLoad, LoadPoisoned, channelVars
  <2>2. CASE EndLoad(r)
    BY <2>2, <1>a DEF EndLoad
  <2>3. CASE Announce(r) \/ Warm(r) \/ Welcome(r)
    BY <2>3, <1>b DEF Announce, Warm, Welcome, Preamble, channelVars
  <2>4. CASE Mark(r)
    <3>1. UNCHANGED loaded /\ job'[q] = job[q]
      BY <2>4 DEF Mark, CallJob
    <3> QED
      BY <3>1, <1>b
  <2>5. CASE Watch(r) \/ Conclude(r) \/ Summarize(r) \/ SayFinished(r) \/ Excuse(r) \/ Close(r)
    BY <2>5, <1>b DEF Watch, Conclude, Summarize, SayFinished, Excuse, Close, Epilogue, channelVars
  <2> QED
    BY <1>3, <2>1, <2>2, <2>3, <2>4, <2>5 DEF Stream
<1>4. ASSUME NEW r \in Requests, JobStep(r)
      PROVE  loaded'[wanted[q]]
  <2>1. CASE Shed(r) \/ Submit(r) \/ AdmitLoads(r) \/ ResumeLoads(r) \/ Sweep(r) \/ LockPoisoned(r)
    <3>1. UNCHANGED loaded /\ job'[q] = job[q]
      BY <2>1 DEF Shed, Submit, AdmitLoads, ResumeLoads, Sweep, LockPoisoned
    <3> QED
      BY <3>1, <1>b
  <2>2. CASE Admit(r) \/ Lock(r)
    <3>1. UNCHANGED loaded /\ (job'[q] = job[q] \/ (q = r /\ loaded[wanted[r]]))
      BY <2>2 DEF Admit, Lock
    <3> QED
      BY <3>1, <1>b
  <2>3. CASE FinishLoad(r)
    <3>1. /\ loaded' = [loaded EXCEPT ![wanted[r]] = TRUE]
          /\ q = r \/ job'[q] = job[q]
      BY <2>3 DEF FinishLoad
    <3>2. wanted[q] \in Models
      BY <2>3, <3>1, <1>a DEF FinishLoad, StageInv, StageOK
    <3> QED
      BY <3>1, <3>2, <1>a
  <2> QED
    BY <1>4, <2>1, <2>2, <2>3 DEF JobStep
<1>5. ASSUME NEW r \in Requests, Say(r) \/ Finish(r) \/ Evict(r) \/ Resume(r)
      PROVE  loaded'[wanted[q]]
  <2>1. UNCHANGED loaded /\ (job'[q] = job[q] \/ (q = r /\ loaded[wanted[r]]))
    BY <1>5 DEF Say, Finish, Evict, Resume, StillLoaded
  <2> QED
    BY <2>1, <1>b
<1>6. ASSUME NEW m \in Models, Crash(m)
      PROVE  loaded'[wanted[q]]
  <2>1. job[q] = "Running" /\ wanted[q] # m
    BY <1>6, CrashEnds
  <2> QED
    BY <1>6, <1>a, <2>1 DEF Crash
<1>7. ASSUME NEW r \in Requests, Panic(r) \/ LoadPanics(r)
      PROVE  loaded'[wanted[q]]
  <2>1. wanted[r] \in Models /\ Crash(wanted[r])
    BY <1>7 DEF Panic, JobPanics, LoadPanics, StageInv, StageOK
  <2> QED
    BY <1>6, <2>1
<1>8. ASSUME NEW r \in Requests, Write(r) \/ Heartbeat(r) \/ Read(r) \/ SeeEnd(r) \/ Leave(r)
      PROVE  loaded'[wanted[q]]
  BY <1>8, <1>b DEF Write, Heartbeat, Read, SeeEnd, Leave, channelVars
<1>9. CASE UNCHANGED vars
  BY <1>9, <1>b DEF vars, channelVars
<1> QED
  BY <1>1, <1>2, <1>3, <1>4, <1>5, <1>7, <1>8, <1>9 DEF Next, Job, Generation, Eviction

(* A model switch, a load that fails and a panic never leave a job to be   *)
(* decoded without weights: those in the batch keep theirs, and one that   *)
(* was evicted while they were unloaded has them loaded before it goes on. *)
THEOREM WeightsAlwaysStay == Spec => []WeightsStay
<1>1. Init => WeightsStay
  BY DEF Init, ChannelInit, WeightsStay
<1>2. ChatTypes /\ LockInv /\ WeightsStay /\ [Next]_vars => WeightsStay'
  BY WeightsStep DEF LockInv
<1> QED
  BY <1>1, <1>2, LocksHold, PTL DEF Spec

-------------------------------------------------------------------------------
LEMMA RanksAre ==
  /\ Rank("Unloaded") = 1 /\ Rank("Loading") = 2 /\ Rank("Loaded") = 3
  /\ Rank("Marker") = 4 /\ Rank("Text") = 5 /\ Rank("Stats") = 6
  /\ Rank("Finish") = 7 /\ Rank("Error") = 8 /\ Rank("Done") = 9
<1>1. /\ DOMAIN Frames = 1 .. 9
      /\ Frames[1] = "Unloaded" /\ Frames[2] = "Loading" /\ Frames[3] = "Loaded"
      /\ Frames[4] = "Marker" /\ Frames[5] = "Text" /\ Frames[6] = "Stats"
      /\ Frames[7] = "Finish" /\ Frames[8] = "Error" /\ Frames[9] = "Done"
  BY DEF Frames
<1>2. ASSUME NEW k \in 1 .. 9, \A i \in 1 .. 9 : Frames[i] = Frames[k] => i = k
      PROVE  Rank(Frames[k]) = k
  BY <1>1, <1>2 DEF Rank
<1>3. \A i, k \in 1 .. 9 : Frames[i] = Frames[k] => i = k
  BY <1>1
<1>4. \A k \in 1 .. 9 : Rank(Frames[k]) = k
  BY <1>2, <1>3
<1> QED
  BY <1>1, <1>4

(* How often a frame occurs is a natural number, which goes up with it.    *)
LEMMA TimesGrow ==
  ASSUME NEW s \in Seq(PipeFrames), NEW f \in PipeFrames, NEW g
  PROVE  /\ Times(g, s) \in Nat
         /\ Times(g, s) > 0 <=> Has(g, s)
         /\ Times(g, Append(s, f)) = IF f = g THEN Times(g, s) + 1 ELSE Times(g, s)
         /\ Has(g, Append(s, f)) <=> Has(g, s) \/ f = g
<1> DEFINE At1 == {i \in DOMAIN s : s[i] = g}
           At2 == {i \in DOMAIN Append(s, f) : Append(s, f)[i] = g}
<1>1. /\ Len(s) \in Nat /\ DOMAIN s = 1 .. Len(s)
      /\ Append(s, f) \in Seq(PipeFrames) /\ Len(Append(s, f)) = Len(s) + 1
      /\ DOMAIN Append(s, f) = 1 .. Len(s) + 1
      /\ \A i \in 1 .. Len(s) : Append(s, f)[i] = s[i]
      /\ Append(s, f)[Len(s) + 1] = f
  BY AppendProperties, LenProperties
<1>2. IsFiniteSet(At1)
  <2>0. 1 \in Int /\ Len(s) \in Int
    BY <1>1
  <2>1. IsFiniteSet(1 .. Len(s))
    BY <2>0, FS_Interval, Zenon
  <2> QED
    BY <1>1, <2>1, FS_Subset
<1>3. Cardinality(At1) \in Nat /\ (Cardinality(At1) = 0 <=> At1 = {})
  BY <1>2, FS_CardinalityType, FS_EmptySet
<1>4. At1 # {} <=> Has(g, s)
  BY DEF Has
<1>t. Times(g, s) = Cardinality(At1) /\ Times(g, Append(s, f)) = Cardinality(At2)
  BY DEF Times
<1>5. CASE f = g
  <2>1. At2 = At1 \cup {Len(s) + 1} /\ Len(s) + 1 \notin At1
    BY <1>1, <1>5
  <2>2. Cardinality(At1 \cup {Len(s) + 1}) = Cardinality(At1) + 1
    BY <1>2, <2>1, FS_AddElement
  <2>3. Has(g, Append(s, f))
    BY <1>1, <1>5 DEF Has
  <2> QED
    <3> HIDE DEF At1, At2
    <3> QED
      BY <1>3, <1>4, <1>t, <1>5, <2>1, <2>2, <2>3
<1>6. CASE f # g
  <2>1. At2 = At1
    BY <1>1, <1>6
  <2>2. Has(g, Append(s, f)) <=> At2 # {}
    BY DEF Has
  <2> QED
    <3> HIDE DEF At1, At2
    <3> QED
      BY <1>3, <1>4, <1>t, <1>6, <2>1, <2>2
<1> QED
  BY <1>5, <1>6

(* A frame of a higher rank, more text, or a comment keeps a stream sorted. *)
LEMMA SortedGrows ==
  ASSUME NEW s \in Seq(PipeFrames), NEW f \in PipeFrames, NEW h \in Nat, NEW k \in Nat,
         Sorted(s), UpTo(h, s), h <= k,
         f \in FrameSet => Rank(f) <= k /\ (Rank(f) > h \/ (f = "Text" /\ h = 5))
  PROVE  Sorted(Append(s, f)) /\ UpTo(k, Append(s, f))
<1>1. /\ Len(s) \in Nat /\ DOMAIN s = 1 .. Len(s)
      /\ DOMAIN Append(s, f) = 1 .. Len(s) + 1
      /\ \A i \in 1 .. Len(s) : Append(s, f)[i] = s[i]
      /\ Append(s, f)[Len(s) + 1] = f
  BY AppendProperties, LenProperties
<1>2. /\ \A g \in FrameSet : Rank(g) \in Nat
      /\ \A g \in FrameSet : Rank(g) = 5 => g = "Text"
      /\ Rank("Text") = 5
  BY FramesAre, RanksAre
<1>3. UpTo(k, Append(s, f))
  BY <1>1, <1>2 DEF UpTo
<1>4. ASSUME NEW i \in 1 .. Len(s) + 1, NEW j \in 1 .. Len(s) + 1, i < j,
             {Append(s, f)[i], Append(s, f)[j]} \subseteq FrameSet
      PROVE  \/ Rank(Append(s, f)[i]) < Rank(Append(s, f)[j])
             \/ Append(s, f)[i] = "Text" /\ Append(s, f)[j] = "Text"
  <2>1. i \in 1 .. Len(s) /\ Append(s, f)[i] = s[i]
    BY <1>1, <1>4
  <2>2. CASE j \in 1 .. Len(s)
    BY <1>1, <1>4, <2>1, <2>2 DEF Sorted
  <2>3. CASE j = Len(s) + 1
    <3>1. Append(s, f)[j] = f /\ f \in FrameSet /\ s[i] \in FrameSet
      BY <1>1, <1>4, <2>1, <2>3
    <3>2. Rank(s[i]) <= h /\ Rank(s[i]) \in Nat
      BY <1>1, <1>2, <2>1, <3>1 DEF UpTo
    <3> QED
      BY <1>2, <2>1, <3>1, <3>2
  <2> QED
    BY <1>1, <2>2, <2>3
<1> QED
  BY <1>1, <1>3, <1>4 DEF Sorted

(* What a client that leaves has got is the front of what it was sent.     *)
LEMMA FrontOfSorted ==
  ASSUME NEW g \in Seq(PipeFrames), NEW p \in Seq(PipeFrames), Sorted(g \o p)
  PROVE  /\ Sorted(g)
         /\ \A h \in Nat : UpTo(h, g \o p) => UpTo(h, g)
         /\ \A f : Has(f, g) => Has(f, g \o p)
         /\ Has("Stats", g) => Times("Text", g) = Times("Text", g \o p)
         /\ Has("Loaded", g) /\ Has("Loading", g \o p) => Has("Loading", g)
<1> DEFINE s == g \o p
<1>1. /\ Len(g) \in Nat /\ DOMAIN g = 1 .. Len(g) /\ Len(p) \in Nat
      /\ DOMAIN s = 1 .. Len(g) + Len(p)
      /\ \A i \in 1 .. Len(g) : s[i] = g[i]
  BY ConcatProperties, LenProperties
<1> HIDE DEF s
<1>2. ASSUME NEW f \in FrameSet, NEW e \in FrameSet, Rank(f) < Rank(e), Has(e, g),
             NEW i \in DOMAIN s, s[i] = f
      PROVE  i \in DOMAIN g
  <2>1. PICK j \in DOMAIN g : g[j] = e
    BY <1>2 DEF Has
  <2>2. j \in DOMAIN s /\ s[j] = e
    BY <1>1, <2>1
  <2>3. Rank(f) \in Nat /\ Rank(e) \in Nat
    BY FramesAre, RanksAre
  <2>4. ~ (j < i)
    BY <1>2, <2>2, <2>3 DEF Sorted, s
  <2> QED
    BY <1>1, <1>2, <2>1, <2>4
<1>3. Has("Stats", g) => {i \in DOMAIN g : g[i] = "Text"} = {i \in DOMAIN s : s[i] = "Text"}
  <2>1. Has("Stats", g) => \A i \in DOMAIN s : s[i] = "Text" => i \in DOMAIN g
    BY <1>2, FramesAre, RanksAre
  <2> QED
    BY <1>1, <2>1
<1>4. Has("Loaded", g) /\ Has("Loading", s) => Has("Loading", g)
  <2>1. Has("Loaded", g) => \A i \in DOMAIN s : s[i] = "Loading" => i \in DOMAIN g
    BY <1>2, FramesAre, RanksAre
  <2> QED
    BY <1>1, <2>1 DEF Has
<1>5. Sorted(g)
  BY <1>1 DEF Sorted, s
<1>6. \A h \in Nat : UpTo(h, s) => UpTo(h, g)
  BY <1>1 DEF UpTo
<1>7. \A f : Has(f, g) => Has(f, s)
  BY <1>1 DEF Has
<1> QED
  BY <1>3, <1>4, <1>5, <1>6, <1>7 DEF s, Times

-------------------------------------------------------------------------------
LEMMA HeightsAre ==
  ASSUME NEW place \in Places
  PROVE  /\ Highest(place) \in 0 .. 9
         /\ place \in {"Opened", "Probing", "Warming"} => Highest(place) = 1
         /\ place \in {"Warmed", "Loading", "Loaded"} => Highest(place) = 2
         /\ place \in {"Marking", "Aborted"} => Highest(place) = 3
         /\ place \in {"Generating", "Summing", "Excusing"} => Highest(place) = 5
         /\ place = "Finishing" => Highest(place) = 6
         /\ place = "Closing" => Highest(place) = 8
         /\ place = "Closed" => Highest(place) = 9
         /\ place \in {"Start", "Switching", "Asking", "Acquired", "Answered", "Announcing"} => Highest(place) = 0
  BY DEF Highest, Places, Early, Preambles, Epilogues

(* Each frame of the task is beyond the place it is sent from, and not     *)
(* beyond the next one.                                                    *)
LEMMA FramesClimb ==
  ASSUME NEW here, NEW f, NEW next,
         \/ here = "Announcing" /\ f = "Unloaded" /\ next = "Opened"
         \/ here = "Warming" /\ f = "Loading" /\ next = "Warmed"
         \/ here = "Loaded" /\ f = "Loaded" /\ next = "Marking"
         \/ here = "Marking" /\ f = "Marker" /\ next = "Generating"
         \/ here = "Summing" /\ f = "Stats" /\ next = "Finishing"
         \/ here = "Finishing" /\ f = "Finish" /\ next = "Closing"
         \/ here = "Excusing" /\ f = "Error" /\ next = "Closing"
         \/ here = "Closing" /\ f = "Done" /\ next = "Closed"
  PROVE  Highest(here) < Rank(f) /\ Rank(f) <= Highest(next)
<1>1. /\ Highest("Announcing") = 0 /\ Highest("Opened") = 1 /\ Highest("Warming") = 1
      /\ Highest("Warmed") = 2 /\ Highest("Loaded") = 2 /\ Highest("Marking") = 3
      /\ Highest("Generating") = 5 /\ Highest("Summing") = 5 /\ Highest("Excusing") = 5
      /\ Highest("Finishing") = 6 /\ Highest("Closing") = 8 /\ Highest("Closed") = 9
  BY HeightsAre DEF Places, Early, Preambles, Epilogues
<1> QED
  BY <1>1, RanksAre

(* A frame beyond the height of a stream has not been sent.                *)
LEMMA NotBeyond ==
  ASSUME NEW s, NEW h \in Nat, UpTo(h, s), NEW f \in FrameSet, Rank(f) > h
  PROVE  ~ Has(f, s)
<1>1. Rank(f) \in Nat
  BY FramesAre, RanksAre
<1> QED
  BY <1>1 DEF UpTo, Has

(* The task goes on without sending, or is cut short.                      *)
LEMMA Proceeds ==
  ASSUME NEW s \in Seq(PipeFrames), NEW at, NEW p \in Places, NEW q \in Places, NEW j, NEW res,
         NEW said \in Nat, NEW left \in Nat,
         InStep(s, at, p, j, res, said, left),
         Highest(p) <= Highest(q), at # "Ended",
         at # "Gone" /\ q \in {"Warmed", "Loading", "Loaded"} => p \in {"Warmed", "Loading", "Loaded"},
         q = "Excusing" => res = "Overloaded",
         q \in {"Summing", "Finishing"} => res = "Done",
         q = "Closed" => at = "Gone"
  PROVE  InStep(s, at, q, j, res, said, left)
<1>1. UpTo(Highest(q), s)
  <2>1. \A f \in FrameSet : Rank(f) \in Nat
    BY FramesAre, RanksAre
  <2>2. Highest(p) \in Nat /\ Highest(q) \in Nat
    BY HeightsAre
  <2> QED
    BY <2>1, <2>2 DEF InStep, UpTo
<1> QED
  BY <1>1 DEF InStep

(* The task sends a frame of its own and goes on.                          *)
LEMMA SendsFrame ==
  ASSUME NEW s \in Seq(PipeFrames), NEW at, NEW p \in Places, NEW q \in Places, NEW j, NEW res,
         NEW said \in Nat, NEW left \in Nat, NEW f \in FrameSet \ {"Text"},
         InStep(s, at, p, j, res, said, left), at \notin {"Gone", "Ended"},
         Highest(p) < Rank(f), Rank(f) <= Highest(q),
         f = "Stats" => j = "Joined",
         f = "Loaded" => p = "Loaded",
         f = "Error" => res = "Overloaded",
         f = "Finish" \/ q \in {"Summing", "Finishing"} => res = "Done",
         q = "Excusing" => res = "Overloaded",
         q \in {"Warmed", "Loading", "Loaded"} => f = "Loading",
         q = "Closed" => f = "Done"
  PROVE  InStep(Append(s, f), at, q, j, res, said, left)
<1>1. /\ f \in PipeFrames /\ Rank(f) \in Nat /\ Highest(p) \in Nat /\ Highest(q) \in Nat
  BY FramesAre, RanksAre, HeightsAre DEF PipeFrames
<1>2. Sorted(Append(s, f)) /\ UpTo(Highest(q), Append(s, f))
  BY <1>1, SortedGrows DEF InStep
<1>3. /\ \A g : Has(g, Append(s, f)) <=> Has(g, s) \/ f = g
      /\ Times("Text", s) \in Nat /\ Times("Text", Append(s, f)) = Times("Text", s)
  BY <1>1, TimesGrow
<1>4. Append(s, f) # <<>> /\ Append(s, f)[Len(Append(s, f))] = f
  BY <1>1, AppendProperties
<1>5. f = "Stats" => Times("Text", s) = said
  BY <1>3 DEF InStep
<1> QED
  BY <1>2, <1>3, <1>4, <1>5 DEF InStep

(* A comment may come while the model is loaded and while it generates.    *)
LEMMA SendsComment ==
  ASSUME NEW s \in Seq(PipeFrames), NEW at, NEW p \in {"Warmed", "Loading", "Generating"}, NEW j, NEW res,
         NEW said \in Nat, NEW left \in Nat,
         InStep(s, at, p, j, res, said, left)
  PROVE  InStep(Append(s, "Comment"), at, p, j, res, said, left)
<1>1. "Comment" \in PipeFrames /\ "Comment" \notin FrameSet /\ Highest(p) \in Nat
  BY FramesAre, HeightsAre DEF PipeFrames, Places, Early, Preambles
<1>2. Sorted(Append(s, "Comment")) /\ UpTo(Highest(p), Append(s, "Comment"))
  BY <1>1, SortedGrows DEF InStep
<1>3. /\ \A g : Has(g, Append(s, "Comment")) <=> Has(g, s) \/ g = "Comment"
      /\ Times("Text", Append(s, "Comment")) = Times("Text", s)
  BY <1>1, TimesGrow
<1> QED
  BY <1>2, <1>3 DEF InStep

(* The listener sends text, or loses it.                                   *)
LEMMA SendsText ==
  ASSUME NEW s \in Seq(PipeFrames), NEW at, NEW j, NEW res, NEW said \in Nat, NEW left \in Nat,
         InStep(s, at, "Generating", j, res, said, left),
         at # "Ended", j # "Joined", left > 0
  PROVE  /\ at # "Gone" => InStep(Append(s, "Text"), at, "Generating", j, res, said, left - 1)
         /\ at = "Gone" => InStep(s, at, "Generating", j, res, said, left - 1)
<1>1. "Text" \in PipeFrames /\ Rank("Text") = 5 /\ Highest("Generating") = 5
  BY FramesAre, RanksAre, HeightsAre DEF PipeFrames, Places
<1>2. Sorted(Append(s, "Text")) /\ UpTo(5, Append(s, "Text"))
  BY <1>1, SortedGrows DEF InStep
<1>3. /\ \A g : Has(g, Append(s, "Text")) <=> Has(g, s) \/ g = "Text"
      /\ Times("Text", s) \in Nat /\ Times("Text", Append(s, "Text")) = Times("Text", s) + 1
  BY <1>1, TimesGrow
<1> QED
  BY <1>1, <1>2, <1>3 DEF InStep

(* While the handler waits for it, the job goes on, speaks and ends.       *)
LEMMA JobGoesOn ==
  ASSUME NEW s, NEW at, NEW j, NEW k, NEW res, NEW new, NEW said \in Nat, NEW left \in Nat,
         InStep(s, at, "Generating", j, res, said, left),
         j # "Joined", k = "Joined" => left = 0, k # "None"
  PROVE  InStep(s, at, "Generating", k, new, said, left)
<1>1. Highest("Generating") = 5 /\ UpTo(5, s)
  BY HeightsAre DEF InStep, Places
<1>2. ~ Has("Error", s) /\ ~ Has("Finish", s)
  BY <1>1, NotBeyond, FramesAre, RanksAre
<1> QED
  BY <1>2 DEF InStep

LEMMA JobSpeaks ==
  ASSUME NEW s \in Seq(PipeFrames), NEW at, NEW res, NEW said \in Nat, NEW left \in Nat,
         InStep(s, at, "Generating", "Running", res, said, left)
  PROVE  InStep(s, at, "Generating", "Running", res, said + 1, left + 1)
<1>1. Times("Text", s) \in Nat
  BY TimesGrow, FramesAre DEF PipeFrames
<1> QED
  BY <1>1 DEF InStep

(* The client leaves: what it had not read is lost.                        *)
LEMMA ClientLeaves ==
  ASSUME NEW g \in Seq(PipeFrames), NEW p \in Seq(PipeFrames), NEW at, NEW place \in Places, NEW j, NEW res,
         NEW said \in Nat, NEW left \in Nat,
         InStep(g \o p, at, place, j, res, said, left)
  PROVE  InStep(g, "Gone", place, j, res, said, left)
<1>1. Highest(place) \in Nat
  BY HeightsAre
<1>2. Sorted(g) /\ UpTo(Highest(place), g)
  BY <1>1, FrontOfSorted DEF InStep
<1>3. /\ \A f : Has(f, g) => Has(f, g \o p)
      /\ Has("Stats", g) => Times("Text", g) = Times("Text", g \o p)
      /\ Has("Loaded", g) /\ Has("Loading", g \o p) => Has("Loading", g)
  BY FrontOfSorted DEF InStep
<1> QED
  BY <1>2, <1>3 DEF InStep

-------------------------------------------------------------------------------
(* What the invariant of a stream reads.                                   *)
Kept(q) ==
  UNCHANGED <<got[q], pipe[q], client[q], pc[q], job[q], result[q], spoken[q], unsent[q]>>

(* Only a panic of a model's server reaches another request's stream.      *)
LEMMA OthersKept ==
  ASSUME ChatTypes, NEW r \in Requests, NEW q \in Requests, q # r,
         \/ Store(r) \/ Plain(r) \/ Stream(r) \/ Job(r) \/ Generation(r) \/ Eviction(r)
         \/ Write(r) \/ Heartbeat(r) \/ Read(r) \/ SeeEnd(r) \/ Leave(r)
  PROVE  Kept(q)
<1> USE DEF ChatTypes, ChannelTypes, HandlerTypes, StreamTypes, Kept, To, Answer, Abort, Sends, Lost
<1>1. CASE Store(r)
  <2>1. CASE NotFound(r) \/ Resolve(r) \/ BeginSwitch(r) \/ Switch(r) \/ SwitchPanics(r)
    BY <2>1 DEF NotFound, Resolve, BeginSwitch, Switch, SwitchPanics, channelVars, streamVars
  <2>2. CASE BeginList(r) \/ EndList(r) \/ \E m \in Models : Ask(r, m) \/ AskPanics(r, m)
    BY <2>2 DEF BeginList, EndList, Ask, AskPanics, channelVars, streamVars
  <2> QED
    BY <1>1, <2>1, <2>2 DEF Store
<1>2. CASE Plain(r)
  BY <1>2 DEF Plain, Generate, Respond, Join, CallJob, streamVars, channelVars, handlerVars
<1>3. CASE Stream(r)
  <2>1. CASE TurnAway(r) \/ Open(r) \/ BeginProbe(r) \/ Probe(r)
    BY <2>1 DEF TurnAway, Open, BeginProbe, Probe, channelVars, streamVars
  <2>2. CASE BeginLoad(r) \/ EndLoad(r) \/ LoadPoisoned(r)
    BY <2>2 DEF BeginLoad, EndLoad, LoadPoisoned, channelVars, streamVars
  <2>3. CASE Announce(r) \/ Warm(r) \/ Welcome(r)
    BY <2>3 DEF Announce, Warm, Welcome, Preamble, channelVars
  <2>4. CASE Mark(r)
    BY <2>4 DEF Mark, CallJob
  <2>5. CASE Watch(r) \/ Conclude(r)
    BY <2>5 DEF Watch, Conclude, handlerVars, channelVars
  <2>6. CASE Summarize(r) \/ SayFinished(r) \/ Excuse(r) \/ Close(r)
    BY <2>6 DEF Summarize, SayFinished, Excuse, Close, Epilogue, channelVars
  <2> QED
    BY <1>3, <2>1, <2>2, <2>3, <2>4, <2>5, <2>6 DEF Stream
<1>4. CASE Job(r)
  <2>1. JobStep(r) /\ UNCHANGED <<handlerVars, streamVars>>
    BY <1>4 DEF Job
  <2>2. CASE Shed(r) \/ Submit(r) \/ AdmitLoads(r) \/ Admit(r) \/ Sweep(r)
    BY <2>1, <2>2 DEF Shed, Submit, AdmitLoads, Admit, Sweep, handlerVars, streamVars
  <2>3. CASE Lock(r) \/ LockPoisoned(r) \/ FinishLoad(r) \/ ResumeLoads(r)
    BY <2>1, <2>3 DEF Lock, LockPoisoned, FinishLoad, ResumeLoads, handlerVars, streamVars
  <2> QED
    BY <2>1, <2>2, <2>3 DEF JobStep
<1>5. CASE Generation(r) \/ Eviction(r)
  BY <1>5 DEF Generation, Eviction, Say, Finish, Evict, Resume, handlerVars, streamVars
<1>6. CASE Write(r) \/ Heartbeat(r) \/ Read(r)
  BY <1>6 DEF Write, Heartbeat, Read, handlerVars, channelVars
<1>7. CASE SeeEnd(r) \/ Leave(r)
  <2>1. /\ UNCHANGED <<channelVars, handlerVars, got>>
        /\ pipe'[q] = pipe[q]
        /\ \E new : client' = [client EXCEPT ![r] = new]
    <3>1. CASE SeeEnd(r)
      BY <3>1 DEF SeeEnd
    <3>2. CASE Leave(r)
      <4>1. ASSUME NEW none, pipe' = [pipe EXCEPT ![r] = none]
            PROVE  pipe'[q] = pipe[q]
        BY <4>1
      <4>2. pipe'[q] = pipe[q]
        BY <3>2, <4>1 DEF Leave
      <4> QED
        BY <3>2, <4>2, Zenon DEF Leave
    <3> QED
      BY <1>7, <3>1, <3>2
  <2> QED
    BY <2>1 DEF channelVars, handlerVars
<1> QED
  BY <1>1, <1>2, <1>3, <1>4, <1>5, <1>6, <1>7

(* What a job has returned is settled.                                     *)
LEMMA ResultStays ==
  ASSUME ChatTypes, HolderInv, [Next]_vars, NEW q \in Requests, job[q] \in {"Over", "Joined"}
  PROVE  result'[q] = result[q]
<1> USE DEF ChatTypes, ChannelTypes
<1>1. ASSUME NEW r \in Requests, Store(r) \/ Plain(r)
      PROVE  UNCHANGED result
  BY <1>1 DEF Store, NotFound, Resolve, BeginSwitch, Switch, SwitchPanics, BeginList, EndList, Ask,
     AskPanics, Plain, Generate, Respond, Join, channelVars
<1>2. ASSUME NEW r \in Requests, Stream(r)
      PROVE  UNCHANGED result
  BY <1>2 DEF Stream, TurnAway, Open, BeginProbe, Probe, BeginLoad, EndLoad, LoadPoisoned, Announce, Warm,
     Welcome, Mark, Preamble, Watch, Conclude, Summarize, SayFinished, Excuse, Close, Epilogue, channelVars
<1>3. ASSUME NEW r \in Requests, Job(r) \/ Generation(r) \/ Eviction(r)
      PROVE  result'[q] = result[q]
  BY <1>3 DEF Job, Generation, Eviction, Say, Finish, Evict, Resume, JobStep, Shed, Submit, AdmitLoads,
     ResumeLoads, Admit, Sweep, Swept, Lock,
     LockPoisoned, FinishLoad
<1>4. ASSUME NEW r \in Requests, Panic(r) \/ LoadPanics(r)
      PROVE  result'[q] = result[q]
  <2>1. wanted[r] \in Models /\ Crash(wanted[r])
    BY <1>4 DEF Panic, JobPanics, LoadPanics, StageInv, StageOK
  <2> QED
    BY <2>1, CrashEnds
<1>5. ASSUME NEW r \in Requests, Write(r) \/ Heartbeat(r) \/ Read(r) \/ SeeEnd(r) \/ Leave(r)
      PROVE  UNCHANGED result
  BY <1>5 DEF Write, Heartbeat, Read, SeeEnd, Leave, channelVars
<1> QED
  BY <1>1, <1>2, <1>3, <1>4, <1>5 DEF Next, vars, channelVars

LEMMA KeptOK ==
  ASSUME NEW q \in Requests, StreamOK(q), Kept(q)
  PROVE  StreamOK(q)'
<1>1. Sent(q)' = Sent(q)
  BY DEF Kept, Sent
<1> QED
  BY <1>1 DEF Kept, StreamOK

(* Moving the head of one sequence to the end of another.                  *)
LEMMA ReadsNext ==
  ASSUME NEW S, NEW a \in Seq(S), NEW b \in Seq(S), b # <<>>
  PROVE  Append(a, Head(b)) \o Tail(b) = a \o b
<1>1. /\ Head(b) \in S /\ Tail(b) \in Seq(S) /\ <<Head(b)>> \in Seq(S)
      /\ b = <<Head(b)>> \o Tail(b)
  BY HeadTailProperties
<1>2. Append(a, Head(b)) = a \o <<Head(b)>>
  BY <1>1, AppendIsConcat
<1>3. PICK h \in Seq(S), t \in Seq(S) : h = <<Head(b)>> /\ t = Tail(b)
  BY <1>1
<1>4. (a \o h) \o t = a \o (h \o t)
  BY ConcatAssociative
<1> QED
  BY <1>1, <1>2, <1>3, <1>4, Zenon

(* What is sent comes last, and what is read has been sent before.         *)
LEMMA SentGrows ==
  ASSUME ChatTypes, NEW r \in Requests
  PROVE  /\ Sent(r) \in Seq(PipeFrames)
         /\ \A f \in PipeFrames : Sends(r, f) /\ UNCHANGED got =>
              Sent(r)' = Append(Sent(r), f) /\ client[r] # "Gone"
         /\ Read(r) => Sent(r)' = Sent(r)
<1> USE DEF ChatTypes, StreamTypes
<1>1. Sent(r) \in Seq(PipeFrames)
  BY ConcatProperties DEF Sent
<1>2. ASSUME NEW f \in PipeFrames, Sends(r, f), UNCHANGED got
      PROVE  Sent(r)' = Append(Sent(r), f) /\ client[r] # "Gone"
  <2>1. pipe'[r] = Append(pipe[r], f)
    BY <1>2 DEF Sends
  <2>2. got[r] \o Append(pipe[r], f) = Append(got[r] \o pipe[r], f)
    BY ConcatAssociative, AppendIsConcat, ConcatProperties
  <2> QED
    BY <1>2, <2>1, <2>2 DEF Sends, Sent
<1>3. ASSUME Read(r)
      PROVE  Sent(r)' = Sent(r)
  <2>1. /\ pipe[r] # <<>> /\ pipe'[r] = Tail(pipe[r])
        /\ got'[r] = Append(got[r], Head(pipe[r]))
    BY <1>3 DEF Read
  <2>2. Append(got[r], Head(pipe[r])) \o Tail(pipe[r]) = got[r] \o pipe[r]
    BY <2>1, ReadsNext
  <2> QED
    BY <2>1, <2>2 DEF Sent
<1> QED
  BY <1>1, <1>2, <1>3

(* Every step keeps a stream in step with its task and its job.            *)
LEMMA StreamStep ==
  ASSUME ChatTypes, LockInv, StreamInv, [Next]_vars, NEW q \in Streams, result'[q] # "Panicked"
  PROVE  StreamOK(q)'
<1>h. HolderInv /\ unsent[q] <= spoken[q]
  BY NobodyElse DEF LockInv, RoomInv
<1>a. q \in Requests /\ pc[q] \in Places /\ pc'[q] \in Places
  BY NobodyElse, HandlerTypesStep DEF ChatTypes, HandlerTypes
<1>b. StageOK(q) /\ StageOK(q)'
  BY <1>a, <1>h, StageStep DEF ChatTypes, StageInv
<1>c. result[q] # "Panicked"
  BY <1>a, <1>b, <1>h, ResultStays DEF StageOK
<1>d. /\ StreamOK(q)
      /\ client[q] = "Ended" => pc[q] \in {"Closed", "Aborted"}
  BY <1>c DEF StreamInv, StreamOK, InStep
<1>e. /\ Sent(q) \in Seq(PipeFrames) /\ spoken[q] \in Nat /\ unsent[q] \in Nat
      /\ client[q] \in {"Here", "Gone", "Ended"}
  BY <1>a, SentGrows, NobodyElse DEF ChatTypes, ChannelTypes, StreamTypes
<1> DEFINE Rest == UNCHANGED <<client[q], result[q], spoken[q], unsent[q]>>
           Silent == UNCHANGED <<got[q], pipe[q]>>
<1>s. Silent => Sent(q)' = Sent(q)
  BY DEF Sent
(* The task's moves, the frames it sends, the listener's text, the job.    *)
<1>1. ASSUME Rest, Silent, job'[q] = job[q],
             \/ /\ pc[q] \in {"Start", "Switching", "Asking", "Acquired", "Announcing"}
                /\ pc'[q] \in {"Switching", "Asking", "Acquired", "Answered", "Announcing", "Opened", "Aborted"}
             \/ pc[q] \in {"Opened", "Probing"} /\ pc'[q] \in {"Probing", "Marking", "Warming", "Aborted"}
             \/ pc[q] \in {"Warmed", "Loading"} /\ pc'[q] \in {"Loading", "Loaded", "Aborted"}
             \/ pc[q] \in {"Warming", "Loaded", "Marking"} /\ pc'[q] = "Aborted"
             \/ pc[q] = "Generating" /\ pc'[q] \in {"Summing", "Excusing", "Closing"}
             \/ client[q] = "Gone" /\ pc[q] \in {"Summing", "Finishing", "Excusing"} /\ pc'[q] \in {"Closing", "Closed"}
             \/ client[q] = "Gone" /\ pc[q] = "Closing" /\ pc'[q] = "Closed",
             pc'[q] = "Excusing" => result[q] = "Overloaded",
             pc'[q] = "Summing" => result[q] = "Done"
      PROVE  StreamOK(q)'
  <2>1. Highest(pc[q]) <= Highest(pc'[q])
    <3> HIDE DEF Rest, Silent
    <3> QED
      BY <1>1, <1>a, HeightsAre
  <2>2. InStep(Sent(q), client[q], pc'[q], job[q], result[q], spoken[q], unsent[q])
    BY <1>1, <1>a, <1>d, <1>e, <2>1, Proceeds DEF StreamOK
  <2> QED
    BY <1>1, <1>s, <2>2 DEF StreamOK
<1>2. ASSUME Rest, UNCHANGED got, NEW f \in FrameSet \ {"Text"}, Sends(q, f), client[q] # "Ended",
             Highest(pc[q]) < Rank(f), Rank(f) <= Highest(pc'[q]),
             f = "Stats" => job[q] = "Joined",
             f = "Loaded" => pc[q] = "Loaded",
             f = "Error" => result[q] = "Overloaded",
             f = "Finish" \/ pc'[q] \in {"Summing", "Finishing"} => result[q] = "Done",
             pc'[q] = "Excusing" => result[q] = "Overloaded",
             pc'[q] \in {"Warmed", "Loading", "Loaded"} => f = "Loading",
             pc'[q] = "Closed" => f = "Done"
      PROVE  InStep(Sent(q)', client'[q], pc'[q], job[q], result'[q], spoken'[q], unsent'[q])
  <2>1. Sent(q)' = Append(Sent(q), f) /\ client[q] # "Gone"
    BY <1>2, <1>a, SentGrows DEF PipeFrames
  <2>2. InStep(Append(Sent(q), f), client[q], pc'[q], job[q], result[q], spoken[q], unsent[q])
    BY <1>2, <1>a, <1>d, <1>e, <2>1, SendsFrame DEF StreamOK
  <2> QED
    BY <1>2, <2>1, <2>2
<1>3. ASSUME UNCHANGED <<client[q], pc[q], spoken[q], unsent[q]>>, Silent, pc[q] = "Generating",
             job[q] # "Joined", job'[q] = "Joined" => unsent[q] = 0
      PROVE  StreamOK(q)'
  <2>1. job'[q] # "None"
    BY <1>3, <1>b DEF StageOK
  <2>2. InStep(Sent(q), client[q], "Generating", job'[q], result'[q], spoken[q], unsent[q])
    BY <1>3, <1>d, <1>e, <2>1, JobGoesOn DEF StreamOK
  <2> QED
    BY <1>3, <1>s, <2>2 DEF StreamOK
<1> HIDE DEF Rest, Silent
<1>k. ASSUME Kept(q) PROVE StreamOK(q)'
  BY <1>a, <1>d, <1>k, KeptOK
<1>x. ASSUME NEW m \in Models, NEW s \in SUBSET Requests, Crash(m), Strand(m, s),
             \A r \in s : pc[r] = "Loading", UNCHANGED <<client, spoken, unsent, pipe, got>>
      PROVE  StreamOK(q)'
  <2>0. Silent /\ UNCHANGED <<client[q], spoken[q], unsent[q]>>
    BY <1>x DEF Silent
  <2>1. \/ pc'[q] = pc[q]
        \/ pc'[q] = "Aborted" /\ pc[q] \in {"Warmed", "Loading"}
    BY <1>x, <1>a DEF Strand, ChatTypes, HandlerTypes
  <2>2. CASE job'[q] = job[q] /\ result'[q] = result[q]
    <3>1. CASE pc'[q] = pc[q]
      BY <2>0, <2>2, <3>1, <1>k DEF Kept, Silent
    <3>2. CASE pc'[q] = "Aborted" /\ pc[q] \in {"Warmed", "Loading"}
      BY <2>0, <2>2, <3>2, <1>1 DEF Rest
    <3> QED
      BY <2>1, <3>1, <3>2
  <2>3. CASE job[q] \in {"Queued", "Loading", "Running", "Evicted", "Resuming"} /\ job'[q] = "Over"
    <3>1. pc[q] = "Generating"
      BY <2>3, <1>a, <1>b DEF StageOK, Places
    <3> QED
      BY <2>0, <2>1, <2>3, <3>1, <1>3
  <2> QED
    BY <1>x, <1>a, <1>h, <2>2, <2>3, CrashEnds
<1>4. ASSUME NEW r \in Requests, Panic(r) \/ LoadPanics(r)
      PROVE  StreamOK(q)'
  <2>1. CASE Panic(r)
    <3>1. /\ Crash(wanted[r]) /\ Strand(wanted[r], {})
          /\ UNCHANGED <<client, spoken, unsent, pipe, got>>
      BY <2>1 DEF Panic, JobPanics, streamVars
    <3>2. wanted[r] \in Models
      BY <2>1 DEF Panic, JobPanics, ChatTypes, StageInv, StageOK
    <3> QED
      BY <3>1, <3>2, <1>x
  <2>2. CASE LoadPanics(r)
    <3>1. /\ Crash(wanted[r]) /\ Strand(wanted[r], {r}) /\ pc[r] = "Loading"
          /\ UNCHANGED <<client, spoken, unsent, pipe, got>>
      BY <2>2 DEF LoadPanics, streamVars
    <3>2. wanted[r] \in Models
      BY <3>1 DEF ChatTypes, StageInv, StageOK
    <3> QED
      BY <3>1, <3>2, <1>x
  <2> QED
    BY <1>4, <2>1, <2>2
<1>5. ASSUME NEW r \in Requests, r # q,
             \/ Store(r) \/ Plain(r) \/ Stream(r) \/ Job(r) \/ Generation(r) \/ Eviction(r)
             \/ Write(r) \/ Heartbeat(r) \/ Read(r) \/ SeeEnd(r) \/ Leave(r)
      PROVE  StreamOK(q)'
  BY <1>5, <1>a, <1>k, OthersKept
<1> USE <1>a DEF ChatTypes, ChannelTypes, HandlerTypes, StreamTypes, To, Answer, Abort, At
<1>6. CASE Store(q)
  <2>1. CASE NotFound(q) \/ Resolve(q) \/ BeginSwitch(q)
    BY <2>1, <1>1 DEF NotFound, Resolve, BeginSwitch, Rest, Silent, channelVars, streamVars
  <2>2. CASE Switch(q) \/ SwitchPanics(q)
    BY <2>2, <1>1 DEF Switch, SwitchPanics, Rest, Silent, channelVars, streamVars
  <2>3. CASE BeginList(q) \/ EndList(q)
    BY <2>3, <1>1 DEF BeginList, EndList, Rest, Silent, channelVars, streamVars
  <2>4. ASSUME NEW m \in Models, Ask(q, m)
        PROVE  StreamOK(q)'
    BY <2>4, <1>k DEF Ask, Kept, channelVars, streamVars
  <2>5. ASSUME NEW m \in Models, AskPanics(q, m)
        PROVE  StreamOK(q)'
    BY <2>5, <1>1 DEF AskPanics, Rest, Silent, channelVars, streamVars
  <2> QED
    BY <1>6, <2>1, <2>2, <2>3, <2>4, <2>5 DEF Store
<1>7. CASE Plain(q)
  <2>1. CASE Join(q)
    <3>1. /\ UNCHANGED <<client[q], pc[q], spoken[q], unsent[q]>> /\ Silent
          /\ job[q] = "Over" /\ job'[q] = "Joined" /\ unsent[q] = 0
      BY <2>1, <1>c DEF Join, Drained, Silent, handlerVars, streamVars
    <3>2. pc[q] = "Generating"
      BY <3>1, <1>b DEF StageOK, Places
    <3> QED
      BY <3>1, <3>2, <1>3
  <2> QED
    BY <1>7, <2>1 DEF Plain, Generate, Respond
<1>8. CASE Generation(q) \/ Eviction(q)
  <2>1. CASE Say(q) /\ UNCHANGED <<handlerVars, streamVars>>
    <3>1. pc[q] = "Generating" /\ job[q] = "Running"
      BY <2>1, <1>b DEF Say, StageOK, Places
    <3>2. /\ UNCHANGED <<client[q], pc[q], job[q], result[q]>> /\ Silent
          /\ spoken'[q] = spoken[q] + 1 /\ unsent'[q] = unsent[q] + 1
      BY <2>1 DEF Say, Silent, handlerVars, streamVars
    <3>3. InStep(Sent(q), client[q], "Generating", "Running", result[q], spoken[q] + 1, unsent[q] + 1)
      BY <3>1, <1>d, <1>e, JobSpeaks DEF StreamOK
    <3> QED
      BY <3>1, <3>2, <3>3, <1>s DEF StreamOK
  <2>2. CASE Finish(q) /\ UNCHANGED <<handlerVars, streamVars>>
    <3>1. /\ UNCHANGED <<client[q], pc[q], spoken[q], unsent[q]>> /\ Silent
          /\ job[q] = "Running" /\ job'[q] = "Over"
      BY <2>2 DEF Finish, Silent, handlerVars, streamVars
    <3>2. pc[q] = "Generating"
      BY <3>1, <1>b DEF StageOK, Places
    <3> QED
      BY <3>1, <3>2, <1>3
  <2>3. CASE (Evict(q) \/ Resume(q)) /\ UNCHANGED <<handlerVars, streamVars>>
    <3>1. /\ UNCHANGED <<client[q], pc[q], spoken[q], unsent[q]>> /\ Silent
          /\ job[q] \in {"Running", "Evicted"} /\ job'[q] \in {"Running", "Evicted"}
      BY <2>3 DEF Evict, Resume, Silent, handlerVars, streamVars
    <3>2. pc[q] = "Generating"
      BY <3>1, <1>b DEF StageOK, Places
    <3> QED
      BY <3>1, <3>2, <1>3
  <2> QED
    BY <1>8, <2>1, <2>2, <2>3 DEF Generation, Eviction
<1>9. CASE Job(q)
  <2>1. /\ JobStep(q)
        /\ UNCHANGED <<handlerVars, streamVars>>
    BY <1>9 DEF Job
  <2>2. /\ UNCHANGED <<spoken, unsent>>
        /\ job[q] \in {"Called", "Queued", "Loading", "Running", "Evicted", "Resuming"} /\ job'[q] # "Joined"
    BY <2>1 DEF JobStep, Shed, Submit, HasTurn, AdmitLoads, ResumeLoads, Admit, Sweep,
       Swept, Lock, LockPoisoned, FinishLoad
  <2>3. pc[q] = "Generating"
    BY <2>2, <1>b DEF StageOK, Places
  <2> QED
    BY <2>1, <2>2, <2>3, <1>3 DEF Silent, handlerVars, streamVars
<1>f. FrameSet \ {"Text"} = {"Unloaded", "Loading", "Loaded", "Marker", "Stats", "Finish", "Error", "Done"}
  BY FramesAre
<1>10. CASE Announce(q) \/ Warm(q) \/ Welcome(q)
  <2>1. ASSUME NEW here, NEW f \in FrameSet \ {"Text"}, NEW next, Preamble(q, here, f, next),
               \/ here = "Announcing" /\ f = "Unloaded" /\ next = "Opened"
               \/ here = "Warming" /\ f = "Loading" /\ next = "Warmed"
               \/ here = "Loaded" /\ f = "Loaded" /\ next = "Marking"
        PROVE  StreamOK(q)'
    <3>0. UNCHANGED <<channelVars, got, client>> /\ pc[q] = here
      BY <2>1 DEF Preamble
    <3>1. CASE Lost(q) /\ Abort(q)
      BY <2>1, <3>0, <3>1, <1>1 DEF Lost, Rest, Silent, channelVars
    <3>2. CASE Sends(q, f) /\ To(q, next)
      <4>1. Rest /\ job'[q] = job[q] /\ pc'[q] = next
        BY <3>0, <3>2 DEF Rest, channelVars
      <4>2. Highest(pc[q]) < Rank(f) /\ Rank(f) <= Highest(pc'[q])
        BY <2>1, <3>0, <4>1, FramesClimb
      <4> QED
        BY <2>1, <3>0, <3>2, <4>1, <4>2, <1>2, <1>d DEF StreamOK
    <3> QED
      BY <2>1, <3>1, <3>2 DEF Preamble
  <2> QED
    BY <1>10, <2>1, <1>f DEF Announce, Warm, Welcome
<1>11. CASE TurnAway(q) \/ Open(q)
  BY <1>11, <1>1 DEF TurnAway, Open, Rest, Silent, channelVars, streamVars
<1>12. CASE BeginProbe(q) \/ Probe(q) \/ BeginLoad(q) \/ EndLoad(q) \/ LoadPoisoned(q)
  BY <1>12, <1>1 DEF BeginProbe, Probe, BeginLoad, EndLoad, LoadPoisoned, Rest, Silent, channelVars, streamVars
<1>13. CASE Mark(q)
  <2>0. /\ UNCHANGED <<result, spoken, unsent, got, client>>
        /\ pc[q] = "Marking" /\ job[q] = "None"
    BY <1>13, <1>b DEF Mark, StageOK, Early, Preambles
  <2>1. CASE Lost(q) /\ Abort(q) /\ UNCHANGED <<job, watcher>>
    BY <2>0, <2>1, <1>1 DEF Lost, Rest, Silent
  <2>2. CASE Sends(q, "Marker") /\ To(q, "Generating") /\ CallJob(q)
    <3>1. Rest /\ pc'[q] = "Generating" /\ job'[q] = "Called"
      BY <2>0, <2>2 DEF Rest, CallJob
    <3>2. Highest(pc[q]) < Rank("Marker") /\ Rank("Marker") <= Highest(pc'[q])
      BY <2>0, <3>1, FramesClimb
    <3>3. InStep(Sent(q)', client'[q], "Generating", "None", result'[q], spoken'[q], unsent'[q])
      BY <2>0, <2>2, <3>1, <3>2, <1>2, <1>d, <1>f
    <3>4. InStep(Sent(q)', client'[q], "Generating", "Called", result'[q], spoken'[q], unsent'[q])
      <4>1. spoken'[q] \in Nat /\ unsent'[q] \in Nat
        BY <1>e, <2>0
      <4> QED
        BY <3>3, <4>1, JobGoesOn
    <3> QED
      BY <3>1, <3>4 DEF StreamOK
  <2> QED
    BY <1>13, <2>1, <2>2 DEF Mark
<1>14. CASE Conclude(q)
  BY <1>14, <1>1 DEF Conclude, Rest, Silent, channelVars
<1>15. CASE Summarize(q) \/ SayFinished(q) \/ Excuse(q) \/ Close(q)
  <2>1. ASSUME NEW here, NEW f \in FrameSet \ {"Text"}, NEW next, NEW otherwise,
               Epilogue(q, here, f, next, otherwise),
               \/ here = "Summing" /\ f = "Stats" /\ next = "Finishing" /\ otherwise = "Closed"
               \/ here = "Finishing" /\ f = "Finish" /\ next = "Closing" /\ otherwise = "Closed"
               \/ here = "Excusing" /\ f = "Error" /\ next = "Closing" /\ otherwise = "Closing"
               \/ here = "Closing" /\ f = "Done" /\ next = "Closed" /\ otherwise = "Closed"
        PROVE  StreamOK(q)'
    <3>0. /\ UNCHANGED <<channelVars, got, client>> /\ pc[q] = here /\ job[q] = "Joined"
          /\ here \in {"Summing", "Finishing"} => result[q] = "Done"
          /\ here = "Excusing" => result[q] = "Overloaded"
      BY <2>1, <1>b, <1>d DEF Epilogue, StageOK, Epilogues, StreamOK, InStep
    <3>1. CASE Lost(q) /\ To(q, otherwise)
      BY <2>1, <3>0, <3>1, <1>1 DEF Lost, Rest, Silent, channelVars
    <3>2. CASE Sends(q, f) /\ To(q, next)
      <4>1. Rest /\ job'[q] = job[q] /\ pc'[q] = next
        BY <3>0, <3>2 DEF Rest, channelVars
      <4>2. Highest(pc[q]) < Rank(f) /\ Rank(f) <= Highest(pc'[q])
        BY <2>1, <3>0, <4>1, FramesClimb
      <4>3. InStep(Sent(q)', client'[q], pc'[q], job[q], result'[q], spoken'[q], unsent'[q])
        BY <2>1, <3>0, <3>2, <4>1, <4>2, <1>2, <1>d
      <4> QED
        BY <4>1, <4>3 DEF StreamOK
    <3> QED
      BY <2>1, <3>1, <3>2 DEF Epilogue
  <2> QED
    BY <1>15, <2>1, <1>f DEF Summarize, SayFinished, Excuse, Close
<1>16. CASE Watch(q)
  BY <1>16, <1>k DEF Watch, Kept, handlerVars
<1>17. CASE Write(q)
  <2>0. /\ unsent[q] > 0 /\ unsent'[q] = unsent[q] - 1
        /\ UNCHANGED <<pc, job, result, spoken, got, client>>
        /\ Sends(q, "Text") \/ Lost(q)
    BY <1>17 DEF Write, handlerVars
  <2>1. job[q] \notin {"None", "Joined"}
    <3>1. job[q] # "Joined"
      BY <2>0, <1>d DEF StreamOK, InStep
    <3>2. job[q] # "None"
      BY <2>0, <1>d, <1>e, <1>h DEF StreamOK, InStep
    <3> QED
      BY <3>1, <3>2
  <2>2. pc[q] = "Generating" /\ client[q] # "Ended"
    BY <2>1, <1>b, <1>d DEF StageOK, Places
  <2>3. /\ client[q] # "Gone" =>
             InStep(Append(Sent(q), "Text"), client[q], "Generating", job[q], result[q], spoken[q], unsent[q] - 1)
        /\ client[q] = "Gone" =>
             InStep(Sent(q), client[q], "Generating", job[q], result[q], spoken[q], unsent[q] - 1)
    BY <2>0, <2>1, <2>2, <1>d, <1>e, SendsText DEF StreamOK
  <2>4. CASE Sends(q, "Text")
    <3>1. Sent(q)' = Append(Sent(q), "Text") /\ client[q] # "Gone"
      BY <2>0, <2>4, SentGrows, FramesAre DEF PipeFrames
    <3> QED
      BY <2>0, <2>2, <2>3, <3>1 DEF StreamOK
  <2>5. CASE Lost(q)
    <3>1. Sent(q)' = Sent(q) /\ client[q] = "Gone"
      BY <2>0, <2>5 DEF Lost, Sent
    <3> QED
      BY <2>0, <2>2, <2>3, <3>1 DEF StreamOK
  <2> QED
    BY <2>0, <2>4, <2>5
<1>18. CASE Heartbeat(q)
  <2>1. /\ UNCHANGED <<client[q], pc[q], job[q], result[q], spoken[q], unsent[q]>>
        /\ UNCHANGED got /\ Sends(q, "Comment") /\ pc[q] \in {"Warmed", "Loading", "Generating"}
    BY <1>18 DEF Heartbeat, channelVars, handlerVars
  <2>2. Sent(q)' = Append(Sent(q), "Comment")
    BY <2>1, SentGrows DEF PipeFrames
  <2>3. InStep(Append(Sent(q), "Comment"), client[q], pc[q], job[q], result[q], spoken[q], unsent[q])
    BY <2>1, <1>d, <1>e, SendsComment DEF StreamOK
  <2> QED
    BY <2>1, <2>2, <2>3 DEF StreamOK
<1>19. CASE Read(q)
  <2>1. UNCHANGED <<client[q], pc[q], job[q], result[q], spoken[q], unsent[q]>>
    BY <1>19 DEF Read, channelVars, handlerVars
  <2>2. Sent(q)' = Sent(q)
    BY <1>19, SentGrows
  <2> QED
    BY <2>1, <2>2, <1>d DEF StreamOK
<1>20. CASE Leave(q)
  <2>1. /\ UNCHANGED <<pc[q], job[q], result[q], spoken[q], unsent[q], got[q]>>
        /\ client'[q] = "Gone"
    <3>1. UNCHANGED <<channelVars, handlerVars, got>> /\ client' = [client EXCEPT ![q] = "Gone"]
      BY <1>20, Zenon DEF Leave
    <3> QED
      BY <3>1 DEF channelVars, handlerVars
  <2>2. got[q] \in Seq(PipeFrames) /\ pipe[q] \in Seq(PipeFrames)
    OBVIOUS
  <2>3. Sent(q)' = got[q]
    <3>1. ASSUME NEW none, pipe' = [pipe EXCEPT ![q] = none]
          PROVE  pipe'[q] = none
      BY <3>1
    <3>2. pipe'[q] = <<>>
      BY <1>20, <3>1 DEF Leave
    <3>3. got[q] \o <<>> = got[q]
      BY <2>2, ConcatEmptySeq
    <3> QED
      BY <2>1, <3>2, <3>3 DEF Sent
  <2>4. InStep(got[q], "Gone", pc[q], job[q], result[q], spoken[q], unsent[q])
    BY <2>2, <1>d, <1>e, ClientLeaves DEF StreamOK, Sent
  <2> QED
    BY <2>1, <2>3, <2>4 DEF StreamOK
<1>21. CASE SeeEnd(q)
  <2>1. /\ UNCHANGED <<channelVars, handlerVars, pipe, got>>
        /\ client[q] = "Here" /\ client' = [client EXCEPT ![q] = "Ended"]
        /\ Senders(q) = {}
    BY <1>21 DEF SeeEnd
  <2>2. pc[q] \in {"Closed", "Aborted"}
    BY <2>1 DEF Senders
  <2>3. Sent(q)' = Sent(q) /\ client'[q] = "Ended"
    BY <2>1 DEF Sent
  <2> QED
    BY <2>1, <2>2, <2>3, <1>d DEF StreamOK, InStep, channelVars, handlerVars
<1>22. CASE UNCHANGED vars
  BY <1>22, <1>k DEF vars, channelVars, handlerVars, streamVars, Kept
<1>23. ASSUME NEW r \in Requests,
              \/ Store(r) \/ Plain(r) \/ Stream(r) \/ Job(r) \/ Generation(r) \/ Eviction(r) \/ Panic(r) \/ LoadPanics(r)
              \/ Write(r) \/ Heartbeat(r) \/ Read(r) \/ SeeEnd(r) \/ Leave(r)
       PROVE  StreamOK(q)'
  <2>1. Stream(q) => StreamOK(q)'
    BY <1>10, <1>11, <1>12, <1>13, <1>14, <1>15, <1>16 DEF Stream
  <2> QED
    BY <1>4, <1>5, <1>6, <1>7, <1>8, <1>9, <1>17, <1>18, <1>19, <1>20, <1>21, <1>23, <2>1
<1> QED
  BY <1>22, <1>23 DEF Next

LEMMA StreamsHold == Spec => []StreamInv
<1>1. Init => StreamInv
  <2> SUFFICES ASSUME Init, NEW q \in Streams PROVE StreamOK(q)
    BY DEF StreamInv
  <2>1. q \in Requests
    BY NobodyElse
  <2>2. /\ pc[q] = "Start" /\ job[q] = "None" /\ result[q] = "None" /\ client[q] = "Here"
        /\ spoken[q] = 0 /\ unsent[q] = 0
    BY <2>1 DEF Init, ChannelInit, ServerInit
  <2>3. Sent(q) = <<>>
    BY <2>1, ConcatEmptySeq, EmptySeq DEF Init, ServerInit, Sent
  <2>4. DOMAIN Sent(q) = {}
    BY <2>3
  <2>5. Times("Text", Sent(q)) = 0
    BY <2>4, FS_EmptySet DEF Times
  <2> QED
    BY <2>2, <2>4, <2>5 DEF StreamOK, InStep, Sorted, UpTo, Has
<1>2. ChatTypes /\ LockInv /\ StreamInv /\ [Next]_vars => StreamInv'
  BY StreamStep DEF StreamInv
<1> QED
  BY <1>1, <1>2, LocksHold, PTL DEF Spec

(* The frames of a stream come in order, whatever the client, the listener *)
(* thread and the task do first; the statistics follow all of the text,    *)
(* and a stream that ends ends with done.                                  *)
THEOREM StreamsAlwaysWellFormed == Spec => []SseWellFormed
<1>1. ChatTypes /\ StreamInv => SseWellFormed
  <2> SUFFICES ASSUME ChatTypes, StreamInv, NEW r \in Streams, result[r] # "Panicked"
               PROVE  /\ Sorted(Sent(r))
                      /\ Times("Stats", Sent(r)) > 0 => Times("Text", Sent(r)) = spoken[r]
                      /\ Times("Loaded", Sent(r)) > 0 => Times("Loading", Sent(r)) > 0
                      /\ Times("Error", Sent(r)) > 0 => result[r] = "Overloaded"
                      /\ Times("Finish", Sent(r)) > 0 => result[r] = "Done"
                      /\ client[r] = "Ended" => pc[r] = "Aborted" \/ Sent(r)[Len(Sent(r))] = "Done"
    BY DEF SseWellFormed, Sorted
  <2>1. Sent(r) \in Seq(PipeFrames) /\ "Comment" \in PipeFrames
    BY NobodyElse, SentGrows DEF PipeFrames
  <2>2. \A f : Times(f, Sent(r)) > 0 <=> Has(f, Sent(r))
    BY <2>1, TimesGrow
  <2> QED
    BY <2>2 DEF StreamInv, StreamOK, InStep
<1> QED
  BY <1>1, LocksHold, StreamsHold, PTL
=============================================================================
