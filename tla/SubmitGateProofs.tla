---------------------------- MODULE SubmitGateProofs ----------------------------
(***************************************************************************)
(* At most one worker of a channel runs, no caller is handed a finished    *)
(* one, and the permit counter is exact and the queue bounded, for any     *)
(* callers, queue bound and number of deaths.                              *)
(***************************************************************************)
EXTENDS SubmitGate, FiniteSetTheorems, TLAPS

(* The types the argument needs: who the mutex and the callers may name.   *)
GateType ==
  /\ inner \in Workers \cup {0}
  /\ to \in [Callers -> Workers \cup {0}]
  /\ thread \in [Workers -> {"Unborn", "Up", "Panicked", "Closed", "Finished"}]

(* A running worker is the one in the mutex: the slot is refilled only     *)
(* once the thread in it has finished, and emptied only then.              *)
RunningIsInner == Running \subseteq {inner}

GateInv == GateType /\ RunningIsInner

(* Nothing runs before the first call.                                     *)
LEMMA GateInit == Init => GateInv
BY DEF Init, GateInv, GateType, RunningIsInner, Running

(* A finished worker stays finished, an unborn one unborn: a turn of a     *)
(* worker, its end and every step of a call but sender() start nothing.    *)
LEMMA NothingStarts ==
  ASSUME GateInv,
         UNCHANGED <<inner, to>>,
         thread' \in [Workers -> {"Unborn", "Up", "Panicked", "Closed", "Finished"}],
         Running' \subseteq Running
  PROVE  GateInv'
BY DEF GateInv, GateType, RunningIsInner

(* A vacant slot: no worker runs.                                          *)
LEMMA VacantMeansNone ==
  ASSUME GateInv, Vacant
  PROVE  Running = {}
<1>1. 0 \notin Workers
  BY GateAssumption DEF Workers
<1>2. inner \notin Running
  BY <1>1 DEF Vacant, Gone, Running
<1> QED
  BY <1>2 DEF GateInv, RunningIsInner

(* sender() replaces only a finished worker.                               *)
LEMMA ConnectKeepsOne ==
  ASSUME GateInv, NEW c \in Callers,
         ConnectExisting(c) \/ ConnectSpawns(c) \/ ConnectFails(c)
  PROVE  GateInv' /\ (to'[c] # to[c] => thread'[to'[c]] # "Finished")
<1>1. CASE ConnectExisting(c)
  <2>1. UNCHANGED <<inner, thread>> /\ inner \in Workers /\ ~Gone(inner)
    BY <1>1 DEF ConnectExisting, Vacant, workerVars, GateInv, GateType
  <2>2. to' = [to EXCEPT ![c] = inner]
    BY <1>1 DEF ConnectExisting
  <2> QED
    BY <2>1, <2>2 DEF GateInv, GateType, RunningIsInner, Running, Gone
<1>2. CASE ConnectSpawns(c)
  <2>1. PICK w \in Unborn : inner' = w /\ thread' = [thread EXCEPT ![w] = "Up"]
                            /\ to' = [to EXCEPT ![c] = w]
    BY <1>2 DEF ConnectSpawns
  <2>2. Vacant
    BY <1>2 DEF ConnectSpawns
  <2>3. w \in Workers /\ to'[c] = w /\ thread'[w] = "Up"
    BY <2>1 DEF Unborn, GateInv, GateType
  <2>4. GateType'
    BY <2>1, <2>3 DEF GateInv, GateType
  <2>5. Running = {}
    BY <2>2, VacantMeansNone
  <2>6. Running' \subseteq {w}
    BY <2>1, <2>3, <2>5 DEF Running, GateInv, GateType
  <2> QED
    BY <2>1, <2>3, <2>4, <2>6 DEF GateInv, RunningIsInner
<1>3. CASE ConnectFails(c)
  <2>1. Vacant /\ inner' = 0 /\ UNCHANGED <<to, thread>>
    BY <1>3 DEF ConnectFails, workerVars
  <2>2. Running = {} /\ Running' = {}
    BY <2>1, VacantMeansNone DEF Running
  <2> QED
    BY <2>1, <2>2 DEF GateInv, GateType, RunningIsInner
<1> QED
  BY <1>1, <1>2, <1>3

(* Every step keeps the invariant, and only sender() gives out a worker.   *)
LEMMA GateStep ==
  ASSUME GateInv, [Next]_vars
  PROVE  GateInv' /\ \A c \in Callers : to'[c] # to[c] => thread'[to'[c]] # "Finished"
<1>1. CASE UNCHANGED vars
  BY <1>1 DEF vars, workerVars, GateInv, GateType, RunningIsInner, Running
<1>2. ASSUME NEW c \in Callers, Call(c)
      PROVE  GateInv' /\ \A d \in Callers : to'[d] # to[d] => thread'[to'[d]] # "Finished"
  <2>1. CASE ConnectExisting(c) \/ ConnectSpawns(c) \/ ConnectFails(c)
    <3>1. \A d \in Callers \ {c} : to'[d] = to[d]
      BY <2>1 DEF ConnectExisting, ConnectSpawns, ConnectFails, GateInv, GateType
    <3> QED
      BY <2>1, <3>1, ConnectKeepsOne
  <2>2. CASE Count(c) \/ Shed(c) \/ Ask(c) \/ Send(c) \/ SendFails(c)
    <3>1. UNCHANGED <<inner, to, thread>>
      BY <2>2 DEF Count, Shed, Ask, Send, SendFails, workerVars
    <3>2. Running' = Running
      BY <3>1 DEF Running
    <3> QED
      BY <3>1, <3>2, NothingStarts DEF GateInv, GateType
  <2> QED
    BY <1>2, <2>1, <2>2 DEF Call
<1>3. ASSUME NEW w \in Workers, Turn(w) \/ Panic(w) \/ Ending(w)
      PROVE  GateInv' /\ \A d \in Callers : to'[d] # to[d] => thread'[to'[d]] # "Finished"
  <2>1. UNCHANGED <<inner, to>>
    BY <1>3 DEF Turn, Receive, AdmitJob, RejectJob, Dequeue, Retire, Panic, Ending, Close,
                EndThread, AnswerOrphan
  <2>2. CASE Turn(w) \/ AnswerOrphan(w)
    <3>1. thread' = thread
      BY <2>2 DEF Turn, Receive, AdmitJob, RejectJob, Dequeue, Retire, AnswerOrphan
    <3>2. Running' = Running
      BY <3>1 DEF Running
    <3> QED
      BY <2>1, <3>1, <3>2, NothingStarts DEF GateInv, GateType
  <2>3. CASE Panic(w) \/ Close(w) \/ EndThread(w)
    <3>1. /\ thread[w] \in {"Up", "Panicked", "Closed"}
          /\ \E s \in {"Panicked", "Closed", "Finished"} : thread' = [thread EXCEPT ![w] = s]
      BY <2>3 DEF Panic, Close, EndThread
    <3>2. Running' \subseteq Running
      BY <3>1 DEF Running, GateInv, GateType
    <3> QED
      BY <2>1, <3>1, <3>2, NothingStarts DEF GateInv, GateType
  <2> QED
    BY <1>3, <2>2, <2>3 DEF Ending
<1> QED
  BY <1>1, <1>2, <1>3 DEF Next

-------------------------------------------------------------------------------
(* The invariant holds forever.                                            *)
THEOREM GateInvariance == Spec => []GateInv
<1>1. GateInv /\ [Next]_vars => GateInv'
  BY GateStep
<1> QED
  BY GateInit, <1>1, PTL DEF Spec

(* Two workers never run at once (BatchingChannel::sender holds the mutex  *)
(* over is_finished, join and spawn).                                      *)
THEOREM AtMostOneWorker == Spec => []OneWorkerRuns
<1>1. GateInv => OneWorkerRuns
  <2> SUFFICES ASSUME GateInv PROVE Cardinality(Running) <= 1
    BY DEF OneWorkerRuns
  <2>1. IsFiniteSet({inner}) /\ Cardinality({inner}) = 1
    BY FS_Singleton
  <2>2. Running \in SUBSET {inner}
    BY DEF GateInv, RunningIsInner
  <2>3. Cardinality(Running) <= Cardinality({inner})
    BY <2>1, <2>2, FS_Subset
  <2> QED
    BY <2>1, <2>3
<1> QED
  BY GateInvariance, <1>1, PTL

(* A caller is never handed a finished worker, after any number of panics. *)
THEOREM ChannelNeverBricked == Spec => NeverBricked
<1>1. GateInv /\ [Next]_vars =>
        [\A c \in Callers : to'[c] # to[c] => thread'[to'[c]] # "Finished"]_vars
  BY GateStep
<1> QED
  BY GateInvariance, <1>1, PTL DEF Spec, NeverBricked

-------------------------------------------------------------------------------
(* The permits. A submitter that holds one is inside its call or its job   *)
(* waits at the worker it was sent to, in one place and once: then the     *)
(* counter is the size of the set of holders, and every step drops from    *)
(* that set exactly the calls whose permits it gives back.                 *)

Once(s) == \A i, j \in 1 .. Len(s) : s[i] = s[j] => i = j

(* The types of the parts that GateType leaves out.                        *)
LineType ==
  /\ pc \in [Callers -> {"Start", "Shedding", "Counted", "Connected", "Waiting", "Returned"}]
  /\ channel \in [Workers -> Seq(Callers)]
  /\ queue \in [Workers -> Seq(Callers)]
  /\ active \in [Workers -> SUBSET Callers]

(* Whoever is at a worker waits there, and only there.                     *)
AtWorker ==
  \A w \in Workers : \A c \in Buffered(w) \cup active[w] : pc[c] = "Waiting" /\ to[c] = w

(* In the channel, in the queue or admitted, never in two of them.         *)
OnePlace ==
  \A w \in Workers :
    /\ Range(channel[w]) \cap Range(queue[w]) = {}
    /\ Buffered(w) \cap active[w] = {}
    /\ Once(channel[w]) /\ Once(queue[w])

(* Only a submitter is shed, and who is connected has a sender.            *)
InCall ==
  \A c \in Callers :
    /\ pc[c] = "Shedding" => c \in Submitters
    /\ pc[c] = "Connected" => to[c] \in Workers

LineInv == LineType /\ AtWorker /\ OnePlace /\ InCall

(* The submitters that hold a permit, and those of them the gate let in.   *)
Holders == Inside \cup QueuedJobs
LetIn == {c \in Holders : pc[c] # "Shedding"}

PermitInv ==
  /\ pending = Cardinality(Holders)
  /\ Cardinality(LetIn) <= MaxQueueDepth

(* What a step that gives back the permits of the calls cs does.           *)
GivesBack(cs) ==
  /\ cs \cap Submitters \subseteq Holders
  /\ pending' = pending - Permits(cs)
  /\ Holders' = Holders \ cs
  /\ LetIn' \subseteq LetIn

-------------------------------------------------------------------------------
(* Sequences: what joining and leaving a line does to who is in it.        *)

LEMMA JoinLine ==
  ASSUME NEW S, NEW s \in Seq(S), NEW c \in S, c \notin Range(s), Once(s)
  PROVE  /\ Append(s, c) \in Seq(S)
         /\ Range(Append(s, c)) = Range(s) \cup {c}
         /\ Once(Append(s, c))
<1> DEFINE t == Append(s, c)
<1>1. /\ t \in Seq(S) /\ Len(t) = Len(s) + 1 /\ Len(s) \in Nat
      /\ \A i \in 1 .. Len(s) : t[i] = s[i]
      /\ t[Len(s) + 1] = c
      /\ DOMAIN t = 1 .. Len(s) + 1 /\ DOMAIN s = 1 .. Len(s)
  OBVIOUS
<1> HIDE DEF t
<1>2. Range(t) = Range(s) \cup {c}
  <2>1. ASSUME NEW i \in 1 .. Len(s) + 1
        PROVE  t[i] \in Range(s) \cup {c}
    <3>1. CASE i \in 1 .. Len(s)
      BY <1>1, <3>1 DEF Range
    <3>2. CASE i = Len(s) + 1
      BY <1>1, <3>2
    <3> QED
      BY <1>1, <3>1, <3>2
  <2>2. \A i \in 1 .. Len(s) : i \in 1 .. Len(s) + 1 /\ t[i] = s[i]
    BY <1>1
  <2>3. Len(s) + 1 \in 1 .. Len(s) + 1
    BY <1>1
  <2> QED
    BY <1>1, <2>1, <2>2, <2>3 DEF Range
<1>3. Once(t)
  <2>1. SUFFICES ASSUME NEW i \in 1 .. Len(s) + 1, NEW j \in 1 .. Len(s) + 1, t[i] = t[j]
                 PROVE  i = j
    BY <1>1 DEF Once
  <2>2. \A k \in 1 .. Len(s) : s[k] # c
    BY <1>1 DEF Range
  <2> QED
    BY <1>1, <2>1, <2>2 DEF Once
<1> QED
  BY <1>1, <1>2, <1>3 DEF t

LEMMA LeaveLine ==
  ASSUME NEW S, NEW s \in Seq(S), s # <<>>, Once(s)
  PROVE  /\ Head(s) \in Range(s) /\ Head(s) \in S
         /\ Tail(s) \in Seq(S)
         /\ Range(Tail(s)) = Range(s) \ {Head(s)}
         /\ Once(Tail(s))
<1> DEFINE t == Tail(s)
<1>1. /\ t \in Seq(S) /\ Len(s) \in Nat /\ Len(s) > 0 /\ Len(t) = Len(s) - 1
      /\ Head(s) = s[1]
      /\ \A i \in 1 .. Len(s) - 1 : t[i] = s[i + 1]
      /\ DOMAIN t = 1 .. Len(s) - 1 /\ DOMAIN s = 1 .. Len(s)
  OBVIOUS
<1> HIDE DEF t
<1>2. Head(s) \in Range(s) /\ Head(s) \in S
  BY <1>1 DEF Range
<1>3. \A i \in 1 .. Len(s) - 1 : i + 1 \in 1 .. Len(s) /\ i + 1 # 1
  BY <1>1
<1>4. \A k \in 1 .. Len(s) : k # 1 => k - 1 \in 1 .. Len(s) - 1 /\ (k - 1) + 1 = k
  BY <1>1
<1>5. 1 \in 1 .. Len(s)
  BY <1>1
<1>6. Range(t) = Range(s) \ {Head(s)}
  <2>1. ASSUME NEW i \in 1 .. Len(s) - 1
        PROVE  t[i] \in Range(s) \ {Head(s)}
    BY <1>1, <1>3, <1>5 DEF Range, Once
  <2>2. ASSUME NEW k \in 1 .. Len(s), s[k] # s[1]
        PROVE  s[k] \in Range(t)
    <3>1. k - 1 \in 1 .. Len(s) - 1 /\ t[k - 1] = s[k]
      BY <1>1, <1>4, <2>2
    <3> QED
      BY <1>1, <3>1 DEF Range
  <2>3. Range(t) \subseteq Range(s) \ {Head(s)}
    BY <1>1, <2>1 DEF Range
  <2>4. Range(s) \ {Head(s)} \subseteq Range(t)
    BY <1>1, <2>2 DEF Range
  <2> QED
    BY <2>3, <2>4
<1>7. Once(t)
  <2>1. SUFFICES ASSUME NEW i \in 1 .. Len(s) - 1, NEW j \in 1 .. Len(s) - 1, t[i] = t[j]
                 PROVE  i = j
    BY <1>1 DEF Once
  <2>2. s[i + 1] = s[j + 1] => i + 1 = j + 1
    BY <1>3 DEF Once
  <2> QED
    BY <1>1, <2>1, <2>2
<1> QED
  BY <1>1, <1>2, <1>6, <1>7 DEF t

-------------------------------------------------------------------------------
(* The lines, step by step.                                                *)

LEMMA LineStart == Init => LineInv
<1> SUFFICES ASSUME Init PROVE LineInv
  OBVIOUS
<1>1. Range(<<>>) = {} /\ Once(<<>>) /\ <<>> \in Seq(Callers)
  BY DEF Range, Once
<1>2. \A w \in Workers : Buffered(w) = {} /\ active[w] = {}
  BY <1>1 DEF Init, Buffered
<1>3. LineType
  BY <1>1 DEF Init, LineType
<1>4. AtWorker /\ InCall
  BY <1>2 DEF Init, AtWorker, InCall
<1>5. OnePlace
  BY <1>1, <1>2 DEF Init, OnePlace
<1> QED
  BY <1>3, <1>4, <1>5 DEF LineInv

(* A step that moves no job keeps the lines if whoever it touches is not   *)
(* waiting.                                                                *)
LEMMA QuietLines ==
  ASSUME LineInv, LineType', InCall', UNCHANGED <<channel, queue, active>>,
         \A c \in Callers : pc[c] = "Waiting" => pc'[c] = "Waiting" /\ to'[c] = to[c]
  PROVE  LineInv'
<1>1. \A w \in Workers : Buffered(w) \subseteq Callers /\ active[w] \subseteq Callers
  BY DEF LineInv, LineType, Buffered, Range
<1>2. \A w \in Workers : Buffered(w)' = Buffered(w)
  BY DEF Buffered
<1>3. AtWorker'
  BY <1>1, <1>2 DEF LineInv, AtWorker
<1>4. OnePlace'
  BY <1>2 DEF LineInv, OnePlace
<1> QED
  BY <1>3, <1>4 DEF LineInv

LEMMA CallKeepsLines ==
  ASSUME GateInv, LineInv, NEW c \in Callers, Call(c)
  PROVE  LineInv'
<1>1. CASE Count(c) \/ Shed(c) \/ Ask(c)
  <2>1. LineType' /\ UNCHANGED <<to, channel, queue, active>>
    BY <1>1 DEF Count, Shed, Ask, Moves, Return, workerVars, LineInv, LineType
  <2>2. InCall'
    BY <1>1 DEF Count, Shed, Ask, Moves, Return, LineInv, LineType, InCall
  <2>3. \A d \in Callers : pc[d] = "Waiting" => pc'[d] = "Waiting"
    BY <1>1 DEF Count, Shed, Ask, Moves, Return, LineInv, LineType
  <2> QED
    BY <2>1, <2>2, <2>3, QuietLines
<1>2. CASE ConnectExisting(c) \/ ConnectSpawns(c)
  <2>1. LineType' /\ UNCHANGED <<channel, queue, active>>
    BY <1>2 DEF ConnectExisting, ConnectSpawns, Moves, workerVars, LineInv, LineType
  <2>2. PICK w \in Workers : to' = [to EXCEPT ![c] = w]
    BY <1>2 DEF ConnectExisting, ConnectSpawns, Vacant, Unborn, GateInv, GateType
  <2>3. pc[c] = "Counted" /\ pc' = [pc EXCEPT ![c] = "Connected"]
    BY <1>2 DEF ConnectExisting, ConnectSpawns, Moves
  <2>4. InCall'
    BY <2>2, <2>3 DEF LineInv, LineType, InCall, GateInv, GateType
  <2>5. \A d \in Callers : pc[d] = "Waiting" => pc'[d] = "Waiting" /\ to'[d] = to[d]
    BY <2>2, <2>3 DEF LineInv, LineType, GateInv, GateType
  <2> QED
    BY <2>1, <2>4, <2>5, QuietLines
<1>3. CASE ConnectFails(c) \/ SendFails(c)
  <2>1. LineType' /\ UNCHANGED <<to, channel, queue, active>>
    BY <1>3 DEF ConnectFails, SendFails, Return, workerVars, LineInv, LineType
  <2>2. pc[c] # "Waiting" /\ pc' = [d \in Callers |-> IF d \in {c} THEN "Returned" ELSE pc[d]]
    BY <1>3 DEF ConnectFails, SendFails, Return
  <2>3. InCall'
    BY <2>1, <2>2 DEF LineInv, LineType, InCall
  <2> QED
    BY <2>1, <2>2, <2>3, QuietLines
<1>4. CASE Send(c)
  <2>0. PICK w \in Workers : w = to[c]
    BY <1>4 DEF Send, Moves, LineInv, InCall
  <2>1. /\ pc[c] = "Connected" /\ pc' = [pc EXCEPT ![c] = "Waiting"]
        /\ channel' = [channel EXCEPT ![w] = Append(@, c)]
        /\ UNCHANGED <<to, queue, active>>
    BY <1>4, <2>0 DEF Send, Moves
  <2>2. channel[w] \in Seq(Callers)
    BY DEF LineInv, LineType
  <2>3. \A v \in Workers : c \notin Buffered(v) /\ c \notin active[v]
    BY <2>1 DEF LineInv, AtWorker
  <2>4. c \notin Range(channel[w]) /\ c \notin Range(queue[w]) /\ Once(channel[w])
    BY <2>2, <2>3 DEF Buffered, LineInv, OnePlace
  <2>5. /\ channel'[w] \in Seq(Callers) /\ Once(channel'[w])
        /\ Range(channel'[w]) = Range(channel[w]) \cup {c}
    BY <2>1, <2>2, <2>4, JoinLine DEF LineInv, LineType
  <2>6. \A v \in Workers \ {w} : channel'[v] = channel[v]
    BY <2>1 DEF LineInv, LineType
  <2>7. LineType'
    BY <2>1, <2>2, <2>5 DEF LineInv, LineType
  <2>8. Buffered(w)' = Buffered(w) \cup {c}
    BY <2>1, <2>5 DEF Buffered
  <2>9. \A v \in Workers \ {w} : Buffered(v)' = Buffered(v)
    BY <2>1, <2>6 DEF Buffered
  <2>10. AtWorker'
    <3> SUFFICES ASSUME NEW v \in Workers, NEW d \in Buffered(v)' \cup active'[v]
                 PROVE  pc'[d] = "Waiting" /\ to'[d] = v
      BY DEF AtWorker
    <3>1. (d = c /\ v = w) \/ d \in Buffered(v) \cup active[v]
      BY <2>1, <2>8, <2>9
    <3>2. d \in Buffered(v) \cup active[v] => d \in Callers /\ pc[d] = "Waiting" /\ to[d] = v
      BY DEF LineInv, LineType, AtWorker, Buffered, Range
    <3> QED
      BY <2>0, <2>1, <3>1, <3>2 DEF LineInv, LineType
  <2>11. OnePlace'
    <3> SUFFICES ASSUME NEW v \in Workers
                 PROVE  /\ Range(channel'[v]) \cap Range(queue'[v]) = {}
                        /\ Buffered(v)' \cap active'[v] = {}
                        /\ Once(channel'[v]) /\ Once(queue'[v])
      BY DEF OnePlace
    <3>1. CASE v = w
      BY <2>1, <2>3, <2>4, <2>5, <2>8, <3>1 DEF LineInv, OnePlace
    <3>2. CASE v # w
      BY <2>1, <2>6, <2>9, <3>2 DEF LineInv, OnePlace
    <3> QED
      BY <3>1, <3>2
  <2>12. InCall'
    BY <2>1 DEF LineInv, LineType, InCall
  <2> QED
    BY <2>7, <2>10, <2>11, <2>12 DEF LineInv
<1> QED
  BY <1>1, <1>2, <1>3, <1>4 DEF Call

(* A step of worker w: jobs move on in it or leave it, and whoever leaves  *)
(* is answered.                                                            *)
AtWorkerOnly(w, cs) ==
  /\ UNCHANGED to
  /\ pc' = [c \in Callers |-> IF c \in cs THEN "Returned" ELSE pc[c]]
  /\ cs \subseteq Buffered(w) \cup active[w]
  /\ Buffered(w)' \cup active'[w] \subseteq (Buffered(w) \cup active[w]) \ cs
  /\ Range(channel'[w]) \cap Range(queue'[w]) = {}
  /\ Buffered(w)' \cap active'[w] = {}
  /\ Once(channel'[w]) /\ Once(queue'[w])
  /\ channel'[w] \in Seq(Callers) /\ queue'[w] \in Seq(Callers) /\ active'[w] \subseteq Callers
  /\ channel' = [channel EXCEPT ![w] = channel'[w]]
  /\ queue' = [queue EXCEPT ![w] = queue'[w]]
  /\ active' = [active EXCEPT ![w] = active'[w]]

LEMMA WorkerKeepsLines ==
  ASSUME LineInv, NEW w \in Workers, NEW cs, AtWorkerOnly(w, cs)
  PROVE  LineInv'
<1>1. \A v \in Workers \ {w} : channel'[v] = channel[v] /\ queue'[v] = queue[v]
                               /\ active'[v] = active[v]
  BY DEF AtWorkerOnly, LineInv, LineType
<1>2. \A v \in Workers \ {w} : Buffered(v)' = Buffered(v)
  BY <1>1 DEF Buffered
<1>3. \A v \in Workers : \A c \in Buffered(v) \cup active[v] :
        c \in Callers /\ pc[c] = "Waiting" /\ to[c] = v
  BY DEF LineInv, LineType, AtWorker, Buffered, Range
<1>4. \A c \in cs : c \in Callers /\ pc[c] = "Waiting" /\ to[c] = w
  BY <1>3 DEF AtWorkerOnly
<1>5. \A c \in Callers \ cs : pc'[c] = pc[c]
  BY DEF AtWorkerOnly
<1>6. \A c \in cs : pc'[c] = "Returned"
  BY <1>4 DEF AtWorkerOnly
<1>7. LineType'
  <2>1. pc' \in [Callers -> {"Start", "Shedding", "Counted", "Connected", "Waiting", "Returned"}]
    BY DEF AtWorkerOnly, LineInv, LineType
  <2>2. channel' \in [Workers -> Seq(Callers)]
    BY DEF AtWorkerOnly, LineInv, LineType
  <2>3. queue' \in [Workers -> Seq(Callers)]
    BY DEF AtWorkerOnly, LineInv, LineType
  <2>4. active' \in [Workers -> SUBSET Callers]
    BY DEF AtWorkerOnly, LineInv, LineType
  <2> QED
    BY <2>1, <2>2, <2>3, <2>4 DEF LineType
<1>8. AtWorker'
  <2> SUFFICES ASSUME NEW v \in Workers, NEW c \in Buffered(v)' \cup active'[v]
               PROVE  pc'[c] = "Waiting" /\ to'[c] = v
    BY DEF AtWorker
  <2>1. c \in Buffered(v) \cup active[v] /\ c \notin cs
    BY <1>1, <1>2, <1>3, <1>4 DEF AtWorkerOnly
  <2> QED
    BY <1>3, <1>5, <2>1 DEF AtWorkerOnly
<1>9. OnePlace'
  <2> SUFFICES ASSUME NEW v \in Workers
               PROVE  /\ Range(channel'[v]) \cap Range(queue'[v]) = {}
                      /\ Buffered(v)' \cap active'[v] = {}
                      /\ Once(channel'[v]) /\ Once(queue'[v])
    BY DEF OnePlace
  <2>1. CASE v = w
    BY <2>1 DEF AtWorkerOnly
  <2>2. CASE v # w
    BY <1>1, <1>2, <2>2 DEF LineInv, OnePlace
  <2> QED
    BY <2>1, <2>2
<1>10. InCall'
  <2>1. \A c \in Callers : pc'[c] = pc[c] \/ pc'[c] = "Returned"
    BY <1>5, <1>6
  <2> QED
    BY <2>1 DEF AtWorkerOnly, LineInv, InCall
<1> QED
  BY <1>7, <1>8, <1>9, <1>10 DEF LineInv

(* The types of one worker's lines, and that its jobs are in one place.    *)
LEMMA LinesOf ==
  ASSUME LineInv, NEW w \in Workers
  PROVE  /\ channel[w] \in Seq(Callers) /\ queue[w] \in Seq(Callers) /\ active[w] \subseteq Callers
         /\ Range(channel[w]) \cap Range(queue[w]) = {}
         /\ Buffered(w) \cap active[w] = {}
         /\ Once(channel[w]) /\ Once(queue[w])
         /\ channel = [channel EXCEPT ![w] = channel[w]]
         /\ queue = [queue EXCEPT ![w] = queue[w]]
         /\ active = [active EXCEPT ![w] = active[w]]
         /\ pc = [c \in Callers |-> IF c \in {} THEN "Returned" ELSE pc[c]]
<1>1. /\ channel[w] \in Seq(Callers) /\ queue[w] \in Seq(Callers) /\ active[w] \subseteq Callers
      /\ Range(channel[w]) \cap Range(queue[w]) = {}
      /\ Buffered(w) \cap active[w] = {}
      /\ Once(channel[w]) /\ Once(queue[w])
  BY DEF LineInv, LineType, OnePlace
<1>2. /\ channel = [channel EXCEPT ![w] = channel[w]]
      /\ queue = [queue EXCEPT ![w] = queue[w]]
      /\ active = [active EXCEPT ![w] = active[w]]
  BY DEF LineInv, LineType
<1>3. pc = [c \in Callers |-> IF c \in {} THEN "Returned" ELSE pc[c]]
  BY DEF LineInv, LineType
<1> QED
  BY <1>1, <1>2, <1>3

LEMMA NobodyLine == Range(<<>>) = {} /\ Once(<<>>) /\ <<>> \in Seq(Callers)
BY DEF Range, Once

(* Every step of worker w answers some calls and takes others from its     *)
(* lines, and gives back the permits of the latter.                        *)
WorkerMoves(w) ==
  \E cs, ps \in SUBSET Callers :
    /\ AtWorkerOnly(w, cs)
    /\ ps \subseteq Buffered(w)
    /\ Buffered(w)' = Buffered(w) \ ps
    /\ pending' = pending - Permits(ps)

(* A request gives back none.                                              *)
LEMMA RequestsHoldNone ==
  ASSUME NEW ps, ps \subseteq Requesters, pending \in Int
  PROVE  pending - Permits(ps) = pending
<1>1. ps \cap Submitters = {}
  BY GateAssumption
<1> QED
  BY <1>1, FS_EmptySet DEF Permits

LEMMA ReceiveMoves ==
  ASSUME LineInv, pending \in Int, NEW w \in Workers, Receive(w)
  PROVE  WorkerMoves(w)
<1> DEFINE c == Head(channel[w])
<1>1. /\ channel[w] \in Seq(Callers) /\ queue[w] \in Seq(Callers) /\ channel[w] # <<>>
      /\ Once(channel[w]) /\ Once(queue[w]) /\ active' = active /\ UNCHANGED <<to, pending>>
  BY LinesOf DEF Receive
<1>2. PICK h : h = c
  OBVIOUS
<1>3. channel' = [channel EXCEPT ![w] = Tail(@)] /\ channel'[w] = Tail(channel[w])
  BY DEF Receive, LineInv, LineType
<1>4. /\ h \in Range(channel[w]) /\ h \in Callers
      /\ channel'[w] \in Seq(Callers) /\ Once(channel'[w])
      /\ Range(channel'[w]) = Range(channel[w]) \ {h}
  BY <1>1, <1>2, <1>3, LeaveLine
<1>5. channel' = [channel EXCEPT ![w] = channel'[w]]
  BY <1>3
<1>6. h \notin Range(queue[w]) /\ h \notin active[w]
  BY <1>4, LinesOf DEF Buffered
<1>7. CASE h \in Submitters /\ queue' = [queue EXCEPT ![w] = Append(@, h)] /\ UNCHANGED callVars
  <2>1. /\ queue'[w] = Append(queue[w], h)
        /\ queue' = [queue EXCEPT ![w] = queue'[w]]
    BY <1>7 DEF LineInv, LineType
  <2>2. /\ queue'[w] \in Seq(Callers) /\ Once(queue'[w])
        /\ Range(queue'[w]) = Range(queue[w]) \cup {h}
    BY <1>1, <1>4, <1>6, <2>1, JoinLine
  <2>3. Buffered(w)' = Buffered(w)
    BY <1>4, <2>2 DEF Buffered
  <2>4. AtWorkerOnly(w, {})
    BY <1>1, <1>4, <1>5, <1>7, <2>1, <2>2, <2>3, LinesOf DEF AtWorkerOnly, callVars
  <2>5. pending - Permits({}) = pending
    BY RequestsHoldNone
  <2> QED
    BY <1>1, <2>3, <2>4, <2>5 DEF WorkerMoves
<1>8. CASE h \in Requesters /\ Return({h}, "Done") /\ UNCHANGED queue
  <2>1. Buffered(w)' = Buffered(w) \ {h}
    BY <1>4, <1>6, <1>8 DEF Buffered
  <2>2. AtWorkerOnly(w, {h})
    BY <1>1, <1>4, <1>5, <1>6, <1>8, <2>1, LinesOf DEF AtWorkerOnly, Return, Buffered
  <2>3. pending - Permits({h}) = pending
    BY <1>8, RequestsHoldNone
  <2>4. {h} \in SUBSET Callers /\ {h} \subseteq Buffered(w)
    BY <1>4 DEF Buffered
  <2> QED
    BY <1>1, <2>1, <2>2, <2>3, <2>4 DEF WorkerMoves
<1> QED
  BY <1>2, <1>7, <1>8 DEF Receive

LEMMA DequeueMoves ==
  ASSUME LineInv, NEW w \in Workers, AdmitJob(w) \/ RejectJob(w)
  PROVE  WorkerMoves(w)
<1>1. PICK h : h = Head(queue[w])
  OBVIOUS
<1>2. /\ channel[w] \in Seq(Callers) /\ queue[w] \in Seq(Callers) /\ queue[w] # <<>>
      /\ Once(channel[w]) /\ Once(queue[w]) /\ UNCHANGED <<to, channel>>
      /\ pending' = pending - Permits({h})
  BY <1>1, LinesOf DEF AdmitJob, RejectJob, Dequeue
<1>3. queue' = [queue EXCEPT ![w] = Tail(@)] /\ queue'[w] = Tail(queue[w])
  BY DEF AdmitJob, RejectJob, Dequeue, LineInv, LineType
<1>4. /\ h \in Range(queue[w]) /\ h \in Callers
      /\ queue'[w] \in Seq(Callers) /\ Once(queue'[w])
      /\ Range(queue'[w]) = Range(queue[w]) \ {h}
  BY <1>1, <1>2, <1>3, LeaveLine
<1>5. queue' = [queue EXCEPT ![w] = queue'[w]]
  BY <1>3
<1>6. h \notin Range(channel[w]) /\ h \notin active[w] /\ h \in Buffered(w)
  BY <1>4, LinesOf DEF Buffered
<1>7. Buffered(w)' = Buffered(w) \ {h}
  BY <1>2, <1>4, <1>6 DEF Buffered
<1>8. Range(channel'[w]) \cap Range(queue'[w]) = {}
  BY <1>2, <1>4, LinesOf
<1>9. CASE active' = [active EXCEPT ![w] = @ \cup {h}] /\ UNCHANGED callVars
  <2>1. active'[w] = active[w] \cup {h} /\ active' = [active EXCEPT ![w] = active'[w]]
    BY <1>9 DEF LineInv, LineType
  <2>2. AtWorkerOnly(w, {})
    BY <1>2, <1>4, <1>5, <1>6, <1>7, <1>8, <1>9, <2>1, LinesOf DEF AtWorkerOnly, callVars
  <2> QED
    BY <1>2, <1>4, <1>6, <1>7, <2>2 DEF WorkerMoves
<1>10. CASE Return({h}, "Error") /\ UNCHANGED active
  <2>1. AtWorkerOnly(w, {h})
    BY <1>2, <1>4, <1>5, <1>6, <1>7, <1>8, <1>10, LinesOf DEF AtWorkerOnly, Return
  <2> QED
    BY <1>2, <1>4, <1>6, <1>7, <2>1 DEF WorkerMoves
<1> QED
  BY <1>1, <1>9, <1>10 DEF AdmitJob, RejectJob

LEMMA LeaveMoves ==
  ASSUME LineInv, pending \in Int, NEW w \in Workers, Retire(w) \/ AnswerOrphan(w)
  PROVE  WorkerMoves(w)
<1>1. PICK c \in active[w] : /\ active' = [active EXCEPT ![w] = @ \ {c}]
                             /\ \E value \in {"Done", "WorkerDied"} : Return({c}, value)
  BY DEF Retire, AnswerOrphan
<1>2. UNCHANGED <<pending, to, channel, queue>>
  BY DEF Retire, AnswerOrphan
<1>3. active'[w] = active[w] \ {c} /\ active' = [active EXCEPT ![w] = active'[w]]
  BY <1>1 DEF LineInv, LineType
<1>4. Buffered(w)' = Buffered(w)
  BY <1>2 DEF Buffered
<1>5. AtWorkerOnly(w, {c})
  <2>1. c \notin Buffered(w)
    BY LinesOf
  <2>2. pc' = [d \in Callers |-> IF d \in {c} THEN "Returned" ELSE pc[d]]
    BY <1>1 DEF Return
  <2>3. Buffered(w)' \cup active'[w] \subseteq (Buffered(w) \cup active[w]) \ {c}
    BY <1>3, <1>4, <2>1
  <2>4. Buffered(w)' \cap active'[w] = {}
    BY <1>3, <1>4, LinesOf
  <2>5. {c} \subseteq Buffered(w) \cup active[w]
    OBVIOUS
  <2>6. /\ channel'[w] \in Seq(Callers) /\ queue'[w] \in Seq(Callers) /\ active'[w] \subseteq Callers
        /\ Once(channel'[w]) /\ Once(queue'[w])
        /\ Range(channel'[w]) \cap Range(queue'[w]) = {}
    BY <1>2, <1>3, LinesOf
  <2>7. channel' = [channel EXCEPT ![w] = channel'[w]] /\ queue' = [queue EXCEPT ![w] = queue'[w]]
    BY <1>2, LinesOf
  <2> QED
    BY <1>2, <1>3, <2>2, <2>3, <2>4, <2>5, <2>6, <2>7 DEF AtWorkerOnly
<1>6. pending - Permits({}) = pending
  BY RequestsHoldNone
<1> QED
  <2>1. {c} \in SUBSET Callers
    BY <1>1, LinesOf
  <2>2. pending' = pending - Permits({}) /\ Buffered(w)' = Buffered(w) \ {}
    BY <1>2, <1>4, <1>6
  <2> QED
    BY <1>5, <2>1, <2>2 DEF WorkerMoves

LEMMA DeathMoves ==
  ASSUME LineInv, pending \in Int, NEW w \in Workers, Panic(w) \/ Close(w) \/ EndThread(w)
  PROVE  WorkerMoves(w)
<1>1. CASE Panic(w)
  <2>1. PICK cs : cs = Range(queue[w])
    OBVIOUS
  <2>2. queue' = [queue EXCEPT ![w] = <<>>] /\ UNCHANGED <<to, channel, active>>
        /\ Return(cs, "WorkerDied") /\ pending' = pending - Permits(cs)
    BY <1>1, <2>1 DEF Panic
  <2>3. queue'[w] = <<>> /\ queue' = [queue EXCEPT ![w] = queue'[w]]
    BY <2>2 DEF LineInv, LineType
  <2>4. cs \subseteq Callers /\ cs \subseteq Buffered(w)
    BY <2>1, LinesOf DEF Range, Buffered
  <2>5. Buffered(w)' = Buffered(w) \ cs
    BY <2>1, <2>2, <2>3, LinesOf, NobodyLine DEF Buffered
  <2>6. AtWorkerOnly(w, cs)
    BY <2>1, <2>2, <2>3, <2>4, <2>5, LinesOf, NobodyLine DEF AtWorkerOnly, Return
  <2> QED
    BY <2>2, <2>4, <2>5, <2>6 DEF WorkerMoves
<1>2. CASE Close(w)
  <2>1. PICK cs : cs = Range(channel[w])
    OBVIOUS
  <2>2. channel' = [channel EXCEPT ![w] = <<>>] /\ UNCHANGED <<to, queue, active>>
        /\ Return(cs, "WorkerDied") /\ pending' = pending - Permits(cs)
    BY <1>2, <2>1 DEF Close
  <2>3. channel'[w] = <<>> /\ channel' = [channel EXCEPT ![w] = channel'[w]]
    BY <2>2 DEF LineInv, LineType
  <2>4. cs \subseteq Callers /\ cs \subseteq Buffered(w)
    BY <2>1, LinesOf DEF Range, Buffered
  <2>5. Buffered(w)' = Buffered(w) \ cs
    BY <2>1, <2>2, <2>3, LinesOf, NobodyLine DEF Buffered
  <2>6. AtWorkerOnly(w, cs)
    BY <2>1, <2>2, <2>3, <2>4, <2>5, LinesOf, NobodyLine DEF AtWorkerOnly, Return
  <2> QED
    BY <2>2, <2>4, <2>5, <2>6 DEF WorkerMoves
<1>3. CASE EndThread(w)
  <2>1. UNCHANGED <<pending, pc, to, channel, queue, active>>
    BY <1>3 DEF EndThread, callVars
  <2>2. Buffered(w)' = Buffered(w)
    BY <2>1 DEF Buffered
  <2>3. AtWorkerOnly(w, {})
    BY <2>1, <2>2, LinesOf DEF AtWorkerOnly
  <2>4. pending - Permits({}) = pending
    BY RequestsHoldNone
  <2> QED
    BY <2>1, <2>2, <2>3, <2>4 DEF WorkerMoves
<1> QED
  BY <1>1, <1>2, <1>3

-------------------------------------------------------------------------------
(* The counter.                                                            *)

LEMMA HoldersFinite ==
  /\ IsFiniteSet(Holders) /\ IsFiniteSet(LetIn)
  /\ Cardinality(Holders) \in Nat /\ Cardinality(LetIn) \in Nat
<1>1. Holders \in SUBSET Submitters /\ LetIn \in SUBSET Submitters
  BY DEF Holders, LetIn, Inside, QueuedJobs
<1> QED
  BY <1>1, GateAssumption, FS_Subset, FS_CardinalityType

LEMMA HoldersFiniteNext ==
  /\ IsFiniteSet(Holders') /\ IsFiniteSet(LetIn')
  /\ Cardinality(Holders') \in Nat /\ Cardinality(LetIn') \in Nat
<1>1. Holders' \in SUBSET Submitters /\ LetIn' \in SUBSET Submitters
  BY DEF Holders, LetIn, Inside, QueuedJobs
<1> QED
  BY <1>1, GateAssumption, FS_Subset, FS_CardinalityType

(* Permits given back leave the counter exact and the gate no fuller.      *)
LEMMA GivingBack ==
  ASSUME PermitInv, NEW cs, GivesBack(cs)
  PROVE  PermitInv'
<1>1. Cardinality(Holders \ cs) = Cardinality(Holders) - Cardinality(Holders \cap cs)
  BY HoldersFinite, FS_Difference
<1>2. Holders \cap cs = cs \cap Submitters
  BY DEF GivesBack, Holders, Inside, QueuedJobs
<1>3. pending' = Cardinality(Holders')
  BY <1>1, <1>2 DEF GivesBack, PermitInv, Permits
<1>4. Cardinality(LetIn') <= Cardinality(LetIn)
  BY HoldersFinite, FS_Subset DEF GivesBack
<1>5. Cardinality(LetIn') <= MaxQueueDepth
  BY <1>4, HoldersFinite, HoldersFiniteNext, GateAssumption DEF PermitInv
<1> QED
  BY <1>3, <1>5 DEF PermitInv

(* A caller that is still in its call, and who is in a line.               *)
LEMMA WhoIsQueued ==
  ASSUME LineInv, NEW c \in Callers, pc[c] # "Waiting"
  PROVE  c \notin QueuedJobs /\ \A w \in Workers : c \notin Buffered(w)
BY DEF LineInv, AtWorker, QueuedJobs

(* A step that touches no line and gives back the permit of c, or none.    *)
LEMMA CallLeaves ==
  ASSUME LineInv, NEW c \in Callers, pc[c] # "Waiting", UNCHANGED <<channel, queue>>,
         pending' = pending - Permits({c}),
         c \in Submitters => pc[c] \in {"Shedding", "Counted", "Connected"},
         pc' = [d \in Callers |-> IF d \in {c} THEN "Returned" ELSE pc[d]]
  PROVE  GivesBack({c})
<1>1. QueuedJobs' = QueuedJobs /\ c \notin QueuedJobs
  BY WhoIsQueued DEF QueuedJobs, Buffered
<1>2. Inside' = Inside \ {c}
  BY DEF Inside, Callers
<1>3. Holders' = Holders \ {c} /\ {c} \cap Submitters \subseteq Holders
  BY <1>1, <1>2 DEF Holders, Inside
<1>4. LetIn' \subseteq LetIn
  BY <1>3 DEF LetIn, Holders, Inside, QueuedJobs, Callers
<1> QED
  BY <1>3, <1>4 DEF GivesBack

(* A step that only takes c further into its call.                         *)
LEMMA CallGoesOn ==
  ASSUME LineInv, PermitInv, NEW c \in Callers, UNCHANGED <<pending, channel, queue>>,
         NEW s, pc' = [pc EXCEPT ![c] = s],
         \/ c \in Requesters
         \/ pc[c] = "Counted" /\ s = "Connected"
  PROVE  PermitInv'
<1>1. QueuedJobs' = QueuedJobs
  BY DEF QueuedJobs, Buffered
<1>2. \A d \in Submitters : pc'[d] = pc[d] \/ (pc[d] = "Counted" /\ pc'[d] = "Connected")
  BY GateAssumption DEF LineInv, LineType, Callers
<1>3. Inside' = Inside
  BY <1>2 DEF Inside
<1>4. Holders' = Holders
  BY <1>1, <1>3 DEF Holders
<1>5. LetIn' = LetIn
  BY <1>2, <1>4 DEF LetIn, Holders, Inside, QueuedJobs
<1> QED
  BY <1>4, <1>5 DEF PermitInv

(* The gate: whoever finds the counter below the bound is let in.          *)
LEMMA CountKeepsPermits ==
  ASSUME LineInv, PermitInv, NEW c \in Callers, Count(c)
  PROVE  PermitInv'
<1>1. /\ c \in Submitters /\ pc[c] = "Start" /\ pending' = pending + 1
      /\ pc' = [pc EXCEPT ![c] = IF Full THEN "Shedding" ELSE "Counted"]
      /\ UNCHANGED <<channel, queue>>
  BY DEF Count, Moves, workerVars
<1>2. QueuedJobs' = QueuedJobs /\ c \notin QueuedJobs
  BY <1>1, WhoIsQueued DEF QueuedJobs, Buffered
<1>3. Inside' = Inside \cup {c} /\ c \notin Inside
  BY <1>1 DEF Inside, LineInv, LineType, Callers
<1>4. Holders' = Holders \cup {c} /\ c \notin Holders
  BY <1>2, <1>3 DEF Holders
<1>5. Cardinality(Holders') = Cardinality(Holders) + 1
  BY <1>4, HoldersFinite, FS_AddElement
<1>6. CASE Full
  <2>1. LetIn' = LetIn
    BY <1>1, <1>4, <1>6 DEF LetIn, Holders, Inside, QueuedJobs, LineInv, LineType, Callers
  <2> QED
    BY <1>1, <1>5, <2>1 DEF PermitInv
<1>7. CASE ~Full
  <2>1. LetIn' \in SUBSET Holders'
    BY DEF LetIn
  <2>2. Cardinality(LetIn') <= Cardinality(Holders')
    BY <2>1, HoldersFiniteNext, FS_Subset
  <2>3. Cardinality(Holders) + 1 <= MaxQueueDepth
    BY <1>7, HoldersFinite, GateAssumption DEF Full, PermitInv
  <2>4. Cardinality(LetIn') <= MaxQueueDepth
    BY <1>5, <2>2, <2>3, HoldersFinite, HoldersFiniteNext, GateAssumption
  <2> QED
    BY <1>1, <1>5, <2>4 DEF PermitInv
<1> QED
  BY <1>6, <1>7

(* The command reaches the channel: the permit moves with it.              *)
LEMMA SendKeepsPermits ==
  ASSUME LineInv, PermitInv, NEW c \in Callers, Send(c)
  PROVE  PermitInv'
<1>1. PICK w \in Workers : w = to[c]
  BY DEF Send, Moves, LineInv, InCall
<1>2. /\ pc[c] = "Connected" /\ pc' = [pc EXCEPT ![c] = "Waiting"]
      /\ channel' = [channel EXCEPT ![w] = Append(@, c)]
      /\ UNCHANGED <<pending, queue>>
  BY <1>1 DEF Send, Moves
<1>3. Range(channel'[w]) = Range(channel[w]) \cup {c}
  <2>1. c \notin Range(channel[w])
    BY <1>2, WhoIsQueued DEF Buffered
  <2> QED
    BY <1>2, <2>1, LinesOf, JoinLine DEF LineInv, LineType
<1>4. Buffered(w)' = Buffered(w) \cup {c}
  BY <1>2, <1>3 DEF Buffered
<1>5. \A v \in Workers \ {w} : Buffered(v)' = Buffered(v)
  BY <1>2 DEF Buffered, LineInv, LineType
<1>6. QueuedJobs' = QueuedJobs \cup ({c} \cap Submitters)
  BY <1>4, <1>5 DEF QueuedJobs
<1>7. Inside' = Inside \ {c} /\ {c} \cap Submitters \subseteq Inside
  BY <1>2 DEF Inside, LineInv, LineType, Callers
<1>8. Holders' = Holders
  <2>1. Inside \subseteq Submitters
    BY DEF Inside
  <2> QED
    BY <1>6, <1>7, <2>1 DEF Holders
<1>9. LetIn' = LetIn
  BY <1>2, <1>8 DEF LetIn, Holders, Inside, QueuedJobs, LineInv, LineType, Callers
<1> QED
  BY <1>2, <1>8, <1>9 DEF PermitInv

(* A worker's step: who leaves its lines gives back one permit each.       *)
LEMMA WorkerKeepsPermits ==
  ASSUME LineInv, PermitInv, NEW w \in Workers, WorkerMoves(w)
  PROVE  PermitInv'
<1>1. PICK cs, ps \in SUBSET Callers :
        /\ AtWorkerOnly(w, cs) /\ ps \subseteq Buffered(w)
        /\ Buffered(w)' = Buffered(w) \ ps /\ pending' = pending - Permits(ps)
  BY DEF WorkerMoves
<1>2. \A v \in Workers \ {w} : Buffered(v)' = Buffered(v)
  BY <1>1 DEF AtWorkerOnly, LineInv, LineType, Buffered
<1>3. \A v \in Workers : \A c \in Buffered(v) \cup active[v] : pc[c] = "Waiting" /\ to[c] = v
  BY DEF LineInv, AtWorker
<1>4. QueuedJobs' = QueuedJobs \ ps
  BY <1>1, <1>2, <1>3 DEF QueuedJobs
<1>5. \A c \in Callers : pc'[c] = pc[c] \/ (pc[c] = "Waiting" /\ pc'[c] = "Returned")
  BY <1>1, <1>3 DEF AtWorkerOnly
<1>6. Inside' = Inside /\ Inside \cap ps = {}
  BY <1>1, <1>3, <1>5 DEF Inside, Callers
<1>7. Holders' = Holders \ ps /\ ps \cap Submitters \subseteq Holders
  BY <1>1, <1>4, <1>6 DEF Holders, QueuedJobs
<1>8. LetIn' \subseteq LetIn
  BY <1>5, <1>7 DEF LetIn, Holders, Inside, QueuedJobs, Callers
<1> QED
  BY <1>1, <1>7, <1>8, GivingBack DEF GivesBack

(* Every step keeps the counter exact.                                     *)
LEMMA CallKeepsPermits ==
  ASSUME LineInv, PermitInv, NEW c \in Callers, Call(c)
  PROVE  PermitInv'
<1>1. CASE Ask(c) \/ ConnectExisting(c) \/ ConnectSpawns(c)
  <2>1. UNCHANGED <<pending, channel, queue>>
    BY <1>1 DEF Ask, ConnectExisting, ConnectSpawns, workerVars
  <2>2. \/ c \in Requesters /\ pc' = [pc EXCEPT ![c] = "Counted"]
        \/ pc[c] = "Counted" /\ pc' = [pc EXCEPT ![c] = "Connected"]
    BY <1>1 DEF Ask, ConnectExisting, ConnectSpawns, Moves
  <2> QED
    BY <2>1, <2>2, CallGoesOn
<1>2. CASE Shed(c) \/ ConnectFails(c) \/ SendFails(c)
  <2>1. pc[c] \in {"Shedding", "Counted", "Connected"} /\ UNCHANGED <<channel, queue>>
    BY <1>2 DEF Shed, ConnectFails, SendFails, workerVars
  <2>2. pc' = [d \in Callers |-> IF d \in {c} THEN "Returned" ELSE pc[d]]
    BY <1>2 DEF Shed, ConnectFails, SendFails, Return
  <2>3. pending' = pending - Permits({c})
    <3>1. CASE Shed(c)
      <4>1. {c} \cap Submitters = {c}
        BY <3>1 DEF Shed, LineInv, InCall
      <4> QED
        BY <3>1, <4>1, FS_Singleton DEF Shed, Permits
    <3>2. CASE ConnectFails(c) \/ SendFails(c)
      BY <3>2 DEF ConnectFails, SendFails
    <3> QED
      BY <1>2, <3>1, <3>2
  <2>4. GivesBack({c})
    BY <2>1, <2>2, <2>3, CallLeaves
  <2> QED
    BY <2>4, GivingBack
<1> QED
  BY <1>1, <1>2, CountKeepsPermits, SendKeepsPermits DEF Call

LEMMA PermitStep ==
  ASSUME GateInv, LineInv, PermitInv, [Next]_vars
  PROVE  LineInv' /\ PermitInv'
<1>1. CASE UNCHANGED vars
  <2>1. UNCHANGED <<pending, pc, to, channel, queue, active>>
    BY <1>1 DEF vars, callVars, workerVars
  <2>2. Holders' = Holders /\ LetIn' = LetIn
    BY <2>1 DEF Holders, LetIn, Inside, QueuedJobs, Buffered
  <2>3. LineInv'
    BY <2>1, QuietLines DEF LineInv, LineType, InCall
  <2> QED
    BY <2>1, <2>2, <2>3 DEF PermitInv
<1>2. ASSUME NEW c \in Callers, Call(c)
      PROVE  LineInv' /\ PermitInv'
  BY <1>2, CallKeepsLines, CallKeepsPermits
<1>3. ASSUME NEW w \in Workers, Turn(w) \/ Panic(w) \/ Ending(w)
      PROVE  LineInv' /\ PermitInv'
  <2>1. pending \in Int
    BY HoldersFinite DEF PermitInv
  <2>2. WorkerMoves(w)
    BY <1>3, <2>1, ReceiveMoves, DequeueMoves, LeaveMoves, DeathMoves DEF Turn, Ending
  <2>3. LineInv'
    BY <2>2, WorkerKeepsLines DEF WorkerMoves
  <2> QED
    BY <2>2, <2>3, WorkerKeepsPermits
<1> QED
  BY <1>1, <1>2, <1>3 DEF Next

LEMMA PermitStart == Init => PermitInv
<1> SUFFICES ASSUME Init PROVE PermitInv
  OBVIOUS
<1>1. Inside = {}
  BY DEF Init, Inside, Callers
<1>2. QueuedJobs = {}
  BY NobodyLine DEF Init, QueuedJobs, Buffered
<1>3. Holders = {} /\ LetIn = {}
  BY <1>1, <1>2 DEF Holders, LetIn
<1> QED
  BY <1>3, FS_EmptySet, GateAssumption DEF Init, PermitInv

(* The counter is exact, and no more jobs wait than the bound allows,      *)
(* whatever callers race and whenever workers die (PermitsExact).          *)
THEOREM PermitsAlwaysExact == Spec => []PermitsExact
<1>1. LineInv /\ PermitInv => PermitsExact
  <2> SUFFICES ASSUME LineInv, PermitInv PROVE PermitsExact
    OBVIOUS
  <2>1. Inside \in SUBSET Submitters /\ QueuedJobs \in SUBSET Submitters
    BY DEF Inside, QueuedJobs
  <2>2. IsFiniteSet(Inside) /\ IsFiniteSet(QueuedJobs)
        /\ Cardinality(Inside) \in Nat /\ Cardinality(QueuedJobs) \in Nat
    BY <2>1, GateAssumption, FS_Subset, FS_CardinalityType
  <2>3. \A c \in QueuedJobs : pc[c] = "Waiting"
    BY DEF LineInv, AtWorker, QueuedJobs
  <2>4. Inside \cap QueuedJobs = {} /\ QueuedJobs \in SUBSET LetIn
    BY <2>3 DEF Inside, LetIn, Holders
  <2>5. Cardinality(Holders) = Cardinality(Inside) + Cardinality(QueuedJobs)
    <3>1. Cardinality(Inside \cap QueuedJobs) = 0
      BY <2>4, FS_EmptySet
    <3>2. Cardinality(Inside \cup QueuedJobs)
            = Cardinality(Inside) + Cardinality(QueuedJobs) - Cardinality(Inside \cap QueuedJobs)
      BY <2>2, FS_Union
    <3> QED
      BY <2>2, <3>1, <3>2 DEF Holders
  <2>6. Cardinality(QueuedJobs) <= Cardinality(LetIn)
    BY <2>4, HoldersFinite, FS_Subset
  <2>7. Cardinality(QueuedJobs) <= MaxQueueDepth
    BY <2>2, <2>6, HoldersFinite, GateAssumption DEF PermitInv
  <2> QED
    BY <2>5, <2>7 DEF PermitInv, PermitsExact
<1>2. LineInv /\ PermitInv /\ GateInv /\ [Next]_vars => LineInv' /\ PermitInv'
  BY PermitStep
<1> QED
  BY <1>1, <1>2, LineStart, PermitStart, GateInvariance, PTL DEF Spec
===============================================================================
