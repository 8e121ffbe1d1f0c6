------------------------------ MODULE BatchWorker ------------------------------
(***************************************************************************)
(* The continuous-batching worker of burn-lm-inference: one thread that    *)
(* owns the model server and turns a loop of                               *)
(*                                                                         *)
(*   Poll    take in the commands waiting on the channel                   *)
(*   Resume  re-admit evicted sequences                                    *)
(*   Admit   admit queued jobs while slots and KV blocks last              *)
(*   Sweep   notice cancellations                                          *)
(*   Senior  top up the oldest live sequence's reservation                 *)
(*   Grow    grant KV growth, oldest first, pausing or evicting            *)
(*   Round   classify the sequences and fix the round's prefill budget     *)
(*   Prefill push prompts, one sequence at a time                          *)
(*   Decode  advance every decoding row in one fused call                  *)
(*   Ship    send the round's tokens and failures to the emission thread   *)
(*   Retire  drop the finished sequences                                   *)
(*                                                                         *)
(* Submitters and cancelling callers run concurrently with every step.     *)
(* Token ids are abstracted away: a sequence is its prompt length and the  *)
(* number of tokens generated so far.                                      *)
(***************************************************************************)
EXTENDS KvBudget, Sequences, FiniteSets, SequencesExt

CONSTANTS Jobs,         \* the requests clients may submit, each once
          MaxSlots,     \* batch_capacity().max_slots
          Ctx,          \* the decoder's max_context_len
          Prompt,       \* tokens in each job's prompt
          Requested,    \* each job's max_tokens, or NoRequest
          GenCap,       \* the server's max_gen_tokens
          ChunkSize,    \* prefill_chunk_size, 0 for unbounded
          TokenBudget,  \* prefill_token_budget, 0 for unbounded
          Admission,    \* kv_admission: "Elastic" or "Reserve"
          UsizeMax,     \* the block count of an unlimited KvBudget
          Env,          \* what the surroundings of the worker may do
          MaxChannel    \* bound on the commands waiting at once

NoRequest == -1
Unbounded == -1

Controls == {"Load", "Unload", "ClearState", "Shutdown"}
EnvChoices == {"cancel", "stop", "tokenize", "forward", "decoder", "panic"} \cup Controls

ASSUME WorkerAssumption ==
  /\ MaxSlots \in Nat /\ Ctx \in Nat /\ GenCap \in Nat
  /\ ChunkSize \in Nat /\ TokenBudget \in Nat
  /\ UsizeMax \in Nat /\ MaxChannel \in Nat
  /\ Prompt \in [Jobs -> Nat]
  /\ Requested \in [Jobs -> Nat \cup {NoRequest}]
  /\ Admission \in {"Elastic", "Reserve"}
  /\ Env \subseteq EnvChoices

(* A decoder that accounts for no KV offers usize::MAX blocks: more than   *)
(* all its lanes could fill.                                               *)
ASSUME UnlimitedAssumption == TotalBlocks = UsizeMax => MaxSlots * BlocksFor(Ctx) <= TotalBlocks

VARIABLES
  channel,    \* commands sent to the worker and not yet received, in order
  submitted,  \* jobs whose Submit command was sent
  signalled,  \* jobs whose CancelSignal has fired
  queue,      \* jobs received and waiting for admission, oldest first
  active,     \* jobs in the batch, in admission order
  resume,     \* evicted jobs; the last one resumes first
  seq,        \* the ActiveSeq / ResumedJob state of each job
  loaded,     \* whether the server holds a loaded model
  lane,       \* tokens held in each decoder slot's KV cache
  sent,       \* what the worker has told each request so far
  phase,      \* where in the turn the worker is
  cursor,     \* index into active of the loop over it
  budget      \* PrefillBudget.remaining

clientVars == <<channel, submitted, signalled>>
vars == <<channel, submitted, signalled, queue, active, resume, seq, loaded,
          lane, sent, phase, cursor, budget>>

Slots == 0 .. MaxSlots - 1
Phases == {"Poll", "Resume", "Admit", "Sweep", "Senior", "Grow", "Round", "Prefill",
           "Decode", "Ship", "Retire", "Dead", "Stopped"}
Commands == [op : {"Submit"}, job : Jobs] \cup [op : Controls]

(* Ok replies carry a finish reason; the others are Err replies.           *)
OkReplies == {"Stop", "Length", "Cancelled"}
ErrReplies == {"Error", "CancelledInQueue", "WorkerDied"}
Replies == OkReplies \cup ErrReplies
Events == {"Admitted", "Token"} \cup Replies

(* What step_round makes of a sequence; Prefill and Decode are pending.    *)
Outcomes == {"Skipped", "Prefill", "Decode", "Prefilling", "Stepped", "Stopped", "Failed"}

SeqStates == [slot : Slots \cup {0}, processed : Nat, generated : Nat, resv : Nat,
              finished : BOOLEAN, paused : BOOLEAN, stopped : BOOLEAN,
              cancelled : BOOLEAN, out : Outcomes]

Blank == [slot |-> 0, processed |-> 0, generated |-> 0, resv |-> 0,
          finished |-> FALSE, paused |-> FALSE, stopped |-> FALSE,
          cancelled |-> FALSE, out |-> "Skipped"]

EmptyLanes == [s \in Slots |-> 0]

Init ==
  /\ channel = <<>> /\ submitted = {} /\ signalled = {}
  /\ queue = <<>> /\ active = <<>> /\ resume = <<>>
  /\ seq = [j \in Jobs |-> Blank]
  /\ loaded = FALSE /\ lane = EmptyLanes
  /\ sent = [j \in Jobs |-> <<>>]
  /\ phase = "Poll" /\ cursor = 1 /\ budget = Unbounded

-------------------------------------------------------------------------------
(* Sequences, reservations and slots.                                      *)

MaxGen(j) == IF Requested[j] = NoRequest THEN GenCap ELSE Smaller(Requested[j], GenCap)

Tokens(j) == Prompt[j] + seq[j].generated

(* The blocks for everything the sequence may still grow to ...            *)
Worst(j) == BlocksFor(Smaller(Tokens(j) + MaxGen(j) - seq[j].generated, Ctx))

(* ... and for what it holds now plus the token it decodes next.           *)
Footprint(j) == BlocksFor(Smaller(Tokens(j) + 1, Ctx))

(* What admission promises a sequence entering the current batch.          *)
Guaranteed(j) ==
  IF active = <<>> \/ Admission = "Reserve" THEN Worst(j) ELSE Footprint(j)

(* One credit per reserved block, so that the sum over the active set is a *)
(* cardinality.                                                            *)
Credits == UNION {{j} \X (1 .. seq[j].resv) : j \in Range(active)}
Reserved == Cardinality(Credits)
Slack == TotalBlocks - Reserved

FreeSlots == {s \in Slots : \A j \in Range(active) : seq[j].slot # s}
(* Mutant: slots counted from one. *)
LowestFreeSlotFromOne ==
  CHOOSE s \in 1 .. MaxSlots : \A j \in Range(active) : seq[j].slot # s

LowestFreeSlot == CHOOSE s \in FreeSlots : \A t \in FreeSlots : s <= t

Live(i) == ~seq[active[i]].finished
IsSenior(i) == Live(i) /\ \A k \in 1 .. i - 1 : ~Live(k)
Current == active[cursor]

(* Mutant: a lane is left behind when its sequence leaves.                 *)
Kept(j) == lane

(* The decoder drops the cache of the slot j leaves.                       *)
Released(j) == [lane EXCEPT ![seq[j].slot] = 0]

Tell(j, event) == sent' = [sent EXCEPT ![j] = Append(@, event)]

(* Borrowing the decoder loads the model lazily. A borrow fails when the   *)
(* server has no instance to lend, and with the instance go its caches; a  *)
(* server that lost them does not reload under the sequences of this turn. *)
Borrow == (loaded \/ active = <<>>) /\ loaded' = TRUE
BorrowFails == "decoder" \in Env /\ loaded' = FALSE /\ lane' = EmptyLanes

-------------------------------------------------------------------------------
(* Clients: they submit, cancel and send lifecycle commands at any time.   *)
(* Bounds: MaxChannel commands waiting, at most one lifecycle command      *)
(* among them.                                                             *)

Send(command) ==
  /\ phase \notin {"Dead", "Stopped"}
  /\ Len(channel) < MaxChannel
  /\ channel' = Append(channel, command)

Submit(j) ==
  /\ j \notin submitted
  /\ Send([op |-> "Submit", job |-> j])
  /\ submitted' = submitted \cup {j}
  /\ UNCHANGED <<signalled, queue, active, resume, seq, loaded, lane, sent, phase, cursor, budget>>

Control(op) ==
  /\ op \in Env
  /\ \A i \in 1 .. Len(channel) : channel[i].op \notin Controls
  /\ Send([op |-> op])
  /\ UNCHANGED <<submitted, signalled, queue, active, resume, seq, loaded, lane, sent, phase,
                 cursor, budget>>

Cancel(j) ==
  /\ "cancel" \in Env
  /\ j \in submitted \ signalled
  /\ signalled' = signalled \cup {j}
  /\ UNCHANGED <<channel, submitted, queue, active, resume, seq, loaded, lane, sent, phase,
                 cursor, budget>>

-------------------------------------------------------------------------------
(* Poll: block only when there is nothing to run, then drain the channel.  *)

(* Mutant: a queued job does not count as work.                            *)
IdleWhileQueued == active = <<>> /\ (resume = <<>> \/ MaxSlots = 0)

Idle == active = <<>> /\ ((queue = <<>> /\ resume = <<>>) \/ MaxSlots = 0)

Receive(op) ==
  /\ phase = "Poll"
  /\ channel # <<>>
  /\ Head(channel).op = op
  /\ channel' = Tail(channel)

TakeSubmit ==
  /\ Receive("Submit")
  /\ queue' = Append(queue, Head(channel).job)
  /\ UNCHANGED <<submitted, signalled, active, resume, seq, loaded, lane, sent, phase, cursor,
                 budget>>

TakeLoad ==
  /\ Receive("Load")
  /\ loaded' = TRUE
  /\ UNCHANGED <<submitted, signalled, queue, active, resume, seq, lane, sent, phase, cursor,
                 budget>>

(* Mutant: only the queue counts as work in flight.                        *)
QueueDrained == queue = <<>>

(* Refused with Busy, without effect, while work is in flight.             *)
Drained == active = <<>> /\ queue = <<>>

TakeUnload ==
  /\ Receive("Unload")
  /\ loaded' = (loaded /\ ~Drained)
  /\ lane' = IF Drained THEN EmptyLanes ELSE lane
  /\ UNCHANGED <<submitted, signalled, queue, active, resume, seq, sent, phase, cursor, budget>>

TakeClearState ==
  /\ Receive("ClearState")
  /\ lane' = IF Drained THEN EmptyLanes ELSE lane
  /\ UNCHANGED <<submitted, signalled, queue, active, resume, seq, loaded, sent, phase, cursor,
                 budget>>

EndPoll ==
  /\ phase = "Poll" /\ channel = <<>> /\ ~Idle
  /\ phase' = "Resume"
  /\ UNCHANGED <<clientVars, queue, active, resume, seq, loaded, lane, sent, cursor, budget>>

(* Ship already answered j with its failure: the emission thread no longer *)
(* has it.                                                                 *)
FailureShipped(j) == sent[j] # <<>> /\ Last(sent[j]) = "Error"

(* Mutant: commands still in the channel and queued jobs are forgotten.    *)
WaitingAdmitted == {j \in Range(active) : ~FailureShipped(j)} \cup Range(resume)

(* Every way out of the thread drops the server, the receiver and the      *)
(* emission sender: whoever still waits is answered WorkerDied, by the     *)
(* worker (queued jobs), by the emission thread (admitted ones) or by the  *)
(* disconnect (jobs still in the channel).                                 *)
Waiting ==
  {channel[i].job : i \in {k \in 1 .. Len(channel) : channel[k].op = "Submit"}}
    \cup Range(queue) \cup Range(resume)
    \cup {j \in Range(active) : ~FailureShipped(j)}

Exit(last) ==
  /\ sent' = [j \in Jobs |-> IF j \in Waiting THEN Append(sent[j], "WorkerDied") ELSE sent[j]]
  /\ seq' = [j \in Jobs |-> Blank]
  /\ channel' = <<>> /\ queue' = <<>> /\ active' = <<>> /\ resume' = <<>>
  /\ loaded' = FALSE /\ lane' = EmptyLanes
  /\ phase' = last /\ cursor' = 1 /\ budget' = Unbounded
  /\ UNCHANGED <<submitted, signalled>>

TakeShutdown ==
  /\ phase = "Poll" /\ channel # <<>> /\ Head(channel).op = "Shutdown"
  /\ Exit("Stopped")

(* Model code panics while the turn calls it (the load behind a borrow, a  *)
(* forward, the detokenizer); the boundary in spawn catches it.            *)
Panic ==
  /\ "panic" \in Env /\ phase \notin {"Poll", "Dead", "Stopped"}
  /\ Exit("Dead")

(* The next request finds the handle finished and starts a fresh worker.   *)
Respawn ==
  /\ phase = "Dead"
  /\ phase' = "Poll"
  /\ UNCHANGED <<clientVars, queue, active, resume, seq, loaded, lane, sent, cursor, budget>>

-------------------------------------------------------------------------------
(* Admission: evicted sequences first, then the queue.                     *)

Fits(j) == Guaranteed(j) <= Slack

Resumable == resume # <<>> /\ Len(active) < MaxSlots

ResumeStops ==
  /\ phase = "Resume"
  /\ \/ /\ ~Resumable
        /\ UNCHANGED <<loaded, lane>>
     \/ /\ Resumable
        /\ BorrowFails
     \/ /\ Resumable
        /\ Borrow
        /\ ~Fits(Last(resume))
        /\ UNCHANGED lane
  /\ phase' = "Admit"
  /\ UNCHANGED <<clientVars, queue, active, resume, seq, sent, cursor, budget>>

(* Mutant: a resumed sequence starts counting its tokens again.            *)
EnteringAnew(j) == [Blank EXCEPT !.slot = LowestFreeSlot, !.resv = Guaranteed(j)]

Entering(j) ==
  [Blank EXCEPT !.slot = LowestFreeSlot, !.generated = seq[j].generated,
                !.resv = Guaranteed(j)]

(* Put j into the lowest free slot, whose decoder lane is released first.  *)
Enter(j) ==
  /\ Borrow
  /\ seq' = [seq EXCEPT ![j] = Entering(j)]
  /\ lane' = [lane EXCEPT ![LowestFreeSlot] = 0]
  /\ active' = Append(active, j)

ResumeOne ==
  /\ phase = "Resume" /\ Resumable
  /\ Fits(Last(resume))
  /\ Enter(Last(resume))
  /\ resume' = Front(resume)
  /\ UNCHANGED <<clientVars, queue, sent, phase, cursor, budget>>

Admissible == phase = "Admit" /\ queue # <<>> /\ Len(active) < MaxSlots

(* Answer the front job without admitting it.                              *)
Reject(reply) ==
  /\ Tell(Head(queue), reply)
  /\ queue' = Tail(queue)
  /\ UNCHANGED <<clientVars, active, resume, seq, phase, cursor, budget>>

RejectCancelled ==
  /\ Admissible
  /\ Head(queue) \in signalled
  /\ Reject("CancelledInQueue")
  /\ UNCHANGED <<loaded, lane>>

RejectFailed ==
  /\ Admissible
  /\ Head(queue) \notin signalled
  /\ \/ BorrowFails
     \/ "tokenize" \in Env /\ Borrow /\ UNCHANGED lane
  /\ Reject("Error")

(* Its worst case exceeds the whole pool: KvPoolExhausted.                 *)
RejectTooLarge ==
  /\ Admissible
  /\ Head(queue) \notin signalled
  /\ Borrow
  /\ Worst(Head(queue)) > TotalBlocks
  /\ Reject("Error")
  /\ UNCHANGED lane

AdmitOne ==
  /\ Admissible
  /\ Head(queue) \notin signalled
  /\ Worst(Head(queue)) <= TotalBlocks
  /\ Fits(Head(queue))
  /\ Enter(Head(queue))
  /\ queue' = Tail(queue)
  /\ Tell(Head(queue), "Admitted")
  /\ UNCHANGED <<clientVars, resume, phase, cursor, budget>>

(* No slot, no job, or a front job that must wait for blocks.              *)
AdmitStops ==
  /\ phase = "Admit"
  /\ \/ ~Admissible /\ UNCHANGED loaded
     \/ /\ Admissible
        /\ Head(queue) \notin signalled
        /\ Borrow
        /\ Worst(Head(queue)) <= TotalBlocks
        /\ ~Fits(Head(queue))
  /\ phase' = "Sweep"
  /\ UNCHANGED <<clientVars, queue, active, resume, seq, lane, sent, cursor, budget>>

-------------------------------------------------------------------------------
(* The round: cancellations, then the growth grants.                       *)

SweepIdle ==
  /\ phase = "Sweep" /\ active = <<>>
  /\ phase' = "Poll"
  /\ UNCHANGED <<clientVars, queue, active, resume, seq, loaded, lane, sent, cursor, budget>>

SweepCancelled ==
  /\ phase = "Sweep" /\ active # <<>>
  /\ LET left == {j \in Range(active) : j \in signalled /\ ~seq[j].finished} IN
       seq' = [j \in Jobs |-> IF j \in left
                              THEN [seq[j] EXCEPT !.finished = TRUE, !.cancelled = TRUE]
                              ELSE seq[j]]
  /\ phase' = "Senior"
  /\ UNCHANGED <<clientVars, queue, active, resume, loaded, lane, sent, cursor, budget>>

(* Nothing to grant: no decoder this round, or a budget that never binds.  *)
GrantSkipped ==
  /\ phase = "Senior"
  /\ \/ BorrowFails
     \/ TotalBlocks = UsizeMax /\ Borrow /\ UNCHANGED lane
  /\ phase' = "Round"
  /\ UNCHANGED <<clientVars, queue, active, resume, seq, sent, cursor, budget>>

(* Mutant: the top-up ignores the pool's slack.                            *)
TopUpInFull(j) == Worst(j) - seq[j].resv

(* The oldest live sequence takes what it lacks of its worst case, as far  *)
(* as the pool's slack goes.                                               *)
TopUp(j) == Smaller(Worst(j) - seq[j].resv, Slack)

TopUpSenior ==
  /\ phase = "Senior" /\ TotalBlocks # UsizeMax
  /\ Borrow
  /\ seq' = [j \in Jobs |->
               IF \E i \in 1 .. Len(active) : active[i] = j /\ IsSenior(i) /\ Worst(j) > seq[j].resv
               THEN [seq[j] EXCEPT !.resv = @ + TopUp(j)]
               ELSE seq[j]]
  /\ phase' = "Grow" /\ cursor' = 1
  /\ UNCHANGED <<clientVars, queue, active, resume, lane, sent, budget>>

Growing == phase = "Grow" /\ cursor <= Len(active)
Need(j) == BlocksFor(Smaller(Tokens(j), Ctx))
Short(j) == Need(j) > seq[j].resv
Growable(j) == Need(j) - seq[j].resv <= Slack

(* Mutants: the search may land on the senior, or misses its neighbour.    *)
IsYoungest(v) == Live(v) /\ \A k \in v + 1 .. Len(active) : ~Live(k)
IsFarVictim(v) == v > cursor + 1 /\ IsYoungest(v)

(* The youngest live sequence behind the senior at the cursor.             *)
IsVictim(v) == v > cursor /\ Live(v) /\ \A k \in v + 1 .. Len(active) : ~Live(k)
HasVictim == \E v \in 1 .. Len(active) : IsVictim(v)

GrowNext ==
  /\ cursor' = cursor + 1
  /\ UNCHANGED <<clientVars, queue, active, resume, loaded, lane, sent, phase, budget>>

GrowFinished ==
  /\ Growing /\ ~Live(cursor)
  /\ GrowNext
  /\ UNCHANGED seq

Unpaused(j) == [seq EXCEPT ![j].paused = FALSE]

GrowWithin ==
  /\ Growing /\ Live(cursor) /\ ~Short(Current)
  /\ seq' = Unpaused(Current)
  /\ GrowNext

GrowGranted ==
  /\ Growing /\ Live(cursor) /\ Short(Current) /\ Growable(Current)
  /\ seq' = [seq EXCEPT ![Current].resv = Need(Current), ![Current].paused = FALSE]
  /\ GrowNext

(* The senior cannot grow: the youngest gives up its lane and its blocks.  *)
GrowEvicts ==
  /\ Growing /\ IsSenior(cursor) /\ Short(Current) /\ ~Growable(Current)
  /\ \E v \in 1 .. Len(active) :
       /\ IsVictim(v)
       /\ active' = RemoveAt(active, v)
       /\ resume' = Append(resume, active[v])
       /\ lane' = Released(active[v])
       /\ seq' = [seq EXCEPT ![active[v]] = [Blank EXCEPT !.generated = seq[active[v]].generated]]
  /\ UNCHANGED <<clientVars, queue, loaded, sent, phase, cursor, budget>>

(* Mutant: the sequence that cannot grow runs all the same.                *)
LeftRunning(j) == seq

Paused(j) == [seq EXCEPT ![j].paused = TRUE]

(* A junior that cannot grow sits the round out, and so does a senior with *)
(* nobody behind it to evict.                                              *)
GrowPauses ==
  /\ Growing /\ Live(cursor) /\ Short(Current) /\ ~Growable(Current)
  /\ ~(IsSenior(cursor) /\ HasVictim)
  /\ seq' = Paused(Current)
  /\ GrowNext

GrowEnds ==
  /\ phase = "Grow" /\ cursor > Len(active)
  /\ phase' = "Round" /\ cursor' = 1
  /\ UNCHANGED <<clientVars, queue, active, resume, seq, loaded, lane, sent, budget>>

-------------------------------------------------------------------------------
(* step_round: classification, prefills, the fused decode.                 *)

(* The decoder cannot be borrowed: every sequence is answered the error.   *)
RoundFails ==
  /\ phase = "Round"
  /\ BorrowFails
  /\ sent' = [j \in Jobs |-> IF j \in Range(active) THEN Append(sent[j], "Error") ELSE sent[j]]
  /\ seq' = [j \in Jobs |-> IF j \in Range(active) THEN Blank ELSE seq[j]]
  /\ active' = <<>>
  /\ phase' = "Poll"
  /\ UNCHANGED <<clientVars, queue, resume, cursor, budget>>

Unprocessed(j) == Tokens(j) - seq[j].processed

Decoding(j) ==
  /\ ~seq[j].finished
  /\ seq[j].generated < MaxGen(j)
  /\ seq[j].processed > 0
  /\ Unprocessed(j) = 1

(* Nothing to run: the token cap is spent or there is no input.            *)
NoOp(j) == seq[j].generated >= MaxGen(j) \/ seq[j].processed >= Tokens(j)

(* Mutant: nobody looks at the context window.                             *)
ClassifiedUnbounded(j) ==
  IF seq[j].finished \/ seq[j].paused THEN [seq[j] EXCEPT !.out = "Skipped"]
  ELSE IF NoOp(j) THEN [seq[j] EXCEPT !.out = "Skipped", !.finished = TRUE]
  ELSE [seq[j] EXCEPT !.out = IF Unprocessed(j) > 1 THEN "Prefill" ELSE "Decode"]

Classified(j) ==
  IF seq[j].finished \/ seq[j].paused THEN [seq[j] EXCEPT !.out = "Skipped"]
  ELSE IF NoOp(j) THEN [seq[j] EXCEPT !.out = "Skipped", !.finished = TRUE]
  ELSE IF Tokens(j) > Ctx THEN [seq[j] EXCEPT !.out = "Failed", !.finished = TRUE]
  ELSE [seq[j] EXCEPT !.out = IF Unprocessed(j) > 1 THEN "Prefill" ELSE "Decode"]

BeginRound ==
  /\ phase = "Round"
  /\ Borrow
  /\ budget' = IF TokenBudget > 0 /\ \E j \in Range(active) : Decoding(j)
               THEN TokenBudget ELSE Unbounded
  /\ seq' = [j \in Jobs |-> IF j \in Range(active) THEN Classified(j) ELSE seq[j]]
  /\ phase' = "Prefill" /\ cursor' = 1
  /\ UNCHANGED <<clientVars, queue, active, resume, lane, sent>>

Prefilling == phase = "Prefill" /\ cursor <= Len(active)

Pending == Prefilling /\ seq[Current].out = "Prefill"

Wanted(j) == IF ChunkSize = 0 THEN Unprocessed(j) ELSE Smaller(ChunkSize, Unprocessed(j))

(* Mutant: a prompt that does not fit the budget whole is passed over.     *)
GrantWhole(j) == IF budget = Unbounded \/ Wanted(j) <= budget THEN Wanted(j) ELSE 0

Grant(j) == IF budget = Unbounded THEN Wanted(j) ELSE Smaller(budget, Wanted(j))

(* One sampled token appended; whether it is a stop id is the sampler's    *)
(* choice.                                                                 *)
Advanced(j, stop) ==
  [seq[j] EXCEPT !.processed = Tokens(j), !.generated = @ + 1,
                 !.finished = stop \/ seq[j].generated + 1 >= MaxGen(j),
                 !.out = IF stop THEN "Stopped" ELSE "Stepped"]

(* Mutant: the failure is reported but the sequence is not retired.        *)
FailedButKept(j) == [seq[j] EXCEPT !.out = "Failed"]

Failed(j) == [seq[j] EXCEPT !.finished = TRUE, !.out = "Failed"]

StopChoices == IF "stop" \in Env THEN BOOLEAN ELSE {FALSE}

SpendBudget == budget' = IF budget = Unbounded THEN Unbounded ELSE budget - Grant(Current)

PrefillNext ==
  /\ cursor' = cursor + 1
  /\ UNCHANGED <<clientVars, queue, active, resume, loaded, sent, phase>>

PrefillSkips ==
  /\ Prefilling /\ ~Pending
  /\ PrefillNext
  /\ UNCHANGED <<seq, lane, budget>>

(* The round's budget is spent: the prompt waits, untouched.               *)
PrefillDefers ==
  /\ Pending /\ Grant(Current) = 0
  /\ seq' = [seq EXCEPT ![Current].out = "Skipped"]
  /\ PrefillNext
  /\ UNCHANGED <<lane, budget>>

PrefillChunk ==
  /\ Pending /\ Grant(Current) \in 1 .. Unprocessed(Current) - 1
  /\ lane' = [lane EXCEPT ![seq[Current].slot] = seq[Current].processed + Grant(Current)]
  /\ seq' = [seq EXCEPT ![Current].processed = @ + Grant(Current),
                        ![Current].out = "Prefilling"]
  /\ SpendBudget
  /\ PrefillNext

(* The chunk that reaches the end of the tokens samples.                   *)
PrefillLast ==
  /\ Pending /\ Grant(Current) = Unprocessed(Current)
  /\ lane' = [lane EXCEPT ![seq[Current].slot] = Tokens(Current)]
  /\ \E stop \in StopChoices : seq' = [seq EXCEPT ![Current] = Advanced(Current, stop)]
  /\ SpendBudget
  /\ PrefillNext

(* The forward fails before the lane moved, or the sampler fails after.    *)
PrefillFails ==
  /\ "forward" \in Env
  /\ Pending /\ Grant(Current) > 0
  /\ \/ UNCHANGED lane
     \/ lane' = [lane EXCEPT ![seq[Current].slot] = seq[Current].processed + Grant(Current)]
  /\ seq' = [seq EXCEPT ![Current] = Failed(Current)]
  /\ SpendBudget
  /\ PrefillNext

PrefillEnds ==
  /\ phase = "Prefill" /\ cursor > Len(active)
  /\ phase' = "Decode" /\ cursor' = 1 /\ budget' = Unbounded
  /\ UNCHANGED <<clientVars, queue, active, resume, seq, loaded, lane, sent>>

Rows == {j \in Range(active) : seq[j].out = "Decode"}

LanesAdvanced ==
  [s \in Slots |-> IF \E j \in Rows : seq[j].slot = s THEN lane[s] + 1 ELSE lane[s]]

DecodeRows ==
  /\ phase = "Decode"
  /\ \E stops \in (IF "stop" \in Env THEN SUBSET Rows ELSE {{}}) :
       seq' = [j \in Jobs |-> IF j \in Rows THEN Advanced(j, j \in stops) ELSE seq[j]]
  /\ lane' = LanesAdvanced
  /\ phase' = "Ship"
  /\ UNCHANGED <<clientVars, queue, active, resume, loaded, sent, cursor, budget>>

(* All or nothing: an error retires every row of the fused call.           *)
DecodeFails ==
  /\ "forward" \in Env
  /\ phase = "Decode" /\ Rows # {}
  /\ seq' = [j \in Jobs |-> IF j \in Rows THEN Failed(j) ELSE seq[j]]
  /\ lane' \in {lane, LanesAdvanced}
  /\ phase' = "Ship"
  /\ UNCHANGED <<clientVars, queue, active, resume, loaded, sent, cursor, budget>>

-------------------------------------------------------------------------------
(* Delivery to the emission thread and retirement.                         *)

(* A failure is answered at once; a stop token is not streamed.            *)
Ship ==
  /\ phase = "Ship"
  /\ LET with(out) == {j \in Range(active) : seq[j].out = out} IN
     /\ sent' = [j \in Jobs |-> CASE j \in with("Failed") -> Append(sent[j], "Error")
                                  [] j \in with("Stepped") -> Append(sent[j], "Token")
                                  [] OTHER -> sent[j]]
     /\ seq' = [j \in Jobs |-> IF j \in Range(active)
                               THEN [seq[j] EXCEPT !.stopped = @ \/ seq[j].out = "Stopped",
                                                   !.out = "Skipped"]
                               ELSE seq[j]]
  /\ phase' = "Retire" /\ cursor' = 1
  /\ UNCHANGED <<clientVars, queue, active, resume, loaded, lane, budget>>

(* Mutant: the cap is looked at before the stop token.                     *)
ReasonByCap(j) ==
  IF seq[j].cancelled THEN "Cancelled"
  ELSE IF seq[j].generated >= MaxGen(j) THEN "Length" ELSE "Stop"

Reason(j) ==
  CASE seq[j].cancelled -> "Cancelled"
    [] ~seq[j].cancelled /\ seq[j].stopped -> "Stop"
    [] ~seq[j].cancelled /\ ~seq[j].stopped ->
         IF seq[j].generated >= MaxGen(j) THEN "Length" ELSE "Stop"

Retiring == phase = "Retire" /\ cursor <= Len(active)

(* A failed sequence was answered by Ship; the emission thread, which no   *)
(* longer has it, ignores this second Retire.                              *)
RetireOne ==
  /\ Retiring /\ ~Live(cursor)
  /\ Tell(Current, Reason(Current))
  /\ active' = RemoveAt(active, cursor)
  /\ lane' = Released(Current)
  /\ seq' = [seq EXCEPT ![Current] = Blank]
  /\ UNCHANGED <<clientVars, queue, resume, loaded, phase, cursor, budget>>

RetireKeeps ==
  /\ Retiring /\ Live(cursor)
  /\ cursor' = cursor + 1
  /\ UNCHANGED <<clientVars, queue, active, resume, seq, loaded, lane, sent, phase, budget>>

RetireEnds ==
  /\ phase = "Retire" /\ cursor > Len(active)
  /\ phase' = "Poll" /\ cursor' = 1
  /\ UNCHANGED <<clientVars, queue, active, resume, seq, loaded, lane, sent, budget>>

-------------------------------------------------------------------------------
Client ==
  \/ \E j \in Jobs : Submit(j)
  \/ \E j \in Jobs : Cancel(j)
  \/ \E op \in Controls : Control(op)

Poll == TakeSubmit \/ TakeLoad \/ TakeUnload \/ TakeClearState \/ TakeShutdown \/ EndPoll

Admit ==
  \/ ResumeStops \/ ResumeOne
  \/ RejectCancelled \/ RejectFailed \/ RejectTooLarge \/ AdmitOne \/ AdmitStops

GrantGrowth ==
  \/ SweepIdle \/ SweepCancelled \/ GrantSkipped \/ TopUpSenior
  \/ GrowFinished \/ GrowWithin \/ GrowGranted \/ GrowEvicts \/ GrowPauses \/ GrowEnds

StepRound ==
  \/ RoundFails \/ BeginRound
  \/ PrefillSkips \/ PrefillDefers \/ PrefillChunk \/ PrefillLast \/ PrefillFails \/ PrefillEnds
  \/ DecodeRows \/ DecodeFails

Deliver == Ship \/ RetireOne \/ RetireKeeps \/ RetireEnds

Worker == Poll \/ Admit \/ GrantGrowth \/ StepRound \/ Deliver

Next == Client \/ Worker \/ Panic \/ Respawn

Spec == Init /\ [][Next]_vars

(* The worker thread keeps running; clients owe nothing.                   *)
FairSpec == Spec /\ WF_vars(Worker)
===============================================================================
