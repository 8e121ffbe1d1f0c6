--------------------------- MODULE WorkerProperties ---------------------------
(***************************************************************************)
(* What the batching worker must guarantee, whatever clients and the model *)
(* do.                                                                     *)
(***************************************************************************)
EXTENDS BatchWorker

(* Types, and the bounds the arithmetic of the round relies on.            *)
TypeOK ==
  /\ channel \in Seq(Commands)
  /\ submitted \subseteq Jobs /\ signalled \subseteq Jobs
  /\ queue \in Seq(Jobs) /\ active \in Seq(Jobs) /\ resume \in Seq(Jobs)
  /\ seq \in [Jobs -> SeqStates]
  /\ loaded \in BOOLEAN
  /\ lane \in [Slots -> Nat]
  /\ sent \in [Jobs -> Seq(Events)]
  /\ phase \in Phases
  /\ cursor \in Nat \ {0}
  /\ budget \in Nat \cup {Unbounded}

-------------------------------------------------------------------------------
(* Memory: what is promised exists, and what is used was promised.         *)

(* The reservations of the active set never exceed the pool. grant_kv_growth *)
(* subtracts without saturating, so an overdraft would underflow there.    *)
ReservationsFit == Reserved <= TotalBlocks

(* Whatever the worker asks of its decoder stays within the ledger the KV  *)
(* cache implements: rounds that fit, lanes that never pass the window.    *)
Ledger == INSTANCE KvLedger WITH Lanes <- Slots, len <- lane
ImplementsLedger == Ledger!Spec

(* A lane belongs to one sequence and holds exactly the tokens it has      *)
(* processed, as LlamaDecoder::prefill asserts; a lane nobody owns is      *)
(* empty, so no prompt can attend to another's cache.                      *)
FailedNow(j) == seq[j].out = "Failed" \/ (seq[j].finished /\ phase = "Retire")
LaneLockstep ==
  /\ \A s \in Slots : lane[s] # 0 => \E j \in Range(active) : seq[j].slot = s
  /\ loaded => \A j \in Range(active) :
       /\ seq[j].slot \in Slots
       /\ ~FailedNow(j) => lane[seq[j].slot] = seq[j].processed
       /\ \A k \in Range(active) : seq[k].slot = seq[j].slot => k = j

(* A sequence about to run is covered: its lane after this round's forward *)
(* stays inside its own reservation, so no sequence lives on the blocks of *)
(* another; and the lanes together never hold more blocks than the pool    *)
(* has, with every stale lane counted: "pool exhaustion is unreachable for *)
(* live sequences" (batching.rs, ActiveSeq::kv_reservation).               *)
Occupied == UNION {{s} \X (1 .. BlocksFor(lane[s])) : s \in Slots}
RunnersCovered ==
  /\ Cardinality(Occupied) <= TotalBlocks
  /\ \A j \in Range(active) :
       seq[j].out \in {"Prefill", "Decode"} /\ TotalBlocks # UsizeMax
         => BlocksFor(Tokens(j)) <= seq[j].resv

(* The branch grant_kv_growth calls unreachable: the oldest live sequence  *)
(* is uncovered and nobody behind it can be evicted (worker.rs:603-613).   *)
SeniorStuck ==
  Growing /\ IsSenior(cursor) /\ Short(Current) /\ ~Growable(Current) /\ ~HasVictim

(* It is reached only while a sequence cancelled in this very round still  *)
(* holds its blocks, that is for one round.                                *)
CancelledLeaving == \E j \in Range(active) : seq[j].cancelled
StuckOnlyByCancel == SeniorStuck => CancelledLeaving

(* The oldest sequence advances in every other round, however short the    *)
(* pool and the prefill budget are: that is what frees blocks for the rest. *)
OldestAdvances ==
  StuckOnlyByCancel /\
  (phase = "Ship" /\ ~CancelledLeaving =>
    \A j \in {active[i] : i \in 1 .. Smaller(1, Len(active))} :
      seq[j].finished \/ seq[j].out # "Skipped")

(* The prefill budget is spent oldest first: while an older prompt waits   *)
(* untouched no younger one is pushed, so no prompt is starved by a later  *)
(* arrival (batching.rs, PrefillBudget::admit_prefill).                    *)
Deferred(j) == seq[j].out = "Skipped" /\ ~seq[j].finished /\ ~seq[j].paused
PromptsInOrder ==
  phase = "Decode" =>
    \A k \in 1 .. Len(active) : \A i \in 1 .. k - 1 :
      seq[active[k]].out \in {"Prefilling", "Stepped", "Stopped"} => ~Deferred(active[i])

-------------------------------------------------------------------------------
(* Requests: none lost, none answered twice, the stream seamless.          *)

Positions(s, j) == {i \in 1 .. Len(s) : s[i] = j}
InChannel(j) == {i \in 1 .. Len(channel) : channel[i] = [op |-> "Submit", job |-> j]}
Held(j) ==
  Cardinality(InChannel(j)) + Cardinality(Positions(queue, j))
    + Cardinality(Positions(active, j)) + Cardinality(Positions(resume, j))
Answered(j) == \E i \in 1 .. Len(sent[j]) : sent[j][i] \in Replies

(* A submitted request is in exactly one place until it is answered, and   *)
(* nowhere after; only a failed sequence waits, answered, for this round's *)
(* retire sweep.                                                           *)
NobodyLost ==
  \A j \in Jobs :
    /\ j \notin submitted => Held(j) = 0 /\ sent[j] = <<>>
    /\ j \in submitted /\ ~Answered(j) => Held(j) = 1
    /\ Answered(j) => \/ Held(j) = 0
                      \/ /\ Held(j) = 1 /\ phase = "Retire"
                         /\ j \in Range(active) /\ seq[j].finished

(* A request hears Admitted, its tokens, then one reply; only a sequence   *)
(* answered with its failure has a second, ignored, retirement after it,   *)
(* and no token ever follows. The emission thread is built on this.        *)
Heard(e) ==
  CASE e \in OkReplies -> "Done" [] e = "CancelledInQueue" -> "Error" [] OTHER -> e
Port == INSTANCE WorkerPort WITH
  told <- [j \in Jobs |-> [i \in DOMAIN sent[j] |-> Heard(sent[j][i])]]
KeepsPort == Port!PortSpec

Streamed(j) == Cardinality({i \in 1 .. Len(sent[j]) : sent[j][i] = "Token"})

(* Every generated token but a stop token is streamed, once: an eviction   *)
(* and the re-prefill after it repeat nothing and drop nothing.            *)
StreamSeamless ==
  \A j \in Range(active) \cup Range(resume) :
    seq[j].generated = Streamed(j)
      + (IF seq[j].out \in {"Stepped", "Stopped"} THEN 1 ELSE 0)
      + (IF seq[j].stopped THEN 1 ELSE 0)

(* "Length" is reported exactly to the request that received its whole     *)
(* token cap, "Cancelled" only to one whose caller cancelled it.           *)
ReasonHonest ==
  \A j \in Jobs : Answered(j) /\ Len(sent[j]) > 1 =>
    LET last == sent[j][Len(sent[j])]
        failed == sent[j][Len(sent[j]) - 1] = "Error" IN
    /\ last = "Length" => failed \/ Streamed(j) = MaxGen(j)
    /\ last = "Stop" => failed \/ Streamed(j) < MaxGen(j)
    /\ last = "Cancelled" => j \in signalled

-------------------------------------------------------------------------------
(* Steps.                                                                  *)

Leaves(j) == j \in Range(active) /\ j \notin Range(active')

(* The oldest live sequence is never the one evicted.                      *)
SeniorNeverEvicted ==
  [][\A i \in 1 .. Len(active) :
       Leaves(active[i]) /\ active[i] \in Range(resume') => Live(i) /\ ~IsSenior(i)]_vars

(* An unload takes the model only when nothing is in flight.               *)
UnloadOnlyWhenDrained ==
  [][loaded /\ ~loaded' /\ phase' \notin {"Dead", "Stopped"}
       => active = <<>> /\ queue = <<>> /\ resume = <<>>]_vars

-------------------------------------------------------------------------------
(* Every submitted request is eventually answered.                         *)
EveryoneAnswered == \A j \in Jobs : j \in submitted ~> Answered(j)
===============================================================================
