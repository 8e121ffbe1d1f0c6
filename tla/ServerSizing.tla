----------------------------- MODULE ServerSizing ------------------------------
(***************************************************************************)
(* A model server and the cache it is given at load. The configuration may *)
(* be parsed anew at any command, while the lanes and the pool are those   *)
(* of the load; the engine asks the server's batch_capacity again in every *)
(* turn and hands out slots and blocks on its word. Lengths are counted in *)
(* tokens, and a sequence is what its lane holds.                          *)
(***************************************************************************)
EXTENDS Integers, FiniteSets

CONSTANTS DefaultBlock,   \* DEFAULT_BLOCK_SIZE
          TinyWindow, ShortWindow, WideWindow,    \* context lengths: 2K, 8K and 128K
          Configs,        \* the configurations that may be parsed
          DefaultConfig,  \* that of a fresh server
          Environments,   \* the BURN_LM_* variables that parse, with their values
          Requests        \* prompt lengths, each with the cap asked for, if any

(* The fields a load, or the admission of a request, depends on.           *)
Llama3ServerConfig ==
  [maxSeqLen : Nat, maxSlots : Nat, poolTokens : Nat, sampleLen : Nat]

ASSUME SizingAssumption ==
  /\ DefaultBlock \in Nat \ {0}
  /\ TinyWindow \in Nat /\ ShortWindow \in Nat /\ WideWindow \in Nat
  /\ Configs \subseteq Llama3ServerConfig /\ DefaultConfig \in Llama3ServerConfig
  /\ \A e \in Environments : \A v \in DOMAIN e : e[v] \in Nat
  /\ Requests \subseteq [prompt : Nat, maxTokens : SUBSET Nat]

VARIABLES
  server,       \* which server this is
  env,          \* the environment of the process
  reserve,      \* whether BURN_LM_KV_ADMISSION asks for worst-case admission
  config,       \* the configuration last parsed
  model,        \* the model loaded, as a set of at most one
  sequences,         \* by slot, the sequences being generated
  poisoned      \* whether a call has panicked under the server's mutex

sizingVars == <<server, env, reserve, config, model, sequences, poisoned>>

Lesser(m, n) == IF m <= n THEN m ELSE n
CeilDiv(m, n) == (m + n - 1) \div n

-------------------------------------------------------------------------------
(* The loaders. Each is the set of the models it may return, empty when it *)
(* panics.                                                                 *)

CheckContextLength(seqLen, window) == seqLen <= window

NewCache(seqLen, slots, block, blocks) ==
  {m \in {[window |-> seqLen, lanes |-> slots, block |-> block, blocks |-> blocks]} :
     m.block \in 1 .. seqLen /\ m.blocks >= 1}

WindowPerLane(seqLen, slots, block) ==
  NewCache(seqLen, slots, block, CeilDiv(slots * seqLen, block))

(* A window of no tokens has blocks of none, and their number is a         *)
(* division by zero.                                                       *)
InitLlama(seqLen, slots, pool) ==
  LET block == Lesser(DefaultBlock, seqLen) IN
  IF block = 0 THEN {}
  ELSE IF pool > 0 THEN NewCache(seqLen, slots, block, CeilDiv(pool, block))
  ELSE WindowPerLane(seqLen, slots, block)

LoadLlama(seqLen, slots, pool) == InitLlama(seqLen, slots, pool)

Llama3_8bPretrained(seqLen, slots, pool) ==
  IF CheckContextLength(seqLen, ShortWindow) THEN LoadLlama(seqLen, slots, pool) ELSE {}

Llama3_1_8bPretrained(seqLen, slots, pool) ==
  IF CheckContextLength(seqLen, WideWindow) THEN LoadLlama(seqLen, slots, pool) ELSE {}

Llama3_2_3bPretrained(seqLen, slots, pool) ==
  IF CheckContextLength(seqLen, WideWindow) THEN LoadLlama(seqLen, slots, pool) ELSE {}

Llama3_2_1bPretrained(seqLen, slots, pool) ==
  IF CheckContextLength(seqLen, WideWindow) THEN LoadLlama(seqLen, slots, pool) ELSE {}

(* The quantized model is never batched: one lane, and a window for it.    *)
Llama3_2_1bPretrainedQ4(seqLen) ==
  IF CheckContextLength(seqLen, WideWindow) THEN LoadLlama(seqLen, 1, 0) ELSE {}

(* max_batch_size and kv_pool_tokens keep their defaults.                  *)
TinyLlamaPretrained(seqLen) ==
  IF CheckContextLength(seqLen, TinyWindow) THEN InitLlama(seqLen, 1, 0) ELSE {}

-------------------------------------------------------------------------------
(* The servers: the llamas of the batching channel, and those behind the   *)
(* mutex of the default one.                                               *)

(* A server is the channel it is registered with and the version its load  *)
(* builds; the rest it hands on to Llama3BaseServer.                       *)
Llama3InstructServer == [channel |-> "Batching", version |-> "Llama3"]
Llama31InstructServer == [channel |-> "Batching", version |-> "Llama31"]
Llama321bInstructServer == [channel |-> "Batching", version |-> "Llama321b"]
Llama323bInstructServer == [channel |-> "Batching", version |-> "Llama323b"]
Llama321bInstructQ4Server == [channel |-> "Mutex", version |-> "Llama321bQ4"]
TinyLlamaServer == [channel |-> "Mutex", version |-> "Tiny"]

Servers == {Llama3InstructServer, Llama31InstructServer, Llama321bInstructServer,
            Llama323bInstructServer, Llama321bInstructQ4Server, TinyLlamaServer}

Batched == server.channel = "Batching"

(* A variable that is missing or does not parse leaves the configured      *)
(* value.                                                                  *)
ConfigUsize(configured, var) == IF var \in DOMAIN env THEN env[var] ELSE configured

MaxSeqLen(c) == ConfigUsize(c.maxSeqLen, "BURN_LM_MAX_SEQ_LEN")
MaxSlots(c) == ConfigUsize(c.maxSlots, "BURN_LM_MAX_SLOTS")
PoolTokens(c) == ConfigUsize(c.poolTokens, "BURN_LM_KV_POOL_TOKENS")

Llama3BaseLoad(c) ==
  LET seqLen == MaxSeqLen(c)
      slots == MaxSlots(c)
      pool == PoolTokens(c)
  IN CASE server.version = "Llama3" -> Llama3_8bPretrained(seqLen, slots, pool)
       [] server.version = "Llama31" -> Llama3_1_8bPretrained(seqLen, slots, pool)
       [] server.version = "Llama323b" -> Llama3_2_3bPretrained(seqLen, slots, pool)
       [] server.version = "Llama321b" -> Llama3_2_1bPretrained(seqLen, slots, pool)
       [] server.version = "Llama321bQ4" -> Llama3_2_1bPretrainedQ4(seqLen)

(* TinyLlama reads its configuration alone.                                *)
TinyLlamaLoad(c) == TinyLlamaPretrained(c.maxSeqLen)

Built(c) == IF server.version = "Tiny" THEN TinyLlamaLoad(c) ELSE Llama3BaseLoad(c)

(* What a call that needs the model finds: the model loaded, or one built  *)
(* now.                                                                    *)
Ready(m, c) == IF m # {} THEN m ELSE Built(c)

LoadedLaneCount(m) == {l.lanes : l \in m}
LoadedKvBudget(m) == {[block |-> l.block, blocks |-> l.blocks] : l \in m}

UncappedSlots(m, c) == MaxSlots(c)

(* max_slots, which a configuration parsed since the load may have raised. *)
CapacitySlots(m, c) ==
  IF m = {} THEN MaxSlots(c) ELSE Lesser(MaxSlots(c), CHOOSE n \in LoadedLaneCount(m) : TRUE)

(* Before the load, the pool the load would size. A window of no tokens    *)
(* divides by zero.                                                        *)
CapacityKv(m, c) ==
  LET block == Lesser(DefaultBlock, MaxSeqLen(c))
      tokens == IF PoolTokens(c) > 0 THEN PoolTokens(c) ELSE MaxSlots(c) * MaxSeqLen(c)
  IN IF m # {} THEN CHOOSE b \in LoadedKvBudget(m) : TRUE
     ELSE [block |-> block, blocks |-> CeilDiv(tokens, block)]

-------------------------------------------------------------------------------
(* The engine.                                                             *)

NoSequences == [s \in {} |-> 0]
Nobody == DOMAIN sequences = {}

(* The blocks handed out: numbered per slot, so that they can be counted.  *)
BlocksOf(slot, tokens, block) == {slot} \X (1 .. CeilDiv(tokens, block))
Outstanding == UNION {{s} \X (1 .. sequences[s].reserved) : s \in DOMAIN sequences}
Occupied(m) == UNION {BlocksOf(s, sequences[s].len, m.block) : s \in DOMAIN sequences}

(* A request's cap lowers the server's, and never raises it.               *)
Resolve(c, request) ==
  LET lower == {n \in request.maxTokens : n < c.sampleLen}
  IN IF lower = {} THEN c.sampleLen ELSE CHOOSE n \in lower : TRUE

FreeSlots(m) == (0 .. CapacitySlots(m, config) - 1) \ DOMAIN sequences
With(slot, seq) == [s \in DOMAIN sequences \cup {slot} |-> IF s = slot THEN seq ELSE sequences[s]]
Without(slot) == [s \in DOMAIN sequences \ {slot} |-> sequences[s]]

ParseConfig ==
  /\ \E c \in Configs : config' = c
  /\ UNCHANGED <<server, env, reserve, model, sequences, poisoned>>

(* A load on command, or by the first borrow of the decoder.               *)
LoadModel ==
  /\ model = {}
  /\ \E m \in Built(config) : model' = {m}
  /\ UNCHANGED <<server, env, reserve, config, sequences, poisoned>>

(* The engine refuses it while a sequence runs, and a mutex keeps it out.  *)
UnloadModel ==
  /\ Nobody /\ model # {}
  /\ model' = {}
  /\ UNCHANGED <<server, env, reserve, config, sequences, poisoned>>

(* A request is given a lane and blocks: its worst case, if it is alone or *)
(* under worst-case admission, else its prompt's and one token more.       *)
AdmitRequest ==
  /\ Batched
  /\ Cardinality(DOMAIN sequences) < CapacitySlots(model, config)
  /\ \E m \in Ready(model, config), request \in Requests :
       LET kv == CapacityKv({m}, config)
           limit == Lesser(request.prompt + Resolve(config, request), m.window)
           first == Lesser(request.prompt + 1, m.window)
           need == CeilDiv(limit, kv.block)
           guaranteed == IF Nobody \/ reserve THEN need ELSE CeilDiv(first, kv.block)
       IN /\ Cardinality(DOMAIN sequences) < CapacitySlots({m}, config)
          /\ need <= kv.blocks
          /\ guaranteed + Cardinality(Outstanding) <= kv.blocks
          /\ \E slot \in FreeSlots({m}) :
               /\ \A other \in FreeSlots({m}) : slot <= other
               /\ sequences' = With(slot, [len |-> 0, limit |-> limit, reserved |-> guaranteed])
          /\ model' = {m}
  /\ UNCHANGED <<server, env, reserve, config, poisoned>>

(* A sequence writes a token of its prompt or one it generated; the blocks *)
(* its reservation lacks are granted from what nobody has reserved.        *)
Advance ==
  /\ Batched
  /\ \E m \in model, s \in DOMAIN sequences :
       LET kv == CapacityKv(model, config)
           need == CeilDiv(sequences[s].len + 1, kv.block)
       IN /\ sequences[s].len < sequences[s].limit
          /\ \/ need <= sequences[s].reserved
             \/ need - sequences[s].reserved + Cardinality(Outstanding) <= kv.blocks
          /\ sequences' = [sequences EXCEPT ![s].len = @ + 1,
                        ![s].reserved = IF need <= @ THEN @ ELSE need]
  /\ UNCHANGED <<server, env, reserve, config, model, poisoned>>

(* A sequence stops, is cancelled, fails or is evicted.                    *)
Retire ==
  /\ \E s \in DOMAIN sequences : sequences' = Without(s)
  /\ UNCHANGED <<server, env, reserve, config, model, poisoned>>

(* One request at a time, from start to end, on lane 0.                    *)
RunJob ==
  /\ ~Batched /\ Nobody
  /\ \E m \in Ready(model, config), request \in Requests :
       LET limit == Lesser(request.prompt + Resolve(config, request), m.window) IN
       /\ model' = {m}
       /\ sequences' = With(0, [len |-> 0, limit |-> limit, reserved |-> 0])
  /\ UNCHANGED <<server, env, reserve, config, poisoned>>

WriteAlone ==
  /\ ~Batched
  /\ \E s \in DOMAIN sequences :
       /\ sequences[s].len < sequences[s].limit
       /\ sequences' = [sequences EXCEPT ![s].len = @ + 1]
  /\ UNCHANGED <<server, env, reserve, config, model, poisoned>>

(* A load panics on its arguments or for want of its files, and any model  *)
(* code may. The worker dies with its server, and the next command spawns  *)
(* one around a fresh server; a mutex stays poisoned.                      *)
ServerPanics ==
  /\ IF Batched
     THEN config' = DefaultConfig /\ model' = {} /\ sequences' = NoSequences /\ UNCHANGED poisoned
     ELSE poisoned' = TRUE /\ UNCHANGED <<config, model, sequences>>
  /\ UNCHANGED <<server, env, reserve>>

SizingInit ==
  /\ server \in Servers /\ env \in Environments /\ reserve \in BOOLEAN
  /\ config = DefaultConfig
  /\ model = {} /\ sequences = NoSequences /\ poisoned = FALSE

SizingNext ==
  /\ ~poisoned
  /\ \/ ParseConfig
     \/ LoadModel
     \/ UnloadModel
     \/ AdmitRequest
     \/ Advance
     \/ Retire
     \/ RunJob
     \/ WriteAlone
     \/ ServerPanics

SizingSpec == SizingInit /\ [][SizingNext]_sizingVars

-------------------------------------------------------------------------------
(* What the load sized covers what is being served, whatever configuration *)
(* was parsed since: every slot the engine handed out is a lane of the     *)
(* loaded cache (LanesCoverSlots), the blocks of all the tokens written    *)
(* are in its pool, so that no sequence can find it dry, and nothing runs  *)
(* without a model.                                                        *)
LanesCoverSlots == \A m \in model : DOMAIN sequences \subseteq 0 .. m.lanes - 1
PoolCoversTokens == \A m \in model : Cardinality(Occupied(m)) <= m.blocks
NothingWithoutModel == model = {} => Nobody

(* What an admission is judged by before the load is what the load, should *)
(* it return, sizes.                                                       *)
PreloadAgrees ==
  Batched => \A m \in Built(config) :
    /\ CapacityKv({}, config) = CapacityKv({m}, config)
    /\ CapacitySlots({}, config) = CapacitySlots({m}, config)

ServedFits == LanesCoverSlots /\ PoolCoversTokens /\ NothingWithoutModel /\ PreloadAgrees
===============================================================================
