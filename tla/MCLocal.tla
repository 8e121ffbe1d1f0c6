-------------------------------- MODULE MCLocal --------------------------------
(***************************************************************************)
(* The parts of a process that run beside the batching server, a behaviour *)
(* being of one of them: the UTF-8 buffer of the emission thread, direct   *)
(* generation with its decode threads, the cache directory of a published  *)
(* model, the fetch of a repository's file, a model server with the cache  *)
(* sized at its load, the supervised command line, a paged decode with its *)
(* self-check, and loads of a model's weights. None may come to a stop     *)
(* before its end, which then stutters.                                    *)
(***************************************************************************)
EXTENDS DirectGeneration, PublishedCache, RepoFetch, ServerSizing, Supervisor,
        PagedDecode, ModelWeights

CONSTANT Machines       \* the parts of this instance

(* Servers: a window, slots, a pool and a sample length, each.             *)
Config(window, slots, pool, sample) ==
  [maxSeqLen |-> window, maxSlots |-> slots, poolTokens |-> pool, sampleLen |-> sample]
FreshConfig == Config(4, 2, 0, 2)
ParsedConfigs == {FreshConfig, Config(3, 3, 5, 4), Config(0, 2, 0, 1), Config(5, 1, 0, 2)}
NoEnv == [v \in {} |-> 0]
SomeEnvs == {NoEnv, "BURN_LM_MAX_SLOTS" :> 3,
             "BURN_LM_KV_POOL_TOKENS" :> 3 @@ "BURN_LM_MAX_SEQ_LEN" :> 3}
SomeRequests == {[prompt |-> 1, maxTokens |-> {1}], [prompt |-> 3, maxTokens |-> {}]}

(* Supervisors: plain, with one setting or both, and with arguments that   *)
(* contain `-b` or `-d` without being the flag.                            *)
Path == Word("burn-lm")
SomeArgs ==
  {<<Path>>,
   <<Path, Flag("backend"), Word("vulkan")>>,
   <<Path, Flag("backend"), Word("ndarray"), Flag("dtype"), Word("f16")>>,
   <<Path, Word("new"), Lookalike("dtype")>>,
   <<Path, Lookalike("backend"), Word("chat")>>}
VulkanHalf == [backend |-> "vulkan", dtype |-> "f16"]
PlainNames(b) == IF b = "ndarray-blas-openblas" THEN "ndarray" ELSE b
BuildNames == [b \in Backends |-> PlainNames(b)]

(* A new crate is followed while nothing was set by arguments, and a       *)
(* second one while there is no configuration file either.                 *)
CratesInHand == tree.crates \cup UNION {shell[p].crate : p \in Shells}
FewCrates ==
  \/ CratesInHand = {}
  \/ /\ \A p \in Shells : shell[p].forced = Unset
     /\ Cardinality(CratesInHand) <= 1 \/ configFile = {}

(* A variant of a backend is saved while one shell at most is up.          *)
Saved ==
  configFile \cup {shell[p].config : p \in Shells}
    \cup {shell[p].compiled : p \in {s \in Shells : shell[s].at = "Save"}}
LoneVariants ==
  \/ \A f \in Saved : PlainNames(f.backend) = f.backend
  \/ \E p \in Shells : shell[p].at \in {"Scan", "Ended"}

(* Devices: CUDA pitches short rows, Vulkan has not earned the default, an *)
(* AMD device has no one plane size, and a CPU no kernel.                  *)
CudaDevice ==
  [cube |-> TRUE, runtime |-> "Cuda", planeOps |-> TRUE, planeMin |-> 2, planeMax |-> 2,
   maxUnits |-> 8, maxCubeX |-> 4, maxCubeY |-> 4, maxCubesX |-> 4, maxCubesY |-> 4,
   pitched |-> {3}, widths |-> {1, 2, 4}, targetPlanes |-> 8, shared |-> 4000]
VulkanDevice ==
  [CudaDevice EXCEPT !.runtime = "Wgpu", !.pitched = {}, !.targetPlanes = 2, !.widths = {1}]
SomeDevices ==
  {CudaDevice, VulkanDevice, [VulkanDevice EXCEPT !.planeMin = 1],
   [CudaDevice EXCEPT !.cube = FALSE]}

RoundOf(seqQ, headDim, blockSize, lens, table) ==
  [seqQ |-> seqQ, dtype |-> "f32", poolDtype |-> "f32", heads |-> 2, kvHeads |-> 1,
   nRep |-> 2, headDim |-> headDim, blockSize |-> blockSize, lens |-> lens, table |-> table]
SomeRounds ==
  {RoundOf(1, 4, 2, <<3, 5>>, <<4, 1, 0, 3, 0, 2>>), RoundOf(2, 4, 2, <<2>>, <<1>>),
   RoundOf(1, 3, 2, <<2>>, <<5, 1>>)}
CheckInputs == RoundOf(1, 4, 4, <<7, 3>>, <<2, 0, 3, 1>>)
KeyScore(kvHead, row) == (5 * row[1] + 3 * row[2] + kvHead) % 7

(* Weights: a config with grouped heads, tied and scaled, and one without. *)
GroupedConfig ==
  [architectures |-> {"LlamaForCausalLM"}, modelType |-> {"llama"}, hidden |-> 12, heads |-> 2,
   kvHeads |-> {1}, headDim |-> {6}, ropeScaling |-> "llama3", tied |-> TRUE, maxPosition |-> {4}]
PlainConfig ==
  [GroupedConfig EXCEPT !.architectures = {}, !.kvHeads = {}, !.headDim = {},
                        !.ropeScaling = "Absent", !.tied = FALSE, !.maxPosition = {}]
YarnConfig == [GroupedConfig EXCEPT !.ropeScaling = "yarn"]
WeightFile(format, style, params, stated, float, quantized) ==
  [format |-> format, style |-> style, params |-> params, config |-> stated, float |-> float,
   quantized |-> quantized, preset |-> stated]
Untied(stated) == WeightFile("safetensors", "Hf", Params, stated, "bf16", FALSE)
TiedFile(stated) == WeightFile("safetensors", "Hf", Params \ {"output"}, stated, "bf16", FALSE)
Repository(stated, weights) ==
  [config |-> stated, weights |-> weights, tokens |-> {"<|begin_of_text|>", "<|end_of_text|>"},
   files |-> {"config.json", "tokenizer.json", "model.safetensors"}]
GoodRepository == Repository(GroupedConfig, TiedFile(GroupedConfig))
SomeRepositories ==
  {GoodRepository, Repository(PlainConfig, Untied(PlainConfig)),
   Repository(PlainConfig, TiedFile(PlainConfig)),
   Repository([GroupedConfig EXCEPT !.kvHeads = {}], TiedFile(GroupedConfig)),
   Repository(YarnConfig, TiedFile(YarnConfig)),
   [GoodRepository EXCEPT !.weights.params = @ \ {"wq"}],
   [GoodRepository EXCEPT !.tokens = {"<s>"}],
   [GoodRepository EXCEPT !.files = @ \cup {"model.safetensors.index.json"}]}
SomeWeightFiles ==
  {WeightFile("pth", "Hf", Params \cup {"inv_freq"}, PlainConfig, "f16", FALSE),
   WeightFile("pth", "Meta", Params \cup {"rope.freqs"}, GroupedConfig, "f16", FALSE),
   WeightFile("mpk", "Hf", Params, PlainConfig, "f16", FALSE),
   WeightFile("mpk", "Meta", Params, GroupedConfig, "f16", TRUE),
   WeightFile("bpk", "Meta", Params, GroupedConfig, "f32", FALSE)}

VARIABLE machine
vars == <<machine, bufferVars, directVars, cacheVars, fetchVars, sizingVars,
          supervisorVars, decodeVars, weightVars>>

Init ==
  /\ machine \in Machines
  /\ BufferInit /\ DirectInit /\ CacheInit /\ FetchInit
  /\ machine # "Direct" => seqs = {1} /\ context = Max(Contexts)
  /\ SizingInit /\ SupervisorInit /\ DecodeInit /\ WeightsInit
  /\ machine # "Sizing" => server = Llama3InstructServer /\ env = NoEnv /\ reserve = FALSE
  /\ machine # "Decode" => device = CudaDevice /\ setting = "kernel" /\ check.stage = "Over"
  /\ machine # "Weights" => repository = GoodRepository

AtEnd ==
  CASE machine = "Buffer" -> ended
    [] machine = "Direct" ->
         phase = "Returned" /\ \A i \in seqs : thread[i] # "Up" \/ result = "Panicked"
    [] machine = "Cache" -> CacheAtEnd
    [] machine = "Fetch" -> FetchAtEnd
    [] machine = "Sizing" -> poisoned
    [] machine = "Supervisor" -> SupervisorAtEnd
    [] machine = "Decode" -> DecodeAtEnd
    [] machine = "Weights" -> WeightsAtEnd

Next ==
  \/ /\ machine = "Buffer" /\ BufferNext
     /\ UNCHANGED <<machine, directVars, cacheVars, fetchVars, sizingVars, supervisorVars,
                    decodeVars, weightVars>>
  \/ /\ machine = "Direct" /\ DirectNext
     /\ UNCHANGED <<machine, bufferVars, cacheVars, fetchVars, sizingVars, supervisorVars,
                    decodeVars, weightVars>>
  \/ /\ machine = "Cache" /\ CacheNext
     /\ UNCHANGED <<machine, bufferVars, directVars, fetchVars, sizingVars, supervisorVars,
                    decodeVars, weightVars>>
  \/ /\ machine = "Fetch" /\ FetchNext
     /\ UNCHANGED <<machine, bufferVars, directVars, cacheVars, sizingVars, supervisorVars,
                    decodeVars, weightVars>>
  \/ /\ machine = "Sizing" /\ SizingNext
     /\ UNCHANGED <<machine, bufferVars, directVars, cacheVars, fetchVars, supervisorVars,
                    decodeVars, weightVars>>
  \/ /\ machine = "Supervisor" /\ SupervisorNext
     /\ UNCHANGED <<machine, bufferVars, directVars, cacheVars, fetchVars, sizingVars,
                    decodeVars, weightVars>>
  \/ /\ machine = "Decode" /\ DecodeNext
     /\ UNCHANGED <<machine, bufferVars, directVars, cacheVars, fetchVars, sizingVars,
                    supervisorVars, weightVars>>
  \/ /\ machine = "Weights" /\ WeightsNext
     /\ UNCHANGED <<machine, bufferVars, directVars, cacheVars, fetchVars, sizingVars,
                    supervisorVars, decodeVars>>
  \/ AtEnd /\ UNCHANGED vars

Spec == Init /\ [][Next]_vars
===============================================================================
