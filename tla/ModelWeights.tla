----------------------------- MODULE ModelWeights ------------------------------
(***************************************************************************)
(* How a model gets its weights: from a Hugging Face repository (load_hf), *)
(* from a PyTorch state_dict (load_pretrained), from a legacy record or a  *)
(* burnpack one (Llama::load). A repository's first load leaves a burnpack *)
(* copy for the later ones; several processes load at once and may die     *)
(* anywhere. Fetching one file is RepoFetch's subject: here it is found,   *)
(* or the load fails.                                                      *)
(*                                                                         *)
(* One layer stands for all. A tensor is what the file has it for, its     *)
(* layout, its width, its element type and, for queries and keys, which    *)
(* channel of the file is where.                                           *)
(***************************************************************************)
EXTENDS Naturals, Sequences, FiniteSets

CONSTANTS Loaders,        \* processes
          MaxLoads,       \* bound on the loads begun
          Repositories,   \* what the repository may ship
          WeightFiles,    \* other files of weights, each with its config
          Windows,        \* context windows asked for
          Floats          \* float element types of a device

Linears == {"wq", "wk", "wv", "wo", "linear_inner", "linear_outer", "w2", "output"}
Params == Linears \cup {"tok_embeddings", "attention_norm", "ffn_norm", "norm"}
Rotated == {"wq", "wk"}

(* An optional field is a set of at most one value.                        *)
OrElse(field, default) == IF field = {} THEN default ELSE CHOOSE x \in field : TRUE

VARIABLES
  repository,   \* the repository, at one revision
  files,        \* its files in the cache directory
  copy,         \* the burnpack copy there, if any
  temp,         \* per process, the temporary file it writes that copy under
  loader,       \* per process, the load under way or the last one
  loads         \* loads begun, bounded by MaxLoads

weightVars == <<repository, files, copy, temp, loader, loads>>

NoModule == [q \in Params |-> {}]
AtRest_ == [at |-> "Idle", window |-> 0, float |-> "None", from |-> {}, scaling |-> {},
            module |-> NoModule]

WeightsInit ==
  /\ repository \in Repositories
  /\ files = {} /\ copy = {}
  /\ temp = [p \in Loaders |-> {}]
  /\ loader = [p \in Loaders |-> AtRest_]
  /\ loads = 0

-------------------------------------------------------------------------------
(* config.json.                                                            *)

KvHeads(c) == OrElse(c.kvHeads, c.heads)
HeadDim(c) == c.hidden \div c.heads
Columns(c, q) == IF q \in {"wk", "wv"} THEN HeadDim(c) * KvHeads(c) ELSE c.hidden

(* A model's heads have whole pairs of channels. A file's config is known  *)
(* to be the one it was made with in what the file's widths cannot show.   *)
Shaped(c) ==
  /\ c.hidden \in Nat \ {0} /\ c.heads \in Nat \ {0} /\ c.kvHeads \subseteq Nat \ {0}
  /\ c.hidden % c.heads = 0 /\ HeadDim(c) % 2 = 0
Describes(c, f) ==
  /\ c.hidden \in Nat /\ c.kvHeads \subseteq Nat /\ c.heads = f.config.heads
  /\ c.ropeScaling = f.config.ropeScaling

CheckArchitecture(c) ==
  \/ "LlamaForCausalLM" \in c.architectures
  \/ c.architectures = {} /\ c.modelType = {"llama"}

CheckHeadDim(c) == c.hidden % c.heads = 0 /\ c.headDim \subseteq {HeadDim(c)}

(* The scaling that will be applied; none when the one asked for, which is *)
(* not an object or an object of another type, is refused.                 *)
RopeFrequencyScaling_(c) ==
  CASE c.ropeScaling \in {"Absent", "Null", "Untyped", "default"} -> {"Unscaled"}
    [] c.ropeScaling = "llama3" -> {"Llama3"}
    [] OTHER -> {}

ToLlamaConfig(c) == CheckArchitecture(c) /\ CheckHeadDim(c) /\ RopeFrequencyScaling_(c) # {}

ASSUME WeightAssumption ==
  /\ \A r \in Repositories :
       /\ Shaped(r.weights.config) /\ Describes(r.config, r.weights)
       /\ r.weights.format = "safetensors" /\ r.weights.config.maxPosition = r.config.maxPosition
  /\ \A f \in WeightFiles :
       /\ Shaped(f.config) /\ Describes(f.preset, f) /\ RopeFrequencyScaling_(f.preset) # {}
       /\ f.format \in {"pth", "mpk", "bpk"}
       /\ f.format = "bpk" => f.float \in Floats

(* tokenizer.json must have a token that begins a text and one that ends   *)
(* it, in one of their two spellings.                                      *)
HfTokenizer(tokens) ==
  /\ tokens \cap {"<|begin_of_text|>", "<s>"} # {}
  /\ tokens \cap {"<|end_of_text|>", "</s>"} # {}

-------------------------------------------------------------------------------
(* What a file of weights becomes: the set of modules it may make, a       *)
(* refusal being {}.                                                       *)

Channels(c, q) == IF q \in Rotated THEN [i \in 1 .. Columns(c, q) |-> i] ELSE <<>>

(* A checkpoint of style "Hf" or "Meta" stores a linear weight [out, in].  *)
Stored(f, q) ==
  [of |-> q, layout |-> IF q \in Linears THEN "OutIn" ELSE "AsIs", width |-> Columns(f.config, q),
   float |-> f.float, order |-> Channels(f.config, q)]

(* The parameters a file's names are mapped to by the rules for a style.   *)
(* Meta's names are the module's own but for two; what lands nowhere is    *)
(* ignored.                                                                *)
Landed(rules, f) ==
  IF f.style = rules THEN f.params \cap Params
  ELSE IF rules = "Hf" THEN (f.params \cap Params) \ {"linear_inner", "linear_outer"}
  ELSE {}

PyTorchToBurn(t) == IF t.of \in Linears THEN [t EXCEPT !.layout = "InOut"] ELSE t
FloatCast(float, t) == [t EXCEPT !.float = float]

(* The applier refuses another shape or element type than the module's.    *)
Errors(c, float, tensors) ==
  \E q \in DOMAIN tensors : tensors[q].width # Columns(c, q) \/ tensors[q].float # float
Missing(tensors) == Params \ DOMAIN tensors
Apply(tensors) == [q \in Params |-> IF q \in DOMAIN tensors THEN {tensors[q]} ELSE {}]

(* The embedding [vocab, d_model] is transposed into the output.           *)
TieOutputToEmbedding(m) ==
  IF m["output"] # {} THEN m
  ELSE [m EXCEPT !["output"] = {[t EXCEPT !.layout = "InOut"] : t \in m["tok_embeddings"]}]

(* Mutant: the reshape is the one of the opposite conversion.              *)
RepermuteHeads(order, heads) ==
  LET half == Len(order) \div (2 * heads) IN
  [i \in 1 .. Len(order) |->
     LET head == (i - 1) \div (2 * half)
         at == (i - 1) % (2 * half)
     IN order[head * 2 * half + (at % half) * 2 + at \div half + 1]]

(* [heads, 2, head_dim / 2], its last two axes swapped.                    *)
PermuteHeads(order, heads) ==
  LET half == Len(order) \div (2 * heads) IN
  [i \in 1 .. Len(order) |->
     LET head == (i - 1) \div (2 * half)
         at == (i - 1) % (2 * half)
     IN order[head * 2 * half + (at % 2) * half + at \div 2 + 1]]

UnpermuteRotary(m, c) ==
  [m EXCEPT !["wq"] = {[t EXCEPT !.order = PermuteHeads(@, c.heads)] : t \in @},
            !["wk"] = {[t EXCEPT !.order = PermuteHeads(@, KvHeads(c))] : t \in @}]

(* Only a config that ties its embeddings explains a missing output.       *)
LoadSafetensors(c, float, f) ==
  LET tensors == [q \in Landed("Hf", f) |-> FloatCast(float, PyTorchToBurn(Stored(f, q)))] IN
  IF \/ Errors(c, float, tensors)
     \/ ~(Missing(tensors) \subseteq (IF c.tied THEN {"output"} ELSE {}))
  THEN {}
  ELSE {UnpermuteRotary(TieOutputToEmbedding(Apply(tensors)), c)}

(* A `tiny` build goes by Hugging Face's names and rotation, any other by  *)
(* Meta's.                                                                 *)
LoadPretrained(c, float, f, rules) ==
  LET tensors == [q \in Landed(rules, f) |-> PyTorchToBurn(Stored(f, q))] IN
  IF Errors(c, float, tensors) \/ Missing(tensors) # {} THEN {}
  ELSE IF rules = "Hf" THEN {UnpermuteRotary(Apply(tensors), c)} ELSE {Apply(tensors)}

(* The channels of pair j of a head, in the file's numbering: Hugging Face *)
(* rotates the two halves of a head against each other, Meta neighbours.   *)
Pair(f, head, j) ==
  LET dim == HeadDim(f.config) IN
  IF f.style = "Hf" THEN <<head * dim + j + 1, head * dim + dim \div 2 + j + 1>>
  ELSE <<head * dim + 2 * j + 1, head * dim + 2 * j + 2>>

(* A record holds a burn module's own tensors.                             *)
Recorded(f, q) ==
  LET dim == HeadDim(f.config) IN
  [PyTorchToBurn(Stored(f, q)) EXCEPT !.order =
     [i \in DOMAIN @ |-> Pair(f, (i - 1) \div dim, ((i - 1) % dim) \div 2)[((i - 1) % 2) + 1]]]

(* A leaf of an .mpk document is converted; a quantized one ends the walk. *)
Leaf(float, f, q) == IF f.quantized THEN {} ELSE {FloatCast(float, Recorded(f, q))}

(* The walk records every leaf under its path in the module, the           *)
(* envelope's own keys and all that is no leaf being left out.             *)
WalkDocument(float, f) == [q \in f.params |-> Leaf(float, f, q)]

(* The file must have all the module has and nothing else.                 *)
LoadLegacy(c, float, f) ==
  LET found == WalkDocument(float, f) IN
  IF {} \in {found[q] : q \in DOMAIN found} \/ DOMAIN found # Params THEN {}
  ELSE LET tensors == [q \in Params |-> CHOOSE t \in found[q] : TRUE] IN
       IF Errors(c, float, tensors) THEN {} ELSE {Apply(tensors)}

(* A burnpack record is taken as it is. One of another element type than   *)
(* the device's may be refused.                                            *)
LoadRecord(c, f) ==
  LET tensors == [q \in f.params |-> Recorded(f, q)] IN
  IF Errors(c, f.float, tensors) \/ Missing(tensors) # {} THEN {} ELSE {Apply(tensors)}

(* What a file may become, by its extension and, for a state_dict, by the  *)
(* build.                                                                  *)
LoadedFrom(c, float, f) ==
  CASE f.format = "pth" -> {LoadPretrained(c, float, f, rules) : rules \in {"Hf", "Meta"}}
    [] f.format = "mpk" -> {LoadLegacy(c, float, f)}
    [] f.format = "bpk" -> {LoadRecord(c, f)} \cup (IF f.float = float THEN {} ELSE {{}})

-------------------------------------------------------------------------------
(* The loads.                                                              *)

LoaderAt(p, where) == loader[p].at = where
LoaderGoes(p, where) == loader' = [loader EXCEPT ![p].at = where]
LoadFails(p) == loader' = [loader EXCEPT ![p] = [AtRest_ EXCEPT !.at = "Failed"]]
LoadReturns(p, module) ==
  loader' = [loader EXCEPT ![p].at = "Loaded", ![p].module = module]

BeginLoad(p) ==
  /\ loader[p].at \in {"Idle", "Failed", "Loaded"} /\ loads < MaxLoads
  /\ loads' = loads + 1
  /\ \E window \in Windows, float \in Floats, where \in {"Config", "File"} :
       loader' = [loader EXCEPT ![p] =
         [AtRest_ EXCEPT !.at = where, !.window = window, !.float = float]]
  /\ UNCHANGED <<repository, files, copy, temp>>

(* A file of the cache directory, or of the repository.                    *)
Fetches(name) ==
  /\ name \in files \cup repository.files
  /\ files' = files \cup {name}

(* Not shipped, or out of reach.                                           *)
FetchFails(p) ==
  /\ \/ LoaderAt(p, "Config") /\ "config.json" \notin files
     \/ LoaderAt(p, "Shards") /\ "model.safetensors.index.json" \notin files
     \/ LoaderAt(p, "Tokenizer") /\ "tokenizer.json" \notin files
     \/ LoaderAt(p, "Weights") /\ "model.safetensors" \notin files
  /\ LoadFails(p)
  /\ UNCHANGED <<repository, files, copy, temp, loads>>

ReadConfig(p) ==
  /\ LoaderAt(p, "Config") /\ Fetches("config.json")
  /\ LoaderGoes(p, "Shards")
  /\ UNCHANGED <<repository, copy, temp, loads>>

(* An index the repository ships is fetched, and the repository refused.   *)
EnsureNotSharded(p) ==
  /\ LoaderAt(p, "Shards")
  /\ \/ Fetches("model.safetensors.index.json") /\ LoadFails(p)
     \/ /\ "model.safetensors.index.json" \notin files \cup repository.files
        /\ LoaderGoes(p, "Tokenizer") /\ UNCHANGED files
  /\ UNCHANGED <<repository, copy, temp, loads>>

(* The config is judged once the tokenizer is there, before any weights.   *)
InitModule(p) ==
  LET c == repository.config IN
  /\ LoaderAt(p, "Tokenizer") /\ Fetches("tokenizer.json")
  /\ IF /\ ToLlamaConfig(c) /\ HfTokenizer(repository.tokens)
        /\ \A limit \in c.maxPosition : loader[p].window <= limit
     THEN loader' = [loader EXCEPT ![p].at = "Choose", ![p].scaling = RopeFrequencyScaling_(c),
                                   ![p].from = {repository.weights}]
     ELSE LoadFails(p)
  /\ UNCHANGED <<repository, copy, temp, loads>>

(* The copy of a previous load is taken as it is: nothing is done to it    *)
(* that was done before it was written. Of another element type it may be  *)
(* refused.                                                                *)
LoadCopy(p) ==
  /\ LoaderAt(p, "Choose")
  /\ IF copy = {} THEN LoaderGoes(p, "Weights")
     ELSE \E record \in copy :
       \/ LoadReturns(p, record.module)
       \/ record.float # loader[p].float /\ LoadFails(p)
  /\ UNCHANGED <<repository, files, copy, temp, loads>>

LoadWeights(p) ==
  LET made == LoadSafetensors(repository.config, loader[p].float, repository.weights) IN
  /\ LoaderAt(p, "Weights") /\ Fetches("model.safetensors")
  /\ IF made = {} THEN LoadFails(p)
     ELSE \E m \in made : loader' = [loader EXCEPT ![p].at = "Save", ![p].module = m]
  /\ UNCHANGED <<repository, copy, temp, loads>>

(* The copy is written under the process's own name and renamed, or given  *)
(* up: the load has succeeded.                                             *)
SaveCopy(p) ==
  /\ LoaderAt(p, "Save")
  /\ \/ /\ temp' = [temp EXCEPT ![p] = {[module |-> loader[p].module, float |-> loader[p].float]}]
        /\ LoaderGoes(p, "Rename")
     \/ temp' = [temp EXCEPT ![p] = {}] /\ LoadReturns(p, loader[p].module)
  /\ UNCHANGED <<repository, files, copy, loads>>

RenameCopy(p) ==
  /\ LoaderAt(p, "Rename")
  /\ copy' = temp[p]
  /\ temp' = [temp EXCEPT ![p] = {}]
  /\ LoadReturns(p, loader[p].module)
  /\ UNCHANGED <<repository, files, loads>>

(* The other files come with a config stated in the code.                  *)
LoadFile(p) ==
  /\ LoaderAt(p, "File")
  /\ \E f \in WeightFiles : \E made \in LoadedFrom(f.preset, loader[p].float, f) :
       \/ made = {} /\ LoadFails(p)
       \/ \E m \in made : loader' = [loader EXCEPT
            ![p].at = "Loaded", ![p].module = m, ![p].from = {f},
            ![p].scaling = RopeFrequencyScaling_(f.preset)]
  /\ UNCHANGED <<repository, files, copy, temp, loads>>

LoaderDies(p) ==
  /\ loader[p].at \notin {"Idle", "Failed"}
  /\ loader' = [loader EXCEPT ![p] = AtRest_]
  /\ UNCHANGED <<repository, files, copy, temp, loads>>

WeightsNext == \E p \in Loaders :
  \/ BeginLoad(p) \/ FetchFails(p) \/ ReadConfig(p) \/ EnsureNotSharded(p) \/ InitModule(p)
  \/ LoadCopy(p) \/ LoadWeights(p) \/ SaveCopy(p) \/ RenameCopy(p) \/ LoadFile(p) \/ LoaderDies(p)

WeightsAtEnd ==
  loads = MaxLoads /\ \A p \in Loaders : loader[p].at \in {"Idle", "Failed", "Loaded"}

WeightsSpec == WeightsInit /\ [][WeightsNext]_weightVars

-------------------------------------------------------------------------------
(* A module is right for a file when each parameter holds the tensor that  *)
(* was made for it, [in, out] where it multiplies, at the width of the     *)
(* config; neighbours among a query's or key's channels are the ones the   *)
(* file's convention rotates together, pair after pair; and the output is  *)
(* the file's own or, if it has none, the embedding.                       *)
RightOrder(f, t) ==
  \A head \in 0 .. Len(t.order) \div HeadDim(f.config) - 1,
     j \in 0 .. HeadDim(f.config) \div 2 - 1 :
    LET i == head * HeadDim(f.config) + 2 * j IN
    <<t.order[i + 1], t.order[i + 2]>> = Pair(f, head, j)

RightFor(f, module) == \A q \in Params : \E t \in module[q] :
  /\ t.of = IF q = "output" /\ q \notin f.params THEN "tok_embeddings" ELSE q
  /\ t.layout = IF q \in Linears THEN "InOut" ELSE "AsIs"
  /\ t.width = Columns(f.config, q)
  /\ q \in Rotated => Len(t.order) = t.width /\ RightOrder(f, t)

(* "Each of them fails quietly rather than loudly if you skip it: the      *)
(* model loads, generates fluent text, and is wrong" (weights.rs): a load  *)
(* that returns has the right weights in every parameter, whatever file or *)
(* copy they come from, whoever wrote that copy and died on the way; all   *)
(* are of one element type; and the repository asked for no scaling of its *)
(* positions the module does not apply, nor for a shorter window.          *)
WeightsRight == \A p \in Loaders : LoaderAt(p, "Loaded") =>
  /\ \A f \in loader[p].from :
       /\ RightFor(f, loader[p].module)
       /\ f.config.ropeScaling = "llama3" <=> loader[p].scaling = {"Llama3"}
       /\ f.config.ropeScaling \notin {"Bare", "yarn"}
       /\ \A limit \in f.config.maxPosition : f = repository.weights => loader[p].window <= limit
  /\ \E float \in Floats : \A q \in Params : \A t \in loader[p].module[q] : t.float = float
===============================================================================
