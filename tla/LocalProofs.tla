------------------------------ MODULE LocalProofs ------------------------------
(***************************************************************************)
(* The parts of a process that run beside the batching server, for every   *)
(* number of processes, shells, configurations, files and requests: what a *)
(* load sized covers what is served; the copy of a model that every load   *)
(* prefers is whole; what a shell that is up runs is what it asked for; a  *)
(* load that returns has the right weights; and, one process at a time,    *)
(* what is in place under a downloaded file's name is the published file.  *)
(***************************************************************************)
EXTENDS ServerSizing, PublishedCache, Supervisor, RepoFetch, ModelWeights,
        FiniteSetTheorems, SequenceTheorems, TLAPS

-------------------------------------------------------------------------------
(* The blocks that hold some tokens: a number, none for no token, and no   *)
(* fewer for more.                                                         *)

LEMMA CeilDivNat ==
  ASSUME NEW n \in Nat, NEW d \in Nat \ {0} PROVE CeilDiv(n, d) \in Nat
BY Z3 DEF CeilDiv

LEMMA CeilDivZero ==
  ASSUME NEW d \in Nat \ {0} PROVE CeilDiv(0, d) = 0
BY Z3 DEF CeilDiv

LEMMA CeilDivMono ==
  ASSUME NEW a \in Nat, NEW b \in Nat, NEW d \in Nat \ {0}, a <= b
  PROVE  CeilDiv(a, d) <= CeilDiv(b, d)
BY Z3 DEF CeilDiv

-------------------------------------------------------------------------------
(* What the loaders return.                                                *)

Models == [window : Nat, lanes : Nat, block : Nat \ {0}, blocks : Nat \ {0}]

(* Behind a mutex a model has one lane, and a pool for all of its window.  *)
ModelOK(m) ==
  /\ m \in Models
  /\ ~Batched => m.lanes = 1 /\ m.blocks = CeilDiv(m.window, m.block)

(* init sizes what it was asked for: the pool's tokens, or a window a lane.*)
LEMMA InitLlamaSizes ==
  ASSUME NEW seqLen \in Nat, NEW slots \in Nat, NEW pool \in Nat,
         NEW m \in InitLlama(seqLen, slots, pool)
  PROVE  /\ m \in Models
         /\ m.window = seqLen /\ m.lanes = slots
         /\ m.block = Lesser(DefaultBlock, seqLen)
         /\ m.blocks = CeilDiv(IF pool > 0 THEN pool ELSE slots * seqLen, m.block)
<1> DEFINE block == Lesser(DefaultBlock, seqLen)
<1>1. block \in Nat \ {0}
  BY SizingAssumption DEF InitLlama, Lesser
<1>2. slots * seqLen \in Nat
  OBVIOUS
<1>3. CeilDiv(pool, block) \in Nat /\ CeilDiv(slots * seqLen, block) \in Nat
  BY <1>1, <1>2, CeilDivNat
<1>4. \A k \in Nat : m \in NewCache(seqLen, slots, block, k) =>
        /\ m \in Models /\ m.window = seqLen /\ m.lanes = slots
        /\ m.block = block /\ m.blocks = k
  BY <1>1 DEF NewCache, Models
<1>5. CASE pool > 0
  <2>1. m \in NewCache(seqLen, slots, block, CeilDiv(pool, block))
    BY <1>1, <1>5 DEF InitLlama
  <2> QED
    BY <1>3, <1>4, <1>5, <2>1
<1>6. CASE ~(pool > 0)
  <2>1. m \in NewCache(seqLen, slots, block, CeilDiv(slots * seqLen, block))
    BY <1>1, <1>6 DEF InitLlama, WindowPerLane
  <2> QED
    BY <1>3, <1>4, <1>6, <2>1
<1> QED
  BY <1>5, <1>6

(* Every knob is a number, whether configured or from the environment.     *)
LEMMA KnobsNat ==
  ASSUME env \in Environments, NEW c \in Llama3ServerConfig
  PROVE  MaxSeqLen(c) \in Nat /\ MaxSlots(c) \in Nat /\ PoolTokens(c) \in Nat
BY SizingAssumption
   DEF MaxSeqLen, MaxSlots, PoolTokens, ConfigUsize, Llama3ServerConfig

(* A batched server builds what its knobs say, whichever its version.      *)
LEMMA BatchedLoad ==
  ASSUME server \in Servers, Batched, env \in Environments,
         NEW c \in Llama3ServerConfig, NEW m \in Built(c)
  PROVE  m \in InitLlama(MaxSeqLen(c), MaxSlots(c), PoolTokens(c))
<1>1. server.version \in {"Llama3", "Llama31", "Llama321b", "Llama323b"}
  BY DEF Servers, Batched, Llama3InstructServer, Llama31InstructServer, Llama321bInstructServer,
         Llama323bInstructServer, Llama321bInstructQ4Server, TinyLlamaServer
<1>2. m \in Llama3BaseLoad(c)
  BY <1>1 DEF Built
<1>3. CASE server.version = "Llama3"
  BY <1>2, <1>3 DEF Llama3BaseLoad, Llama3_8bPretrained, LoadLlama
<1>4. CASE server.version = "Llama31"
  BY <1>2, <1>4 DEF Llama3BaseLoad, Llama3_1_8bPretrained, LoadLlama
<1>5. CASE server.version = "Llama323b"
  BY <1>2, <1>5 DEF Llama3BaseLoad, Llama3_2_3bPretrained, LoadLlama
<1>6. CASE server.version = "Llama321b"
  BY <1>2, <1>6 DEF Llama3BaseLoad, Llama3_2_1bPretrained, LoadLlama
<1> QED
  BY <1>1, <1>3, <1>4, <1>5, <1>6

(* The others build a single lane with a window for it.                    *)
LEMMA SingleLoad ==
  ASSUME server \in Servers, ~Batched, env \in Environments,
         NEW c \in Llama3ServerConfig, NEW m \in Built(c)
  PROVE  \E seqLen \in Nat : m \in InitLlama(seqLen, 1, 0)
<1>1. server.version \in {"Llama321bQ4", "Tiny"}
  BY DEF Servers, Batched, Llama3InstructServer, Llama31InstructServer, Llama321bInstructServer,
         Llama323bInstructServer, Llama321bInstructQ4Server, TinyLlamaServer
<1>2. CASE server.version = "Tiny"
  <2>1. c.maxSeqLen \in Nat
    BY DEF Llama3ServerConfig
  <2> QED
    BY <1>2, <2>1 DEF Built, TinyLlamaLoad, TinyLlamaPretrained
<1>3. CASE server.version = "Llama321bQ4"
  <2>1. m \in Llama3_2_1bPretrainedQ4(MaxSeqLen(c))
    BY <1>3 DEF Built, Llama3BaseLoad
  <2> QED
    BY <2>1, KnobsNat DEF Llama3_2_1bPretrainedQ4, LoadLlama
<1> QED
  BY <1>1, <1>2, <1>3

LEMMA BuiltOK ==
  ASSUME server \in Servers, env \in Environments,
         NEW c \in Llama3ServerConfig, NEW m \in Built(c)
  PROVE  ModelOK(m)
<1>1. CASE Batched
  <2>1. m \in Models
    BY <1>1, BatchedLoad, KnobsNat, InitLlamaSizes
  <2> QED
    BY <1>1, <2>1 DEF ModelOK
<1>2. CASE ~Batched
  <2>1. PICK seqLen \in Nat : m \in InitLlama(seqLen, 1, 0)
    BY <1>2, SingleLoad
  <2>2. /\ m \in Models /\ m.window = seqLen /\ m.lanes = 1
        /\ m.blocks = CeilDiv(1 * seqLen, m.block)
    BY <2>1, InitLlamaSizes
  <2>3. 1 * seqLen = seqLen
    OBVIOUS
  <2> QED
    BY <2>2, <2>3 DEF ModelOK
<1> QED
  BY <1>1, <1>2

(* What the engine is told of a loaded model.                              *)
LEMMA LoadedCapacity ==
  ASSUME NEW m, NEW c
  PROVE  /\ CapacitySlots({m}, c) = Lesser(MaxSlots(c), m.lanes)
         /\ CapacityKv({m}, c) = [block |-> m.block, blocks |-> m.blocks]
<1>1. LoadedLaneCount({m}) = {m.lanes}
  BY DEF LoadedLaneCount
<1>2. LoadedKvBudget({m}) = {[block |-> m.block, blocks |-> m.blocks]}
  BY DEF LoadedKvBudget
<1>3. {m} # {}
  OBVIOUS
<1>4. (CHOOSE n \in {m.lanes} : TRUE) = m.lanes
  OBVIOUS
<1>5. \A x : (CHOOSE b \in {x} : TRUE) = x
  OBVIOUS
<1>6. CapacitySlots({m}, c) = Lesser(MaxSlots(c), m.lanes)
  BY <1>1, <1>3, <1>4 DEF CapacitySlots
<1>7. CapacityKv({m}, c) = [block |-> m.block, blocks |-> m.blocks]
  BY <1>2, <1>3, <1>5 DEF CapacityKv
<1> QED
  BY <1>6, <1>7

-------------------------------------------------------------------------------
(* The invariant: what is loaded is sound and there is one of it, slots    *)
(* are lanes, lengths are within the window, and no more blocks are        *)
(* promised than there are, each sequence's tokens within its promise.     *)

TypeInv ==
  /\ server \in Servers /\ env \in Environments /\ config \in Llama3ServerConfig
  /\ \A m \in model : ModelOK(m)
  /\ \A m, n \in model : m = n
  /\ sequences \in [DOMAIN sequences -> [len : Nat, limit : Nat, reserved : Nat]]

LengthsFit ==
  \A m \in model, s \in DOMAIN sequences :
    sequences[s].len <= sequences[s].limit /\ sequences[s].limit <= m.window

PromisesCover ==
  Batched => \A m \in model, s \in DOMAIN sequences :
    CeilDiv(sequences[s].len, m.block) <= sequences[s].reserved

PromisesFit ==
  /\ IsFiniteSet(Outstanding)
  /\ Batched => \A m \in model : Cardinality(Outstanding) <= m.blocks

SizingInv ==
  TypeInv /\ NothingWithoutModel /\ LanesCoverSlots /\ LengthsFit /\ PromisesCover /\ PromisesFit

LEMMA InitInv == SizingInit => SizingInv
<1> SUFFICES ASSUME SizingInit PROVE SizingInv
  OBVIOUS
<1>1. DOMAIN sequences = {} /\ model = {}
  BY DEF SizingInit, NoSequences
<1>2. TypeInv
  BY <1>1, SizingAssumption DEF SizingInit, TypeInv, NoSequences
<1>3. Outstanding = {}
  BY <1>1 DEF Outstanding
<1>4. IsFiniteSet(Outstanding)
  BY <1>3, FS_EmptySet
<1> QED
  BY <1>1, <1>2, <1>4
     DEF SizingInv, NothingWithoutModel, Nobody, LanesCoverSlots, LengthsFit, PromisesCover,
         PromisesFit

(* It implies that the tokens written are in the pool ...                  *)
LEMMA TokensInPool == SizingInv => PoolCoversTokens
<1> SUFFICES ASSUME SizingInv, NEW m \in model PROVE Cardinality(Occupied(m)) <= m.blocks
  BY DEF PoolCoversTokens
<1>1. ModelOK(m) /\ m.block \in Nat \ {0} /\ m.blocks \in Nat /\ m.window \in Nat
  BY DEF SizingInv, TypeInv, ModelOK, Models
<1>2. \A s \in DOMAIN sequences : sequences[s] \in [len : Nat, limit : Nat, reserved : Nat]
  BY DEF SizingInv, TypeInv
<1>3. CASE Batched
  <2>1. Occupied(m) \subseteq Outstanding
    <3> SUFFICES ASSUME NEW s \in DOMAIN sequences
                 PROVE  BlocksOf(s, sequences[s].len, m.block) \subseteq Outstanding
      BY DEF Occupied
    <3>1. CeilDiv(sequences[s].len, m.block) \in Nat /\ sequences[s].reserved \in Nat
      BY <1>1, <1>2, CeilDivNat
    <3>2. CeilDiv(sequences[s].len, m.block) <= sequences[s].reserved
      BY <1>3 DEF SizingInv, PromisesCover
    <3>3. 1 .. CeilDiv(sequences[s].len, m.block) \subseteq 1 .. sequences[s].reserved
      BY <3>1, <3>2
    <3> QED
      BY <3>3 DEF BlocksOf, Outstanding
  <2>2. IsFiniteSet(Outstanding) /\ Cardinality(Outstanding) <= m.blocks
    BY <1>3 DEF SizingInv, PromisesFit
  <2>3. Cardinality(Occupied(m)) <= Cardinality(Outstanding) /\ IsFiniteSet(Occupied(m))
    BY <2>1, <2>2, FS_Subset
  <2>4. Cardinality(Occupied(m)) \in Nat /\ Cardinality(Outstanding) \in Nat
    BY <2>2, <2>3, FS_CardinalityType
  <2> QED
    BY <1>1, <2>2, <2>3, <2>4
<1>4. CASE ~Batched
  <2> DEFINE lane == {0} \X (1 .. m.blocks)
  <2>1. m.lanes = 1 /\ m.blocks = CeilDiv(m.window, m.block)
    BY <1>1, <1>4 DEF ModelOK
  <2>2. \A s \in DOMAIN sequences : s = 0
    BY <2>1 DEF SizingInv, LanesCoverSlots
  <2>3. Occupied(m) \subseteq lane
    <3> SUFFICES ASSUME NEW s \in DOMAIN sequences
                 PROVE  BlocksOf(s, sequences[s].len, m.block) \subseteq lane
      BY DEF Occupied
    <3>1. sequences[s].len \in Nat /\ sequences[s].len <= m.window
      BY <1>1, <1>2 DEF SizingInv, LengthsFit
    <3>2. CeilDiv(sequences[s].len, m.block) <= m.blocks
      BY <1>1, <2>1, <3>1, CeilDivMono
    <3>3. CeilDiv(sequences[s].len, m.block) \in Nat
      BY <1>1, <3>1, CeilDivNat
    <3>4. 1 .. CeilDiv(sequences[s].len, m.block) \subseteq 1 .. m.blocks
      BY <1>1, <3>2, <3>3
    <3> QED
      BY <2>2, <3>4 DEF BlocksOf
  <2>4. IsFiniteSet(1 .. m.blocks) /\ Cardinality(1 .. m.blocks) = m.blocks
    BY <1>1, FS_Interval
  <2>5. IsFiniteSet(lane) /\ Cardinality(lane) = 1 * m.blocks
    <3>1. IsFiniteSet({0}) /\ Cardinality({0}) = 1
      BY FS_Singleton
    <3> QED
      BY <2>4, <3>1, FS_Product, ZenonT(60)
  <2>6. IsFiniteSet(Occupied(m)) /\ Cardinality(Occupied(m)) <= Cardinality(lane)
    BY <2>3, <2>5, FS_Subset
  <2> QED
    BY <1>1, <2>5, <2>6
<1> QED
  BY <1>3, <1>4

(* ... and that the admission before a load was promised nothing the load  *)
(* did not size.                                                           *)
LEMMA PreloadSound == SizingInv => PreloadAgrees
<1> SUFFICES ASSUME SizingInv, Batched, NEW m \in Built(config)
             PROVE  /\ CapacityKv({}, config) = CapacityKv({m}, config)
                    /\ CapacitySlots({}, config) = CapacitySlots({m}, config)
  BY DEF PreloadAgrees
<1> DEFINE seqLen == MaxSeqLen(config)
           slots == MaxSlots(config)
           pool == PoolTokens(config)
<1>1. server \in Servers /\ env \in Environments /\ config \in Llama3ServerConfig
  BY DEF SizingInv, TypeInv
<1>2. seqLen \in Nat /\ slots \in Nat /\ pool \in Nat
  BY <1>1, KnobsNat
<1>3. m \in InitLlama(seqLen, slots, pool)
  BY <1>1, BatchedLoad
<1>4. /\ m.lanes = slots /\ m.block = Lesser(DefaultBlock, seqLen)
      /\ m.blocks = CeilDiv(IF pool > 0 THEN pool ELSE slots * seqLen, m.block)
  BY <1>2, <1>3, InitLlamaSizes
<1>5. CapacityKv({}, config)
        = [block |-> Lesser(DefaultBlock, seqLen),
           blocks |-> CeilDiv(IF pool > 0 THEN pool ELSE slots * seqLen,
                              Lesser(DefaultBlock, seqLen))]
  BY DEF CapacityKv
<1>6. CapacitySlots({}, config) = slots /\ Lesser(slots, slots) = slots
  BY DEF CapacitySlots, Lesser
<1> QED
  BY <1>4, <1>5, <1>6, LoadedCapacity

-------------------------------------------------------------------------------
(* Sequences come, go and grow.                                            *)

(* What the types say of one sequence.                                     *)
LEMMA SequenceType ==
  ASSUME TypeInv, NEW s \in DOMAIN sequences
  PROVE  /\ sequences[s] \in [len : Nat, limit : Nat, reserved : Nat]
         /\ sequences[s].len \in Nat /\ sequences[s].limit \in Nat
         /\ sequences[s].reserved \in Nat
BY DEF TypeInv

LEMMA LoadedType ==
  ASSUME TypeInv, NEW m \in model
  PROVE  /\ m.window \in Nat /\ m.lanes \in Nat /\ m.block \in Nat \ {0}
         /\ m.blocks \in Nat \ {0} /\ model = {m}
BY DEF TypeInv, ModelOK, Models

(* A new promise of k blocks in a free slot adds k to what is outstanding. *)
LEMMA OutstandingWith ==
  ASSUME NEW slot, slot \notin DOMAIN sequences, NEW k \in Nat, NEW l, NEW n,
         IsFiniteSet(Outstanding),
         sequences' = With(slot, [len |-> l, limit |-> n, reserved |-> k])
  PROVE  /\ IsFiniteSet(Outstanding')
         /\ Cardinality(Outstanding') <= Cardinality(Outstanding) + k
<1> DEFINE more == {slot} \X (1 .. k)
<1>1. DOMAIN sequences' = DOMAIN sequences \cup {slot}
  BY DEF With
<1>2. \A s \in DOMAIN sequences : sequences'[s] = sequences[s]
  BY DEF With
<1>3. sequences'[slot].reserved = k
  BY DEF With
<1>4. Outstanding' = Outstanding \cup more
  BY <1>1, <1>2, <1>3 DEF Outstanding
<1>5. IsFiniteSet(1 .. k) /\ Cardinality(1 .. k) = k
  BY FS_Interval
<1>6. IsFiniteSet({slot}) /\ Cardinality({slot}) = 1
  BY FS_Singleton
<1>7. IsFiniteSet(more) /\ Cardinality(more) = k
  BY <1>5, <1>6, FS_Product
<1>8. /\ IsFiniteSet(Outstanding')
      /\ Cardinality(Outstanding')
           = Cardinality(Outstanding) + Cardinality(more) - Cardinality(Outstanding \cap more)
  BY <1>4, <1>7, FS_Union
<1>9. /\ Cardinality(Outstanding) \in Nat
      /\ Cardinality(Outstanding \cap more) \in Nat
  <2>1. IsFiniteSet(Outstanding \cap more)
    BY <1>7, FS_Intersection
  <2> QED
    BY <2>1, FS_CardinalityType
<1> QED
  BY <1>7, <1>8, <1>9

(* A promise raised from r to k blocks adds the difference.                *)
LEMMA OutstandingRaised ==
  ASSUME NEW slot \in DOMAIN sequences, NEW k \in Nat,
         sequences[slot].reserved \in Nat, sequences[slot].reserved <= k,
         IsFiniteSet(Outstanding),
         DOMAIN sequences' = DOMAIN sequences,
         sequences'[slot].reserved = k,
         \A s \in DOMAIN sequences \ {slot} : sequences'[s].reserved = sequences[s].reserved
  PROVE  /\ IsFiniteSet(Outstanding')
         /\ Cardinality(Outstanding')
              <= Cardinality(Outstanding) + (k - sequences[slot].reserved)
<1> DEFINE r == sequences[slot].reserved
           more == {slot} \X (r + 1 .. k)
<1>1. Outstanding' \subseteq Outstanding \cup more
  <2> SUFFICES ASSUME NEW s \in DOMAIN sequences
               PROVE  {s} \X (1 .. sequences'[s].reserved) \subseteq Outstanding \cup more
    BY DEF Outstanding
  <2>1. CASE s # slot
    BY <2>1 DEF Outstanding
  <2>2. CASE s = slot
    <3>1. 1 .. k \subseteq (1 .. r) \cup (r + 1 .. k)
      OBVIOUS
    <3>2. {slot} \X (1 .. r) \subseteq Outstanding
      BY DEF Outstanding
    <3> QED
      BY <2>2, <3>1, <3>2
  <2> QED
    BY <2>1, <2>2
<1>2. IsFiniteSet(r + 1 .. k) /\ Cardinality(r + 1 .. k) = k - r
  <2>1. r + 1 \in Int /\ k \in Int
    OBVIOUS
  <2>2. (IF r + 1 > k THEN 0 ELSE k - (r + 1) + 1) = k - r
    OBVIOUS
  <2> QED
    BY <2>1, <2>2, FS_Interval
<1>3. IsFiniteSet({slot}) /\ Cardinality({slot}) = 1
  BY FS_Singleton
<1>4. IsFiniteSet(more) /\ Cardinality(more) = k - r
  <2>1. IsFiniteSet(more) /\ Cardinality(more) = Cardinality({slot}) * Cardinality(r + 1 .. k)
    BY <1>2, <1>3, FS_Product
  <2> QED
    BY <1>2, <1>3, <2>1
<1>5. /\ IsFiniteSet(Outstanding \cup more)
      /\ Cardinality(Outstanding \cup more)
           = Cardinality(Outstanding) + Cardinality(more) - Cardinality(Outstanding \cap more)
  BY <1>4, FS_Union
<1>6. /\ IsFiniteSet(Outstanding')
      /\ Cardinality(Outstanding') <= Cardinality(Outstanding \cup more)
  BY <1>1, <1>5, FS_Subset
<1>7. /\ Cardinality(Outstanding) \in Nat /\ Cardinality(Outstanding') \in Nat
      /\ Cardinality(Outstanding \cap more) \in Nat
  <2>1. IsFiniteSet(Outstanding \cap more)
    BY <1>4, FS_Intersection
  <2> QED
    BY <1>6, <2>1, FS_CardinalityType
<1> QED
  BY <1>4, <1>5, <1>6, <1>7

-------------------------------------------------------------------------------
(* The invariant is kept. First where no sequence is touched.              *)

SameServer == server' = server /\ env' = env

LEMMA SameServerSame ==
  ASSUME SameServer, NEW m
  PROVE  (Batched' <=> Batched) /\ (ModelOK(m)' <=> ModelOK(m))
BY DEF SameServer, Batched, ModelOK

LEMMA StillInv ==
  ASSUME SizingInv, SameServer, config' \in Llama3ServerConfig,
         model' = model, sequences' = sequences
  PROVE  SizingInv'
<1>1. Batched' <=> Batched
  BY SameServerSame
<1>2. \A m : ModelOK(m)' <=> ModelOK(m)
  BY SameServerSame
<1>3. TypeInv'
  BY <1>2 DEF SizingInv, TypeInv, SameServer
<1>4. Outstanding' = Outstanding
  BY DEF Outstanding
<1>5. PromisesFit'
  BY <1>1, <1>4 DEF SizingInv, PromisesFit
<1>6. NothingWithoutModel' /\ LanesCoverSlots' /\ LengthsFit'
  BY DEF SizingInv, NothingWithoutModel, Nobody, LanesCoverSlots, LengthsFit
<1>7. PromisesCover'
  BY <1>1 DEF SizingInv, PromisesCover
<1> QED
  BY <1>3, <1>5, <1>6, <1>7 DEF SizingInv

(* A model comes or goes while nobody is there.                            *)
LEMMA ModelChangesInv ==
  ASSUME SizingInv, SameServer, config' \in Llama3ServerConfig, DOMAIN sequences' = {},
         \/ model' = {}
         \/ \E m \in Built(config) : model' = {m}
  PROVE  SizingInv'
<1>1. \A m \in model' : ModelOK(m)
  BY BuiltOK DEF SizingInv, TypeInv
<1>2. \A m \in model' : ModelOK(m)'
  BY <1>1, SameServerSame
<1>3. TypeInv'
  BY <1>2 DEF SizingInv, TypeInv, SameServer
<1>4. Outstanding' = {}
  BY DEF Outstanding
<1>5. IsFiniteSet(Outstanding') /\ Cardinality(Outstanding') = 0
  BY <1>4, FS_EmptySet
<1>6. \A m \in model' : m.blocks \in Nat
  BY <1>1 DEF ModelOK, Models
<1>7. PromisesFit'
  BY <1>5, <1>6 DEF PromisesFit
<1> QED
  BY <1>3, <1>7 DEF SizingInv, NothingWithoutModel, Nobody, LanesCoverSlots, LengthsFit,
                    PromisesCover

(* The model a request finds, or has built for it, is sound; and it is     *)
(* built for the first only.                                               *)
LEMMA ReadyOK ==
  ASSUME SizingInv, NEW m \in Ready(model, config)
  PROVE  /\ ModelOK(m)
         /\ m.window \in Nat /\ m.lanes \in Nat /\ m.block \in Nat \ {0}
         /\ m.blocks \in Nat \ {0}
         /\ model = {m} \/ (model = {} /\ DOMAIN sequences = {})
<1>1. server \in Servers /\ env \in Environments /\ config \in Llama3ServerConfig
  BY DEF SizingInv, TypeInv
<1>2. CASE model = {}
  <2>1. m \in Built(config)
    BY <1>2 DEF Ready
  <2>2. ModelOK(m)
    BY <1>1, <2>1, BuiltOK
  <2> QED
    BY <1>2, <2>2 DEF ModelOK, Models, SizingInv, NothingWithoutModel, Nobody
<1>3. CASE model # {}
  <2>1. m \in model
    BY <1>3 DEF Ready
  <2> QED
    BY <2>1, LoadedType DEF SizingInv, TypeInv
<1> QED
  BY <1>2, <1>3

(* A sequence enters a free lane of a sound model, within its window and   *)
(* with a promise the pool can keep.                                       *)
LEMMA EntersInv ==
  ASSUME SizingInv, SameServer, config' = config, NEW m \in Ready(model, config), model' = {m},
         NEW slot \in 0 .. m.lanes - 1, slot \notin DOMAIN sequences,
         NEW limit \in Nat, limit <= m.window, NEW k \in Nat,
         Batched => k + Cardinality(Outstanding) <= m.blocks,
         sequences' = With(slot, [len |-> 0, limit |-> limit, reserved |-> k])
  PROVE  SizingInv'
<1> DEFINE new == [len |-> 0, limit |-> limit, reserved |-> k]
<1>1. /\ ModelOK(m)
      /\ m.window \in Nat /\ m.lanes \in Nat /\ m.block \in Nat \ {0}
      /\ m.blocks \in Nat \ {0}
      /\ model = {m} \/ (model = {} /\ DOMAIN sequences = {})
  BY ReadyOK
<1>2. /\ DOMAIN sequences' = DOMAIN sequences \cup {slot}
      /\ sequences'[slot] = new
      /\ \A s \in DOMAIN sequences : sequences'[s] = sequences[s]
      /\ sequences' = [s \in DOMAIN sequences' |-> sequences'[s]]
  BY DEF With
<1>3. new \in [len : Nat, limit : Nat, reserved : Nat]
  OBVIOUS
<1>4. ModelOK(m)' /\ (Batched' <=> Batched)
  BY <1>1, SameServerSame
<1>5. TypeInv'
  <2>1. \A s \in DOMAIN sequences' : sequences'[s] \in [len : Nat, limit : Nat, reserved : Nat]
    BY <1>2, <1>3, SequenceType DEF SizingInv
  <2>2. sequences' \in [DOMAIN sequences' -> [len : Nat, limit : Nat, reserved : Nat]]
    BY <1>2, <2>1
  <2> QED
    BY <1>4, <2>2 DEF SizingInv, TypeInv, SameServer
<1>6. NothingWithoutModel'
  BY DEF NothingWithoutModel
<1>7. LanesCoverSlots'
  <2>1. DOMAIN sequences \subseteq 0 .. m.lanes - 1
    BY <1>1 DEF SizingInv, LanesCoverSlots
  <2> QED
    BY <1>2, <2>1 DEF LanesCoverSlots
<1>8. LengthsFit'
  <2> SUFFICES ASSUME NEW s \in DOMAIN sequences'
               PROVE  sequences'[s].len <= sequences'[s].limit /\ sequences'[s].limit <= m.window
    BY DEF LengthsFit
  <2>1. CASE s = slot
    BY <1>2, <2>1
  <2>2. CASE s # slot
    BY <1>1, <1>2, <2>2 DEF SizingInv, LengthsFit
  <2> QED
    BY <2>1, <2>2
<1>9. PromisesCover'
  <2> SUFFICES ASSUME Batched, NEW s \in DOMAIN sequences'
               PROVE  CeilDiv(sequences'[s].len, m.block) <= sequences'[s].reserved
    BY <1>4 DEF PromisesCover
  <2>1. CASE s = slot
    BY <1>1, <1>2, <2>1, CeilDivZero
  <2>2. CASE s # slot
    BY <1>1, <1>2, <2>2 DEF SizingInv, PromisesCover
  <2> QED
    BY <2>1, <2>2
<1>10. PromisesFit'
  <2>1. IsFiniteSet(Outstanding)
    BY DEF SizingInv, PromisesFit
  <2>2. /\ IsFiniteSet(Outstanding')
        /\ Cardinality(Outstanding') <= Cardinality(Outstanding) + k
    BY <2>1, OutstandingWith
  <2>3. Cardinality(Outstanding) \in Nat /\ Cardinality(Outstanding') \in Nat
    BY <2>1, <2>2, FS_CardinalityType
  <2>4. Batched => Cardinality(Outstanding') <= m.blocks
    BY <1>1, <2>2, <2>3
  <2> QED
    BY <1>4, <2>2, <2>4 DEF PromisesFit
<1> QED
  BY <1>5, <1>6, <1>7, <1>8, <1>9, <1>10 DEF SizingInv

(* A request's length is a number, whatever cap came with it.              *)
LEMMA LimitNat ==
  ASSUME NEW c \in Llama3ServerConfig, NEW request \in Requests, NEW window \in Nat
  PROVE  /\ Lesser(request.prompt + Resolve(c, request), window) \in Nat
         /\ Lesser(request.prompt + Resolve(c, request), window) <= window
         /\ Lesser(request.prompt + 1, window) \in Nat
<1>1. request.prompt \in Nat /\ request.maxTokens \subseteq Nat /\ c.sampleLen \in Nat
  BY SizingAssumption DEF Llama3ServerConfig
<1>2. Resolve(c, request) \in Nat
  BY <1>1 DEF Resolve
<1> QED
  BY <1>1, <1>2 DEF Lesser

LEMMA AdmitInv == SizingInv /\ AdmitRequest => SizingInv'
<1> SUFFICES ASSUME SizingInv, AdmitRequest PROVE SizingInv'
  OBVIOUS
<1>1. /\ server \in Servers /\ env \in Environments /\ config \in Llama3ServerConfig
      /\ SameServer /\ config' = config /\ Batched
  BY DEF SizingInv, TypeInv, AdmitRequest, SameServer
<1>2. PICK m \in Ready(model, config), request \in Requests :
        LET kv == CapacityKv({m}, config)
            limit == Lesser(request.prompt + Resolve(config, request), m.window)
            first == Lesser(request.prompt + 1, m.window)
            need == CeilDiv(limit, kv.block)
            guaranteed == IF Nobody \/ reserve THEN need ELSE CeilDiv(first, kv.block)
        IN /\ guaranteed + Cardinality(Outstanding) <= kv.blocks
           /\ \E slot \in FreeSlots({m}) :
                sequences' = With(slot, [len |-> 0, limit |-> limit, reserved |-> guaranteed])
           /\ model' = {m}
  BY DEF AdmitRequest
<1>3. /\ m.window \in Nat /\ m.lanes \in Nat /\ m.block \in Nat \ {0}
      /\ m.blocks \in Nat \ {0}
  BY ReadyOK
<1>4. /\ CapacityKv({m}, config).block = m.block
      /\ CapacityKv({m}, config).blocks = m.blocks
      /\ CapacitySlots({m}, config) = Lesser(MaxSlots(config), m.lanes)
  <2>1. /\ CapacityKv({m}, config) = [block |-> m.block, blocks |-> m.blocks]
        /\ CapacitySlots({m}, config) = Lesser(MaxSlots(config), m.lanes)
    BY LoadedCapacity
  <2> QED
    BY <2>1
<1> DEFINE limit == Lesser(request.prompt + Resolve(config, request), m.window)
           first == Lesser(request.prompt + 1, m.window)
           k == IF Nobody \/ reserve THEN CeilDiv(limit, m.block) ELSE CeilDiv(first, m.block)
<1>5. limit \in Nat /\ limit <= m.window /\ first \in Nat
  BY <1>1, <1>3, LimitNat
<1>6. k \in Nat
  BY <1>3, <1>5, CeilDivNat
<1>7. k + Cardinality(Outstanding) <= m.blocks /\ model' = {m}
  BY <1>2, <1>4
<1>8. PICK slot \in FreeSlots({m}) :
        sequences' = With(slot, [len |-> 0, limit |-> limit, reserved |-> k])
  BY <1>2, <1>4
<1>9. slot \in 0 .. m.lanes - 1 /\ slot \notin DOMAIN sequences
  <2>1. MaxSlots(config) \in Nat
    BY <1>1, KnobsNat
  <2> QED
    BY <1>3, <1>4, <2>1 DEF FreeSlots, Lesser
<1> HIDE DEF limit, k
<1> QED
  BY <1>1, <1>5, <1>6, <1>7, <1>8, <1>9, EntersInv

(* Behind the mutex the one lane is free, and its window is its pool.      *)
LEMMA RunJobInv == SizingInv /\ RunJob => SizingInv'
<1> SUFFICES ASSUME SizingInv, RunJob PROVE SizingInv'
  OBVIOUS
<1>1. /\ config \in Llama3ServerConfig /\ SameServer /\ config' = config /\ ~Batched /\ Nobody
  BY DEF SizingInv, TypeInv, RunJob, SameServer
<1>2. PICK m \in Ready(model, config), request \in Requests :
        LET limit == Lesser(request.prompt + Resolve(config, request), m.window) IN
        /\ model' = {m}
        /\ sequences' = With(0, [len |-> 0, limit |-> limit, reserved |-> 0])
  BY DEF RunJob
<1> DEFINE limit == Lesser(request.prompt + Resolve(config, request), m.window)
<1>3. m.window \in Nat /\ m.lanes = 1
  BY <1>1, ReadyOK DEF ModelOK
<1>4. limit \in Nat /\ limit <= m.window
  BY <1>1, <1>3, LimitNat
<1>5. 0 \in 0 .. m.lanes - 1 /\ 0 \notin DOMAIN sequences
  BY <1>1, <1>3 DEF Nobody
<1>6. sequences' = With(0, [len |-> 0, limit |-> limit, reserved |-> 0]) /\ model' = {m}
  BY <1>2
<1> HIDE DEF limit
<1> QED
  BY <1>1, <1>4, <1>5, <1>6, EntersInv

(* A sequence that writes is granted the blocks it lacks.                  *)
LEMMA AdvanceInv == SizingInv /\ Advance => SizingInv'
<1> SUFFICES ASSUME SizingInv, Advance PROVE SizingInv'
  OBVIOUS
<1>1. SameServer /\ config' = config /\ model' = model /\ Batched
  BY DEF Advance, SameServer
<1>2. PICK m \in model, s \in DOMAIN sequences :
        LET kv == CapacityKv(model, config)
            need == CeilDiv(sequences[s].len + 1, kv.block)
        IN /\ sequences[s].len < sequences[s].limit
           /\ \/ need <= sequences[s].reserved
              \/ need - sequences[s].reserved + Cardinality(Outstanding) <= kv.blocks
           /\ sequences' = [sequences EXCEPT ![s].len = @ + 1,
                         ![s].reserved = IF need <= @ THEN @ ELSE need]
  BY DEF Advance
<1>3. /\ m.window \in Nat /\ m.lanes \in Nat /\ m.block \in Nat \ {0}
      /\ m.blocks \in Nat \ {0} /\ model = {m}
  BY LoadedType DEF SizingInv
<1>4. CapacityKv(model, config).block = m.block /\ CapacityKv(model, config).blocks = m.blocks
  <2>1. CapacityKv(model, config) = [block |-> m.block, blocks |-> m.blocks]
    BY <1>3, LoadedCapacity
  <2> QED
    BY <2>1
<1>5. /\ sequences[s] \in [len : Nat, limit : Nat, reserved : Nat]
      /\ sequences[s].len \in Nat /\ sequences[s].limit \in Nat
      /\ sequences[s].reserved \in Nat
  BY SequenceType DEF SizingInv
<1> DEFINE need == CeilDiv(sequences[s].len + 1, m.block)
           k == IF need <= sequences[s].reserved THEN sequences[s].reserved ELSE need
<1>6. need \in Nat
  <2>1. sequences[s].len + 1 \in Nat
    BY <1>5
  <2> QED
    BY <1>3, <2>1, CeilDivNat
<1>7. /\ sequences[s].len < sequences[s].limit
      /\ \/ need <= sequences[s].reserved
         \/ need - sequences[s].reserved + Cardinality(Outstanding) <= m.blocks
      /\ sequences' = [sequences EXCEPT ![s].len = @ + 1, ![s].reserved = k]
  <2> HIDE DEF need
  <2>1. sequences' = [sequences EXCEPT ![s].len = @ + 1,
                         ![s].reserved = IF need <= @ THEN @ ELSE need]
    BY <1>2, <1>4 DEF need
  <2>2. /\ sequences[s].len < sequences[s].limit
        /\ \/ need <= sequences[s].reserved
           \/ need - sequences[s].reserved + Cardinality(Outstanding) <= m.blocks
    BY <1>2, <1>4 DEF need
  <2> QED
    BY <1>5, <2>1, <2>2
<1> HIDE DEF need
<1>8. /\ k \in Nat /\ need <= k /\ sequences[s].reserved <= k
      /\ k = sequences[s].reserved
         \/ k - sequences[s].reserved + Cardinality(Outstanding) <= m.blocks
  BY <1>5, <1>6, <1>7
<1> HIDE DEF k
<1>9. sequences = [r \in DOMAIN sequences |-> sequences[r]]
  BY DEF SizingInv, TypeInv
<1>10. /\ DOMAIN sequences' = DOMAIN sequences
       /\ sequences' = [r \in DOMAIN sequences |-> sequences'[r]]
       /\ sequences'[s] = [sequences[s] EXCEPT !.len = @ + 1, !.reserved = k]
       /\ \A r \in DOMAIN sequences \ {s} : sequences'[r] = sequences[r]
  BY <1>7, <1>9
<1>11. /\ sequences'[s] \in [len : Nat, limit : Nat, reserved : Nat]
       /\ sequences'[s].len = sequences[s].len + 1
       /\ sequences'[s].limit = sequences[s].limit
       /\ sequences'[s].reserved = k
  <2>1. sequences'[s]
          = [len |-> sequences[s].len + 1, limit |-> sequences[s].limit, reserved |-> k]
    BY <1>5, <1>10
  <2> QED
    BY <1>5, <1>8, <2>1
<1>12. TypeInv'
  <2>1. \A r \in DOMAIN sequences' : sequences'[r] \in [len : Nat, limit : Nat, reserved : Nat]
    BY <1>10, <1>11, SequenceType DEF SizingInv
  <2>2. sequences' \in [DOMAIN sequences' -> [len : Nat, limit : Nat, reserved : Nat]]
    BY <1>10, <2>1
  <2>3. \A n : ModelOK(n)' <=> ModelOK(n)
    BY <1>1, SameServerSame
  <2> QED
    BY <1>1, <2>2, <2>3 DEF SizingInv, TypeInv, SameServer
<1>13. NothingWithoutModel' /\ LanesCoverSlots'
  BY <1>1, <1>10 DEF SizingInv, NothingWithoutModel, Nobody, LanesCoverSlots
<1>14. LengthsFit'
  <2> SUFFICES ASSUME NEW r \in DOMAIN sequences
               PROVE  sequences'[r].len <= sequences'[r].limit /\ sequences'[r].limit <= m.window
    BY <1>1, <1>3, <1>10 DEF LengthsFit
  <2>1. CASE r = s
    BY <1>3, <1>5, <1>7, <1>11, <2>1 DEF SizingInv, LengthsFit
  <2>2. CASE r # s
    BY <1>3, <1>10, <2>2 DEF SizingInv, LengthsFit
  <2> QED
    BY <2>1, <2>2
<1>15. PromisesCover'
  <2> SUFFICES ASSUME NEW r \in DOMAIN sequences
               PROVE  CeilDiv(sequences'[r].len, m.block) <= sequences'[r].reserved
    BY <1>1, <1>3, <1>10 DEF PromisesCover
  <2>1. CASE r = s
    BY <1>8, <1>11, <2>1 DEF need
  <2>2. CASE r # s
    BY <1>1, <1>3, <1>10, <2>2 DEF SizingInv, PromisesCover
  <2> QED
    BY <2>1, <2>2
<1>16. PromisesFit'
  <2>1. IsFiniteSet(Outstanding) /\ Cardinality(Outstanding) <= m.blocks
    BY <1>1, <1>3 DEF SizingInv, PromisesFit
  <2>2. \A r \in DOMAIN sequences \ {s} : sequences'[r].reserved = sequences[r].reserved
    BY <1>10
  <2>3. /\ IsFiniteSet(Outstanding')
        /\ Cardinality(Outstanding') <= Cardinality(Outstanding) + (k - sequences[s].reserved)
    BY <1>5, <1>8, <1>10, <1>11, <2>1, <2>2, OutstandingRaised
  <2>4. Cardinality(Outstanding) \in Nat /\ Cardinality(Outstanding') \in Nat
    BY <2>1, <2>3, FS_CardinalityType
  <2>5. Cardinality(Outstanding') <= m.blocks
    BY <1>3, <1>5, <1>8, <2>1, <2>3, <2>4
  <2> QED
    BY <1>1, <1>3, <2>3, <2>5 DEF PromisesFit
<1> QED
  BY <1>12, <1>13, <1>14, <1>15, <1>16 DEF SizingInv

(* Behind the mutex nothing is reserved, and only the length grows.        *)
LEMMA WriteAloneInv == SizingInv /\ WriteAlone => SizingInv'
<1> SUFFICES ASSUME SizingInv, WriteAlone PROVE SizingInv'
  OBVIOUS
<1>1. SameServer /\ config' = config /\ model' = model /\ ~Batched
  BY DEF WriteAlone, SameServer
<1>2. PICK s \in DOMAIN sequences :
        /\ sequences[s].len < sequences[s].limit
        /\ sequences' = [sequences EXCEPT ![s].len = @ + 1]
  BY DEF WriteAlone
<1>3. /\ sequences[s] \in [len : Nat, limit : Nat, reserved : Nat]
      /\ sequences[s].len \in Nat /\ sequences[s].limit \in Nat
  BY SequenceType DEF SizingInv
<1>4. sequences = [r \in DOMAIN sequences |-> sequences[r]]
  BY DEF SizingInv, TypeInv
<1>5. /\ DOMAIN sequences' = DOMAIN sequences
      /\ sequences' = [r \in DOMAIN sequences |-> sequences'[r]]
      /\ sequences'[s] = [sequences[s] EXCEPT !.len = @ + 1]
      /\ \A r \in DOMAIN sequences \ {s} : sequences'[r] = sequences[r]
  BY <1>2, <1>4
<1>6. /\ sequences'[s] \in [len : Nat, limit : Nat, reserved : Nat]
      /\ sequences'[s].len = sequences[s].len + 1
      /\ sequences'[s].limit = sequences[s].limit
      /\ sequences'[s].reserved = sequences[s].reserved
  BY <1>3, <1>5
<1>7. TypeInv'
  <2>1. \A r \in DOMAIN sequences' : sequences'[r] \in [len : Nat, limit : Nat, reserved : Nat]
    BY <1>5, <1>6, SequenceType DEF SizingInv
  <2>2. sequences' \in [DOMAIN sequences' -> [len : Nat, limit : Nat, reserved : Nat]]
    BY <1>5, <2>1
  <2>3. \A n : ModelOK(n)' <=> ModelOK(n)
    BY <1>1, SameServerSame
  <2> QED
    BY <1>1, <2>2, <2>3 DEF SizingInv, TypeInv, SameServer
<1>8. NothingWithoutModel' /\ LanesCoverSlots'
  BY <1>1, <1>5 DEF SizingInv, NothingWithoutModel, Nobody, LanesCoverSlots
<1>9. LengthsFit'
  <2> SUFFICES ASSUME NEW m \in model, NEW r \in DOMAIN sequences
               PROVE  sequences'[r].len <= sequences'[r].limit /\ sequences'[r].limit <= m.window
    BY <1>1, <1>5 DEF LengthsFit
  <2>1. CASE r = s
    BY <1>2, <1>3, <1>6, <2>1 DEF SizingInv, LengthsFit
  <2>2. CASE r # s
    BY <1>5, <2>2 DEF SizingInv, LengthsFit
  <2> QED
    BY <2>1, <2>2
<1>10. PromisesCover'
  BY <1>1 DEF PromisesCover, SameServer, Batched
<1>11. Outstanding' = Outstanding
  <2>1. \A r \in DOMAIN sequences : sequences'[r].reserved = sequences[r].reserved
    BY <1>5, <1>6
  <2> QED
    BY <1>5, <2>1 DEF Outstanding
<1>12. PromisesFit'
  BY <1>1, <1>11 DEF SizingInv, PromisesFit, SameServer, Batched
<1> QED
  BY <1>7, <1>8, <1>9, <1>10, <1>12 DEF SizingInv

(* A sequence that leaves gives its promise back.                          *)
LEMMA RetireInv == SizingInv /\ Retire => SizingInv'
<1> SUFFICES ASSUME SizingInv, Retire PROVE SizingInv'
  OBVIOUS
<1>1. SameServer /\ config' = config /\ model' = model
  BY DEF Retire, SameServer
<1>2. PICK s \in DOMAIN sequences : sequences' = Without(s)
  BY DEF Retire
<1>3. /\ DOMAIN sequences' = DOMAIN sequences \ {s}
      /\ \A r \in DOMAIN sequences' : sequences'[r] = sequences[r]
      /\ sequences' = [r \in DOMAIN sequences' |-> sequences'[r]]
  BY <1>2 DEF Without
<1>4. (Batched' <=> Batched) /\ \A n : ModelOK(n)' <=> ModelOK(n)
  BY <1>1, SameServerSame
<1>5. TypeInv'
  <2>1. \A r \in DOMAIN sequences' : sequences'[r] \in [len : Nat, limit : Nat, reserved : Nat]
    BY <1>3, SequenceType DEF SizingInv
  <2>2. sequences' \in [DOMAIN sequences' -> [len : Nat, limit : Nat, reserved : Nat]]
    BY <1>3, <2>1
  <2> QED
    BY <1>1, <1>4, <2>2 DEF SizingInv, TypeInv, SameServer
<1>6. NothingWithoutModel' /\ LanesCoverSlots'
  BY <1>1, <1>3 DEF SizingInv, NothingWithoutModel, Nobody, LanesCoverSlots
<1>7. LengthsFit'
  BY <1>1, <1>3 DEF SizingInv, LengthsFit
<1>8. PromisesCover'
  BY <1>1, <1>3, <1>4 DEF SizingInv, PromisesCover
<1>9. PromisesFit'
  <2>1. Outstanding' \subseteq Outstanding
    BY <1>3 DEF Outstanding
  <2>2. IsFiniteSet(Outstanding)
    BY DEF SizingInv, PromisesFit
  <2>3. IsFiniteSet(Outstanding') /\ Cardinality(Outstanding') <= Cardinality(Outstanding)
    BY <2>1, <2>2, FS_Subset
  <2>4. Cardinality(Outstanding') \in Nat /\ Cardinality(Outstanding) \in Nat
    BY <2>2, <2>3, FS_CardinalityType
  <2>5. \A m \in model : m.blocks \in Nat
    BY LoadedType DEF SizingInv
  <2> QED
    BY <1>1, <1>4, <2>3, <2>4, <2>5 DEF SizingInv, PromisesFit
<1> QED
  BY <1>5, <1>6, <1>7, <1>8, <1>9 DEF SizingInv

LEMMA StepInv == SizingInv /\ [SizingNext]_sizingVars => SizingInv'
<1> SUFFICES ASSUME SizingInv, [SizingNext]_sizingVars PROVE SizingInv'
  OBVIOUS
<1>1. config \in Llama3ServerConfig
  BY DEF SizingInv, TypeInv
<1>2. CASE ParseConfig
  <2>1. config' \in Llama3ServerConfig
    BY <1>2, SizingAssumption DEF ParseConfig
  <2> QED
    BY <1>2, <2>1, StillInv DEF ParseConfig, SameServer
<1>3. CASE LoadModel
  <2>1. DOMAIN sequences' = {}
    BY <1>3 DEF LoadModel, SizingInv, NothingWithoutModel, Nobody
  <2> QED
    BY <1>1, <1>3, <2>1, ModelChangesInv DEF LoadModel, SameServer
<1>4. CASE UnloadModel
  BY <1>1, <1>4, ModelChangesInv DEF UnloadModel, SameServer, Nobody
<1>5. CASE AdmitRequest
  BY <1>5, AdmitInv
<1>6. CASE Advance
  BY <1>6, AdvanceInv
<1>7. CASE Retire
  BY <1>7, RetireInv
<1>8. CASE RunJob
  BY <1>8, RunJobInv
<1>9. CASE WriteAlone
  BY <1>9, WriteAloneInv
<1>10. CASE ServerPanics
  <2>1. CASE Batched
    <3>1. DOMAIN sequences' = {}
      BY <1>10, <2>1 DEF ServerPanics, NoSequences
    <3> QED
      BY <1>10, <2>1, <3>1, SizingAssumption, ModelChangesInv DEF ServerPanics, SameServer
  <2>2. CASE ~Batched
    BY <1>1, <1>10, <2>2, StillInv DEF ServerPanics, SameServer
  <2> QED
    BY <2>1, <2>2
<1>11. CASE UNCHANGED sizingVars
  BY <1>1, <1>11, StillInv DEF sizingVars, SameServer
<1> QED
  BY <1>2, <1>3, <1>4, <1>5, <1>6, <1>7, <1>8, <1>9, <1>10, <1>11 DEF SizingNext

-------------------------------------------------------------------------------
(* Whatever is parsed, loaded, admitted and unloaded: the slots handed out *)
(* are lanes of the loaded cache, the tokens written are in its pool,      *)
(* nothing runs without a model, and what admission goes by before a load  *)
(* is what the load sizes (batch_capacity, init_llama, admit_requests).    *)
THEOREM ServedFitsAlways == SizingSpec => []ServedFits
<1>1. SizingInv => ServedFits
  BY TokensInPool, PreloadSound DEF SizingInv, ServedFits
<1> QED
  BY <1>1, InitInv, StepInv, PTL DEF SizingSpec

-------------------------------------------------------------------------------
(* The published model's directory.                                        *)

Commands == {"None", "Download", "Load", "Delete"}
Places == {"Idle", "Check", "Fetch", "Create", "Write", "Choose", "Read", "Rename", "Look", "Remove"}
Procedures ==
  [command : Commands, at : Places, on : Names, open : Nat, left : SUBSET Blocks,
   from : {"mpk", "bpk"}]
Contents == [inode : Nat, blocks : SUBSET Blocks]

CopyTypes ==
  /\ file \in [Names -> Contents] /\ proc \in [Procs -> Procedures]
  /\ inodes \in Nat /\ torn \subseteq Downloads

(* No two names are of one file, and none of a file not made yet.          *)
OneName ==
  /\ \A f \in Names : file[f].inode <= inodes
  /\ \A p \in Procs : proc[p].open <= inodes
  /\ \A f, g \in Names : Exists(f) /\ file[f].inode = file[g].inode => f = g

(* What a process makes is a download or its own temporary file, and it    *)
(* writes to a file that has this name, or none any more.                  *)
OwnTarget ==
  \A p \in Procs :
    /\ proc[p].at \in {"Idle", "Check", "Fetch", "Choose", "Read", "Look", "Remove"} =>
         proc[p].on \in Downloads
    /\ proc[p].at \in {"Create", "Write"} => proc[p].on \in Downloads \cup {p}
    /\ At(p, "Rename") => proc[p].on = p
    /\ At(p, "Write") => /\ proc[p].open # 0
                         /\ \A f \in Names : proc[p].open = file[f].inode => f = proc[p].on

(* Where a process is with its copy.                                       *)
CopyGrows ==
  \A p \in Procs : proc[p].on = p =>
    /\ At(p, "Write") => proc[p].open = file[p].inode /\ Blocks \ proc[p].left \subseteq file[p].blocks
    /\ At(p, "Rename") => Exists(p) /\ Whole(p)

(* Who last emptied a download still has its missing blocks to write.      *)
Finishes(p, f) ==
  /\ At(p, "Write") /\ proc[p].open = file[f].inode
  /\ Blocks \ proc[p].left \subseteq file[f].blocks

CopyInv ==
  /\ CopyTypes /\ OneName /\ OwnTarget /\ CopyGrows
  /\ Exists("bpk") => Whole("bpk")
  /\ \A f \in Downloads : Exists(f) /\ ~Whole(f) =>
       f \in torn \/ \E p \in Procs : Finishes(p, f)

Starts == {"Idle", "Check", "Fetch", "Choose", "Read", "Look", "Remove"}

(* A step that leaves the files alone and opens none.                      *)
LEMMA MovesKeepCopy ==
  ASSUME CopyInv, NEW p \in Procs, NEW r \in Procedures, proc' = [proc EXCEPT ![p] = r],
         UNCHANGED <<file, inodes>>, torn \subseteq torn', torn' \subseteq Downloads,
         r.at # "Write", r.open <= inodes,
         r.at \in Starts => r.on \in Downloads,
         r.at = "Create" => r.on \in Downloads \cup {p},
         r.at = "Rename" => r.on = p /\ Exists(p) /\ Whole(p),
         \A f \in Downloads : Finishes(p, f) => f \in torn' \/ Whole(f)
  PROVE  CopyInv'
<1>1. proc' \in [Procs -> Procedures] /\ proc'[p] = r /\ \A q \in Procs \ {p} : proc'[q] = proc[q]
  BY DEF CopyInv, CopyTypes
<1>2. CopyTypes' /\ OneName'
  BY <1>1 DEF CopyInv, CopyTypes, OneName, Exists
<1>3. OwnTarget'
  BY <1>1 DEF CopyInv, OwnTarget, At, Starts
<1>4. CopyGrows'
  BY <1>1 DEF CopyInv, CopyGrows, At, Exists, Whole
<1>5. (Exists("bpk") => Whole("bpk"))'
  BY DEF CopyInv, Exists, Whole
<1>6. ASSUME NEW f \in Downloads, Exists(f)', ~Whole(f)'
      PROVE  f \in torn' \/ \E q \in Procs : Finishes(q, f)'
  <2>1. f \in torn \/ \E q \in Procs : Finishes(q, f)
    BY <1>6 DEF CopyInv, Exists, Whole
  <2>2. ASSUME NEW q \in Procs, Finishes(q, f), q # p PROVE Finishes(q, f)'
    BY <1>1, <2>2 DEF Finishes, At
  <2>3. ~Whole(f)
    BY <1>6 DEF Whole
  <2> QED
    BY <1>1, <2>1, <2>2, <2>3
<1> QED
  BY <1>2, <1>3, <1>4, <1>5, <1>6 DEF CopyInv

(* Where a process that leaves a state of its own goes next.               *)
Onward(p) ==
  \E r \in Procedures :
    /\ proc' = [proc EXCEPT ![p] = r] /\ r.at \notin {"Write", "Rename"} /\ r.open <= inodes
    /\ r.at \in Starts => r.on \in Downloads
    /\ r.at = "Create" => r.on \in Downloads \cup {p}

LEMMA GoesOnward ==
  ASSUME CopyInv, NEW p \in Procs, NEW where \in Starts,
         proc[p].on \in Downloads, Goes(p, where)
  PROVE  Onward(p)
<1> DEFINE r == [proc[p] EXCEPT !.at = where]
<1>1. r \in Procedures /\ r.at = where /\ r.on = proc[p].on /\ r.open = proc[p].open
  BY DEF CopyInv, CopyTypes, Procedures, Starts, Places
<1>2. proc' = [proc EXCEPT ![p] = r] /\ proc[p].open <= inodes
  BY DEF Goes, CopyInv, OneName
<1> HIDE DEF r
<1> QED
  BY <1>1, <1>2 DEF Onward, Starts

LEMMA GoesToOnward ==
  ASSUME CopyInv, NEW p \in Procs, NEW where \in Starts \cup {"Create"}, NEW f \in Names,
         IF where = "Create" THEN f \in Downloads \cup {p} ELSE f \in Downloads,
         GoesTo(p, where, f)
  PROVE  Onward(p)
<1> DEFINE r == [proc[p] EXCEPT !.at = where, !.on = f]
<1>1. r \in Procedures /\ r.at = where /\ r.on = f /\ r.open = proc[p].open
  BY DEF CopyInv, CopyTypes, Procedures, Starts, Places
<1>2. proc' = [proc EXCEPT ![p] = r] /\ proc[p].open <= inodes
  BY DEF GoesTo, CopyInv, OneName
<1> HIDE DEF r
<1> QED
  BY <1>1, <1>2 DEF Onward, Starts

LEMMA EndsOnward ==
  ASSUME CopyInv, NEW p \in Procs, NEW how, Ends(p, how)
  PROVE  Onward(p)
<1>1. Idle \in Procedures /\ Idle.at = "Idle" /\ Idle.on = "mpk" /\ Idle.open = 0
  BY DEF Idle, Procedures, Commands, Places, Names, Downloads
<1>2. proc' = [proc EXCEPT ![p] = Idle] /\ 0 <= inodes
  BY DEF Ends, CopyInv, CopyTypes
<1> HIDE DEF Idle
<1> QED
  BY <1>1, <1>2 DEF Onward, Starts, Downloads

LEMMA GotOnward ==
  ASSUME CopyInv, NEW p \in Procs, proc[p].on \in Downloads, Got(p)
  PROVE  Onward(p)
<1>1. "tok" \in Downloads /\ "tok" \in Names /\ {"Choose", "Check", "Read"} \subseteq Starts
  BY DEF Downloads, Names, Starts
<1>2. Goes(p, "Choose") \/ GoesTo(p, "Check", "tok") \/ Goes(p, "Read") \/ Ends(p, "Downloaded")
  BY DEF Got
<1> QED
  BY <1>1, <1>2, GoesOnward, GoesToOnward, EndsOnward

LEMMA OnwardKeepsCopy ==
  ASSUME CopyInv, NEW p \in Procs, Onward(p), UNCHANGED <<file, inodes>>,
         torn \subseteq torn', torn' \subseteq Downloads,
         \A f \in Downloads : Finishes(p, f) => f \in torn' \/ Whole(f)
  PROVE  CopyInv'
BY MovesKeepCopy DEF Onward

LEMMA QuietKeepsCopy ==
  ASSUME CopyInv, NEW p \in Procs,
         \/ \E command \in {"Download", "Load", "Delete"} : Run(p, command)
         \/ Present(p) \/ Fetch(p) \/ Choose(p) \/ Read(p) \/ Look(p)
  PROVE  CopyInv'
<1>1. UNCHANGED <<file, inodes, torn>> /\ torn \subseteq Downloads
  BY DEF Run, Present, Fetch, Choose, Read, Look, CopyInv, CopyTypes
<1>2. ~At(p, "Write") /\ (At(p, "Idle") \/ proc[p].on \in Downloads)
  BY DEF Run, Present, Fetch, Choose, Read, Look, At, CopyInv, OwnTarget
<1>3. {"Check", "Fetch", "Look", "Remove"} \subseteq Starts /\ "tok" \in Downloads \cap Names
  BY DEF Starts, Downloads, Names
<1>4. CASE \E command \in {"Download", "Load", "Delete"} : Run(p, command)
  <2>1. PICK command \in {"Download", "Load", "Delete"} : Run(p, command)
    BY <1>4
  <2> DEFINE r == [Idle EXCEPT !.command = command,
                               !.at = IF command = "Delete" THEN "Look" ELSE "Check"]
  <2>2. r \in Procedures /\ r.at \in {"Look", "Check"} /\ r.on = "mpk" /\ r.open = 0
    BY DEF Idle, Procedures, Commands, Places, Names, Downloads
  <2>3. proc' = [proc EXCEPT ![p] = r] /\ 0 <= inodes
    BY <2>1 DEF Run, CopyInv, CopyTypes
  <2> HIDE DEF r
  <2>4. Onward(p)
    BY <2>2, <2>3 DEF Onward, Starts, Downloads
  <2> QED
    BY <1>1, <1>2, <2>4, OnwardKeepsCopy DEF Finishes
<1>5. CASE Present(p)
  <2>1. Got(p) \/ Goes(p, "Fetch")
    BY <1>5 DEF Present
  <2>2. proc[p].on \in Downloads
    BY <1>2, <1>5 DEF Present, At
  <2>3. Onward(p)
    BY <1>3, <2>1, <2>2, GotOnward, GoesOnward
  <2> QED
    BY <1>1, <1>2, <2>3, OnwardKeepsCopy DEF Finishes
<1>6. CASE Fetch(p)
  <2>1. Goes(p, "Create") \/ Ends(p, "Panicked")
    BY <1>6 DEF Fetch
  <2>2. Goes(p, "Create") => GoesTo(p, "Create", proc[p].on)
    BY DEF Goes, GoesTo, CopyInv, CopyTypes, Procedures
  <2>3. proc[p].on \in Downloads /\ proc[p].on \in Names
    BY <1>2, <1>6 DEF Fetch, At, Names
  <2>4. Onward(p)
    BY <2>1, <2>2, <2>3, GoesToOnward, EndsOnward
  <2> QED
    BY <1>1, <1>2, <2>4, OnwardKeepsCopy DEF Finishes
<1>7. CASE Choose(p)
  <2> DEFINE r == [proc[p] EXCEPT !.from = IF Exists("bpk") THEN "bpk" ELSE "mpk",
                                  !.at = "Check", !.on = "tok"]
  <2>1. r \in Procedures /\ r.at = "Check" /\ r.on = "tok" /\ r.open = proc[p].open
    BY <1>3 DEF CopyInv, CopyTypes, Procedures, Places
  <2>2. proc' = [proc EXCEPT ![p] = r] /\ proc[p].open <= inodes
    BY <1>7 DEF Choose, CopyInv, OneName
  <2> HIDE DEF r
  <2>3. Onward(p)
    BY <1>3, <2>1, <2>2 DEF Onward
  <2> QED
    BY <1>1, <1>2, <2>3, OnwardKeepsCopy DEF Finishes
<1>8. CASE Read(p)
  <2>1. Ends(p, "Panicked") \/ Ends(p, "Loaded") \/ GoesTo(p, "Create", TempOf(p))
    BY <1>8 DEF Read
  <2>2. TempOf(p) \in Downloads \cup {p} /\ TempOf(p) \in Names
    BY DEF TempOf, Names
  <2>3. Onward(p)
    BY <2>1, <2>2, GoesToOnward, EndsOnward
  <2> QED
    BY <1>1, <1>2, <2>3, OnwardKeepsCopy DEF Finishes
<1>9. CASE Look(p)
  <2>1. Goes(p, "Remove") \/ GoesTo(p, "Look", "tok") \/ Ends(p, "Deleted")
    BY <1>9 DEF Look
  <2>2. proc[p].on \in Downloads
    BY <1>2, <1>9 DEF Look, At
  <2>3. Onward(p)
    BY <1>3, <2>1, <2>2, GoesOnward, GoesToOnward, EndsOnward
  <2> QED
    BY <1>1, <1>2, <2>3, OnwardKeepsCopy DEF Finishes
<1> QED
  BY <1>4, <1>5, <1>6, <1>7, <1>8, <1>9

(* A writer that has written everything leaves a whole file, one that dies *)
(* a torn one.                                                             *)
LEMMA WrittenKeepsCopy ==
  ASSUME CopyInv, NEW p \in Procs, Written(p)
  PROVE  CopyInv'
<1>1. /\ At(p, "Write") /\ proc[p].left = {} /\ UNCHANGED <<file, inodes, torn>>
      /\ torn \subseteq Downloads
  BY DEF Written, CopyInv, CopyTypes
<1>2. \A f \in Names : Finishes(p, f) => Whole(f)
  BY <1>1 DEF Finishes, Whole, CopyInv, CopyTypes, Contents
<1>3. \A f \in Downloads : Finishes(p, f) => f \in torn' \/ Whole(f)
  BY <1>2 DEF Names
<1>4. CASE proc[p].on \in Downloads
  <2>1. Got(p)
    BY <1>4 DEF Written
  <2> QED
    BY <1>1, <1>3, <1>4, <2>1, GotOnward, OnwardKeepsCopy
<1>5. CASE proc[p].on \notin Downloads
  <2>1. Goes(p, "Rename") /\ proc[p].on = p /\ p \in Names
    BY <1>1, <1>5 DEF Written, CopyInv, OwnTarget, At, Names
  <2>2. Exists(p) /\ Whole(p)
    BY <1>1, <1>2, <2>1 DEF CopyInv, CopyGrows, OwnTarget, Finishes, Exists
  <2> DEFINE r == [proc[p] EXCEPT !.at = "Rename"]
  <2>3. r \in Procedures /\ r.at = "Rename" /\ r.on = p /\ r.open = proc[p].open
    BY <2>1 DEF CopyInv, CopyTypes, Procedures, Places
  <2>4. proc' = [proc EXCEPT ![p] = r] /\ proc[p].open <= inodes
    BY <2>1 DEF Goes, CopyInv, OneName
  <2> HIDE DEF r
  <2> QED
    BY <1>1, <1>3, <2>2, <2>3, <2>4, MovesKeepCopy DEF Starts
<1> QED
  BY <1>4, <1>5

LEMMA TornLeft ==
  ASSUME CopyInv, NEW p \in Procs, torn' = Torn(p)
  PROVE  /\ torn \subseteq torn' /\ torn' \subseteq Downloads
         /\ \A f \in Downloads : Finishes(p, f) => f \in torn'
<1>1. torn \subseteq torn' /\ torn' \subseteq Downloads
  BY DEF Torn, CopyInv, CopyTypes
<1>2. \A f \in Names : Finishes(p, f) => f = proc[p].on
  BY DEF Finishes, CopyInv, OwnTarget
<1>3. \A f \in Downloads : Finishes(p, f) => f \in torn'
  BY <1>2 DEF Torn, Finishes, Names
<1> QED
  BY <1>1, <1>3

LEMMA DiesKeepsCopy ==
  ASSUME CopyInv, NEW p \in Procs, Dies(p)
  PROVE  CopyInv'
<1>1. Onward(p)
  BY EndsOnward DEF Dies
<1> QED
  BY <1>1, TornLeft, OnwardKeepsCopy DEF Dies

(* What a change of one name's file does to the rest of the directory.     *)
LEMMA RestKeepsCopy ==
  ASSUME CopyInv, NEW p \in Procs, NEW r \in Procedures, NEW g \in Names, NEW c \in Contents,
         proc' = [proc EXCEPT ![p] = r], file' = [file EXCEPT ![g] = c],
         inodes' \in Nat, inodes <= inodes', torn' \subseteq Downloads, torn \ {g} \subseteq torn',
         c.inode <= inodes', r.open <= inodes',
         c.inode # 0 => c.inode = file[g].inode \/ c.inode = inodes + 1,
         g \in Downloads \cup {p},
         r.at \in Starts => r.on \in Downloads, r.at # "Rename",
         r.at = "Create" => r.on \in Downloads \cup {p},
         r.at = "Write" => r.on = g /\ c.inode # 0 /\ r.open = c.inode /\ r.left = Blocks,
         c.inode # 0 => r.at = "Write",
         \A f \in Downloads \ {g} : Finishes(p, f) => f \in torn' \/ Whole(f)
  PROVE  CopyInv'
<1>1. /\ proc' \in [Procs -> Procedures] /\ proc'[p] = r
      /\ \A q \in Procs \ {p} : proc'[q] = proc[q]
  BY DEF CopyInv, CopyTypes
<1>2. file' \in [Names -> Contents] /\ file'[g] = c /\ \A f \in Names \ {g} : file'[f] = file[f]
  BY DEF CopyInv, CopyTypes
<1>3. "bpk" # g /\ "bpk" \in Names /\ "bpk" \notin Downloads /\ p \notin Downloads
      /\ Downloads \subseteq Names /\ Procs \subseteq Names /\ Procs \cap Downloads = {}
  BY CacheAssumption DEF Names, Downloads
<1>4. \A f \in Names : file[f].inode \in Nat /\ file[f].inode <= inodes
  BY DEF CopyInv, CopyTypes, OneName, Contents
<1>5. \A q \in Procs : proc[q].open \in Nat /\ proc[q].open <= inodes
  BY DEF CopyInv, CopyTypes, OneName, Procedures
<1>6. inodes \in Nat /\ c.inode \in Nat
  BY DEF CopyInv, CopyTypes, Contents
<1>7. CopyTypes'
  BY <1>1, <1>2 DEF CopyTypes
<1>8. OneName'
  <2>1. \A f \in Names : file'[f].inode <= inodes'
    BY <1>2, <1>4, <1>6
  <2>2. \A q \in Procs : proc'[q].open <= inodes'
    BY <1>1, <1>5, <1>6
  <2>3. ASSUME NEW f \in Names, NEW h \in Names, Exists(f)', file'[f].inode = file'[h].inode
        PROVE  f = h
    <3>1. CASE f # g /\ h # g
      BY <1>2, <2>3, <3>1 DEF CopyInv, OneName, Exists
    <3>2. CASE f = g \/ h = g
      <4>1. c.inode # 0 /\ \A k \in Names \ {g} : file[k].inode # c.inode
        BY <1>2, <1>4, <1>6, <2>3, <3>2 DEF CopyInv, OneName, Exists
      <4> QED
        BY <1>2, <2>3, <3>2, <4>1
    <3> QED
      BY <3>1, <3>2
  <2> QED
    BY <2>1, <2>2, <2>3 DEF OneName
<1>9. OwnTarget'
  <2>1. ASSUME NEW q \in Procs \ {p}, proc[q].at = "Write", NEW f \in Names,
               proc[q].open = file'[f].inode
        PROVE  f = proc[q].on
    <3>1. CASE f # g
      BY <1>2, <2>1, <3>1 DEF CopyInv, OwnTarget, At
    <3>2. CASE f = g
      <4>1. c.inode # 0 /\ c.inode # inodes + 1
        BY <1>2, <1>5, <1>6, <2>1, <3>2 DEF CopyInv, OwnTarget, At
      <4>2. proc[q].open = file[g].inode
        BY <1>2, <2>1, <3>2, <4>1
      <4> QED
        BY <2>1, <3>2, <4>2 DEF CopyInv, OwnTarget, At
    <3> QED
      BY <3>1, <3>2
  <2>2. ASSUME r.at = "Write", NEW f \in Names, r.open = file'[f].inode PROVE f = r.on
    BY <1>2, <1>4, <1>6, <2>2 DEF CopyInv, OneName, Exists
  <2> QED
    BY <1>1, <2>1, <2>2 DEF CopyInv, OwnTarget, At, Starts
<1>10. CopyGrows'
  <2>1. \A q \in Procs \ {p} : g # q
    BY <1>3
  <2> QED
    BY <1>1, <1>2, <1>3, <2>1 DEF CopyInv, CopyGrows, At, Exists, Whole
<1>11. (Exists("bpk") => Whole("bpk"))'
  BY <1>2, <1>3 DEF CopyInv, Exists, Whole
<1>12. ASSUME NEW f \in Downloads, Exists(f)', ~Whole(f)'
       PROVE  f \in torn' \/ \E q \in Procs : Finishes(q, f)'
  <2>1. CASE f = g
    BY <1>1, <1>2, <1>12, <2>1 DEF Finishes, At, Exists
  <2>2. CASE f # g
    <3>1. f \in torn \/ \E q \in Procs : Finishes(q, f)
      BY <1>2, <1>3, <1>12, <2>2 DEF CopyInv, Exists, Whole
    <3>2. ASSUME NEW q \in Procs, Finishes(q, f), q # p PROVE Finishes(q, f)'
      BY <1>1, <1>2, <1>3, <2>2, <3>2 DEF Finishes, At
    <3>3. ~Whole(f)
      BY <1>2, <1>3, <1>12, <2>2 DEF Whole
    <3> QED
      BY <1>12, <2>2, <3>1, <3>2, <3>3
  <2> QED
    BY <2>1, <2>2
<1> QED
  BY <1>7, <1>8, <1>9, <1>10, <1>11, <1>12 DEF CopyInv

LEMMA CreateKeepsCopy ==
  ASSUME CopyInv, NEW p \in Procs, Create(p)
  PROVE  CopyInv'
<1> DEFINE g == proc[p].on
           inode == IF Exists(g) THEN file[g].inode ELSE inodes + 1
           c == [inode |-> inode, blocks |-> {}]
           r == [proc[p] EXCEPT !.at = "Write", !.open = inode, !.left = Blocks]
<1>1. g \in Names /\ g \in Downloads \cup {p} /\ proc[p] \in Procedures /\ ~At(p, "Write")
  BY DEF Create, At, CopyInv, CopyTypes, OwnTarget, Procedures
<1>2. file[g].inode \in Nat /\ file[g].inode <= inodes /\ inodes \in Nat
  BY <1>1 DEF CopyInv, CopyTypes, OneName, Contents
<1>3. /\ inode \in Nat /\ inode # 0 /\ inode <= inodes' /\ inodes' \in Nat /\ inodes <= inodes'
      /\ inode = file[g].inode \/ inode = inodes + 1
  BY <1>2 DEF Create, Exists
<1>4. c \in Contents /\ c.inode = inode
  BY <1>3 DEF Contents
<1>5. /\ r \in Procedures /\ r.at = "Write" /\ r.on = g /\ r.open = inode /\ r.left = Blocks
  BY <1>1, <1>3 DEF Procedures, Places
<1>6. proc' = [proc EXCEPT ![p] = r] /\ file' = [file EXCEPT ![g] = c] /\ torn' = torn
  BY DEF Create
<1>7. torn' \subseteq Downloads /\ torn \ {g} \subseteq torn' /\ r.at \notin Starts
  BY <1>5, <1>6 DEF CopyInv, CopyTypes, Starts
<1>8. \A f \in Downloads \ {g} : Finishes(p, f) => f \in torn' \/ Whole(f)
  BY <1>1 DEF Finishes
<1> HIDE DEF r, c, inode, g
<1>9. /\ c.inode <= inodes' /\ r.open <= inodes' /\ c.inode # 0 /\ r.open = c.inode
      /\ c.inode = file[g].inode \/ c.inode = inodes + 1
  BY <1>3, <1>4, <1>5
<1> QED
  BY <1>1, <1>3, <1>4, <1>5, <1>6, <1>7, <1>8, <1>9, RestKeepsCopy

(* A file removed.                                                         *)
LEMMA RemovalKeepsCopy ==
  ASSUME CopyInv, NEW p \in Procs, NEW g \in Names, g \in Downloads \cup {p},
         file' = [file EXCEPT ![g] = NoFile], inodes' = inodes,
         torn' \subseteq Downloads, torn \ {g} \subseteq torn', Onward(p),
         \A f \in Downloads \ {g} : Finishes(p, f) => f \in torn' \/ Whole(f)
  PROVE  CopyInv'
<1>1. NoFile \in Contents /\ NoFile.inode = 0
  BY DEF NoFile, Contents
<1>2. inodes \in Nat /\ inodes <= inodes' /\ 0 <= inodes'
  BY DEF CopyInv, CopyTypes
<1> HIDE DEF NoFile
<1>3. PICK r \in Procedures :
        /\ proc' = [proc EXCEPT ![p] = r] /\ r.at \notin {"Write", "Rename"} /\ r.open <= inodes
        /\ r.at \in Starts => r.on \in Downloads
        /\ r.at = "Create" => r.on \in Downloads \cup {p}
  BY DEF Onward
<1> QED
  BY <1>1, <1>2, <1>3, RestKeepsCopy

LEMMA WriteFailsKeepsCopy ==
  ASSUME CopyInv, NEW p \in Procs, WriteFails(p)
  PROVE  CopyInv'
<1>1. /\ Onward(p) /\ inodes' = inodes /\ proc[p].on \in Downloads \cup {p}
      /\ proc[p].on \in Names
  <2>1. \E how : Ends(p, how)
    BY DEF WriteFails
  <2>2. inodes' = inodes /\ proc[p].on \in Downloads \cup {p} /\ proc[p].on \in Names
    BY DEF WriteFails, At, CopyInv, OwnTarget, CopyTypes, Procedures
  <2> QED
    BY <2>1, <2>2, EndsOnward
<1>2. /\ torn \subseteq torn' /\ torn' \subseteq Downloads
      /\ \A f \in Downloads : Finishes(p, f) => f \in torn'
  BY TornLeft DEF WriteFails
<1>3. CASE proc[p].on \in Downloads
  BY <1>1, <1>2, <1>3, OnwardKeepsCopy DEF WriteFails
<1>4. CASE proc[p].on \notin Downloads
  <2>1. file' = [file EXCEPT ![proc[p].on] = NoFile]
    BY <1>4 DEF WriteFails
  <2> QED
    BY <1>1, <1>2, <2>1, RemovalKeepsCopy
<1> QED
  BY <1>3, <1>4

LEMMA UnlinkKeepsCopy ==
  ASSUME CopyInv, NEW p \in Procs, Unlink(p)
  PROVE  CopyInv'
<1>1. /\ inodes' = inodes /\ proc[p].on \in Downloads /\ proc[p].on \in Names
      /\ file' = [file EXCEPT ![proc[p].on] = NoFile] /\ ~At(p, "Write")
  BY DEF Unlink, At, CopyInv, OwnTarget, Names
<1>2. torn' \subseteq Downloads /\ torn \ {proc[p].on} \subseteq torn'
  BY DEF Unlink, CopyInv, CopyTypes
<1>3. Onward(p)
  <2>1. Ends(p, "Panicked") \/ GoesTo(p, "Look", "tok") \/ Ends(p, "Deleted")
    BY DEF Unlink
  <2>2. "Look" \in Starts /\ "tok" \in Names /\ "tok" \in Downloads
    BY DEF Starts, Names, Downloads
  <2> QED
    BY <2>1, <2>2, GoesToOnward, EndsOnward
<1> QED
  BY <1>1, <1>2, <1>3, RemovalKeepsCopy DEF Finishes

(* A block written is one less to write, for whoever writes this file.     *)
LEMMA WriteKeepsCopy ==
  ASSUME CopyInv, NEW p \in Procs, Write(p)
  PROVE  CopyInv'
<1>1. PICK b \in proc[p].left :
        /\ file' = [f \in Names |-> IF file[f].inode = proc[p].open
                                    THEN [file[f] EXCEPT !.blocks = @ \cup {b}] ELSE file[f]]
        /\ proc' = [proc EXCEPT ![p].left = @ \ {b}]
  <2>1. proc[p].left \subseteq Blocks /\ proc[p].left # {}
    BY DEF Write, CopyInv, CopyTypes, Procedures
  <2>2. \E b \in proc[p].left : \A d \in proc[p].left : b <= d
    BY <2>1 DEF Blocks
  <2> QED
    BY <2>2 DEF Write
<1>2. /\ At(p, "Write") /\ UNCHANGED <<inodes, torn>> /\ b \in Blocks
      /\ proc[p] \in Procedures /\ proc[p].open # 0
  BY DEF Write, CopyInv, CopyTypes, OwnTarget, Procedures
<1>3. \A f \in Names : /\ file[f] \in Contents /\ file'[f] \in Contents
                       /\ file'[f].inode = file[f].inode /\ file[f].blocks \subseteq file'[f].blocks
                       /\ file[f].inode = proc[p].open => b \in file'[f].blocks
                       /\ file[f].inode # proc[p].open => file'[f] = file[f]
  BY <1>1, <1>2 DEF CopyInv, CopyTypes, Contents
<1> DEFINE r == [proc[p] EXCEPT !.left = @ \ {b}]
<1>4. /\ r \in Procedures /\ r.at = "Write" /\ r.on = proc[p].on /\ r.open = proc[p].open
      /\ r.left = proc[p].left \ {b}
  BY <1>2 DEF Procedures, At
<1>5. proc' = [proc EXCEPT ![p] = r]
  BY <1>1
<1> HIDE DEF r
<1>6. proc' \in [Procs -> Procedures] /\ proc'[p] = r /\ \A q \in Procs \ {p} : proc'[q] = proc[q]
  BY <1>4, <1>5 DEF CopyInv, CopyTypes
<1>7. CopyTypes'
  <2>1. file' \in [Names -> Contents]
    BY <1>1, <1>3
  <2> QED
    BY <1>2, <1>6, <2>1 DEF CopyInv, CopyTypes
<1>8. OneName'
  BY <1>2, <1>3, <1>4, <1>6 DEF CopyInv, OneName, Exists
<1>9. OwnTarget'
  BY <1>2, <1>3, <1>4, <1>6 DEF CopyInv, OwnTarget, At
<1>10. ASSUME NEW q \in Procs, NEW f \in Names, proc[q].open = file[f].inode,
              Blocks \ proc[q].left \subseteq file[f].blocks
       PROVE  Blocks \ proc'[q].left \subseteq file'[f].blocks
  <2>1. CASE q = p
    BY <1>3, <1>4, <1>6, <1>10, <2>1
  <2>2. CASE q # p
    BY <1>3, <1>6, <1>10, <2>2
  <2> QED
    BY <2>1, <2>2
<1>11. \A q \in Procs : /\ proc'[q].at = proc[q].at /\ proc'[q].on = proc[q].on
                        /\ proc'[q].open = proc[q].open
  BY <1>2, <1>4, <1>6 DEF At
<1>12. \A f \in Names : Whole(f) => Whole(f)'
  BY <1>3 DEF Whole, Contents
<1>13. CopyGrows'
  <2>1. \A q \in Procs : q \in Names
    BY DEF Names
  <2>2. ASSUME NEW q \in Procs, proc[q].on = q, At(q, "Write")
        PROVE  proc[q].open = file'[q].inode /\ Blocks \ proc'[q].left \subseteq file'[q].blocks
    BY <1>3, <1>10, <2>1, <2>2 DEF CopyInv, CopyGrows
  <2>3. ASSUME NEW q \in Procs, proc[q].on = q, At(q, "Rename")
        PROVE  Exists(q)' /\ Whole(q)'
    BY <1>3, <1>12, <2>1, <2>3 DEF CopyInv, CopyGrows, Exists
  <2> QED
    BY <1>11, <2>2, <2>3 DEF CopyGrows, At
<1>14. (Exists("bpk") => Whole("bpk"))'
  BY <1>3, <1>12 DEF CopyInv, Exists, Names
<1>15. ASSUME NEW f \in Downloads, Exists(f)', ~Whole(f)'
       PROVE  f \in torn' \/ \E q \in Procs : Finishes(q, f)'
  <2>1. f \in Names /\ Exists(f) /\ ~Whole(f)
    BY <1>3, <1>12, <1>15 DEF Exists, Names
  <2>2. f \in torn \/ \E q \in Procs : Finishes(q, f)
    BY <2>1 DEF CopyInv
  <2>3. ASSUME NEW q \in Procs, Finishes(q, f) PROVE Finishes(q, f)'
    BY <1>3, <1>10, <1>11, <2>1, <2>3 DEF Finishes, At
  <2> QED
    BY <1>2, <2>2, <2>3
<1> QED
  BY <1>7, <1>8, <1>9, <1>13, <1>14, <1>15 DEF CopyInv

(* The copy takes its name whole, and nobody writes to it under the other. *)
LEMMA RenameKeepsCopy ==
  ASSUME CopyInv, NEW p \in Procs, Rename(p)
  PROVE  CopyInv'
<1>1. /\ At(p, "Rename") /\ proc[p].on = p /\ Exists(p) /\ Whole(p) /\ UNCHANGED <<inodes, torn>>
  BY DEF Rename, CopyInv, OwnTarget, CopyGrows
<1>2. /\ "bpk" \in Names /\ "bpk" \notin Downloads /\ p \notin Downloads /\ p # "bpk"
      /\ Downloads \subseteq Names /\ Procs \subseteq Names /\ "bpk" \notin Procs
  BY CacheAssumption DEF Names, Downloads
<1>3. NoFile \in Contents /\ NoFile.inode = 0
  BY DEF NoFile, Contents
<1>4. file' = [file EXCEPT !["bpk"] = file[p], ![p] = NoFile]
  BY <1>1 DEF Rename
<1> HIDE DEF NoFile
<1>5. /\ file' \in [Names -> Contents] /\ file'["bpk"] = file[p] /\ file'[p] = NoFile
      /\ \A f \in Names \ {p, "bpk"} : file'[f] = file[f]
  BY <1>2, <1>3, <1>4 DEF CopyInv, CopyTypes
<1>6. /\ Idle \in Procedures /\ Idle.at = "Idle" /\ Idle.on = "mpk" /\ Idle.open = 0
  BY DEF Idle, Procedures, Commands, Places, Names, Downloads
<1>7. proc' = [proc EXCEPT ![p] = Idle]
  BY DEF Rename, Ends
<1> HIDE DEF Idle
<1>8. proc' \in [Procs -> Procedures] /\ proc'[p] = Idle /\ \A q \in Procs \ {p} : proc'[q] = proc[q]
  BY <1>6, <1>7 DEF CopyInv, CopyTypes
<1>9. CopyTypes'
  BY <1>1, <1>5, <1>8 DEF CopyInv, CopyTypes
<1>10. OneName'
  <2>1. /\ \A f \in Names : file[f].inode \in Nat /\ file[f].inode <= inodes
        /\ \A q \in Procs : proc[q].open <= inodes
        /\ inodes \in Nat
    BY DEF CopyInv, CopyTypes, OneName, Contents
  <2>2. \A f \in Names : file'[f].inode <= inodes
    BY <1>2, <1>3, <1>5, <2>1
  <2>3. \A q \in Procs : proc'[q].open <= inodes
    BY <1>6, <1>8, <2>1
  <2>4. ASSUME NEW f \in Names, NEW h \in Names, Exists(f)', file'[f].inode = file'[h].inode
        PROVE  f = h
    <3>1. f # p /\ h # p
      BY <1>3, <1>5, <2>4 DEF Exists
    <3> QED
      BY <1>2, <1>5, <2>4, <3>1 DEF CopyInv, OneName, Exists
  <2> QED
    BY <1>1, <2>2, <2>3, <2>4 DEF OneName
<1>11. OwnTarget'
  <2>1. ASSUME NEW q \in Procs \ {p}, At(q, "Write"), NEW f \in Names, proc[q].open = file'[f].inode
        PROVE  f = proc[q].on
    <3>1. proc[q].on # p /\ proc[q].open # 0
      BY <1>2, <2>1 DEF CopyInv, OwnTarget, At
    <3>2. f # p
      BY <1>3, <1>5, <2>1, <3>1
    <3>3. f # "bpk"
      BY <1>2, <1>5, <2>1, <3>1 DEF CopyInv, OwnTarget
    <3> QED
      BY <1>5, <2>1, <3>2, <3>3 DEF CopyInv, OwnTarget
  <2> QED
    BY <1>6, <1>8, <2>1 DEF CopyInv, OwnTarget, At, Downloads
<1>12. CopyGrows'
  BY <1>2, <1>5, <1>6, <1>8 DEF CopyInv, CopyGrows, At, Exists, Whole, Downloads
<1>13. (Exists("bpk") => Whole("bpk"))'
  BY <1>1, <1>5 DEF Whole
<1>14. ASSUME NEW f \in Downloads, Exists(f)', ~Whole(f)'
       PROVE  f \in torn' \/ \E q \in Procs : Finishes(q, f)'
  <2>1. f \in Names \ {p, "bpk"}
    BY <1>2
  <2>2. f \in torn \/ \E q \in Procs : Finishes(q, f)
    BY <1>5, <1>14, <2>1 DEF CopyInv, Exists, Whole
  <2>3. ASSUME NEW q \in Procs, Finishes(q, f) PROVE Finishes(q, f)'
    BY <1>1, <1>5, <1>8, <2>1, <2>3 DEF Finishes, At
  <2> QED
    BY <1>1, <2>2, <2>3
<1> QED
  BY <1>9, <1>10, <1>11, <1>12, <1>13, <1>14 DEF CopyInv

LEMMA CopyFirst == CacheInit => CopyInv
<1> SUFFICES ASSUME CacheInit PROVE CopyInv
  OBVIOUS
<1>1. NoFile \in Contents /\ NoFile.inode = 0
  BY DEF NoFile, Contents
<1>2. /\ Idle \in Procedures /\ Idle.at = "Idle" /\ Idle.on = "mpk" /\ Idle.open = 0
  BY DEF Idle, Procedures, Commands, Places, Names, Downloads
<1>3. /\ \A f \in Names : file[f] = NoFile
      /\ \A p \in Procs : proc[p] = Idle
      /\ inodes = 0 /\ torn = {} /\ Downloads \subseteq Names /\ "bpk" \in Names
  BY DEF CacheInit, Names
<1>4. file \in [Names -> Contents] /\ proc \in [Procs -> Procedures]
  BY <1>1, <1>2 DEF CacheInit
<1> HIDE DEF NoFile, Idle
<1> QED
  BY <1>1, <1>2, <1>3, <1>4
     DEF CopyInv, CopyTypes, OneName, OwnTarget, CopyGrows, Exists, At, Downloads

LEMMA CopyStep == CopyInv /\ [CacheNext]_cacheVars => CopyInv'
<1> SUFFICES ASSUME CopyInv, [CacheNext]_cacheVars PROVE CopyInv'
  OBVIOUS
<1>1. CASE UNCHANGED cacheVars
  BY <1>1 DEF cacheVars, CopyInv, CopyTypes, OneName, OwnTarget, CopyGrows, Exists, Whole, At, Finishes
<1>2. CASE CacheNext
  <2>1. PICK p \in Procs :
          \/ \E command \in {"Download", "Load", "Delete"} : Run(p, command)
          \/ Present(p) \/ Fetch(p) \/ Create(p) \/ Write(p) \/ Written(p) \/ WriteFails(p)
          \/ Choose(p) \/ Read(p) \/ Rename(p) \/ Look(p) \/ Unlink(p) \/ Dies(p)
    BY <1>2 DEF CacheNext
  <2> QED
    BY <2>1, QuietKeepsCopy, CreateKeepsCopy, WriteKeepsCopy, WrittenKeepsCopy, WriteFailsKeepsCopy,
       RenameKeepsCopy, UnlinkKeepsCopy, DiesKeepsCopy
<1> QED
  BY <1>1, <1>2

(* Whatever runs over one cache directory and wherever a process dies, the *)
(* burnpack copy that every load prefers is whole, and a download that is  *)
(* not is being written or its writer died (write_burnpack, download).     *)
THEOREM CopyAlwaysWhole == CacheSpec => []CopyWhole
<1>1. CopyInv => CopyWhole
  BY DEF CopyInv, CopyWhole, Finishes
<1> QED
  BY <1>1, CopyFirst, CopyStep, PTL DEF CacheSpec

-------------------------------------------------------------------------------
(* The supervised command line.                                            *)

(* The fields of the records.                                              *)
ShellFields(s) ==
  s = [at |-> s.at, forced |-> s.forced, said |-> s.said, config |-> s.config,
       compiled |-> s.compiled, known |-> s.known, crate |-> s.crate, draft |-> s.draft]
ClaimFields(c) == c = [features |-> c.features, crates |-> c.crates]
SupervisorFields ==
  /\ shell = [p \in Shells |-> shell[p]] /\ \A p \in Shells : ShellFields(shell[p])
  /\ claim = [p \in Shells |-> claim[p]] /\ \A p \in Shells : ClaimFields(claim[p])
  /\ tree = [crates |-> tree.crates, unnamed |-> tree.unnamed, registered |-> tree.registered,
             dependencies |-> tree.dependencies]

(* A shell that is up, whatever it is doing.                               *)
UpPlaces == {"Up", "Copy", "Rename", "Register", "Edit", "Append"}

(* A build that answers what it was asked for.                             *)
Answers(built, asked) == asked \in Features /\ built = Compiled(asked)

(* What is claimed is in the file and in the tree; a build is of a claim   *)
(* made before it; and what is up was built so.                            *)
SupervisorInv ==
  /\ SupervisorFields
  /\ \A f, g \in configFile : f = g
  /\ \A p \in Shells :
       /\ claim[p].features \subseteq configFile
       /\ claim[p].crates \subseteq tree.registered
       /\ shell[p].at \in UpPlaces \cup {"Build", "Run"} =>
            claim[p].features \subseteq {shell[p].config}
       /\ shell[p].at \in UpPlaces =>
            /\ Answers(shell[p].compiled, Forced(p, shell[p].config))
            /\ claim[p].crates \subseteq shell[p].known

(* What the flags of a command line make of a configuration.               *)
ForcedBy(u, f) ==
  [s \in {"backend", "dtype"} |-> IF u[s] # {} THEN CHOOSE v \in u[s] : TRUE ELSE f[s]]

LEMMA ForcedSame ==
  ASSUME NEW p \in Shells, shell'[p].forced = shell[p].forced
  PROVE  \A f : Forced(p, f)' = Forced(p, f)
<1>1. ASSUME NEW f PROVE Forced(p, f)' = Forced(p, f)
  <2>1. Forced(p, f) = ForcedBy(shell[p].forced, f)
    BY DEF Forced, ForcedBy
  <2>2. Forced(p, f)' = ForcedBy(shell'[p].forced, f)
    BY DEF Forced, ForcedBy
  <2> QED
    BY <2>1, <2>2
<1> QED
  BY <1>1

(* What one shell's step has to see to.                                    *)
LEMMA ShellSteps ==
  ASSUME SupervisorInv, NEW p \in Shells, NEW s, ShellFields(s), Becomes(p, s),
         claim' = [q \in Shells |-> claim'[q]], \A q \in Shells : ClaimFields(claim'[q]),
         tree' = [crates |-> tree'.crates, unnamed |-> tree'.unnamed,
                  registered |-> tree'.registered, dependencies |-> tree'.dependencies],
         \A f, g \in configFile' : f = g,
         \A q \in Shells : /\ claim'[q].features \subseteq configFile'
                           /\ claim'[q].crates \subseteq tree'.registered,
         \A q \in Shells \ {p} : /\ claim'[q].features \subseteq claim[q].features
                                 /\ claim'[q].crates \subseteq claim[q].crates,
         s.at \in UpPlaces \cup {"Build", "Run"} => claim'[p].features \subseteq {s.config},
         s.at \in UpPlaces => /\ s.forced = shell[p].forced
                              /\ Answers(s.compiled, Forced(p, s.config))
                              /\ claim'[p].crates \subseteq s.known
  PROVE  SupervisorInv'
<1>1. /\ shell' = [q \in Shells |-> shell'[q]] /\ shell'[p] = s
      /\ \A q \in Shells \ {p} : shell'[q] = shell[q]
  <2>1. shell = [q \in Shells |-> shell[q]] /\ shell' = [shell EXCEPT ![p] = s]
    BY DEF SupervisorInv, SupervisorFields, Becomes
  <2> QED
    BY <2>1
<1>2. SupervisorFields'
  BY <1>1 DEF SupervisorInv, SupervisorFields
<1>3. s.at \in UpPlaces => \A f : Forced(p, f)' = Forced(p, f)
  BY <1>1, ForcedSame
<1>4. \A q \in Shells \ {p} : \A f : Forced(q, f)' = Forced(q, f)
  BY <1>1, ForcedSame
<1>5. ASSUME NEW q \in Shells \ {p}
      PROVE  /\ shell'[q].at \in UpPlaces \cup {"Build", "Run"} =>
                  claim'[q].features \subseteq {shell'[q].config}
             /\ shell'[q].at \in UpPlaces =>
                  /\ Answers(shell'[q].compiled, Forced(q, shell'[q].config))
                  /\ claim'[q].crates \subseteq shell'[q].known
  BY <1>1, <1>5 DEF SupervisorInv
<1> QED
  BY <1>1, <1>2, <1>3, <1>4, <1>5 DEF SupervisorInv

LEMMA ShellAlone ==
  ASSUME SupervisorInv, NEW p \in Shells, NEW s, ShellFields(s), Becomes(p, s),
         UNCHANGED <<configFile, claim>>, tree'.registered = tree.registered,
         tree' = [crates |-> tree'.crates, unnamed |-> tree'.unnamed,
                  registered |-> tree'.registered, dependencies |-> tree'.dependencies],
         s.at \in UpPlaces \cup {"Build", "Run"} => claim[p].features \subseteq {s.config},
         s.at \in UpPlaces => /\ s.forced = shell[p].forced
                              /\ Answers(s.compiled, Forced(p, s.config))
                              /\ claim[p].crates \subseteq s.known
  PROVE  SupervisorInv'
<1>1. /\ claim' = [q \in Shells |-> claim'[q]] /\ \A q \in Shells : ClaimFields(claim'[q])
      /\ \A f, g \in configFile' : f = g
      /\ \A q \in Shells : /\ claim'[q].features \subseteq configFile'
                           /\ claim'[q].crates \subseteq tree'.registered
  BY DEF SupervisorInv, SupervisorFields
<1>2. claim' = claim
  OBVIOUS
<1> QED
  BY <1>1, <1>2, ShellSteps

LEMMA GoneFields == ShellFields(Gone) /\ Gone.at = "Ended"
  BY DEF Gone, ShellFields

LEMMA StopsKept ==
  ASSUME SupervisorInv, NEW p \in Shells, Stops(p), UNCHANGED <<configFile, tree, claim>>
  PROVE  SupervisorInv'
<1>1. tree' = [crates |-> tree'.crates, unnamed |-> tree'.unnamed,
               registered |-> tree'.registered, dependencies |-> tree'.dependencies]
  BY DEF SupervisorInv, SupervisorFields
<1>2. Becomes(p, Gone) /\ tree'.registered = tree.registered
  BY DEF Stops
<1>3. Gone.at \notin UpPlaces \cup {"Build", "Run"}
  BY GoneFields DEF UpPlaces
<1> QED
  BY <1>1, <1>2, <1>3, GoneFields, ShellAlone

LEMMA ShellIs ==
  ASSUME SupervisorInv, NEW p \in Shells
  PROVE  \E r : r = shell[p] /\ ShellFields(r)
BY DEF SupervisorInv, SupervisorFields

LEMMA TreeIs ==
  ASSUME SupervisorInv
  PROVE  tree = [crates |-> tree.crates, unnamed |-> tree.unnamed,
                 registered |-> tree.registered, dependencies |-> tree.dependencies]
BY DEF SupervisorInv, SupervisorFields

(* Steps that move the shell on and change nothing of what it runs.        *)
LEMMA MovesKept ==
  ASSUME SupervisorInv, NEW p \in Shells, NEW where, NEW x, NEW r, r = shell[p],
         r.at \in UpPlaces, where \in UpPlaces,
         \/ Becomes(p, [r EXCEPT !.at = where])
         \/ Becomes(p, [r EXCEPT !.at = where, !.crate = x])
         \/ Becomes(p, [r EXCEPT !.at = where, !.draft = x]),
         UNCHANGED <<configFile, claim>>, tree'.registered = tree.registered,
         tree' = [crates |-> tree'.crates, unnamed |-> tree'.unnamed,
                  registered |-> tree'.registered, dependencies |-> tree'.dependencies]
  PROVE  SupervisorInv'
<1>1. ShellFields(r)
  BY ShellIs
<1>2. PICK s : /\ Becomes(p, s)
               /\ \/ s = [r EXCEPT !.at = where]
                  \/ s = [r EXCEPT !.at = where, !.crate = x]
                  \/ s = [r EXCEPT !.at = where, !.draft = x]
  OBVIOUS
<1>3. /\ ShellFields(s) /\ s.at = where /\ s.forced = r.forced /\ s.config = r.config
      /\ s.compiled = r.compiled /\ s.known = r.known
  <2>1. CASE s = [r EXCEPT !.at = where]
    BY <1>1, <2>1 DEF ShellFields
  <2>2. CASE s = [r EXCEPT !.at = where, !.crate = x]
    BY <1>1, <2>2 DEF ShellFields
  <2>3. CASE s = [r EXCEPT !.at = where, !.draft = x]
    BY <1>1, <2>3 DEF ShellFields
  <2> QED
    BY <1>2, <2>1, <2>2, <2>3
<1>4. /\ claim[p].features \subseteq {s.config} /\ claim[p].crates \subseteq s.known
      /\ Answers(s.compiled, Forced(p, s.config))
  BY <1>3 DEF SupervisorInv
<1> QED
  BY <1>2, <1>3, <1>4, ShellAlone

LEMMA BuildsKept ==
  ASSUME SupervisorInv, NEW p \in Shells, Scan(p) \/ Reload(p) \/ BuildCli(p) \/ RunCli(p) \/ Ends_(p)
  PROVE  SupervisorInv'
<1>0. PICK r : r = shell[p] /\ ShellFields(r)
  BY ShellIs
<1>1. UNCHANGED <<configFile, tree, claim>> /\ tree'.registered = tree.registered
      /\ tree' = [crates |-> tree'.crates, unnamed |-> tree'.unnamed,
                  registered |-> tree'.registered, dependencies |-> tree'.dependencies]
  BY TreeIs DEF Scan, Reload, BuildCli, RunCli, Ends_
<1>2. ASSUME Stops(p) PROVE SupervisorInv'
  BY <1>1, <1>2, StopsKept
<1>3. CASE Scan(p)
  <2>1. ASSUME NEW demand, NEW said,
               Becomes(p, [shell[p] EXCEPT !.at = "Read", !.forced = demand, !.said = said])
        PROVE  SupervisorInv'
    <3>1. PICK s : s = [r EXCEPT !.at = "Read", !.forced = demand, !.said = said]
      OBVIOUS
    <3>2. ShellFields(s) /\ s.at = "Read"
      BY <1>0, <3>1 DEF ShellFields
    <3>3. s.at \notin UpPlaces \cup {"Build", "Run"}
      BY <3>2 DEF UpPlaces
    <3> QED
      BY <1>0, <1>1, <2>1, <3>1, <3>2, <3>3, ShellAlone
  <2> QED
    BY <1>2, <1>3, <2>1 DEF Scan
<1>4. CASE Reload(p)
  <2>1. PICK s : s = [r EXCEPT !.at = "Build", !.config = LoadConfig]
    OBVIOUS
  <2>2. ShellFields(s) /\ s.at = "Build" /\ s.config = LoadConfig
    BY <1>0, <2>1 DEF ShellFields
  <2>3. claim[p].features \subseteq {LoadConfig}
    BY DEF LoadConfig, SupervisorInv
  <2>4. Becomes(p, s) /\ s.at \notin UpPlaces
    BY <1>0, <1>4, <2>1, <2>2 DEF Reload, Reloaded, UpPlaces
  <2> QED
    BY <1>1, <2>2, <2>3, <2>4, ShellAlone
<1>5. CASE BuildCli(p)
  <2>1. CASE Moves(p, "Run")
    <3>1. PICK s : s = [r EXCEPT !.at = "Run"]
      OBVIOUS
    <3>2. ShellFields(s) /\ s.at = "Run" /\ s.config = shell[p].config
      BY <1>0, <3>1 DEF ShellFields
    <3>3. claim[p].features \subseteq {s.config}
      BY <1>5, <3>2 DEF BuildCli, At_, SupervisorInv
    <3>4. Becomes(p, s) /\ s.at \notin UpPlaces
      BY <1>0, <2>1, <3>1, <3>2 DEF Moves, UpPlaces
    <3> QED
      BY <1>1, <3>2, <3>3, <3>4, ShellAlone
  <2> QED
    BY <1>2, <1>5, <2>1 DEF BuildCli
<1>6. CASE RunCli(p)
  <2> DEFINE built == Compiled(Forced(p, shell[p].config))
  <2>1. ASSUME Builds(Forced(p, shell[p].config)),
               Becomes(p, [shell[p] EXCEPT !.at = "Up", !.compiled = built, !.known = tree.registered])
        PROVE  SupervisorInv'
    <3>1. PICK s : s = [r EXCEPT !.at = "Up", !.compiled = built, !.known = tree.registered]
      OBVIOUS
    <3>2. /\ ShellFields(s) /\ s.at = "Up" /\ s.config = shell[p].config /\ s.compiled = built
          /\ s.known = tree.registered /\ s.forced = shell[p].forced
      BY <1>0, <3>1 DEF ShellFields
    <3>3. claim[p].features \subseteq {s.config} /\ claim[p].crates \subseteq s.known
      BY <1>6, <3>2 DEF RunCli, At_, SupervisorInv
    <3>4. Becomes(p, s)
      BY <1>0, <2>1, <3>1
    <3>5. Answers(s.compiled, Forced(p, s.config))
      BY <2>1, <3>2 DEF Answers, Builds
    <3> QED
      BY <1>1, <3>2, <3>3, <3>4, <3>5, ShellAlone
  <2> QED
    BY <1>2, <1>6, <2>1 DEF RunCli
<1>7. CASE Ends_(p)
  BY <1>2, <1>7 DEF Ends_
<1> QED
  BY <1>3, <1>4, <1>5, <1>6, <1>7

(* Saving a choice undoes what was asked for before; the file written, it  *)
(* is the only thing asked for.                                            *)
LEMMA SavesKept ==
  ASSUME SupervisorInv, NEW p \in Shells, ChangeBackend(p) \/ ChangeDtype(p) \/ WriteConfig(p)
  PROVE  SupervisorInv'
<1>0. PICK r : r = shell[p] /\ ShellFields(r)
  BY ShellIs
<1>1. /\ tree'.registered = tree.registered /\ \A q \in Shells : ClaimFields(claim[q])
      /\ tree' = [crates |-> tree'.crates, unnamed |-> tree'.unnamed,
                  registered |-> tree'.registered, dependencies |-> tree'.dependencies]
  BY TreeIs DEF ChangeBackend, ChangeDtype, WriteConfig, SupervisorInv, SupervisorFields
<1>2. ASSUME NEW F, claim' = [q \in Shells |-> [claim[q] EXCEPT !.features = F[q]]]
      PROVE  /\ claim' = [q \in Shells |-> claim'[q]]
             /\ \A q \in Shells : /\ ClaimFields(claim'[q]) /\ claim'[q].features = F[q]
                                  /\ claim'[q].crates \subseteq tree'.registered
                                  /\ claim'[q].crates = claim[q].crates
  <2>1. ASSUME NEW q \in Shells
        PROVE  /\ ClaimFields(claim'[q]) /\ claim'[q].features = F[q]
               /\ claim'[q].crates = claim[q].crates
    <3>1. PICK c : c = claim[q] /\ ClaimFields(c)
      BY <1>1
    <3>2. PICK d : d = claim'[q] /\ d = [c EXCEPT !.features = F[q]]
      BY <1>2, <3>1
    <3> QED
      BY <3>1, <3>2 DEF ClaimFields
  <2> QED
    BY <1>1, <1>2, <2>1 DEF SupervisorInv
<1>3. ASSUME NEW pick, Save(p, pick) PROVE SupervisorInv'
  <2>1. PICK s : s = [r EXCEPT !.at = "Save", !.compiled = pick]
    OBVIOUS
  <2>2. ShellFields(s) /\ s.at = "Save"
    BY <1>0, <2>1 DEF ShellFields
  <2>3. Becomes(p, s) /\ s.at \notin UpPlaces \cup {"Build", "Run"} /\ configFile' = {}
    BY <1>0, <1>3, <2>1, <2>2 DEF Save, UpPlaces
  <2> DEFINE F == [q \in Shells |-> {}]
  <2>4. claim' = [q \in Shells |-> [claim[q] EXCEPT !.features = F[q]]]
    BY <1>3 DEF Save
  <2> HIDE DEF F
  <2>5. /\ claim' = [q \in Shells |-> claim'[q]]
        /\ \A q \in Shells : /\ ClaimFields(claim'[q]) /\ claim'[q].features = F[q]
                             /\ claim'[q].crates \subseteq tree'.registered
                             /\ claim'[q].crates = claim[q].crates
    BY <1>2, <2>4
  <2>6. \A q \in Shells : F[q] = {}
    BY DEF F
  <2> QED
    BY <1>1, <2>2, <2>3, <2>5, <2>6, ShellSteps
<1>4. CASE WriteConfig(p)
  <2> DEFINE pick == shell[p].compiled
  <2>1. PICK written :
          /\ configFile' = {written}
          /\ claim' = [q \in Shells |->
               [claim[q] EXCEPT !.features = IF q = p /\ configFile = {} THEN {written} ELSE {}]]
    BY <1>4 DEF WriteConfig
  <2> DEFINE F == [q \in Shells |-> IF q = p /\ configFile = {} THEN {written} ELSE {}]
  <2>2. /\ claim' = [q \in Shells |-> claim'[q]]
        /\ \A q \in Shells : /\ ClaimFields(claim'[q]) /\ claim'[q].features = F[q]
                             /\ claim'[q].crates \subseteq tree'.registered
                             /\ claim'[q].crates = claim[q].crates
    <3>1. claim' = [q \in Shells |-> [claim[q] EXCEPT !.features = F[q]]]
      BY <2>1
    <3> HIDE DEF F
    <3> QED
      BY <1>2, <3>1
  <2>3. PICK s : s = [r EXCEPT !.at = "Read", !.compiled = DefaultFeatures,
                               !.known = {}, !.crate = {}, !.draft = {}]
    OBVIOUS
  <2>4. ShellFields(s) /\ s.at = "Read"
    BY <1>0, <2>3 DEF ShellFields
  <2>5. Becomes(p, s) /\ s.at \notin UpPlaces \cup {"Build", "Run"}
    BY <1>0, <1>4, <2>3, <2>4 DEF WriteConfig, Restarts, UpPlaces
  <2>6. /\ \A q \in Shells : F[q] \subseteq configFile'
        /\ \A q \in Shells \ {p} : F[q] = {}
        /\ \A f, g \in configFile' : f = g
    BY <2>1
  <2> HIDE DEF F
  <2> QED
    BY <1>1, <2>2, <2>4, <2>5, <2>6, ShellSteps
<1> QED
  BY <1>3, <1>4 DEF ChangeBackend, ChangeDtype

(* `new`, up to the edit of the registry.                                  *)
LEMMA NewKept ==
  ASSUME SupervisorInv, NEW p \in Shells,
         NewCrate(p) \/ CopyDirectory(p) \/ RenameCrate(p) \/ ReadRegistry(p)
  PROVE  SupervisorInv'
<1>0. PICK r : r = shell[p] /\ ShellFields(r)
  BY ShellIs
<1>1. UNCHANGED <<configFile, claim>> /\ r.at \in UpPlaces
  BY <1>0 DEF NewCrate, CopyDirectory, RenameCrate, ReadRegistry, At_, UpPlaces
<1>2. /\ tree'.registered = tree.registered
      /\ tree' = [crates |-> tree'.crates, unnamed |-> tree'.unnamed,
                  registered |-> tree'.registered, dependencies |-> tree'.dependencies]
  <2>1. PICK t : t = tree /\ t = [crates |-> t.crates, unnamed |-> t.unnamed,
                                  registered |-> t.registered, dependencies |-> t.dependencies]
    BY TreeIs
  <2>2. CASE CopyDirectory(p)
    <3>1. tree' = [t EXCEPT !.crates = @ \cup shell[p].crate, !.unnamed = @ \cup shell[p].crate]
      BY <2>1, <2>2 DEF CopyDirectory
    <3> QED
      BY ONLY <2>1, <3>1
  <2>3. CASE RenameCrate(p)
    <3>1. tree' = [t EXCEPT !.unnamed = @ \ shell[p].crate]
      BY <2>1, <2>3 DEF RenameCrate
    <3> QED
      BY ONLY <2>1, <3>1
  <2>4. CASE tree' = tree
    BY ONLY <2>1, <2>4
  <2>5. NewCrate(p) \/ ReadRegistry(p) => tree' = tree
    BY ONLY p \in Shells DEF NewCrate, ReadRegistry
  <2>6. CopyDirectory(p) \/ RenameCrate(p) \/ tree' = tree
    BY ONLY <2>5, NewCrate(p) \/ CopyDirectory(p) \/ RenameCrate(p) \/ ReadRegistry(p)
  <2> QED
    BY ONLY <2>2, <2>3, <2>4, <2>6
<1>3. PICK where, x :
        /\ where \in UpPlaces
        /\ \/ Becomes(p, [r EXCEPT !.at = where])
           \/ Becomes(p, [r EXCEPT !.at = where, !.crate = x])
           \/ Becomes(p, [r EXCEPT !.at = where, !.draft = x])
  <2>1. {"Up", "Copy", "Rename", "Register", "Edit"} \subseteq UpPlaces
    BY ONLY p \in Shells DEF UpPlaces
  <2>2. CASE NewCrate(p)
    <3>1. PICK c \in Crates \ tree.crates : Becomes(p, [r EXCEPT !.at = "Copy", !.crate = {c}])
      BY <1>0, <2>2 DEF NewCrate
    <3> QED
      BY ONLY <2>1, <3>1
  <2>3. CASE CopyDirectory(p)
    <3>1. Becomes(p, [r EXCEPT !.at = "Rename"])
      BY <1>0, <2>3 DEF CopyDirectory, Moves
    <3> QED
      BY ONLY <2>1, <3>1
  <2>4. CASE RenameCrate(p)
    <3>1. Becomes(p, [r EXCEPT !.at = "Register"])
      BY <1>0, <2>4 DEF RenameCrate, Moves
    <3> QED
      BY ONLY <2>1, <3>1
  <2>5. CASE ReadRegistry(p)
    <3>1. \/ Becomes(p, [r EXCEPT !.at = "Up", !.crate = {}])
          \/ Becomes(p, [r EXCEPT !.at = "Edit", !.draft = tree.registered])
      BY <1>0, <2>5 DEF ReadRegistry
    <3> QED
      BY ONLY <2>1, <3>1
  <2> QED
    BY <2>2, <2>3, <2>4, <2>5
<1> QED
  BY <1>0, <1>1, <1>2, <1>3, MovesKept

(* The registry written, only what it names is claimed still; the crate    *)
(* appended is claimed if it is there.                                     *)
LEMMA RegistersKept ==
  ASSUME SupervisorInv, NEW p \in Shells, WriteRegistry(p) \/ AppendDependency(p)
  PROVE  SupervisorInv'
<1>0. PICK r : r = shell[p] /\ ShellFields(r)
  BY ShellIs
<1>1. PICK t : t = tree /\ t = [crates |-> t.crates, unnamed |-> t.unnamed,
                                registered |-> t.registered, dependencies |-> t.dependencies]
  BY TreeIs
<1>2. configFile' = configFile /\ \A q \in Shells : ClaimFields(claim[q])
  BY DEF WriteRegistry, AppendDependency, SupervisorInv, SupervisorFields
<1>3. CASE WriteRegistry(p)
  <2>1. PICK registered :
          /\ tree' = [t EXCEPT !.registered = registered]
          /\ claim' = [q \in Shells |-> [claim[q] EXCEPT !.crates = @ \cap registered]]
    BY <1>1, <1>3 DEF WriteRegistry
  <2>2. /\ tree'.registered = registered
        /\ tree' = [crates |-> tree'.crates, unnamed |-> tree'.unnamed,
                    registered |-> tree'.registered, dependencies |-> tree'.dependencies]
    BY <1>1, <2>1
  <2>3. ASSUME NEW q \in Shells
        PROVE  /\ ClaimFields(claim'[q]) /\ claim'[q].features = claim[q].features
               /\ claim'[q].crates = claim[q].crates \cap registered
    <3>1. PICK c : c = claim[q] /\ ClaimFields(c)
      BY <1>2
    <3>2. PICK d : d = claim'[q] /\ d = [c EXCEPT !.crates = @ \cap registered]
      BY <2>1, <3>1
    <3> QED
      BY <3>1, <3>2 DEF ClaimFields
  <2>4. claim' = [q \in Shells |-> claim'[q]]
    BY <2>1
  <2>5. PICK s : s = [r EXCEPT !.at = "Append"]
    OBVIOUS
  <2>6. /\ ShellFields(s) /\ s.at = "Append" /\ s.forced = r.forced /\ s.config = r.config
        /\ s.compiled = r.compiled /\ s.known = r.known
    BY <1>0, <2>5 DEF ShellFields
  <2>7. Becomes(p, s) /\ shell[p].at \in UpPlaces
    BY <1>0, <1>3, <2>5 DEF WriteRegistry, Moves, At_, UpPlaces
  <2>8. /\ \A q \in Shells : /\ claim[q].features \subseteq configFile
                             /\ claim[q].crates \subseteq tree.registered
        /\ claim[p].features \subseteq {s.config} /\ claim[p].crates \subseteq s.known
        /\ Answers(s.compiled, Forced(p, s.config)) /\ \A f, g \in configFile : f = g
    BY <1>0, <2>6, <2>7 DEF SupervisorInv
  <2> QED
    BY <1>0, <1>2, <2>2, <2>3, <2>4, <2>6, <2>7, <2>8, ShellSteps
<1>4. CASE AppendDependency(p)
  <2>1. PICK c \in shell[p].crate :
          /\ tree' = [t EXCEPT !.dependencies[c] = @ + 1]
          /\ claim' = [claim EXCEPT ![p].crates = @ \cup ({c} \cap tree.registered)]
    BY <1>1, <1>4 DEF AppendDependency
  <2>2. /\ tree'.registered = tree.registered
        /\ tree' = [crates |-> tree'.crates, unnamed |-> tree'.unnamed,
                    registered |-> tree'.registered, dependencies |-> tree'.dependencies]
    BY <1>1, <2>1
  <2>3. PICK d : d = claim[p] /\ ClaimFields(d)
    BY <1>2
  <2>4. PICK e : /\ e = [d EXCEPT !.crates = @ \cup ({c} \cap tree.registered)]
                 /\ claim' = [claim EXCEPT ![p] = e]
    BY <2>1, <2>3
  <2>5. ClaimFields(e) /\ e.features = d.features /\ e.crates = d.crates \cup ({c} \cap tree.registered)
    BY <2>3, <2>4 DEF ClaimFields
  <2>6. claim = [q \in Shells |-> claim[q]]
    BY DEF SupervisorInv, SupervisorFields
  <2>7. /\ claim' = [q \in Shells |-> claim'[q]] /\ claim'[p] = e
        /\ \A q \in Shells \ {p} : claim'[q] = claim[q]
    BY <2>4, <2>6
  <2>8. PICK s : s = [r EXCEPT !.at = "Read", !.compiled = DefaultFeatures,
                               !.known = {}, !.crate = {}, !.draft = {}]
    OBVIOUS
  <2>9. ShellFields(s) /\ s.at = "Read"
    BY <1>0, <2>8 DEF ShellFields
  <2>10. Becomes(p, s) /\ s.at \notin UpPlaces \cup {"Build", "Run"}
    BY <1>0, <1>4, <2>8, <2>9 DEF AppendDependency, Restarts, UpPlaces
  <2>11. /\ \A q \in Shells : /\ claim[q].features \subseteq configFile
                              /\ claim[q].crates \subseteq tree.registered
         /\ \A f, g \in configFile : f = g
    BY DEF SupervisorInv
  <2>12. \A q \in Shells : /\ claim'[q].features \subseteq configFile'
                           /\ claim'[q].crates \subseteq tree'.registered
                           /\ ClaimFields(claim'[q])
    BY <1>2, <2>2, <2>3, <2>5, <2>7, <2>11
  <2> QED
    BY <1>2, <2>2, <2>7, <2>9, <2>10, <2>11, <2>12, ShellSteps
<1> QED
  BY <1>3, <1>4

LEMMA SupervisorFirst == SupervisorInit => SupervisorInv
<1> SUFFICES ASSUME SupervisorInit PROVE SupervisorInv
  OBVIOUS
<1>1. PICK s : s = [Gone EXCEPT !.at = "Scan"]
  OBVIOUS
<1>2. ShellFields(s) /\ s.at = "Scan"
  BY <1>1 DEF Gone, ShellFields
<1>3. ClaimFields(NoClaim) /\ NoClaim.features = {} /\ NoClaim.crates = {}
  BY DEF NoClaim, ClaimFields
<1>4. /\ shell = [p \in Shells |-> s] /\ claim = [p \in Shells |-> NoClaim] /\ configFile = {}
      /\ tree = [crates |-> {}, unnamed |-> {}, registered |-> {},
                 dependencies |-> [c \in Crates |-> 0]]
  BY <1>1 DEF SupervisorInit
<1> HIDE DEF NoClaim
<1> QED
  BY <1>2, <1>3, <1>4 DEF SupervisorInv, SupervisorFields, UpPlaces

LEMMA SupervisorStep == SupervisorInv /\ [SupervisorNext]_supervisorVars => SupervisorInv'
<1> SUFFICES ASSUME SupervisorInv, [SupervisorNext]_supervisorVars PROVE SupervisorInv'
  OBVIOUS
<1>1. CASE UNCHANGED supervisorVars
  <2>1. SupervisorFields' /\ configFile' = configFile /\ claim' = claim /\ tree' = tree /\ shell' = shell
    BY <1>1 DEF supervisorVars, SupervisorInv, SupervisorFields
  <2>2. \A q \in Shells : \A f : Forced(q, f)' = Forced(q, f)
    BY <2>1, ForcedSame
  <2> QED
    BY <2>1, <2>2 DEF SupervisorInv
<1>2. CASE SupervisorNext
  <2>1. PICK p \in Shells :
          \/ Scan(p) \/ Reload(p) \/ BuildCli(p) \/ RunCli(p)
          \/ ChangeBackend(p) \/ ChangeDtype(p) \/ WriteConfig(p)
          \/ NewCrate(p) \/ CopyDirectory(p) \/ RenameCrate(p) \/ ReadRegistry(p)
          \/ WriteRegistry(p) \/ AppendDependency(p) \/ Ends_(p)
    BY <1>2 DEF SupervisorNext
  <2> QED
    BY <2>1, BuildsKept, SavesKept, NewKept, RegistersKept
<1> QED
  BY <1>1, <1>2

(* However many shells save, restart and add crates in one directory: one  *)
(* that is up was built with what it last saved, unless another saved      *)
(* since or its arguments force something else, and knows the crates it    *)
(* added (main, Config::load, save, create_new_model).                     *)
THEOREM RestartAlwaysShows == SupervisorSpec => []RestartShows
<1>1. SupervisorInv => RestartShows
  <2> SUFFICES ASSUME SupervisorInv, NEW p \in Shells, At_(p, "Up")
               PROVE  /\ \A f \in claim[p].features :
                           /\ shell[p].compiled.backend = NameOf[Forced(p, f).backend]
                           /\ \/ shell[p].compiled.dtype = Forced(p, f).dtype
                              \/ /\ Forced(p, f).dtype = "bf16"
                                 /\ shell[p].compiled.dtype = "f16"
                              \/ /\ Forced(p, f).backend \notin HalfBackends
                                 /\ shell[p].compiled.dtype = "f32"
                      /\ claim[p].crates \subseteq shell[p].known
    BY DEF RestartShows
  <2>1. shell[p].at \in UpPlaces
    BY DEF At_, UpPlaces
  <2>2. /\ \A f \in claim[p].features : Answers(shell[p].compiled, Forced(p, f))
        /\ claim[p].crates \subseteq shell[p].known
    BY <2>1 DEF SupervisorInv
  <2>3. ASSUME NEW asked \in Features, NEW built, built = Compiled(asked)
        PROVE  /\ built.backend = NameOf[asked.backend]
               /\ \/ built.dtype = asked.dtype
                  \/ asked.dtype = "bf16" /\ built.dtype = "f16"
                  \/ asked.backend \notin HalfBackends /\ built.dtype = "f32"
    BY <2>3 DEF Compiled, Features, Dtypes
  <2> QED
    BY <2>2, <2>3 DEF Answers
<1> QED
  BY <1>1, SupervisorFirst, SupervisorStep, PTL DEF SupervisorSpec

-------------------------------------------------------------------------------
(* The fetch of a repository's file.                                       *)

FetchPlaces == {"Idle", "Send", "Answered", "Copy", "Measure", "Move"}
FetchStatuses ==
  {"None", "Unreachable", "NotFound", "Gated", "Failed", "RangeNotSatisfiable", "Ok",
   "PartialContent"}
FetchStates ==
  [at : FetchPlaces, attempt : Nat, have : Nat, status : FetchStatuses, expected : Nat,
   open : Nat, sent : Nat]

FetchTypes ==
  /\ content \in Seq(Seq(Nat)) /\ partial \in 0 .. Len(content) /\ target \in 0 .. Len(content)
  /\ fetcher \in [Fetchers -> FetchStates] /\ answer = [p \in Fetchers |-> answer[p]]

(* The published file, as far as it goes.                                  *)
Grown(s) == Len(s) <= FileSize /\ \A i \in 1 .. Len(s) : s[i] = i

(* What a fetch knows of the file it carries on with.                      *)
Sane(f) == f.status = "PartialContent" => f.have \in 1 .. FileSize - 1
Copies(f) ==
  /\ partial # 0 /\ f.open = partial /\ f.status \in {"Ok", "PartialContent"} /\ Sane(f)
  /\ Len(content[partial]) = (IF Resuming(f) THEN f.have ELSE 0) + f.sent
  /\ f.sent <= Len(Body(f)) /\ f.expected \in {0, FileSize}

Fits(f) ==
  /\ f.at \in {"Send", "Answered"} => f.sent = 0
  /\ f.at = "Answered" => f.have = Length(partial) /\ Sane(f)
  /\ f.at \in {"Copy", "Measure"} => Copies(f)
  /\ f.at = "Measure" /\ f.expected = 0 => f.sent = Len(Body(f))
  /\ f.at = "Move" => partial # 0 /\ Len(content[partial]) = FileSize

FetchInv ==
  /\ FetchTypes
  /\ partial # 0 => partial # target /\ Grown(content[partial])
  /\ target # 0 => content[target] = Published
  /\ \A p \in Fetchers : (answer[p] = "Found" => target # 0) /\ Fits(fetcher[p])

(* One process at a time.                                                  *)
Alone(p) == p \in Fetchers /\ \A q \in Fetchers : q = p

Rests(s) == s \in FetchStates /\ s.at \in {"Idle", "Send"} /\ s.sent = 0

LEMMA AtRestRests == Rests(AtRest) /\ \A n \in Nat : Rests([AtRest EXCEPT !.at = "Send", !.attempt = n])
BY DEF Rests, AtRest, FetchStates, FetchPlaces, FetchStatuses

LEMMA FetchSteps ==
  ASSUME FetchInv, NEW p, Alone(p), NEW s \in FetchStates, NEW a,
         fetcher' = [fetcher EXCEPT ![p] = s],
         answer' = [answer EXCEPT ![p] = a] \/ (answer' = answer /\ a = answer[p]),
         content' \in Seq(Seq(Nat)), partial' \in 0 .. Len(content'), target' \in 0 .. Len(content'),
         partial' # 0 => partial' # target' /\ Grown(content'[partial']),
         target' # 0 => content'[target'] = Published,
         a = "Found" => target' # 0,
         Fits(s)'
  PROVE  FetchInv'
<1>1. fetcher' \in [Fetchers -> FetchStates] /\ fetcher'[p] = s
  BY DEF Alone, FetchInv, FetchTypes
<1>2. answer' = [q \in Fetchers |-> answer'[q]] /\ answer'[p] = a
  BY DEF Alone, FetchInv, FetchTypes
<1>3. FetchTypes'
  BY <1>1, <1>2 DEF FetchTypes
<1>4. \A q \in Fetchers : (answer'[q] = "Found" => target' # 0) /\ Fits(fetcher[q])'
  BY <1>1, <1>2 DEF Alone
<1> QED
  BY <1>3, <1>4 DEF FetchInv

LEMMA FetchQuiet ==
  ASSUME FetchInv, NEW p, Alone(p), NEW s \in FetchStates, NEW a,
         fetcher' = [fetcher EXCEPT ![p] = s],
         answer' = [answer EXCEPT ![p] = a] \/ (answer' = answer /\ a = answer[p]),
         UNCHANGED <<content, partial, target>>,
         a = "Found" => target # 0,
         Fits(s)
  PROVE  FetchInv'
<1>1. Fits(s)'
  BY DEF Fits, Copies, Length
<1>2. /\ content' \in Seq(Seq(Nat)) /\ partial' \in 0 .. Len(content') /\ target' \in 0 .. Len(content')
      /\ partial' # 0 => partial' # target' /\ Grown(content'[partial'])
      /\ target' # 0 => content'[target'] = Published
  BY DEF FetchInv, FetchTypes
<1>3. a = "Found" => target' # 0
  OBVIOUS
<1> QED
  BY <1>1, <1>2, <1>3, FetchSteps

(* A process that comes to rest, with an error or for another attempt.     *)
Settles(p) ==
  \E s, a : /\ Rests(s) /\ a # "Found" /\ fetcher' = [fetcher EXCEPT ![p] = s]
            /\ answer' = [answer EXCEPT ![p] = a] \/ answer' = answer

LEMMA RetriesSettles ==
  ASSUME FetchInv, NEW p \in Fetchers, Retries(p) PROVE Settles(p)
<1>1. fetcher[p].attempt + 1 \in Nat
  BY DEF FetchInv, FetchTypes, FetchStates
<1>2. CASE Returns(p, "Err")
  BY <1>2, AtRestRests DEF Returns, Settles
<1>3. CASE Continues(p, [AtRest EXCEPT !.at = "Send", !.attempt = fetcher[p].attempt + 1])
  <2>1. PICK s : /\ s = [AtRest EXCEPT !.at = "Send", !.attempt = fetcher[p].attempt + 1]
                 /\ Rests(s)
    BY <1>1, AtRestRests
  <2>2. fetcher' = [fetcher EXCEPT ![p] = s] /\ answer' = answer /\ "Err" # "Found"
    BY <1>3, <2>1 DEF Continues
  <2> QED
    BY <2>1, <2>2 DEF Settles
<1> QED
  BY <1>2, <1>3 DEF Retries

LEMMA SettlesKept ==
  ASSUME FetchInv, NEW p, Alone(p), Settles(p), UNCHANGED <<content, target>>,
         partial' \in {0, partial}
  PROVE  FetchInv'
<1>1. PICK s, a : /\ Rests(s) /\ a # "Found" /\ fetcher' = [fetcher EXCEPT ![p] = s]
                  /\ answer' = [answer EXCEPT ![p] = a] \/ answer' = answer
  BY DEF Settles
<1>2. s \in FetchStates /\ Fits(s)'
  BY <1>1 DEF Rests, Fits
<1>3. /\ content' \in Seq(Seq(Nat)) /\ partial' \in 0 .. Len(content') /\ target' \in 0 .. Len(content')
      /\ partial' # 0 => partial' # target' /\ Grown(content'[partial'])
      /\ target' # 0 => content'[target'] = Published
  BY DEF FetchInv, FetchTypes
<1>4. answer[p] = "Found" => target' # 0
  BY DEF Alone, FetchInv
<1> QED
  BY <1>1, <1>2, <1>3, <1>4, FetchSteps

LEMMA FetchQuietSteps ==
  ASSUME FetchInv, NEW p, Alone(p),
         Call(p) \/ Send(p) \/ Refused(p) \/ Copied(p) \/ Interrupted(p) \/ Killed(p)
  PROVE  FetchInv'
<1>0. p \in Fetchers /\ fetcher[p] \in FetchStates /\ Fits(fetcher[p])
  BY DEF Alone, FetchInv, FetchTypes
<1>1. ASSUME NEW a, a # "Found", Returns(p, a) PROVE Settles(p)
  BY <1>1, AtRestRests DEF Returns, Settles
<1>2. CASE Call(p)
  <2>1. CASE target # 0
    <3>1. /\ fetcher' = [fetcher EXCEPT ![p] = AtRest] /\ answer' = [answer EXCEPT ![p] = "Found"]
          /\ UNCHANGED <<content, partial, target>>
      BY <1>2, <2>1 DEF Call, Returns
    <3>2. AtRest \in FetchStates /\ Fits(AtRest)
      BY AtRestRests DEF Rests, Fits
    <3> QED
      BY <2>1, <3>1, <3>2, FetchQuiet
  <2>2. CASE target = 0
    <3>1. PICK s : s = [AtRest EXCEPT !.at = "Send", !.attempt = 1] /\ Rests(s)
      BY AtRestRests
    <3>2. /\ fetcher' = [fetcher EXCEPT ![p] = s] /\ answer' = [answer EXCEPT ![p] = "None"]
          /\ UNCHANGED <<content, partial, target>> /\ "None" # "Found"
      BY <1>2, <2>2, <3>1 DEF Call
    <3>3. Settles(p)
      BY <3>1, <3>2 DEF Settles
    <3> QED
      BY <3>2, <3>3, SettlesKept
  <2> QED
    BY <2>1, <2>2
<1>3. CASE Send(p)
  <2>1. PICK have, status :
          /\ have = Length(partial) /\ status \in Statuses(have)
          /\ Continues(p, [fetcher[p] EXCEPT !.at = "Answered", !.have = have, !.status = status])
          /\ UNCHANGED <<content, partial, target>>
    BY <1>3 DEF Send
  <2>2. have \in Nat
    BY <2>1, LenProperties, ElementOfSeq DEF Length, FetchInv, FetchTypes
  <2>3. status \in FetchStatuses /\ (status = "PartialContent" => have \in 1 .. FileSize - 1)
    BY <2>1, <2>2, FetchAssumption DEF Statuses, FetchStatuses
  <2>4. PICK s : s = [fetcher[p] EXCEPT !.at = "Answered", !.have = have, !.status = status]
    OBVIOUS
  <2>5. s \in FetchStates /\ s.at = "Answered" /\ s.have = have /\ s.status = status
        /\ s.sent = 0
    BY <1>0, <1>3, <2>2, <2>3, <2>4 DEF FetchStates, FetchPlaces, Fits, Send
  <2>6. Fits(s)
    BY <2>1, <2>3, <2>5 DEF Fits, Sane
  <2>7. /\ fetcher' = [fetcher EXCEPT ![p] = s] /\ answer' = answer
        /\ answer[p] = "Found" => target # 0
    BY <1>0, <2>1, <2>4 DEF Continues, FetchInv
  <2> QED
    BY <2>1, <2>5, <2>6, <2>7, FetchQuiet
<1>4. CASE Refused(p)
  <2>1. /\ Returns(p, "Missing") \/ Returns(p, "Err") \/ Retries(p)
        /\ UNCHANGED <<content, target>> /\ partial' \in {0, partial}
    BY <1>4 DEF Refused
  <2> QED
    BY <1>0, <1>1, <2>1, RetriesSettles, SettlesKept
<1>5. CASE Copied(p)
  <2>1. PICK f : f = fetcher[p]
    OBVIOUS
  <2>2. PICK s : s = [f EXCEPT !.at = "Measure"]
    OBVIOUS
  <2>3. /\ s \in FetchStates /\ s.at = "Measure" /\ s.have = f.have /\ s.status = f.status
        /\ s.open = f.open /\ s.sent = f.sent /\ s.expected = f.expected
    BY <1>0, <2>1, <2>2 DEF FetchStates, FetchPlaces
  <2>4. /\ f.at = "Copy" /\ (f.sent = Len(Body(f)) \/ f.expected # 0) /\ Copies(f)
    BY <1>0, <1>5, <2>1 DEF Copied, Fits
  <2>5. Body(s) = Body(f) /\ Resuming(s) = Resuming(f)
    BY <2>3 DEF Body, Resuming
  <2>6. Fits(s)
    BY <2>3, <2>4, <2>5 DEF Fits, Copies, Sane
  <2>7. /\ fetcher' = [fetcher EXCEPT ![p] = s] /\ answer' = answer
        /\ answer[p] = "Found" => target # 0 /\ UNCHANGED <<content, partial, target>>
    BY <1>0, <1>5, <2>1, <2>2 DEF Copied, Continues, FetchInv
  <2>8. UNCHANGED <<content, partial, target>>
    BY <1>5 DEF Copied
  <2> QED
    BY <2>3, <2>6, <2>7, <2>8, FetchQuiet
<1>6. CASE Interrupted(p)
  BY <1>0, <1>6, RetriesSettles, SettlesKept DEF Interrupted
<1>7. CASE Killed(p)
  BY <1>1, <1>7, SettlesKept DEF Killed
<1> QED
  BY <1>2, <1>3, <1>4, <1>5, <1>6, <1>7

(* Where a copy starts, and what it is of: the blocks from there on.       *)
StartOf(f) == IF Resuming(f) THEN f.have ELSE 0

LEMMA BodyIs ==
  ASSUME NEW f, Sane(f)
  PROVE  /\ StartOf(f) \in Nat /\ StartOf(f) < FileSize
         /\ Len(Body(f)) = FileSize - StartOf(f)
         /\ \A i \in 1 .. FileSize - StartOf(f) : Body(f)[i] = StartOf(f) + i
<1>1. FileSize \in Nat \ {0} /\ Len(Published) = FileSize /\ Published \in Seq(Nat)
      /\ \A i \in 1 .. FileSize : Published[i] = i
  BY FetchAssumption DEF Published
<1>2. CASE f.status = "PartialContent"
  <2>1. PICK h \in 1 .. FileSize - 1 : h = f.have
    BY <1>2 DEF Sane
  <2>2. StartOf(f) = h
    BY <1>2, <2>1 DEF StartOf, Resuming
  <2>3. h + 1 \in Int /\ FileSize \in Int /\ \A i \in h + 1 .. FileSize : Published[i] \in Nat
    BY <1>1
  <2>4. /\ Len(SubSeq(Published, h + 1, FileSize)) = IF h + 1 <= FileSize THEN FileSize - (h + 1) + 1 ELSE 0
        /\ \A i \in 1 .. FileSize - (h + 1) + 1 :
             SubSeq(Published, h + 1, FileSize)[i] = Published[(h + 1) + i - 1]
    BY <2>3, SubSeqProperties
  <2>5. h + 1 <= FileSize /\ FileSize - (h + 1) + 1 = FileSize - h
    BY <1>1
  <2>6. \A i \in 1 .. FileSize - h : (h + 1) + i - 1 \in 1 .. FileSize /\ (h + 1) + i - 1 = h + i
    BY <1>1
  <2>7. Body(f) = SubSeq(Published, h + 1, FileSize)
    BY <1>2, <2>1 DEF Body
  <2>8. Len(Body(f)) = FileSize - h /\ \A i \in 1 .. FileSize - h : Body(f)[i] = h + i
    BY <1>1, <2>4, <2>5, <2>6, <2>7
  <2> QED
    BY <1>1, <2>2, <2>8
<1>3. CASE f.status # "PartialContent"
  <2>1. Body(f) = Published /\ StartOf(f) = 0
    BY <1>3 DEF Body, StartOf, Resuming
  <2>2. 0 + FileSize = FileSize /\ FileSize - 0 = FileSize /\ \A i \in 1 .. FileSize : 0 + i = i
    BY <1>1
  <2> QED
    BY <1>1, <2>1, <2>2
<1> QED
  BY <1>2, <1>3

(* A file as long as the published one, and right as far as it goes, is it.*)
LEMMA FullIsPublished ==
  ASSUME NEW s \in Seq(Nat), Grown(s), Len(s) = FileSize
  PROVE  s = Published
<1>1. Published \in Seq(Nat) /\ Len(Published) = FileSize /\ \A i \in 1 .. FileSize : Published[i] = i
  BY FetchAssumption DEF Published
<1>2. \A i \in 1 .. Len(s) : s[i] = Published[i]
  BY <1>1 DEF Grown
<1> QED
  BY <1>1, <1>2, SeqEqual

LEMMA PartialIs ==
  ASSUME FetchInv, partial # 0
  PROVE  /\ partial \in 1 .. Len(content) /\ content[partial] \in Seq(Nat)
         /\ Len(content[partial]) \in Nat /\ Length(partial) = Len(content[partial])
<1>1. partial \in 1 .. Len(content)
  BY LenProperties DEF FetchInv, FetchTypes
<1>2. content[partial] \in Seq(Nat)
  BY <1>1, ElementOfSeq DEF FetchInv, FetchTypes
<1> QED
  BY <1>1, <1>2, LenProperties DEF Length

LEMMA MeasureKept ==
  ASSUME FetchInv, NEW p, Alone(p), Measure(p)
  PROVE  FetchInv'
<1>0. p \in Fetchers /\ fetcher[p] \in FetchStates /\ Fits(fetcher[p])
  BY DEF Alone, FetchInv, FetchTypes
<1>1. PICK f : f = fetcher[p]
  OBVIOUS
<1>2. f.at = "Measure" /\ Copies(f) /\ (f.expected = 0 => f.sent = Len(Body(f)))
      /\ UNCHANGED <<content, partial, target>>
  BY <1>0, <1>1 DEF Fits, Measure
<1>3. partial # 0
  BY <1>2 DEF Copies
<1>4. CASE f.expected \notin {0, Length(partial)}
  <2>1. Retries(p)
    BY <1>1, <1>3, <1>4 DEF Measure
  <2> QED
    BY <1>0, <1>2, <2>1, RetriesSettles, SettlesKept
<1>5. CASE f.expected \in {0, Length(partial)}
  <2>1. Continues(p, [f EXCEPT !.at = "Move"])
    BY <1>1, <1>3, <1>5 DEF Measure
  <2>2. PICK s : s = [f EXCEPT !.at = "Move"]
    OBVIOUS
  <2>3. s \in FetchStates /\ s.at = "Move"
    BY <1>0, <1>1, <2>2 DEF FetchStates, FetchPlaces
  <2>4. Len(content[partial]) = StartOf(f) + f.sent /\ f.expected \in {0, FileSize} /\ Sane(f)
    BY <1>2 DEF Copies, StartOf
  <2>5. Len(content[partial]) = FileSize
    <3>1. CASE f.expected = 0
      <4>1. StartOf(f) \in Nat /\ f.sent = FileSize - StartOf(f) /\ FileSize \in Nat
        BY <1>2, <2>4, <3>1, BodyIs, FetchAssumption
      <4> QED
        BY <2>4, <4>1
    <3>2. CASE f.expected # 0
      BY <1>3, <1>5, <2>4, <3>2, PartialIs
    <3> QED
      BY <3>1, <3>2
  <2>6. Fits(s)
    BY <1>3, <2>3, <2>5 DEF Fits
  <2>7. fetcher' = [fetcher EXCEPT ![p] = s] /\ answer' = answer /\ (answer[p] = "Found" => target # 0)
    BY <1>0, <2>1, <2>2 DEF Continues, FetchInv
  <2> QED
    BY <1>2, <2>3, <2>6, <2>7, FetchQuiet
<1> QED
  BY <1>4, <1>5

(* The file in place is the whole one.                                     *)
LEMMA MoveKept ==
  ASSUME FetchInv, NEW p, Alone(p), Move(p)
  PROVE  FetchInv'
<1>1. p \in Fetchers /\ partial # 0 /\ Len(content[partial]) = FileSize
  BY DEF Alone, FetchInv, Fits, Move
<1>2. /\ fetcher' = [fetcher EXCEPT ![p] = AtRest] /\ answer' = [answer EXCEPT ![p] = "Found"]
      /\ target' = partial /\ partial' = 0 /\ content' = content
  BY <1>1 DEF Move, Returns
<1>3. content[partial] = Published
  BY <1>1, PartialIs, FullIsPublished DEF FetchInv
<1>4. AtRest \in FetchStates /\ Fits(AtRest)'
  BY AtRestRests DEF Rests, Fits
<1>5. /\ content' \in Seq(Seq(Nat)) /\ partial' \in 0 .. Len(content') /\ target' \in 0 .. Len(content')
  BY <1>2, LenProperties DEF FetchInv, FetchTypes
<1>6. target' # 0 /\ content'[target'] = Published
  BY <1>1, <1>2, <1>3
<1> QED
  BY <1>2, <1>4, <1>5, <1>6, FetchSteps

LEMMA OpenKept ==
  ASSUME FetchInv, NEW p, Alone(p), Open(p)
  PROVE  FetchInv'
<1>0. p \in Fetchers /\ fetcher[p] \in FetchStates /\ Fits(fetcher[p])
  BY DEF Alone, FetchInv, FetchTypes
<1>1. PICK f : f = fetcher[p]
  OBVIOUS
<1>2. /\ f \in FetchStates /\ f.at = "Answered" /\ f.status \in {"Ok", "PartialContent"} /\ Sane(f)
      /\ f.have = Length(partial) /\ target' = target /\ FileSize \in Nat \ {0}
      /\ f.sent = 0
  BY <1>0, <1>1, FetchAssumption DEF Fits, Open
<1>3. Resuming(f) <=> f.status = "PartialContent"
  BY <1>2 DEF Resuming, Sane
<1>4. PICK inode : inode = IF partial = 0 THEN Len(content) + 1 ELSE partial
  OBVIOUS
<1>5. PICK length : length = Len(Body(f)) + (IF Resuming(f) THEN f.have ELSE 0)
  OBVIOUS
<1>6. length = FileSize
  <2>1. PICK h \in Nat : h = StartOf(f) /\ Len(Body(f)) = FileSize - h
    BY <1>2, BodyIs
  <2>2. length = (FileSize - h) + h
    BY <1>5, <2>1 DEF StartOf
  <2> QED
    BY <1>2, <2>2
<1>7. PICK expected \in {0, length} :
        Continues(p, [f EXCEPT !.at = "Copy", !.expected = expected, !.open = inode])
  BY <1>1, <1>4, <1>5 DEF Open
<1>8. /\ partial' = inode
      /\ content' = IF partial = 0 THEN Append(content, <<>>)
                    ELSE IF Resuming(f) THEN content ELSE [content EXCEPT ![partial] = <<>>]
  BY <1>1, <1>4 DEF Open
<1>9. /\ content \in Seq(Seq(Nat)) /\ Len(content) \in Nat /\ partial \in 0 .. Len(content)
      /\ target \in 0 .. Len(content) /\ Len(Body(f)) \in Nat
      /\ target # 0 => content[target] = Published
      /\ partial # 0 => partial # target /\ Grown(content[partial])
  BY <1>2, BodyIs, LenProperties DEF FetchInv, FetchTypes
<1>10. \A s : s = <<>> => s \in Seq(Nat) /\ Len(s) = 0 /\ Grown(s)
  BY <1>2, EmptySeq DEF Grown
<1>11. PICK s : s = [f EXCEPT !.at = "Copy", !.expected = expected, !.open = inode]
  OBVIOUS
<1>12. /\ s \in FetchStates /\ s.at = "Copy" /\ s.expected = expected /\ s.open = inode
       /\ s.status = f.status /\ s.have = f.have /\ s.sent = f.sent
  <2>1. inode \in Nat /\ expected \in Nat
    BY <1>2, <1>4, <1>6, <1>9
  <2> QED
    BY <1>2, <1>11, <2>1 DEF FetchStates, FetchPlaces
<1>13. Body(s) = Body(f) /\ Resuming(s) = Resuming(f) /\ Sane(s)
  BY <1>2, <1>12 DEF Body, Resuming, Sane
<1>14. fetcher' = [fetcher EXCEPT ![p] = s] /\ answer' = answer /\ (answer[p] = "Found" => target # 0)
  BY <1>0, <1>7, <1>11 DEF Continues, FetchInv
<1> QED
  <2>1. ASSUME content' \in Seq(Seq(Nat)), inode \in 1 .. Len(content'), target' \in 0 .. Len(content'),
               inode # target, Grown(content'[inode]), target # 0 => content'[target] = Published,
               Len(content'[inode]) = (IF Resuming(f) THEN f.have ELSE 0) + f.sent,
               f.sent <= Len(Body(f))
        PROVE  FetchInv'
    <3>1. inode # 0
      BY <2>1, LenProperties
    <3>2. Copies(s)'
      BY <1>2, <1>6, <1>8, <1>12, <1>13, <2>1, <3>1 DEF Copies
    <3>3. Fits(s)'
      BY <1>12, <3>2 DEF Fits
    <3>4. partial' \in 0 .. Len(content')
      BY <1>8, <2>1, LenProperties
    <3>5. partial' # target' /\ Grown(content'[partial']) /\ (target' # 0 => content'[target'] = Published)
      BY <1>2, <1>8, <2>1
    <3>6. answer[p] = "Found" => target' # 0
      BY <1>2, <1>14
    <3> QED
      BY <1>12, <1>14, <2>1, <3>3, <3>4, <3>5, <3>6, FetchSteps
  <2>2. CASE partial = 0
    <3>1. content' = Append(content, <<>>) /\ inode = Len(content) + 1 /\ f.have = 0
      BY <1>2, <1>4, <1>8, <2>2 DEF Length
    <3>2. /\ content' \in Seq(Seq(Nat)) /\ Len(content') = Len(content) + 1 /\ content'[inode] = <<>>
          /\ \A i \in 1 .. Len(content) : content'[i] = content[i]
      BY <1>9, <1>10, <3>1, AppendProperties
    <3>3. inode \in 1 .. Len(content') /\ target \in 0 .. Len(content') /\ inode # target
      BY <1>9, <3>1, <3>2
    <3>4. target # 0 => content'[target] = Published
      BY <1>9, <3>2
    <3>5. ~Resuming(f)
      BY <3>1 DEF Resuming
    <3> QED
      BY <1>2, <1>10, <2>1, <3>2, <3>3, <3>4, <3>5
  <2>3. CASE partial # 0 /\ Resuming(f)
    BY <1>2, <1>4, <1>8, <1>9, <2>1, <2>3, PartialIs
  <2>4. CASE partial # 0 /\ ~Resuming(f)
    <3>1. content' = [content EXCEPT ![partial] = <<>>] /\ inode = partial
      BY <1>4, <1>8, <2>4
    <3>2. /\ content' \in Seq(Seq(Nat)) /\ Len(content') = Len(content) /\ content'[inode] = <<>>
          /\ \A i \in 1 .. Len(content) : i # inode => content'[i] = content[i]
      BY <1>9, <1>10, <2>4, <3>1, ExceptSeq
    <3> QED
      BY <1>2, <1>9, <1>10, <2>1, <2>4, <3>1, <3>2
  <2> QED
    BY <2>2, <2>3, <2>4

(* A block at the end of a file.                                           *)
LEMMA PlacedIs ==
  ASSUME NEW s \in Seq(Nat), NEW b \in Nat
  PROVE  /\ Placed(s, Len(s) + 1, b) \in Seq(Nat) /\ Len(Placed(s, Len(s) + 1, b)) = Len(s) + 1
         /\ \A i \in 1 .. Len(s) + 1 : Placed(s, Len(s) + 1, b)[i] = IF i = Len(s) + 1 THEN b ELSE s[i]
<1>1. PICK n \in Nat : n = Len(s)
  BY LenProperties
<1>2. Max({n, n + 1}) = n + 1
  <2>1. \A x : x \in {n, n + 1} /\ (\A y \in {n, n + 1} : x >= y) <=> x = n + 1
    OBVIOUS
  <2>2. (CHOOSE x : x = n + 1) = n + 1
    OBVIOUS
  <2> QED
    BY <2>1, <2>2 DEF Max
<1>3. \A i \in 1 .. n : s[i] \in Nat
  BY <1>1, ElementOfSeq
<1>4. PICK t : t = [i \in 1 .. n + 1 |-> IF i = n + 1 THEN b ELSE IF i <= n THEN s[i] ELSE 0]
  OBVIOUS
<1>5. Placed(s, n + 1, b) = t
  BY <1>1, <1>2, <1>4 DEF Placed
<1>6. t \in Seq(Nat) /\ Len(t) = n + 1
  <2>1. \A i \in 1 .. n + 1 : (IF i = n + 1 THEN b ELSE IF i <= n THEN s[i] ELSE 0) \in Nat
    BY <1>3
  <2> QED
    BY <1>4, <2>1, IsASeq
<1>7. \A i \in 1 .. n + 1 : t[i] = IF i = n + 1 THEN b ELSE s[i]
  BY <1>4
<1> QED
  BY <1>1, <1>5, <1>6, <1>7

LEMMA CopyKept ==
  ASSUME FetchInv, NEW p, Alone(p), Copy(p)
  PROVE  FetchInv'
<1>0. p \in Fetchers /\ fetcher[p] \in FetchStates /\ Fits(fetcher[p])
  BY DEF Alone, FetchInv, FetchTypes
<1>1. PICK f : f = fetcher[p]
  OBVIOUS
<1>2. f \in FetchStates /\ f.at = "Copy" /\ Copies(f) /\ f.sent < Len(Body(f)) /\ f.sent \in Nat
  BY <1>0, <1>1 DEF Fits, Copy, FetchStates
<1>3. partial # 0 /\ f.open = partial /\ Sane(f) /\ f.expected \in {0, FileSize}
  BY <1>2 DEF Copies
<1>4. PICK n \in Nat : n = Len(content[partial])
  BY <1>3, PartialIs
<1>5. PICK h \in Nat : /\ h = StartOf(f) /\ Len(Body(f)) = FileSize - h
                       /\ \A i \in 1 .. FileSize - h : Body(f)[i] = h + i
  BY <1>3, BodyIs
<1>6. n = h + f.sent /\ FileSize \in Nat
  BY <1>2, <1>4, <1>5, FetchAssumption DEF Copies, StartOf
<1>7. Body(f)[f.sent + 1] = n + 1 /\ n < FileSize
  <2>1. f.sent + 1 \in 1 .. FileSize - h /\ h + (f.sent + 1) = n + 1 /\ n < FileSize
    BY <1>2, <1>5, <1>6
  <2> QED
    BY <1>5, <2>1
<1>8. (IF Resuming(f) THEN Length(f.open) + 1 ELSE f.sent + 1) = n + 1
  <2>1. CASE Resuming(f)
    BY <1>3, <1>4, <2>1, PartialIs
  <2>2. CASE ~Resuming(f)
    BY <1>2, <1>5, <1>6, <2>2 DEF StartOf
  <2> QED
    BY <2>1, <2>2
<1>9. PICK t : t = Placed(content[partial], n + 1, n + 1)
  OBVIOUS
<1>10. content' = [content EXCEPT ![partial] = t] /\ partial' = partial /\ target' = target
  BY <1>1, <1>3, <1>7, <1>8, <1>9 DEF Copy
<1>11. t \in Seq(Nat) /\ Len(t) = n + 1 /\ Grown(t)
  <2>1. /\ t \in Seq(Nat) /\ Len(t) = n + 1
        /\ \A i \in 1 .. n + 1 : t[i] = IF i = n + 1 THEN n + 1 ELSE content[partial][i]
    <3>1. PICK s \in Seq(Nat) : s = content[partial] /\ Len(s) = n
      BY <1>3, <1>4, PartialIs
    <3>2. t = Placed(s, Len(s) + 1, n + 1) /\ n + 1 \in Nat
      BY <1>9, <3>1
    <3>3. /\ t \in Seq(Nat) /\ Len(t) = Len(s) + 1
          /\ \A i \in 1 .. Len(s) + 1 : t[i] = IF i = Len(s) + 1 THEN n + 1 ELSE s[i]
      BY <3>2, PlacedIs
    <3> QED
      BY <3>1, <3>3
  <2>2. \A i \in 1 .. n : content[partial][i] = i
    BY <1>3, <1>4 DEF FetchInv, Grown
  <2>3. \A i \in 1 .. n + 1 : t[i] = i
    BY <2>1, <2>2
  <2> QED
    BY <1>6, <1>7, <2>1, <2>3 DEF Grown
<1>12. /\ content \in Seq(Seq(Nat)) /\ partial \in 1 .. Len(content) /\ partial # target
       /\ target \in 0 .. Len(content) /\ (target # 0 => content[target] = Published)
       /\ Len(content) \in Nat
  BY <1>3, PartialIs, LenProperties DEF FetchInv, FetchTypes
<1>13. /\ content' \in Seq(Seq(Nat)) /\ Len(content') = Len(content) /\ content'[partial] = t
       /\ \A i \in 1 .. Len(content) : i # partial => content'[i] = content[i]
  BY <1>10, <1>11, <1>12, ExceptSeq
<1>14. target # 0 => content'[target] = Published
  BY <1>12, <1>13
<1>15. PICK s : s = [f EXCEPT !.sent = @ + 1]
  OBVIOUS
<1>16. /\ s \in FetchStates /\ s.at = "Copy" /\ s.expected = f.expected /\ s.open = f.open
       /\ s.status = f.status /\ s.have = f.have /\ s.sent = f.sent + 1
  BY <1>2, <1>15 DEF FetchStates
<1>17. Body(s) = Body(f) /\ Resuming(s) = Resuming(f) /\ Sane(s)
  BY <1>3, <1>16 DEF Body, Resuming, Sane
<1>18. fetcher' = [fetcher EXCEPT ![p] = s] /\ answer' = answer /\ (answer[p] = "Found" => target # 0)
  BY <1>0, <1>1, <1>15 DEF Copy, Continues, FetchInv
<1>19. Copies(s)'
  <2>1. Len(t) = (IF Resuming(f) THEN f.have ELSE 0) + (f.sent + 1)
    <3>1. h = IF Resuming(f) THEN f.have ELSE 0
      BY <1>5 DEF StartOf
    <3>2. n + 1 = h + (f.sent + 1)
      BY <1>2, <1>6
    <3> QED
      BY <1>11, <3>1, <3>2
  <2>2. f.sent + 1 <= Len(Body(f))
    BY <1>2, <1>5, <1>6
  <2>3. f.status \in {"Ok", "PartialContent"}
    BY <1>2 DEF Copies
  <2> QED
    BY <1>3, <1>10, <1>13, <1>16, <1>17, <2>1, <2>2, <2>3 DEF Copies
<1>20. Fits(s)'
  BY <1>16, <1>19 DEF Fits
<1>21. partial' # target' /\ Grown(content'[partial']) /\ (target' # 0 => content'[target'] = Published)
  BY <1>10, <1>11, <1>12, <1>13, <1>14
<1>22. partial' \in 0 .. Len(content') /\ target' \in 0 .. Len(content')
  BY <1>10, <1>12, <1>13
<1>23. answer[p] = "Found" => target' # 0
  BY <1>10, <1>18
<1> QED
  BY <1>13, <1>16, <1>18, <1>20, <1>21, <1>22, <1>23, FetchSteps

LEMMA FetchFirst == FetchInit => FetchInv
<1> SUFFICES ASSUME FetchInit PROVE FetchInv
  OBVIOUS
<1>1. /\ content = <<>> /\ partial = 0 /\ target = 0 /\ Rests(AtRest)
      /\ fetcher = [p \in Fetchers |-> AtRest] /\ answer = [p \in Fetchers |-> "None"]
  BY AtRestRests DEF FetchInit
<1>2. <<>> \in Seq(Seq(Nat)) /\ Len(<<>>) = 0
  BY EmptySeq
<1>3. AtRest \in FetchStates /\ Fits(AtRest)
  BY <1>1 DEF Rests, Fits
<1>4. FetchTypes
  BY <1>1, <1>2, <1>3 DEF FetchTypes
<1> QED
  BY <1>1, <1>3, <1>4 DEF FetchInv

LEMMA FetchStep ==
  ASSUME \A p, q \in Fetchers : p = q
  PROVE  FetchInv /\ [FetchNext]_fetchVars => FetchInv'
<1> SUFFICES ASSUME FetchInv, [FetchNext]_fetchVars PROVE FetchInv'
  OBVIOUS
<1>1. CASE UNCHANGED fetchVars
  BY <1>1 DEF fetchVars, FetchInv, FetchTypes, Fits, Copies, Length
<1>2. CASE FetchNext
  <2>1. PICK p \in Fetchers :
          \/ Call(p) \/ Send(p) \/ Refused(p) \/ Open(p) \/ Copy(p) \/ Copied(p)
          \/ Interrupted(p) \/ Measure(p) \/ Move(p) \/ Killed(p)
    BY <1>2 DEF FetchNext
  <2>2. Alone(p)
    BY DEF Alone
  <2> QED
    BY <2>1, <2>2, FetchQuietSteps, OpenKept, CopyKept, MeasureKept, MoveKept
<1> QED
  BY <1>1, <1>2

(* With one process fetching at a time: whatever the server answers, and   *)
(* wherever an attempt or the process ends, the file in place is the       *)
(* published one, and a fetch that says so found it there (fetch,          *)
(* try_fetch).                                                             *)
THEOREM TargetAlwaysWhole ==
  ASSUME \A p, q \in Fetchers : p = q
  PROVE  FetchSpec => []TargetWhole
<1>1. FetchInv => TargetWhole
  BY DEF FetchInv, TargetWhole
<1>2. FetchInv /\ [FetchNext]_fetchVars => FetchInv'
  BY FetchStep
<1> QED
  BY <1>1, <1>2, FetchFirst, PTL DEF FetchSpec

-------------------------------------------------------------------------------
(* Loads of weights.                                                       *)

(* The channels of a head are numbered one after the other.                *)
LEMMA ChannelOf ==
  ASSUME NEW q \in Nat, NEW d \in Nat \ {0}, NEW r \in 0 .. d - 1
  PROVE  (q * d + r) \div d = q /\ (q * d + r) % d = r
OBVIOUS

LEMMA HeadFits ==
  ASSUME NEW n \in Nat, NEW head \in 0 .. n - 1, NEW d \in Nat, NEW r \in 0 .. d - 1
  PROVE  head * d + r + 1 \in 1 .. n * d
<1>1. (head + 1) * d <= n * d
  OBVIOUS
<1>2. (head + 1) * d = head * d + d /\ head * d \in Nat /\ n * d \in Nat
  OBVIOUS
<1> QED
  BY <1>1, <1>2

LEMMA PairOf ==
  ASSUME NEW h \in Nat, NEW j \in 0 .. h - 1
  PROVE  /\ 2 * j \in 0 .. 2 * h - 1 /\ (2 * j) % 2 = 0 /\ (2 * j) \div 2 = j
         /\ 2 * j + 1 \in 0 .. 2 * h - 1 /\ (2 * j + 1) % 2 = 1 /\ (2 * j + 1) \div 2 = j
OBVIOUS

LEMMA HalfOf ==
  ASSUME NEW n \in Nat \ {0}, NEW h \in Nat
  PROVE  (n * (2 * h)) \div (2 * n) = h /\ (2 * h) \div 2 = h
OBVIOUS

(* A model's shape: heads of twice so many pairs, queries and keys of so   *)
(* many heads.                                                             *)
LEMMA ShapeIs ==
  ASSUME NEW c, Shaped(c)
  PROVE  /\ HeadDim(c) \in Nat \ {0} /\ KvHeads(c) \in Nat \ {0}
         /\ HeadDim(c) \div 2 \in Nat \ {0} /\ HeadDim(c) = 2 * (HeadDim(c) \div 2)
         /\ Columns(c, "wq") = c.heads * HeadDim(c)
         /\ Columns(c, "wk") = KvHeads(c) * HeadDim(c)
<1> DEFINE heads == c.heads
           dim == HeadDim(c)
<1>1. heads \in Nat \ {0} /\ c.hidden \in Nat \ {0} /\ c.hidden % heads = 0 /\ dim % 2 = 0
      /\ dim = c.hidden \div heads
  BY DEF Shaped, HeadDim
<1>2. KvHeads(c) \in Nat \ {0}
  BY <1>1 DEF Shaped, KvHeads, OrElse
<1>3. \A m \in Nat \ {0}, n \in Nat \ {0} : m % n = 0 => m \div n \in Nat \ {0} /\ m = n * (m \div n)
  OBVIOUS
<1>4. dim \in Nat \ {0} /\ c.hidden = heads * dim
  <2> HIDE DEF heads, dim
  <2> QED BY <1>1, <1>3
<1>5. dim \div 2 \in Nat \ {0} /\ dim = 2 * (dim \div 2)
  <2> HIDE DEF heads, dim
  <2> QED BY <1>1, <1>4, <1>3
<1>6. Columns(c, "wq") = c.hidden /\ Columns(c, "wk") = dim * KvHeads(c)
  BY DEF Columns
<1>7. dim * KvHeads(c) = KvHeads(c) * dim
  <2> PICK m \in Nat, n \in Nat : m = dim /\ n = KvHeads(c)
    BY <1>2, <1>4
  <2> HIDE DEF dim
  <2> QED OBVIOUS
<1> QED
  BY <1>2, <1>4, <1>5, <1>6, <1>7

(* The channel at some place of a head.                                    *)
Place(head, dim, r) == head * dim + r + 1

LEMMA PlaceFits ==
  ASSUME NEW n \in Nat, NEW head \in 0 .. n - 1, NEW d \in Nat, NEW r \in 0 .. d - 1
  PROVE  Place(head, d, r) \in 1 .. n * d
BY HeadFits DEF Place

LEMMA PermutedAt ==
  ASSUME NEW n \in Nat \ {0}, NEW h \in Nat \ {0}, NEW head \in 0 .. n - 1, NEW j \in 0 .. h - 1,
         NEW last, last = n * (2 * h), NEW order, order = [i \in 1 .. last |-> i]
  PROVE  /\ Len(PermuteHeads(order, n)) = last
         /\ PermuteHeads(order, n)[Place(head, 2 * h, 2 * j)] = Place(head, 2 * h, j)
         /\ PermuteHeads(order, n)[Place(head, 2 * h, 2 * j + 1)] = Place(head, 2 * h, h + j)
<1> DEFINE at(i) == ((i - 1) \div (2 * h)) * 2 * h + (((i - 1) % (2 * h)) % 2) * h
                      + ((i - 1) % (2 * h)) \div 2 + 1
<1>1. last \in Nat /\ order \in Seq(Nat) /\ Len(order) = last
  <2>1. last \in Nat
    OBVIOUS
  <2> QED BY <2>1
<1>2. Len(order) \div (2 * n) = h
  BY <1>1, HalfOf
<1>3. PermuteHeads(order, n) = [i \in 1 .. last |-> order[at(i)]]
  BY <1>1, <1>2 DEF PermuteHeads
<1>4. Len(PermuteHeads(order, n)) = last
  <2> HIDE DEF at
  <2> QED BY <1>1, <1>3
<1>5. \A r \in 0 .. 2 * h - 1 : Place(head, 2 * h, r) \in 1 .. last
  BY HeadFits DEF Place
<1>6. \A r \in 0 .. 2 * h - 1 :
        at(Place(head, 2 * h, r)) = head * 2 * h + (r % 2) * h + r \div 2 + 1
  <2> TAKE r \in 0 .. 2 * h - 1
  <2>1. Place(head, 2 * h, r) - 1 = head * (2 * h) + r
    BY DEF Place
  <2>2. (head * (2 * h) + r) \div (2 * h) = head /\ (head * (2 * h) + r) % (2 * h) = r
    <3>1. 2 * h \in Nat \ {0} /\ head \in Nat
      OBVIOUS
    <3> QED BY ONLY <3>1, ChannelOf, r \in 0 .. 2 * h - 1
  <2>3. (Place(head, 2 * h, r) - 1) \div (2 * h) = head /\ (Place(head, 2 * h, r) - 1) % (2 * h) = r
    BY <2>1, <2>2
  <2> QED
    BY <2>3
<1>7. \A r \in 0 .. 2 * h - 1 : PermuteHeads(order, n)[Place(head, 2 * h, r)] =
        order[head * 2 * h + (r % 2) * h + r \div 2 + 1]
  <2> HIDE DEF at
  <2> QED BY <1>3, <1>5, <1>6
<1>8. PermuteHeads(order, n)[Place(head, 2 * h, 2 * j)] = order[Place(head, 2 * h, j)]
  <2>1. head * 2 * h + ((2 * j) % 2) * h + (2 * j) \div 2 + 1 = Place(head, 2 * h, j)
    BY PairOf DEF Place
  <2> QED BY <1>7, <2>1, PairOf
<1>9. PermuteHeads(order, n)[Place(head, 2 * h, 2 * j + 1)] = order[Place(head, 2 * h, h + j)]
  <2>1. head * 2 * h + ((2 * j + 1) % 2) * h + (2 * j + 1) \div 2 + 1 = Place(head, 2 * h, h + j)
    BY PairOf DEF Place
  <2> QED BY <1>7, <2>1, PairOf
<1>10. j \in 0 .. 2 * h - 1 /\ h + j \in 0 .. 2 * h - 1
  OBVIOUS
<1>11. order[Place(head, 2 * h, j)] = Place(head, 2 * h, j)
       /\ order[Place(head, 2 * h, h + j)] = Place(head, 2 * h, h + j)
  BY <1>5, <1>10
<1> QED
  BY <1>4, <1>8, <1>9, <1>11

PermutedPairAt(order, n, dim, h, head, j) ==
  /\ PermuteHeads(order, n)[Place(head, dim, 2 * j)] = Place(head, dim, j)
  /\ PermuteHeads(order, n)[Place(head, dim, 2 * j + 1)] = Place(head, dim, h + j)

LEMMA PermutedPair ==
  ASSUME NEW n \in Nat \ {0}, NEW h \in Nat \ {0}, NEW dim, dim = 2 * h,
         NEW last, last = n * dim, NEW order, order = [i \in 1 .. last |-> i]
  PROVE  /\ Len(PermuteHeads(order, n)) = last
         /\ \A head \in 0 .. n - 1, j \in 0 .. h - 1 : PermutedPairAt(order, n, dim, h, head, j)
<1>1. last = n * (2 * h)
  OBVIOUS
<1>2. ASSUME NEW head \in 0 .. n - 1, NEW j \in 0 .. h - 1
      PROVE  /\ Len(PermuteHeads(order, n)) = last
             /\ PermutedPairAt(order, n, dim, h, head, j)
  <2>1. /\ Len(PermuteHeads(order, n)) = last
        /\ PermuteHeads(order, n)[Place(head, 2 * h, 2 * j)] = Place(head, 2 * h, j)
        /\ PermuteHeads(order, n)[Place(head, 2 * h, 2 * j + 1)] = Place(head, 2 * h, h + j)
    BY ONLY <1>1, <1>2, PermutedAt, n \in Nat \ {0}, h \in Nat \ {0},
            order = [i \in 1 .. last |-> i]
  <2> QED BY ONLY <2>1, dim = 2 * h DEF PermutedPairAt
<1>3. 0 \in 0 .. n - 1 /\ 0 \in 0 .. h - 1
  OBVIOUS
<1> QED
  BY ONLY <1>2, <1>3

(* A query's or key's tensor is ordered right when its pairs are the ones  *)
(* of the file's convention.                                               *)
LEMMA OrderedRight ==
  ASSUME NEW f, Shaped(f.config), NEW t, NEW n \in Nat \ {0}, NEW dim, dim = HeadDim(f.config),
         NEW h, h = dim \div 2, Len(t.order) = n * dim,
         \A head \in 0 .. n - 1, j \in 0 .. h - 1 :
           <<t.order[Place(head, dim, 2 * j)], t.order[Place(head, dim, 2 * j + 1)]>> =
             Pair(f, head, j)
  PROVE  RightOrder(f, t)
<1>1. dim \in Nat \ {0}
  BY ShapeIs
<1>2. (n * dim) \div dim = n
  BY <1>1
<1> SUFFICES ASSUME NEW head \in 0 .. Len(t.order) \div dim - 1, NEW j \in 0 .. dim \div 2 - 1
             PROVE  LET i == head * dim + 2 * j IN
                    <<t.order[i + 1], t.order[i + 2]>> = Pair(f, head, j)
  BY DEF RightOrder
<1>3. head \in 0 .. n - 1 /\ j \in 0 .. h - 1
  BY <1>1, <1>2
<1>4. Place(head, dim, 2 * j) = head * dim + 2 * j + 1
      /\ Place(head, dim, 2 * j + 1) = head * dim + 2 * j + 2
  BY <1>1, <1>3 DEF Place
<1> QED
  BY <1>3, <1>4

(* The pairs of the two conventions.                                       *)
PairsOf(f, dim, h) ==
  \A head \in Nat, j \in Nat :
    /\ f.style = "Hf" => Pair(f, head, j) = <<Place(head, dim, j), Place(head, dim, h + j)>>
    /\ f.style # "Hf" =>
         Pair(f, head, j) = <<Place(head, dim, 2 * j), Place(head, dim, 2 * j + 1)>>

LEMMA PairsAre ==
  ASSUME NEW f, Shaped(f.config), NEW dim, dim = HeadDim(f.config), NEW h, h = dim \div 2
  PROVE  PairsOf(f, dim, h)
<1> SUFFICES ASSUME NEW head \in Nat, NEW j \in Nat
             PROVE  /\ f.style = "Hf" =>
                         Pair(f, head, j) = <<Place(head, dim, j), Place(head, dim, h + j)>>
                    /\ f.style # "Hf" =>
                         Pair(f, head, j) =
                           <<Place(head, dim, 2 * j), Place(head, dim, 2 * j + 1)>>
  BY DEF PairsOf
<1>1. h \in Nat /\ dim \in Nat
  BY ShapeIs
<1>2. CASE f.style = "Hf"
  <2>1. Pair(f, head, j) = <<head * dim + j + 1, head * dim + h + j + 1>>
    BY <1>2 DEF Pair
  <2>2. head * dim + j + 1 = Place(head, dim, j) /\ head * dim + h + j + 1 = Place(head, dim, h + j)
    BY <1>1 DEF Place
  <2> QED BY <1>2, <2>1, <2>2
<1>3. CASE f.style # "Hf"
  <2>1. Pair(f, head, j) = <<head * dim + 2 * j + 1, head * dim + 2 * j + 2>>
    BY <1>3 DEF Pair
  <2>2. head * dim + 2 * j + 1 = Place(head, dim, 2 * j)
        /\ head * dim + 2 * j + 2 = Place(head, dim, 2 * j + 1)
    BY <1>1 DEF Place
  <2> QED BY <1>3, <2>1, <2>2
<1> QED
  BY <1>2, <1>3

(* As a checkpoint has them, permuted if it is of Hugging Face's style.    *)
LEMMA CheckpointOrder ==
  ASSUME NEW f, Shaped(f.config), NEW n \in Nat \ {0}, NEW dim, dim = HeadDim(f.config),
         NEW last, last = n * dim,
         NEW order, order = [i \in 1 .. last |-> i], NEW t,
         t.order = IF f.style = "Hf" THEN PermuteHeads(order, n) ELSE order
  PROVE  Len(t.order) = last /\ RightOrder(f, t)
<1> PICK h : h = dim \div 2
  OBVIOUS
<1>1. h \in Nat \ {0} /\ dim = 2 * h /\ dim \in Nat
  BY ShapeIs
<1>2. last \in Nat
  BY <1>1
<1>4. Len(order) = last /\ \A i \in 1 .. last : order[i] = i
  BY ONLY <1>2, order = [i \in 1 .. last |-> i]
<1>7. /\ Len(PermuteHeads(order, n)) = last
      /\ \A k \in 0 .. n - 1, l \in 0 .. h - 1 : PermutedPairAt(order, n, dim, h, k, l)
  BY ONLY <1>1, PermutedPair, n \in Nat \ {0}, last = n * dim, order = [i \in 1 .. last |-> i]
<1>5. Len(t.order) = last
  <2>1. t.order = PermuteHeads(order, n) \/ t.order = order
    BY ONLY t.order = IF f.style = "Hf" THEN PermuteHeads(order, n) ELSE order
  <2> QED BY ONLY <1>4, <1>7, <2>1
<1>3. PairsOf(f, dim, h)
  BY ONLY PairsAre, Shaped(f.config), dim = HeadDim(f.config), h = dim \div 2
<1>6. ASSUME NEW head \in 0 .. n - 1, NEW j \in 0 .. h - 1
      PROVE  <<t.order[Place(head, dim, 2 * j)], t.order[Place(head, dim, 2 * j + 1)]>> =
               Pair(f, head, j)
  <2>0. head \in Nat /\ j \in Nat
    BY <1>1
  <2>1. CASE f.style = "Hf"
    <3>1. PermuteHeads(order, n)[Place(head, dim, 2 * j)] = Place(head, dim, j)
          /\ PermuteHeads(order, n)[Place(head, dim, 2 * j + 1)] = Place(head, dim, h + j)
      <4>2. PermutedPairAt(order, n, dim, h, head, j)
        BY ONLY <1>7, head \in 0 .. n - 1, j \in 0 .. h - 1
      <4> QED BY ONLY <4>2 DEF PermutedPairAt
    <3>2. Pair(f, head, j) = <<Place(head, dim, j), Place(head, dim, h + j)>>
      BY ONLY <1>3, <2>0, <2>1 DEF PairsOf
    <3> QED BY <2>1, <3>1, <3>2
  <2>2. CASE f.style # "Hf"
    <3>1. Place(head, dim, 2 * j) \in 1 .. last
          /\ Place(head, dim, 2 * j + 1) \in 1 .. last
      <4>1. 2 * j \in 0 .. dim - 1 /\ 2 * j + 1 \in 0 .. dim - 1
        BY ONLY <1>1, j \in 0 .. h - 1
      <4>2. ASSUME NEW k \in 0 .. dim - 1 PROVE Place(head, dim, k) \in 1 .. last
        <5>1. Place(head, dim, k) \in 1 .. n * dim
          BY ONLY <1>1, PlaceFits, n \in Nat \ {0}, head \in 0 .. n - 1, k \in 0 .. dim - 1
        <5> QED BY ONLY <5>1, last = n * dim
      <4> QED BY ONLY <4>1, <4>2
    <3>2. Pair(f, head, j) = <<Place(head, dim, 2 * j), Place(head, dim, 2 * j + 1)>>
      BY ONLY <1>3, <2>0, <2>2 DEF PairsOf
    <3> QED BY <1>4, <2>2, <3>1, <3>2
  <2> QED BY <2>1, <2>2
<1> QED
  BY ONLY <1>5, <1>6, OrderedRight, Shaped(f.config), n \in Nat \ {0}, dim = HeadDim(f.config),
          h = dim \div 2, last = n * dim

(* Where a channel of a pair is.                                           *)
ChannelAt(i, n, head, dim, j, r) ==
  /\ i \in 1 .. n * dim /\ (i - 1) \div dim = head /\ ((i - 1) % dim) \div 2 = j
  /\ (i - 1) % 2 = r

LEMMA ChannelIn ==
  ASSUME NEW n \in Nat \ {0}, NEW head \in 0 .. n - 1, NEW h \in Nat \ {0}, NEW dim, dim = 2 * h,
         NEW j \in 0 .. h - 1, NEW r \in {0, 1}
  PROVE  ChannelAt(Place(head, dim, 2 * j + r), n, head, dim, j, r)
<1> PICK i : i = Place(head, dim, 2 * j + r)
  OBVIOUS
<1>1. PICK s : s = 2 * j + r
  OBVIOUS
<1>2. s \in 0 .. dim - 1 /\ s \div 2 = j
  BY <1>1
<1>3. dim \in Nat \ {0} /\ head \in Nat
  OBVIOUS
<1>4. i = head * dim + s + 1
  BY <1>1 DEF Place
<1>5. i - 1 = head * dim + s
  BY <1>2, <1>3, <1>4
<1>6. i \in 1 .. n * dim
  BY ONLY <1>2, <1>3, <1>4, HeadFits, n \in Nat \ {0}, head \in 0 .. n - 1
<1>7. (i - 1) \div dim = head /\ (i - 1) % dim = s
  <2>1. (head * dim + s) \div dim = head /\ (head * dim + s) % dim = s
    BY ONLY <1>2, <1>3, ChannelOf
  <2> QED BY ONLY <1>5, <2>1
<1>8. PICK q \in Nat : q = head * h + j
  BY <1>3
<1>9. i - 1 = q * 2 + r
  <2>1. head * (2 * h) + (2 * j + r) = (head * h + j) * 2 + r
    BY <1>3
  <2> QED BY <1>1, <1>5, <1>8, <2>1
<1>10. (i - 1) % 2 = r
  BY ONLY <1>9, q \in Nat, r \in {0, 1}
<1> QED
  BY <1>2, <1>6, <1>7, <1>10 DEF ChannelAt

(* As a record has them.                                                   *)
LEMMA RecordOrder ==
  ASSUME NEW f, Shaped(f.config), NEW n \in Nat \ {0}, NEW t, NEW dim, dim = HeadDim(f.config),
         NEW last, last = n * dim,
         t.order = [i \in 1 .. last |->
                      Pair(f, (i - 1) \div dim, ((i - 1) % dim) \div 2)[((i - 1) % 2) + 1]]
  PROVE  Len(t.order) = last /\ RightOrder(f, t)
<1> PICK h : h = dim \div 2
  OBVIOUS
<1>1. h \in Nat \ {0} /\ dim = 2 * h /\ dim \in Nat
  BY ShapeIs
<1>2. last \in Nat
  BY <1>1
<1>3. Len(t.order) = last
  BY <1>2
<1>4. ASSUME NEW head \in 0 .. n - 1, NEW j \in 0 .. h - 1, NEW r \in {0, 1}
      PROVE  t.order[Place(head, dim, 2 * j + r)] = Pair(f, head, j)[r + 1]
  <2> PICK i : i = Place(head, dim, 2 * j + r)
    OBVIOUS
  <2>0. /\ i \in 1 .. n * dim /\ (i - 1) \div dim = head /\ ((i - 1) % dim) \div 2 = j
        /\ (i - 1) % 2 = r
    <3>1. ChannelAt(Place(head, dim, 2 * j + r), n, head, dim, j, r)
      BY ONLY <1>1, ChannelIn, n \in Nat \ {0}, head \in 0 .. n - 1, j \in 0 .. h - 1, r \in {0, 1}
    <3> QED BY ONLY <3>1, i = Place(head, dim, 2 * j + r) DEF ChannelAt
  <2>1. /\ i \in 1 .. last /\ (i - 1) \div dim = head /\ ((i - 1) % dim) \div 2 = j
        /\ (i - 1) % 2 = r
    BY ONLY <2>0, last = n * dim
  <2>2. t.order[i] = Pair(f, (i - 1) \div dim, ((i - 1) % dim) \div 2)[((i - 1) % 2) + 1]
    BY <2>1
  <2> QED
    BY <2>1, <2>2
<1>5. ASSUME NEW head \in 0 .. n - 1, NEW j \in 0 .. h - 1
      PROVE  <<t.order[Place(head, dim, 2 * j)], t.order[Place(head, dim, 2 * j + 1)]>> =
               Pair(f, head, j)
  <2>1. 2 * j + 0 = 2 * j
    BY <1>1
  <2>2. t.order[Place(head, dim, 2 * j)] = Pair(f, head, j)[1]
    <3>1. t.order[Place(head, dim, 2 * j + 0)] = Pair(f, head, j)[0 + 1]
      BY ONLY <1>4, head \in 0 .. n - 1, j \in 0 .. h - 1
    <3> QED BY ONLY <2>1, <3>1
  <2>3. t.order[Place(head, dim, 2 * j + 1)] = Pair(f, head, j)[2]
    <3>1. t.order[Place(head, dim, 2 * j + 1)] = Pair(f, head, j)[1 + 1]
      BY ONLY <1>4, head \in 0 .. n - 1, j \in 0 .. h - 1
    <3> QED BY ONLY <3>1
  <2>4. Pair(f, head, j) = <<Pair(f, head, j)[1], Pair(f, head, j)[2]>>
    BY DEF Pair
  <2> QED BY <2>2, <2>3, <2>4
<1> QED
  BY ONLY <1>3, <1>5, OrderedRight, Shaped(f.config), n \in Nat \ {0}, dim = HeadDim(f.config),
          h = dim \div 2, last = n * dim

(* A module whose every parameter holds one tensor, the right one.         *)
RightTensor(f, q, t, float) ==
  /\ t.of = IF q = "output" /\ q \notin f.params THEN "tok_embeddings" ELSE q
  /\ t.layout = IF q \in Linears THEN "InOut" ELSE "AsIs"
  /\ t.width = Columns(f.config, q) /\ t.float = float
  /\ q \in Rotated => Len(t.order) = t.width /\ RightOrder(f, t)
SoundModule(f, m, float) == \A q \in Params : \E t : m[q] = {t} /\ RightTensor(f, q, t, float)

LEMMA SoundIsRight ==
  ASSUME NEW f, NEW m, NEW float, SoundModule(f, m, float)
  PROVE  RightFor(f, m) /\ \A q \in Params : \A t \in m[q] : t.float = float
<1>1. ASSUME NEW q \in Params
      PROVE  /\ \A t \in m[q] : t.float = float
             /\ \E t \in m[q] :
                  /\ t.of = IF q = "output" /\ q \notin f.params THEN "tok_embeddings" ELSE q
                  /\ t.layout = IF q \in Linears THEN "InOut" ELSE "AsIs"
                  /\ t.width = Columns(f.config, q)
                  /\ q \in Rotated => Len(t.order) = t.width /\ RightOrder(f, t)
  <2> PICK t : m[q] = {t} /\ RightTensor(f, q, t, float)
    BY DEF SoundModule
  <2> QED BY DEF RightTensor
<1> QED
  BY <1>1 DEF RightFor

(* What becomes of a tensor.                                               *)
Burned(f, q, float, order) ==
  [of |-> q, layout |-> IF q \in Linears THEN "InOut" ELSE "AsIs", width |-> Columns(f.config, q),
   float |-> float, order |-> order]

LEMMA BurnedIs ==
  ASSUME NEW f, NEW q
  PROVE  /\ PyTorchToBurn(Stored(f, q)) = Burned(f, q, f.float, Channels(f.config, q))
         /\ \A float : FloatCast(float, PyTorchToBurn(Stored(f, q))) =
                         Burned(f, q, float, Channels(f.config, q))
         /\ \A float, order, other : [Burned(f, q, float, order) EXCEPT !.order = other] =
                                       Burned(f, q, float, other)
         /\ \A float, order, other : FloatCast(float, Burned(f, q, other, order)) =
                                       Burned(f, q, float, order)
<1>1. PyTorchToBurn(Stored(f, q)) = Burned(f, q, f.float, Channels(f.config, q))
  <2>1. CASE q \in Linears
    BY <2>1 DEF PyTorchToBurn, Stored, Burned
  <2>2. CASE q \notin Linears
    BY <2>2 DEF PyTorchToBurn, Stored, Burned
  <2> QED BY <2>1, <2>2
<1>2. \A float, order, other : FloatCast(float, Burned(f, q, other, order)) =
                                 Burned(f, q, float, order)
  BY DEF FloatCast, Burned
<1>3. \A float, order, other : [Burned(f, q, float, order) EXCEPT !.order = other] =
                                 Burned(f, q, float, other)
  BY DEF Burned
<1> QED
  BY <1>1, <1>2, <1>3

(* The permutation of a module's queries and keys.                         *)
LEMMA UnpermutedIs ==
  ASSUME NEW c, NEW m, m = [q \in Params |-> m[q]]
  PROVE  /\ UnpermuteRotary(m, c)["wq"] =
              {[t EXCEPT !.order = PermuteHeads(t.order, c.heads)] : t \in m["wq"]}
         /\ UnpermuteRotary(m, c)["wk"] =
              {[t EXCEPT !.order = PermuteHeads(t.order, KvHeads(c))] : t \in m["wk"]}
         /\ \A q \in Params \ Rotated : UnpermuteRotary(m, c)[q] = m[q]
<1> DEFINE wq == {[t EXCEPT !.order = PermuteHeads(t.order, c.heads)] : t \in m["wq"]}
           wk == {[t EXCEPT !.order = PermuteHeads(t.order, KvHeads(c))] : t \in m["wk"]}
<1>1. UnpermuteRotary(m, c) = [m EXCEPT !["wq"] = wq, !["wk"] = wk]
  BY DEF UnpermuteRotary
<1> HIDE DEF wq, wk
<1>2. UnpermuteRotary(m, c)["wq"] = wq /\ UnpermuteRotary(m, c)["wk"] = wk
      /\ \A q \in Params \ Rotated : UnpermuteRotary(m, c)[q] = m[q]
  BY <1>1 DEF Params, Linears, Rotated
<1> QED
  BY <1>2 DEF wq, wk

(* Widths that agree leave no doubt about the heads.                       *)
LEMMA HeadsAgree ==
  ASSUME NEW c, NEW f, Shaped(f.config), Describes(c, f),
         Columns(f.config, "wq") = Columns(c, "wq"), Columns(f.config, "wk") = Columns(c, "wk")
  PROVE  c.heads = f.config.heads /\ KvHeads(c) = KvHeads(f.config)
<1>1. c.hidden = f.config.hidden /\ c.heads = f.config.heads
  BY DEF Columns, Describes
<1>2. HeadDim(c) = HeadDim(f.config)
  BY <1>1 DEF HeadDim
<1>3. KvHeads(c) \in Nat
  BY <1>1 DEF KvHeads, OrElse, Describes, Shaped
<1>4. HeadDim(c) * KvHeads(c) = HeadDim(c) * KvHeads(f.config)
  BY <1>2 DEF Columns
<1>5. \A d \in Nat \ {0}, m \in Nat, n \in Nat : d * m = d * n => m = n
  OBVIOUS
<1> QED
  BY <1>1, <1>2, <1>3, <1>4, <1>5, ShapeIs

(* The heads of a query or key.                                            *)
HeadsOf(c, q) == IF q = "wq" THEN c.heads ELSE KvHeads(c)

LEMMA ChannelsAre ==
  ASSUME NEW c, Shaped(c), NEW q \in Rotated
  PROVE  /\ HeadsOf(c, q) \in Nat \ {0} /\ Columns(c, q) = HeadsOf(c, q) * HeadDim(c)
         /\ Channels(c, q) = [i \in 1 .. Columns(c, q) |-> i]
<1>1. c.heads \in Nat \ {0}
  BY DEF Shaped
<1>2. q \in {"wq", "wk"}
  BY DEF Rotated
<1>3. Channels(c, q) = [i \in 1 .. Columns(c, q) |-> i]
  BY DEF Channels
<1> QED
  BY <1>1, <1>2, <1>3, ShapeIs DEF HeadsOf

(* A tensor of a checkpoint, permuted or not, and one of a record.         *)
LEMMA CheckpointRight ==
  ASSUME NEW f, Shaped(f.config), NEW q \in Params, NEW float, q \in f.params \/ q # "output",
         NEW order,
         order = IF f.style = "Hf" /\ q \in Rotated
                 THEN PermuteHeads(Channels(f.config, q), HeadsOf(f.config, q))
                 ELSE Channels(f.config, q)
  PROVE  RightTensor(f, q, Burned(f, q, float, order), float)
<1> DEFINE t == Burned(f, q, float, order)
<1>1. t.of = q /\ t.layout = (IF q \in Linears THEN "InOut" ELSE "AsIs")
      /\ t.width = Columns(f.config, q) /\ t.float = float /\ t.order = order
  BY DEF Burned
<1>2. ASSUME q \in Rotated PROVE Len(t.order) = t.width /\ RightOrder(f, t)
  <2> PICK n : n = HeadsOf(f.config, q)
    OBVIOUS
  <2> PICK last : last = Columns(f.config, q)
    OBVIOUS
  <2> PICK channels : channels = Channels(f.config, q)
    OBVIOUS
  <2>1. n \in Nat \ {0} /\ last = n * HeadDim(f.config) /\ channels = [i \in 1 .. last |-> i]
    BY <1>2, ChannelsAre
  <2>2. t.order = IF f.style = "Hf" THEN PermuteHeads(channels, n) ELSE channels
    BY <1>1, <1>2
  <2> HIDE DEF t
  <2>3. Len(t.order) = last /\ RightOrder(f, t)
    BY ONLY <2>1, <2>2, CheckpointOrder, Shaped(f.config)
  <2> QED BY <1>1, <2>3
<1> QED
  BY <1>1, <1>2 DEF RightTensor

LEMMA RecordRight ==
  ASSUME NEW f, Shaped(f.config), NEW q \in Params, q \in f.params
  PROVE  \E order : /\ Recorded(f, q) = Burned(f, q, f.float, order)
                    /\ \A float : RightTensor(f, q, Burned(f, q, float, order), float)
<1> DEFINE dim == HeadDim(f.config)
           pairs(s) == [i \in DOMAIN s |->
             Pair(f, (i - 1) \div dim, ((i - 1) % dim) \div 2)[((i - 1) % 2) + 1]]
           order == pairs(Channels(f.config, q))
<1>1. Recorded(f, q) = Burned(f, q, f.float, order)
  <2> PICK burned : burned = PyTorchToBurn(Stored(f, q))
    OBVIOUS
  <2>1. burned = Burned(f, q, f.float, Channels(f.config, q))
    BY BurnedIs
  <2>2. burned.order = Channels(f.config, q)
    BY <2>1 DEF Burned
  <2>3. Recorded(f, q) = [burned EXCEPT !.order = order]
    BY <2>2 DEF Recorded
  <2> HIDE DEF order
  <2>4. [Burned(f, q, f.float, Channels(f.config, q)) EXCEPT !.order = order] =
          Burned(f, q, f.float, order)
    BY BurnedIs
  <2> QED BY <2>1, <2>3, <2>4
<1>2. ASSUME NEW float PROVE RightTensor(f, q, Burned(f, q, float, order), float)
  <2> DEFINE t == Burned(f, q, float, order)
  <2>1. t.of = q /\ t.layout = (IF q \in Linears THEN "InOut" ELSE "AsIs")
        /\ t.width = Columns(f.config, q) /\ t.float = float /\ t.order = order
    <3> HIDE DEF order
    <3> QED BY DEF Burned
  <2>2. ASSUME q \in Rotated PROVE Len(t.order) = t.width /\ RightOrder(f, t)
    <3> PICK n : n = HeadsOf(f.config, q)
      OBVIOUS
    <3> PICK last : last = Columns(f.config, q)
      OBVIOUS
    <3>1. n \in Nat \ {0} /\ last = n * dim /\ Channels(f.config, q) = [i \in 1 .. last |-> i]
      BY <2>2, ChannelsAre
    <3>2. t.order = [i \in 1 .. last |->
                       Pair(f, (i - 1) \div dim, ((i - 1) % dim) \div 2)[((i - 1) % 2) + 1]]
      BY <2>1, <3>1
    <3> PICK d : d = dim
      OBVIOUS
    <3> HIDE DEF t, order, dim
    <3>3. Len(t.order) = last /\ RightOrder(f, t)
      BY <3>1, <3>2, RecordOrder DEF dim
    <3> QED BY <2>1, <3>3
  <2> HIDE DEF order
  <2> QED BY <2>1, <2>2 DEF RightTensor
<1> QED
  BY <1>1, <1>2

(* What the loaders make of a file whose config is right about what its    *)
(* widths do not show is right for it.                                     *)
LEMMA AppliedIs ==
  ASSUME NEW D, NEW tensors, tensors = [q \in D |-> tensors[q]], NEW q \in Params
  PROVE  /\ Apply(tensors)[q] = IF q \in D THEN {tensors[q]} ELSE {}
         /\ Apply(tensors) = [p \in Params |-> Apply(tensors)[p]]
<1>1. DOMAIN tensors = D
  OBVIOUS
<1> QED
  BY <1>1 DEF Apply

LEMMA TiedIs ==
  ASSUME NEW m, m = [q \in Params |-> m[q]]
  PROVE  /\ TieOutputToEmbedding(m) = [q \in Params |-> TieOutputToEmbedding(m)[q]]
         /\ \A q \in Params \ {"output"} : TieOutputToEmbedding(m)[q] = m[q]
         /\ TieOutputToEmbedding(m)["output"] =
              IF m["output"] # {} THEN m["output"]
              ELSE {[t EXCEPT !.layout = "InOut"] : t \in m["tok_embeddings"]}
<1>1. "output" \in Params
  BY DEF Params, Linears
<1>2. CASE m["output"] # {}
  BY <1>1, <1>2 DEF TieOutputToEmbedding
<1>3. CASE m["output"] = {}
  <2> DEFINE tied == {[t EXCEPT !.layout = "InOut"] : t \in m["tok_embeddings"]}
  <2>1. TieOutputToEmbedding(m) = [m EXCEPT !["output"] = tied]
    BY <1>3 DEF TieOutputToEmbedding
  <2> HIDE DEF tied
  <2>2. /\ TieOutputToEmbedding(m) = [q \in Params |-> TieOutputToEmbedding(m)[q]]
        /\ \A q \in Params \ {"output"} : TieOutputToEmbedding(m)[q] = m[q]
        /\ TieOutputToEmbedding(m)["output"] = tied
    BY <1>1, <2>1
  <2> QED BY <1>3, <2>2 DEF tied
<1> QED
  BY <1>2, <1>3

(* A style's rules map all the parameters of a file of that style only.    *)
LEMMA LandedStyle ==
  ASSUME NEW f, NEW rules \in {"Hf", "Meta"}, Params \ {"output"} \subseteq Landed(rules, f)
  PROVE  f.style = rules /\ Landed(rules, f) = f.params \cap Params
<1>1. "linear_inner" \in Params \ {"output"}
  BY DEF Params, Linears
<1>2. f.style = rules
  BY <1>1 DEF Landed
<1> QED
  BY <1>2 DEF Landed

LEMMA SafetensorsSound ==
  ASSUME NEW c, NEW f, Shaped(f.config), Describes(c, f), NEW float,
         NEW m \in LoadSafetensors(c, float, f)
  PROVE  SoundModule(f, m, float)
<1> DEFINE D == Landed("Hf", f)
           tensors == [q \in D |-> FloatCast(float, PyTorchToBurn(Stored(f, q)))]
           tied == TieOutputToEmbedding(Apply(tensors))
<1>1. /\ ~Errors(c, float, tensors) /\ Missing(tensors) \subseteq {"output"}
      /\ m = UnpermuteRotary(tied, c)
  BY DEF LoadSafetensors
<1>2. Params \ {"output"} \subseteq D
  BY <1>1 DEF Missing
<1>3. f.style = "Hf" /\ D = f.params \cap Params
  BY <1>2, LandedStyle
<1>4. \A q \in D : tensors[q] = Burned(f, q, float, Channels(f.config, q))
  BY BurnedIs
<1>5. tensors = [q \in D |-> tensors[q]]
  OBVIOUS
<1> HIDE DEF tensors, D
<1>6. \A q \in D : Columns(f.config, q) = Columns(c, q)
  <2>1. DOMAIN tensors = D
    BY <1>5
  <2> QED BY <1>1, <1>4, <2>1 DEF Errors, Burned
<1>7. HeadsOf(c, "wq") = HeadsOf(f.config, "wq") /\ HeadsOf(c, "wk") = HeadsOf(f.config, "wk")
  <2>1. "wq" \in D /\ "wk" \in D
    BY <1>2 DEF Params, Linears
  <2> QED BY <1>6, <2>1, HeadsAgree DEF HeadsOf
<1>8. \A q \in Params : Apply(tensors)[q] = IF q \in D THEN {tensors[q]} ELSE {}
  BY <1>5, AppliedIs
<1>9. Apply(tensors) = [q \in Params |-> Apply(tensors)[q]]
  BY DEF Apply
<1>10. /\ tied = [q \in Params |-> tied[q]]
       /\ \A q \in D : tied[q] = {tensors[q]}
       /\ "output" \notin D =>
            tied["output"] = {[tensors["tok_embeddings"] EXCEPT !.layout = "InOut"]}
  <2>1. D \subseteq Params /\ "tok_embeddings" \in D /\ "output" \in Params
    BY <1>2, <1>3 DEF Params, Linears
  <2> PICK a : a = Apply(tensors)
    OBVIOUS
  <2>2. a = [q \in Params |-> a[q]] /\ \A q \in Params : a[q] = IF q \in D THEN {tensors[q]} ELSE {}
    BY <1>8, <1>9
  <2>3. /\ tied = [q \in Params |-> tied[q]]
        /\ \A q \in Params \ {"output"} : tied[q] = a[q]
        /\ tied["output"] = IF a["output"] # {} THEN a["output"]
                            ELSE {[t EXCEPT !.layout = "InOut"] : t \in a["tok_embeddings"]}
    BY <2>2, TiedIs
  <2> HIDE DEF tied
  <2>4. \A q \in D : tied[q] = {tensors[q]}
    BY <2>1, <2>2, <2>3
  <2>5. a["tok_embeddings"] = {tensors["tok_embeddings"]}
    BY <2>1, <2>2 DEF Params
  <2>6. "output" \notin D => a["output"] = {}
    BY <2>1, <2>2
  <2> QED BY <2>3, <2>4, <2>5, <2>6
<1> HIDE DEF tied
<1>11. ASSUME NEW q \in Params PROVE \E t : m[q] = {t} /\ RightTensor(f, q, t, float)
  <2>1. CASE q \in Rotated
    <3>1. q \in D /\ q \in {"wq", "wk"}
      BY <1>2, <2>1 DEF Rotated
    <3> PICK order : order = PermuteHeads(Channels(f.config, q), HeadsOf(f.config, q))
      OBVIOUS
    <3>2. m[q] = {[t EXCEPT !.order = PermuteHeads(t.order, HeadsOf(c, q))] : t \in tied[q]}
      BY <1>1, <1>10, <3>1, UnpermutedIs DEF HeadsOf
    <3> PICK s : s = tensors[q]
      OBVIOUS
    <3>3. s.order = Channels(f.config, q) /\ s = Burned(f, q, float, Channels(f.config, q))
      BY <1>4, <3>1 DEF Burned
    <3>4. m[q] = {[s EXCEPT !.order = PermuteHeads(s.order, HeadsOf(c, q))]}
      BY <1>10, <3>1, <3>2
    <3>5. m[q] = {[s EXCEPT !.order = order]}
      BY <1>7, <3>1, <3>3, <3>4
    <3>6. [s EXCEPT !.order = order] = Burned(f, q, float, order)
      BY <3>3, BurnedIs
    <3>7. RightTensor(f, q, Burned(f, q, float, order), float)
      BY <1>3, <2>1, <3>1, CheckpointRight
    <3> QED BY <3>5, <3>6, <3>7
  <2>2. CASE q \notin Rotated /\ q \in D
    <3>1. m[q] = {Burned(f, q, float, Channels(f.config, q))}
      BY <1>1, <1>4, <1>10, <2>2, UnpermutedIs
    <3>2. RightTensor(f, q, Burned(f, q, float, Channels(f.config, q)), float)
      BY <1>3, <2>2, CheckpointRight
    <3> QED BY <3>1, <3>2
  <2>3. CASE q \notin D
    <3>1. q = "output" /\ q \notin Rotated /\ q \in Linears /\ q \notin f.params
      BY <1>2, <1>3, <2>3 DEF Rotated, Params, Linears
    <3> PICK s : s = tensors["tok_embeddings"]
      OBVIOUS
    <3>2. m[q] = {[s EXCEPT !.layout = "InOut"]}
      BY <1>1, <1>10, <2>3, <3>1, UnpermutedIs
    <3>3. s = Burned(f, "tok_embeddings", float, Channels(f.config, "tok_embeddings"))
      <4>1. "tok_embeddings" \in D
        BY <1>2 DEF Params, Linears
      <4> QED BY <1>4, <4>1
    <3>4. Columns(f.config, "tok_embeddings") = Columns(f.config, "output")
      BY DEF Columns
    <3>5. RightTensor(f, q, [s EXCEPT !.layout = "InOut"], float)
      BY <3>1, <3>3, <3>4 DEF RightTensor, Burned
    <3> QED BY <3>2, <3>5
  <2> QED BY <2>1, <2>2, <2>3
<1> QED
  BY <1>11 DEF SoundModule

LEMMA PretrainedSound ==
  ASSUME NEW c, NEW f, Shaped(f.config), Describes(c, f), NEW float, NEW rules \in {"Hf", "Meta"},
         NEW m \in LoadPretrained(c, float, f, rules)
  PROVE  SoundModule(f, m, float)
<1> DEFINE D == Landed(rules, f)
           tensors == [q \in D |-> PyTorchToBurn(Stored(f, q))]
<1>1. /\ ~Errors(c, float, tensors) /\ Missing(tensors) = {}
      /\ m = IF rules = "Hf" THEN UnpermuteRotary(Apply(tensors), c) ELSE Apply(tensors)
  BY DEF LoadPretrained
<1>2. Params \subseteq D
  BY <1>1 DEF Missing
<1>3. f.style = rules /\ D = f.params \cap Params
  BY <1>2, LandedStyle
<1>4. \A q \in D : tensors[q] = Burned(f, q, f.float, Channels(f.config, q))
  BY BurnedIs
<1>5. tensors = [q \in D |-> tensors[q]]
  OBVIOUS
<1> HIDE DEF tensors, D
<1>6. \A q \in D : Columns(f.config, q) = Columns(c, q) /\ f.float = float
  <2>1. DOMAIN tensors = D
    BY <1>5
  <2> QED BY <1>1, <1>4, <2>1 DEF Errors, Burned
<1>7. HeadsOf(c, "wq") = HeadsOf(f.config, "wq") /\ HeadsOf(c, "wk") = HeadsOf(f.config, "wk")
      /\ f.float = float
  <2>1. "wq" \in D /\ "wk" \in D
    BY <1>2 DEF Params, Linears
  <2> QED BY <1>6, <2>1, HeadsAgree DEF HeadsOf
<1> PICK a : a = Apply(tensors)
  OBVIOUS
<1>8. \A q \in Params : a[q] = {tensors[q]}
  BY <1>2, <1>5, AppliedIs
<1>9. a = [q \in Params |-> a[q]]
  BY DEF Apply
<1>10. ASSUME NEW q \in Params PROVE \E t : m[q] = {t} /\ RightTensor(f, q, t, float)
  <2>0. q \in D /\ q \in f.params
    BY <1>2, <1>3
  <2>1. CASE q \in Rotated /\ rules = "Hf"
    <3>1. q \in {"wq", "wk"}
      BY <2>1 DEF Rotated
    <3> PICK order : order = PermuteHeads(Channels(f.config, q), HeadsOf(f.config, q))
      OBVIOUS
    <3>2. m[q] = {[t EXCEPT !.order = PermuteHeads(t.order, HeadsOf(c, q))] : t \in a[q]}
      BY <1>1, <1>9, <2>1, <3>1, UnpermutedIs DEF HeadsOf
    <3> PICK s : s = tensors[q]
      OBVIOUS
    <3>3. s.order = Channels(f.config, q) /\ s = Burned(f, q, float, Channels(f.config, q))
      BY <1>4, <1>7, <2>0 DEF Burned
    <3>4. m[q] = {[s EXCEPT !.order = PermuteHeads(s.order, HeadsOf(c, q))]}
      BY <1>8, <3>2
    <3>5. m[q] = {[s EXCEPT !.order = order]}
      BY <1>7, <3>1, <3>3, <3>4
    <3>6. [s EXCEPT !.order = order] = Burned(f, q, float, order)
      BY <3>3, BurnedIs
    <3>7. RightTensor(f, q, Burned(f, q, float, order), float)
      BY <1>3, <2>0, <2>1, CheckpointRight
    <3> QED BY <3>5, <3>6, <3>7
  <2>2. CASE ~(q \in Rotated /\ rules = "Hf")
    <3>1. m[q] = {Burned(f, q, float, Channels(f.config, q))}
      <4>1. m[q] = a[q]
        <5>1. CASE rules = "Hf"
          BY <1>1, <1>9, <2>2, <5>1, UnpermutedIs
        <5>2. CASE rules # "Hf"
          BY <1>1, <5>2
        <5> QED BY <5>1, <5>2
      <4> QED BY <1>4, <1>7, <1>8, <2>0, <4>1
    <3>2. RightTensor(f, q, Burned(f, q, float, Channels(f.config, q)), float)
      BY <1>3, <2>0, <2>2, CheckpointRight
    <3> QED BY <3>1, <3>2
  <2> QED BY <2>1, <2>2
<1> QED
  BY <1>10 DEF SoundModule

LEMMA LegacySound ==
  ASSUME NEW c, NEW f, Shaped(f.config), NEW float, NEW m \in LoadLegacy(c, float, f)
  PROVE  SoundModule(f, m, float)
<1> DEFINE found == WalkDocument(float, f)
           tensors == [q \in Params |-> CHOOSE t \in found[q] : TRUE]
<1>1. {} \notin {found[q] : q \in DOMAIN found} /\ DOMAIN found = Params /\ m = Apply(tensors)
  BY DEF LoadLegacy
<1>2. found = [q \in f.params |-> Leaf(float, f, q)]
  BY DEF WalkDocument
<1>3. tensors = [q \in Params |-> tensors[q]] /\ \A q \in Params : tensors[q] = CHOOSE t \in found[q] : TRUE
  OBVIOUS
<1> HIDE DEF found, tensors
<1>4. f.params = Params
  BY <1>1, <1>2
<1>5. ASSUME NEW q \in Params PROVE \E t : m[q] = {t} /\ RightTensor(f, q, t, float)
  <2>1. found[q] = Leaf(float, f, q) /\ found[q] # {}
    BY <1>1, <1>2, <1>4
  <2>2. found[q] = {FloatCast(float, Recorded(f, q))}
    BY <2>1 DEF Leaf
  <2>3. m[q] = {tensors[q]}
    BY <1>1, <1>3, AppliedIs
  <2>4. tensors[q] = FloatCast(float, Recorded(f, q))
    BY <1>3, <2>2
  <2>5. PICK order : /\ Recorded(f, q) = Burned(f, q, f.float, order)
                     /\ RightTensor(f, q, Burned(f, q, float, order), float)
    BY <1>4, RecordRight
  <2>6. tensors[q] = Burned(f, q, float, order)
    BY <2>4, <2>5, BurnedIs
  <2> QED BY <2>3, <2>5, <2>6
<1> QED
  BY <1>5 DEF SoundModule

LEMMA RecordSound ==
  ASSUME NEW c, NEW f, Shaped(f.config), NEW m \in LoadRecord(c, f)
  PROVE  SoundModule(f, m, f.float)
<1> DEFINE tensors == [q \in f.params |-> Recorded(f, q)]
<1>1. Missing(tensors) = {} /\ m = Apply(tensors)
  BY DEF LoadRecord
<1>2. Params \subseteq f.params
  BY <1>1 DEF Missing
<1>3. tensors = [q \in f.params |-> tensors[q]] /\ \A q \in f.params : tensors[q] = Recorded(f, q)
  OBVIOUS
<1> HIDE DEF tensors
<1>4. ASSUME NEW q \in Params PROVE \E t : m[q] = {t} /\ RightTensor(f, q, t, f.float)
  <2>1. q \in f.params /\ m[q] = {tensors[q]}
    BY <1>1, <1>2, <1>3, AppliedIs
  <2>2. \E order : Recorded(f, q) = Burned(f, q, f.float, order)
                   /\ RightTensor(f, q, Burned(f, q, f.float, order), f.float)
    BY <1>2, RecordRight
  <2> QED BY <1>3, <2>1, <2>2
<1> QED
  BY <1>4 DEF SoundModule

LEMMA FileSound ==
  ASSUME NEW f \in WeightFiles, NEW float \in Floats, NEW made \in LoadedFrom(f.preset, float, f),
         NEW m \in made
  PROVE  \E g \in Floats : SoundModule(f, m, g)
<1>1. Shaped(f.config) /\ Describes(f.preset, f) /\ f.format \in {"pth", "mpk", "bpk"}
      /\ (f.format = "bpk" => f.float \in Floats)
  BY WeightAssumption
<1>2. CASE f.format = "pth"
  <2>1. LoadedFrom(f.preset, float, f) =
          {LoadPretrained(f.preset, float, f, rules) : rules \in {"Hf", "Meta"}}
    BY <1>2 DEF LoadedFrom
  <2>2. PICK rules \in {"Hf", "Meta"} : made = LoadPretrained(f.preset, float, f, rules)
    BY <2>1
  <2> QED BY <1>1, <2>2, PretrainedSound
<1>3. CASE f.format = "mpk"
  <2>1. LoadedFrom(f.preset, float, f) = {LoadLegacy(f.preset, float, f)}
    BY <1>3 DEF LoadedFrom
  <2> QED BY <1>1, <2>1, LegacySound
<1>4. CASE f.format = "bpk"
  <2>1. LoadedFrom(f.preset, float, f) =
          {LoadRecord(f.preset, f)} \cup (IF f.float = float THEN {} ELSE {{}})
    BY <1>4 DEF LoadedFrom
  <2>2. made = LoadRecord(f.preset, f)
    BY <2>1
  <2> QED BY <1>1, <1>4, <2>2, RecordSound
<1> QED
  BY <1>1, <1>2, <1>3, <1>4

-------------------------------------------------------------------------------
(* The loads of a repository and of other files.                           *)

LoaderFields(l) ==
  l = [at |-> l.at, window |-> l.window, float |-> l.float, from |-> l.from,
       scaling |-> l.scaling, module |-> l.module]

(* A module is right for a file, and of one element type.                  *)
GoodModule(f, m) ==
  RightFor(f, m) /\ \E float \in Floats : \A q \in Params : \A t \in m[q] : t.float = float

(* A load of the repository after its config was judged.                   *)
Judged(l) ==
  /\ l.from = {repository.weights} /\ l.scaling = RopeFrequencyScaling_(repository.config)
  /\ l.scaling # {} /\ \A limit \in repository.config.maxPosition : l.window <= limit

(* A load that returned, of the repository or of another file.             *)
Returned(l) ==
  \/ Judged(l) /\ GoodModule(repository.weights, l.module)
  \/ \E f \in WeightFiles : /\ l.from = {f} /\ l.scaling = RopeFrequencyScaling_(f.preset)
                            /\ GoodModule(f, l.module)

LoadsRight(l) ==
  /\ LoaderFields(l) /\ (l.at \notin {"Idle", "Failed"} => l.float \in Floats)
  /\ l.at \in {"Choose", "Weights", "Save", "Rename"} => Judged(l)
  /\ l.at \in {"Save", "Rename"} => GoodModule(repository.weights, l.module)
  /\ l.at = "Loaded" => Returned(l)

(* The copy, whoever wrote it, is right too.                               *)
WeightsInv ==
  /\ repository \in Repositories
  /\ loader = [p \in Loaders |-> loader[p]] /\ temp = [p \in Loaders |-> temp[p]]
  /\ \A record \in copy : GoodModule(repository.weights, record.module)
  /\ \A p \in Loaders : /\ \A record \in temp[p] : GoodModule(repository.weights, record.module)
                        /\ LoadsRight(loader[p])

(* What is judged by the repository stays so.                              *)
LEMMA LoadsKept ==
  ASSUME repository' = repository, NEW l, LoadsRight(l)
  PROVE  LoadsRight(l)'
BY DEF LoadsRight, Returned, Judged, LoaderFields, GoodModule, RightFor

LEMMA GoodKept ==
  ASSUME repository' = repository, NEW m
  PROVE  GoodModule(repository.weights, m)' <=> GoodModule(repository.weights, m)
BY DEF GoodModule, RightFor

(* A step of one process.                                                  *)
LEMMA LoaderSteps ==
  ASSUME WeightsInv, NEW p \in Loaders, NEW l, LoadsRight(l),
         loader' = [loader EXCEPT ![p] = l], repository' = repository,
         copy' = copy \/ copy' = temp[p],
         temp' = temp \/ \E r : /\ temp' = [temp EXCEPT ![p] = r]
                                /\ \A record \in r : GoodModule(repository.weights, record.module)
  PROVE  WeightsInv'
<1>1. loader' = [q \in Loaders |-> loader'[q]] /\ loader'[p] = l
      /\ \A q \in Loaders \ {p} : loader'[q] = loader[q]
  BY DEF WeightsInv
<1>2. \A q \in Loaders : LoadsRight(loader'[q])
  BY <1>1 DEF WeightsInv
<1>3. \A q \in Loaders : LoadsRight(loader[q])'
  <2> TAKE q \in Loaders
  <2> PICK k : k = loader'[q]
    OBVIOUS
  <2>1. LoadsRight(k)'
    BY <1>2, LoadsKept
  <2> QED BY <2>1 DEF LoadsRight, Returned, Judged, LoaderFields
<1>4. \A record \in copy' : GoodModule(repository.weights, record.module)
  BY DEF WeightsInv
<1>5. temp' = [q \in Loaders |-> temp'[q]]
      /\ \A q \in Loaders : \A record \in temp'[q] : GoodModule(repository.weights, record.module)
  <2>1. CASE temp' = temp
    BY <2>1 DEF WeightsInv
  <2>2. CASE temp' # temp
    <3> PICK r : /\ temp' = [temp EXCEPT ![p] = r]
                 /\ \A record \in r : GoodModule(repository.weights, record.module)
      BY <2>2
    <3>1. temp = [q \in Loaders |-> temp[q]]
      BY DEF WeightsInv
    <3>2. temp' = [q \in Loaders |-> temp'[q]] /\ temp'[p] = r
          /\ \A q \in Loaders \ {p} : temp'[q] = temp[q]
      BY <3>1
    <3> QED BY <3>2 DEF WeightsInv
  <2> QED BY <2>1, <2>2
<1> QED
  BY <1>1, <1>3, <1>4, <1>5, GoodKept DEF WeightsInv

LEMMA AtRestRight ==
  LoaderFields(AtRest_) /\ AtRest_.at = "Idle" /\ LoadsRight(AtRest_)
  /\ LoadsRight([AtRest_ EXCEPT !.at = "Failed"])
BY DEF AtRest_, LoaderFields, LoadsRight

LEMMA FailsKept ==
  ASSUME WeightsInv, NEW p \in Loaders, LoadFails(p), repository' = repository, copy' = copy,
         temp' = temp
  PROVE  WeightsInv'
BY LoaderSteps, AtRestRight DEF LoadFails

LEMMA GoesKept ==
  ASSUME WeightsInv, NEW p \in Loaders, NEW where, LoaderGoes(p, where),
         loader[p].at \notin {"Idle", "Failed"}, repository' = repository, copy' = copy,
         temp' = temp \/ \E r : /\ temp' = [temp EXCEPT ![p] = r]
                                /\ \A record \in r : GoodModule(repository.weights, record.module),
         where \in {"Choose", "Weights", "Save", "Rename"} => Judged(loader[p]),
         where \in {"Save", "Rename"} => GoodModule(repository.weights, loader[p].module),
         where # "Loaded"
  PROVE  WeightsInv'
<1> PICK l : l = loader[p]
  OBVIOUS
<1> PICK k : k = [l EXCEPT !.at = where]
  OBVIOUS
<1>1. loader' = [loader EXCEPT ![p] = k]
  BY DEF LoaderGoes
<1>2. LoadsRight(l)
  BY DEF WeightsInv
<1>3. /\ k.at = where /\ k.window = l.window /\ k.float = l.float /\ k.from = l.from
      /\ k.scaling = l.scaling /\ k.module = l.module /\ LoaderFields(k)
  BY <1>2 DEF LoadsRight, LoaderFields
<1>4. LoadsRight(k)
  BY <1>2, <1>3 DEF LoadsRight, Judged
<1> QED
  BY <1>1, <1>4, LoaderSteps

LEMMA ReturnsKept ==
  ASSUME WeightsInv, NEW p \in Loaders, NEW m, LoadReturns(p, m), loader[p].at \notin {"Idle", "Failed"},
         repository' = repository, copy' = copy \/ copy' = temp[p],
         temp' = temp \/ temp' = [temp EXCEPT ![p] = {}],
         Judged(loader[p]), GoodModule(repository.weights, m)
  PROVE  WeightsInv'
<1> PICK l : l = loader[p]
  OBVIOUS
<1> PICK k : k = [l EXCEPT !.at = "Loaded", !.module = m]
  OBVIOUS
<1>1. LoadsRight(l) /\ loader = [q \in Loaders |-> loader[q]]
  BY DEF WeightsInv
<1>2. loader' = [loader EXCEPT ![p] = k]
  BY <1>1 DEF LoadReturns
<1>3. /\ k.at = "Loaded" /\ k.window = l.window /\ k.float = l.float /\ k.from = l.from
      /\ k.scaling = l.scaling /\ k.module = m /\ LoaderFields(k)
  BY <1>1 DEF LoadsRight, LoaderFields
<1>4. LoadsRight(k)
  BY <1>1, <1>3 DEF LoadsRight, Judged, Returned
<1> QED
  BY <1>2, <1>4, LoaderSteps

LEMMA WeightsFirst == WeightsInit => WeightsInv
<1> SUFFICES ASSUME WeightsInit PROVE WeightsInv
  OBVIOUS
<1>1. ASSUME NEW p \in Loaders PROVE loader[p] = AtRest_ /\ temp[p] = {}
  BY DEF WeightsInit
<1> QED
  BY <1>1, AtRestRight DEF WeightsInit, WeightsInv

LEMMA BeginKept ==
  ASSUME WeightsInv, NEW p \in Loaders, BeginLoad(p) PROVE WeightsInv'
<1>1. PICK window \in Windows, float \in Floats, where \in {"Config", "File"} :
        loader' = [loader EXCEPT ![p] =
          [AtRest_ EXCEPT !.at = where, !.window = window, !.float = float]]
  BY DEF BeginLoad
<1> PICK k : k = [AtRest_ EXCEPT !.at = where, !.window = window, !.float = float]
  OBVIOUS
<1>2. k.at = where /\ k.float = float /\ LoaderFields(k)
  BY DEF AtRest_, LoaderFields
<1>3. LoadsRight(k)
  BY <1>2 DEF LoadsRight
<1> QED
  BY <1>1, <1>3, LoaderSteps DEF BeginLoad

LEMMA InitModuleKept ==
  ASSUME WeightsInv, NEW p \in Loaders, InitModule(p) PROVE WeightsInv'
<1> DEFINE c == repository.config
           fits == /\ ToLlamaConfig(c) /\ HfTokenizer(repository.tokens)
                   /\ \A limit \in c.maxPosition : loader[p].window <= limit
<1>0. /\ LoaderAt(p, "Tokenizer") /\ repository' = repository /\ copy' = copy /\ temp' = temp
      /\ IF fits
         THEN loader' = [loader EXCEPT ![p].at = "Choose", ![p].scaling = RopeFrequencyScaling_(c),
                                       ![p].from = {repository.weights}]
         ELSE LoadFails(p)
  BY DEF InitModule
<1>1. CASE ~fits
  BY <1>0, <1>1, FailsKept
<1>2. CASE fits
  <2> PICK l : l = loader[p]
    OBVIOUS
  <2> PICK k : k = [l EXCEPT !.at = "Choose", !.scaling = RopeFrequencyScaling_(c),
                             !.from = {repository.weights}]
    OBVIOUS
  <2>1. LoadsRight(l) /\ loader = [q \in Loaders |-> loader[q]]
    BY DEF WeightsInv
  <2>2. loader' = [loader EXCEPT ![p] = k]
    BY <1>0, <1>2, <2>1
  <2>3. /\ k.at = "Choose" /\ k.window = l.window /\ k.float = l.float
        /\ k.from = {repository.weights} /\ k.scaling = RopeFrequencyScaling_(c) /\ LoaderFields(k)
    BY <2>1 DEF LoadsRight, LoaderFields
  <2>4. k.scaling # {} /\ \A limit \in c.maxPosition : k.window <= limit
    BY <1>2, <2>3 DEF ToLlamaConfig
  <2>5. l.float \in Floats
    BY <1>0, <2>1 DEF LoadsRight, LoaderAt
  <2>6. LoadsRight(k)
    BY <2>3, <2>4, <2>5 DEF LoadsRight, Judged
  <2> QED
    BY <1>0, <2>2, <2>6, LoaderSteps
<1> QED
  BY <1>1, <1>2

LEMMA LoadWeightsKept ==
  ASSUME WeightsInv, NEW p \in Loaders, LoadWeights(p) PROVE WeightsInv'
<1> DEFINE made == LoadSafetensors(repository.config, loader[p].float, repository.weights)
<1>0. /\ LoaderAt(p, "Weights") /\ repository' = repository /\ copy' = copy /\ temp' = temp
      /\ IF made = {} THEN LoadFails(p)
         ELSE \E m \in made : loader' = [loader EXCEPT ![p].at = "Save", ![p].module = m]
  BY DEF LoadWeights
<1>1. CASE made = {}
  BY <1>0, <1>1, FailsKept
<1>2. CASE made # {}
  <2> PICK l : l = loader[p]
    OBVIOUS
  <2> PICK m \in made : loader' = [loader EXCEPT ![p].at = "Save", ![p].module = m]
    BY <1>0, <1>2
  <2> PICK k : k = [l EXCEPT !.at = "Save", !.module = m]
    OBVIOUS
  <2>1. LoadsRight(l) /\ loader = [q \in Loaders |-> loader[q]]
    BY DEF WeightsInv
  <2>2. loader' = [loader EXCEPT ![p] = k]
    BY <2>1
  <2>3. /\ k.at = "Save" /\ k.window = l.window /\ k.float = l.float /\ k.from = l.from
        /\ k.scaling = l.scaling /\ k.module = m /\ LoaderFields(k)
    BY <2>1 DEF LoadsRight, LoaderFields
  <2>4. l.float \in Floats /\ Judged(l)
    BY <1>0, <2>1 DEF LoadsRight, LoaderAt
  <2>5. GoodModule(repository.weights, m)
    <3>1. Shaped(repository.weights.config) /\ Describes(repository.config, repository.weights)
      BY WeightAssumption DEF WeightsInv
    <3>2. m \in LoadSafetensors(repository.config, l.float, repository.weights)
      OBVIOUS
    <3> HIDE DEF made
    <3>3. SoundModule(repository.weights, m, l.float)
      BY <3>1, <3>2, SafetensorsSound
    <3> QED BY <2>4, <3>3, SoundIsRight DEF GoodModule
  <2>6. LoadsRight(k)
    BY <2>3, <2>4, <2>5 DEF LoadsRight, Judged
  <2> QED
    BY <1>0, <2>2, <2>6, LoaderSteps
<1> QED
  BY <1>1, <1>2

LEMMA LoadFileKept ==
  ASSUME WeightsInv, NEW p \in Loaders, LoadFile(p) PROVE WeightsInv'
<1>0. LoaderAt(p, "File") /\ repository' = repository /\ copy' = copy /\ temp' = temp
  BY DEF LoadFile
<1>1. PICK f \in WeightFiles : \E made \in LoadedFrom(f.preset, loader[p].float, f) :
        \/ made = {} /\ LoadFails(p)
        \/ \E m \in made : loader' = [loader EXCEPT
             ![p].at = "Loaded", ![p].module = m, ![p].from = {f},
             ![p].scaling = RopeFrequencyScaling_(f.preset)]
  BY DEF LoadFile
<1>2. PICK made \in LoadedFrom(f.preset, loader[p].float, f) :
        \/ made = {} /\ LoadFails(p)
        \/ \E m \in made : loader' = [loader EXCEPT
             ![p].at = "Loaded", ![p].module = m, ![p].from = {f},
             ![p].scaling = RopeFrequencyScaling_(f.preset)]
  BY <1>1
<1>3. CASE LoadFails(p)
  BY <1>0, <1>3, FailsKept
<1>4. CASE ~LoadFails(p)
  <2> PICK m \in made : loader' = [loader EXCEPT
        ![p].at = "Loaded", ![p].module = m, ![p].from = {f},
        ![p].scaling = RopeFrequencyScaling_(f.preset)]
    BY <1>2, <1>4
  <2> PICK l : l = loader[p]
    OBVIOUS
  <2> PICK k : k = [l EXCEPT !.at = "Loaded", !.module = m, !.from = {f},
                             !.scaling = RopeFrequencyScaling_(f.preset)]
    OBVIOUS
  <2>1. LoadsRight(l) /\ loader = [q \in Loaders |-> loader[q]]
    BY DEF WeightsInv
  <2>2. loader' = [loader EXCEPT ![p] = k]
    BY <2>1
  <2>3. /\ k.at = "Loaded" /\ k.window = l.window /\ k.float = l.float /\ k.from = {f}
        /\ k.scaling = RopeFrequencyScaling_(f.preset) /\ k.module = m /\ LoaderFields(k)
    BY <2>1 DEF LoadsRight, LoaderFields
  <2>4. l.float \in Floats
    BY <1>0, <2>1 DEF LoadsRight, LoaderAt
  <2>5. GoodModule(f, m)
    <3>1. PICK g \in Floats : SoundModule(f, m, g)
      BY <2>4, FileSound
    <3> QED BY <3>1, SoundIsRight DEF GoodModule
  <2>6. LoadsRight(k)
    BY <2>3, <2>4, <2>5 DEF LoadsRight, Returned
  <2> QED
    BY <1>0, <2>2, <2>6, LoaderSteps
<1> QED
  BY <1>3, <1>4

LEMMA WeightsStep == WeightsInv /\ [WeightsNext]_weightVars => WeightsInv'
<1> SUFFICES ASSUME WeightsInv, [WeightsNext]_weightVars PROVE WeightsInv'
  OBVIOUS
<1>1. CASE UNCHANGED weightVars
  BY <1>1, LoadsKept DEF weightVars, WeightsInv, GoodModule, RightFor, LoadsRight, Returned, Judged,
                        LoaderFields
<1>2. ASSUME NEW p \in Loaders, LoaderAt(p, "Choose") \/ LoaderAt(p, "Save") \/ LoaderAt(p, "Rename")
      PROVE  Judged(loader[p]) /\ loader[p].at \notin {"Idle", "Failed"}
  BY <1>2 DEF WeightsInv, LoadsRight, LoaderAt
<1>3. ASSUME NEW p \in Loaders, FetchFails(p) PROVE WeightsInv'
  BY <1>3, FailsKept DEF FetchFails
<1>4. ASSUME NEW p \in Loaders, ReadConfig(p) PROVE WeightsInv'
  <2>1. LoaderGoes(p, "Shards") /\ loader[p].at \notin {"Idle", "Failed"}
        /\ repository' = repository /\ copy' = copy /\ temp' = temp
    BY <1>4 DEF ReadConfig, LoaderAt
  <2> QED BY <2>1, GoesKept
<1>5. ASSUME NEW p \in Loaders, EnsureNotSharded(p) PROVE WeightsInv'
  <2>1. loader[p].at \notin {"Idle", "Failed"} /\ repository' = repository /\ copy' = copy
        /\ temp' = temp /\ (LoadFails(p) \/ LoaderGoes(p, "Tokenizer"))
    BY <1>5 DEF EnsureNotSharded, LoaderAt
  <2> QED BY <2>1, GoesKept, FailsKept
<1>6. ASSUME NEW p \in Loaders, LoadCopy(p) PROVE WeightsInv'
  <2>1. /\ LoaderAt(p, "Choose") /\ repository' = repository /\ copy' = copy /\ temp' = temp
        /\ Judged(loader[p]) /\ loader[p].at \notin {"Idle", "Failed"}
    BY <1>2, <1>6 DEF LoadCopy
  <2>2. CASE copy = {}
    BY <1>6, <2>1, <2>2, GoesKept DEF LoadCopy
  <2>3. CASE copy # {}
    <3> PICK record \in copy : LoadReturns(p, record.module) \/ LoadFails(p)
      BY <1>6, <2>3 DEF LoadCopy
    <3>1. GoodModule(repository.weights, record.module)
      BY DEF WeightsInv
    <3> QED BY <2>1, <3>1, ReturnsKept, FailsKept
  <2> QED BY <2>2, <2>3
<1>7. ASSUME NEW p \in Loaders, SaveCopy(p) PROVE WeightsInv'
  <2>1. /\ Judged(loader[p]) /\ loader[p].at \notin {"Idle", "Failed"}
        /\ GoodModule(repository.weights, loader[p].module)
        /\ repository' = repository /\ copy' = copy
    BY <1>2, <1>7 DEF SaveCopy, WeightsInv, LoadsRight, LoaderAt
  <2>2. CASE temp' = [temp EXCEPT ![p] = {}] /\ LoadReturns(p, loader[p].module)
    BY <2>1, <2>2, ReturnsKept
  <2>3. CASE /\ temp' = [temp EXCEPT ![p] =
                  {[module |-> loader[p].module, float |-> loader[p].float]}]
             /\ LoaderGoes(p, "Rename")
    <3> PICK r : r = {[module |-> loader[p].module, float |-> loader[p].float]}
      OBVIOUS
    <3>1. temp' = [temp EXCEPT ![p] = r]
          /\ \A record \in r : GoodModule(repository.weights, record.module)
      BY <2>1, <2>3
    <3> QED BY <2>1, <2>3, <3>1, GoesKept
  <2> QED BY <1>7, <2>2, <2>3 DEF SaveCopy
<1>8. ASSUME NEW p \in Loaders, RenameCopy(p) PROVE WeightsInv'
  <2>1. /\ Judged(loader[p]) /\ loader[p].at \notin {"Idle", "Failed"}
        /\ GoodModule(repository.weights, loader[p].module)
        /\ repository' = repository /\ copy' = temp[p] /\ temp' = [temp EXCEPT ![p] = {}]
        /\ LoadReturns(p, loader[p].module)
    BY <1>2, <1>8 DEF RenameCopy, WeightsInv, LoadsRight, LoaderAt
  <2> QED BY <2>1, ReturnsKept
<1>9. ASSUME NEW p \in Loaders, LoaderDies(p) PROVE WeightsInv'
  BY <1>9, LoaderSteps, AtRestRight DEF LoaderDies
<1> QED
  BY <1>1, <1>3, <1>4, <1>5, <1>6, <1>7, <1>8, <1>9, BeginKept, InitModuleKept, LoadWeightsKept,
     LoadFileKept DEF WeightsNext

(* Whatever a repository ships, whatever else is loaded, and wherever a    *)
(* process dies: a load that returns has the file's weights, every one of  *)
(* them, multiplied and rotated as the file means them, at one element     *)
(* type (load_hf, load_pretrained, load_legacy_mpk, write_burnpack).       *)
THEOREM WeightsAlwaysRight == WeightsSpec => []WeightsRight
<1>1. WeightsInv => WeightsRight
  <2> SUFFICES ASSUME WeightsInv, NEW p \in Loaders, LoaderAt(p, "Loaded")
               PROVE  /\ \A f \in loader[p].from :
                           /\ RightFor(f, loader[p].module)
                           /\ f.config.ropeScaling = "llama3" <=> loader[p].scaling = {"Llama3"}
                           /\ f.config.ropeScaling \notin {"Bare", "yarn"}
                           /\ \A limit \in f.config.maxPosition :
                                f = repository.weights => loader[p].window <= limit
                      /\ \E float \in Floats : \A q \in Params : \A t \in loader[p].module[q] :
                           t.float = float
    BY DEF WeightsRight
  <2>1. Returned(loader[p])
    BY DEF WeightsInv, LoadsRight, LoaderAt
  <2>2. \A c : RopeFrequencyScaling_(c) # {} =>
          /\ c.ropeScaling = "llama3" <=> RopeFrequencyScaling_(c) = {"Llama3"}
          /\ c.ropeScaling \notin {"Bare", "yarn"}
    BY DEF RopeFrequencyScaling_
  <2>3. repository \in Repositories
    BY DEF WeightsInv
  <2>4. CASE Judged(loader[p]) /\ GoodModule(repository.weights, loader[p].module)
    <3>1. repository.config.ropeScaling = repository.weights.config.ropeScaling
          /\ repository.weights.config.maxPosition = repository.config.maxPosition
      BY <2>3, WeightAssumption DEF Describes
    <3> QED BY <2>2, <2>4, <3>1 DEF Judged, GoodModule
  <2>5. ASSUME NEW f \in WeightFiles, loader[p].from = {f},
               loader[p].scaling = RopeFrequencyScaling_(f.preset), GoodModule(f, loader[p].module)
        PROVE  /\ \A g \in loader[p].from :
                    /\ RightFor(g, loader[p].module)
                    /\ g.config.ropeScaling = "llama3" <=> loader[p].scaling = {"Llama3"}
                    /\ g.config.ropeScaling \notin {"Bare", "yarn"}
                    /\ \A limit \in g.config.maxPosition :
                         g = repository.weights => loader[p].window <= limit
               /\ \E float \in Floats : \A q \in Params : \A t \in loader[p].module[q] :
                    t.float = float
    <3>1. f # repository.weights
      BY <2>3, WeightAssumption
    <3>2. f.preset.ropeScaling = f.config.ropeScaling /\ RopeFrequencyScaling_(f.preset) # {}
      BY WeightAssumption DEF Describes
    <3> QED BY <2>2, <2>5, <3>1, <3>2 DEF GoodModule
  <2> QED BY <2>1, <2>4, <2>5 DEF Returned
<1>2. WeightsInv /\ [WeightsNext]_weightVars => WeightsInv'
  BY WeightsStep
<1> QED
  BY <1>1, <1>2, WeightsFirst, PTL DEF WeightsSpec
===============================================================================
