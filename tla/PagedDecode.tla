------------------------------ MODULE PagedDecode ------------------------------
(***************************************************************************)
(* Which implementation a decode round goes through, and the paged decode  *)
(* kernel itself. A thread offers its round to the kernel; gates on the    *)
(* mode, the shapes and the device send it to the reference instead. An    *)
(* accepted round is registered with the dispatch worker, which launches   *)
(* one cube per lane and KV head; the planes of a cube walk the lane's     *)
(* blocks side by side and merge. The startup self-check drives the same   *)
(* path with the mode of its thread forced and, process-wide, an error     *)
(* injected into the kernel's last division.                               *)
(***************************************************************************)
EXTENDS Integers, FiniteSetsExt, SequencesExt

CONSTANTS Serving,        \* threads that decode
          Checker,        \* the thread that runs the self-check, if it is run
          EnvValues,      \* what BURN_LM_PAGED_ATTENTION may be
          Devices,        \* the devices: what their properties say of them
          DecodeRounds,   \* the rounds that may be offered
          CheckRound,     \* the inputs of the self-check
          Score(_, _),    \* a KV head's score for a row of the pool
          MaxLaunches     \* bound: kernel launches in a behaviour

Modes == {"Kernel", "Reference", "Auto"}
Threads == Serving \cup {Checker}

Larger(m, n) == IF m >= n THEN m ELSE n
BlocksFor(tokens, size) == (tokens + size - 1) \div size

(* The finite sentinel: below every score.                                 *)
Sentinel == -1000

(* Bound: the planes a device may want, sixteen per multiprocessor.        *)
MaxBits == 16
Powers == {2 ^ k : k \in 0 .. MaxBits}

(* What a device's client reports.                                         *)
Reported(d) ==
  /\ {d.targetPlanes, d.maxUnits, d.maxCubeX, d.maxCubeY, d.shared} \subseteq Nat
  /\ d.targetPlanes <= 2 ^ MaxBits
  /\ d.widths \subseteq Nat \ {0}

(* A round decodes a token of each lane, with blocks for the whole of its  *)
(* history and a score for every row of them.                              *)
Decodable(r) ==
  /\ {r.kvHeads, r.nRep, r.headDim, r.blockSize} \subseteq Nat \ {0}
  /\ r.lens \in Seq(Nat \ {0}) /\ r.lens # <<>> /\ r.table \in Seq(Nat)
  /\ \A lane \in DOMAIN r.lens :
       BlocksFor(r.lens[lane], r.blockSize) <= Len(r.table) \div Len(r.lens)
  /\ \A kv \in 0 .. r.kvHeads - 1, i \in DOMAIN r.table, t \in 0 .. r.blockSize - 1 :
       Score(kv, <<r.table[i], t>>) \in Int /\ Score(kv, <<r.table[i], t>>) > Sentinel

ASSUME DecodeAssumption ==
  /\ MaxLaunches \in Nat
  /\ \A d \in Devices : Reported(d)
  /\ \A r \in DecodeRounds \cup {CheckRound} : Decodable(r)

VARIABLES
  device,       \* the device the tensors are on
  setting,      \* the environment's switch, read once
  forced,       \* FORCED, by thread
  launches,     \* LAUNCHES
  scale,        \* OUTPUT_SCALE, process-wide
  op,           \* by thread, the operation registered and not yet done
  out,          \* by thread, the output of its last round
  check         \* the self-check: its stage and what it has seen

decodeVars == <<device, setting, forced, launches, scale, op, out, check>>

-------------------------------------------------------------------------------
(* The gates.                                                              *)

ParseMode(value) ==
  CASE value = "kernel" -> "Kernel"
    [] value = "reference" -> "Reference"
    [] OTHER -> "Auto"

Mode(t) == IF forced[t] \in Modes THEN forced[t] ELSE ParseMode(setting)

(* Metal and CUDA have earned the default.                                 *)
DeviceDefaultsToKernel == device.cube /\ device.runtime \in {"Cuda", "Metal"}

(* Planes of one known size that fit a cube, a grid that fits the device,  *)
(* and rows the allocator leaves packed.                                   *)
Supported(r) ==
  /\ device.planeOps
  /\ device.planeMin = device.planeMax
  /\ device.planeMax \in 1 .. Min({device.maxUnits, device.maxCubeX})
  /\ r.kvHeads <= device.maxCubesX /\ Len(r.lens) <= device.maxCubesY
  /\ r.headDim \notin device.pitched

DeviceSupports(r) == device.cube /\ Supported(r)

(* paged_decode's answer: whether the kernel takes the round.              *)
Takes(mode, r) ==
  /\ mode # "Reference"
  /\ r.seqQ = 1
  /\ r.dtype \in {"f32", "f16", "bf16"} /\ r.poolDtype = r.dtype
  /\ r.heads = r.kvHeads * r.nRep /\ r.headDim > 0
  /\ Len(r.table) % Len(r.lens) = 0
  /\ mode = "Auto" => DeviceDefaultsToKernel
  /\ DeviceSupports(r)

-------------------------------------------------------------------------------
(* The launch.                                                             *)

PlaneDim == device.planeMax

(* The widest load that divides a row and leaves every unit a slot of it.  *)
VectorWidth(r) ==
  LET fits == {w \in device.widths : w <= r.headDim \div PlaneDim /\ r.headDim % w = 0}
  IN IF fits = {} THEN 1 ELSE Max(fits)

SlotsOf(r) == r.headDim \div VectorWidth(r)
Dpu(r) == BlocksFor(SlotsOf(r), PlaneDim)
BlocksPerLane(r) == Len(r.table) \div Len(r.lens)

NextPowerOfTwo(n) == Min({x \in Powers : x >= n})
FloorPowerOfTwo(n) == Max({x \in Powers : x <= n})

PlanesPerCube(r) ==
  LET cubes == Larger(Len(r.lens) * r.kvHeads, 1)
      wanted == NextPowerOfTwo(Larger(BlocksFor(device.targetPlanes, cubes), 1))
      floats == r.nRep * Dpu(r) * PlaneDim * VectorWidth(r) + 2 * r.nRep
  IN FloorPowerOfTwo(Min({wanted,
                          Larger(BlocksPerLane(r), 1),
                          Larger(device.maxUnits \div PlaneDim, 1),
                          Larger(device.maxCubeY, 1),
                          Larger(device.shared \div (floats * 4), 1),
                          32}))

Cubes(r) == (1 .. Len(r.lens)) \X (0 .. r.kvHeads - 1)

(* A partial softmax: the running maximum, and the terms of `l` and `acc`, *)
(* each a row of the pool with its exponent.                               *)
Fresh == [m |-> Sentinel, terms |-> <<>>]

(* Times exp(m - new), which from the sentinel is exactly zero.            *)
Rescaled(part, new) ==
  IF part.m = Sentinel THEN <<>>
  ELSE [i \in DOMAIN part.terms |->
          [part.terms[i] EXCEPT !.exponent = @ + part.m - new]]

WithKey(part, row, s) ==
  LET m == Larger(part.m, s) IN
  [m |-> m, terms |-> Append(Rescaled(part, m), [row |-> row, exponent |-> s - m])]

(* The block of the lane's table that is b-th, and the rows of it that     *)
(* live: the walk's inner bound is the length.                             *)
BlockAt(r, lane, b) == r.table[(lane - 1) * BlocksPerLane(r) + b + 1]
LiveRows(r, lane, b) ==
  LET live == Min({r.blockSize, r.lens[lane] - b * r.blockSize}) IN
  [i \in 1 .. live |-> <<BlockAt(r, lane, b), i - 1>>]

WalkOne(part, r, cube, b) ==
  FoldLeft(LAMBDA acc, row : WithKey(acc, row, Score(cube[2], row)),
           part, LiveRows(r, cube[1], b))

NBlocks(r, cube) == BlocksFor(r.lens[cube[1]], r.blockSize)

(* What the units of a plane load and store of a row: slot u, u + plane_dim*)
(* and so on, the last masked when it is past the row.                     *)
DimsOf(r) ==
  LET width == VectorWidth(r)
      live == {s \in {u + i * PlaneDim : u \in 0 .. PlaneDim - 1, i \in 0 .. Dpu(r) - 1} :
                 s < SlotsOf(r)}
  IN {s * width + k : s \in live, k \in 0 .. width - 1}

LaunchSound(r) ==
  /\ r.seqQ = 1 /\ r.heads = r.kvHeads * r.nRep
  /\ Len(r.table) % Len(r.lens) = 0
  /\ Supported(r)

-------------------------------------------------------------------------------
(* The reference, and the plain-Rust twin of the kernel.                   *)

Position(r, lane, j) == <<BlockAt(r, lane, j \div r.blockSize), j % r.blockSize>>

(* Softmax over the lane's own history.                                    *)
ReferenceRow(r, lane, head) ==
  LET kv == head \div r.nRep
      top == Max({Score(kv, Position(r, lane, j)) : j \in 0 .. r.lens[lane] - 1})
  IN [terms |-> [j \in 1 .. r.lens[lane] |->
                   [row |-> Position(r, lane, j - 1),
                    exponent |-> Score(kv, Position(r, lane, j - 1)) - top]],
      dims |-> 0 .. r.headDim - 1, scale |-> 1]

Outputs(r) == (1 .. Len(r.lens)) \X (0 .. r.heads - 1)
PagedAttentionReference(r) == [o \in Outputs(r) |-> ReferenceRow(r, o[1], o[2])]

(* One plane's worth of work per lane and KV head, in block order.         *)
DecodeReferenceOnline(r) ==
  [o \in Outputs(r) |->
     LET cube == <<o[1], o[2] \div r.nRep>>
         part == FoldLeft(LAMBDA acc, b : WalkOne(acc, r, cube, b - 1), Fresh,
                          [b \in 1 .. NBlocks(r, cube) |-> b])
     IN [terms |-> part.terms, dims |-> 0 .. r.headDim - 1, scale |-> 1]]

(* Whether two outputs are the same sums.                                  *)
SameRow(x, y) ==
  /\ Len(x.terms) = Len(y.terms) /\ Range(x.terms) = Range(y.terms)
  /\ x.dims = y.dims /\ x.scale = y.scale
Agree(x, y) == \A o \in DOMAIN x : SameRow(x[o], y[o])

-------------------------------------------------------------------------------
(* The dispatch worker and the device.                                     *)

None == {}

Registered(r) == [round |-> r, at |-> "Registered", scale |-> 1, planes |-> None, rows |-> None]

(* Registering is all the calling thread does: the launch comes later, on  *)
(* the worker's thread.                                                    *)
Register(t, r) ==
  /\ op' = [op EXCEPT ![t] = {Registered(r)}]
  /\ launches' = launches + 1

Working(t, o) == op' = [op EXCEPT ![t] = {o}]

(* The launch reads the injected scale now, and asserts what the gates are *)
(* meant to have settled: a launch that may not go on is a panic.          *)
Launch(t) ==
  /\ \E o \in op[t] :
       /\ o.at = "Registered"
       /\ Working(t,
            IF LaunchSound(o.round)
            THEN [o EXCEPT !.at = "Running", !.scale = scale,
                    !.planes = [c \in Cubes(o.round) |->
                      [p \in 0 .. PlanesPerCube(o.round) - 1 |->
                         [b |-> p, part |-> Fresh, published |-> FALSE]]]]
            ELSE [o EXCEPT !.at = "Panicked"])
  /\ UNCHANGED <<device, setting, forced, launches, scale, out, check>>

(* A plane takes every `planes`-th block of its lane.                      *)
WalkBlock(t) ==
  /\ \E o \in op[t] : o.at = "Running" /\
       \E c \in DOMAIN o.planes : \E p \in DOMAIN o.planes[c] :
         LET plane == o.planes[c][p] IN
         /\ plane.b < NBlocks(o.round, c)
         /\ Working(t, [o EXCEPT !.planes[c][p] =
              [plane EXCEPT !.b = @ + Cardinality(DOMAIN o.planes[c]),
                            !.part = WalkOne(@, o.round, c, plane.b)]])
  /\ UNCHANGED <<device, setting, forced, launches, scale, out, check>>

Walked(o, c, p) == o.planes[c][p].b >= NBlocks(o.round, c)

(* The partial goes to shared memory, before the cube's barrier.           *)
Publish(t) ==
  /\ \E o \in op[t] : o.at = "Running" /\
       \E c \in DOMAIN o.planes : \E p \in DOMAIN o.planes[c] :
         /\ Cardinality(DOMAIN o.planes[c]) > 1
         /\ Walked(o, c, p) /\ ~o.planes[c][p].published
         /\ Working(t, [o EXCEPT !.planes[c][p].published = TRUE])
  /\ UNCHANGED <<device, setting, forced, launches, scale, out, check>>

SyncCube(o, c) == \A p \in DOMAIN o.planes[c] : o.planes[c][p].published

(* As if all the partials had one maximum.                                 *)
Unscaled(parts) ==
  [m |-> 0,
   terms |-> FlattenSeq([p \in 1 .. Cardinality(DOMAIN parts) |-> parts[p - 1].terms])]

(* Plane 0 brings every partial to the greatest maximum and adds them up;  *)
(* a plane that drew no block adds nothing.                                *)
Merged(parts) ==
  LET top == Max({parts[p].m : p \in DOMAIN parts}) IN
  [m |-> top,
   terms |-> FlattenSeq([p \in 1 .. Cardinality(DOMAIN parts) |->
                           Rescaled(parts[p - 1], top)])]

(* The division by `l`, with the injected scale, for every query head of   *)
(* the group.                                                              *)
Epilogue(t) ==
  /\ \E o \in op[t] : o.at = "Running" /\
       \E c \in DOMAIN o.planes :
         /\ \/ SyncCube(o, c)
            \/ DOMAIN o.planes[c] = {0} /\ Walked(o, c, 0)
         /\ LET all == Merged([p \in DOMAIN o.planes[c] |-> o.planes[c][p].part])
                heads == c[2] * o.round.nRep .. (c[2] + 1) * o.round.nRep - 1
                rows == {[at |-> <<c[1], h>>, row |-> [terms |-> all.terms,
                            dims |-> DimsOf(o.round), scale |-> o.scale]] : h \in heads}
            IN Working(t, [o EXCEPT !.rows = @ \cup rows,
                             !.planes = [d \in DOMAIN o.planes \ {c} |-> o.planes[d]]])
  /\ UNCHANGED <<device, setting, forced, launches, scale, out, check>>

(* The kernel's output, once every cube has stored its rows.               *)
Finished(o) == o.at = "Panicked" \/ (o.at = "Running" /\ DOMAIN o.planes = {})
KernelRows(o) ==
  [k \in {x.at : x \in o.rows} |-> (CHOOSE x \in o.rows : x.at = k).row]

-------------------------------------------------------------------------------
(* Serving.                                                                *)

Serves(t) == check.stage = "Over" /\ op[t] = None

(* paged_attention: the kernel where it takes the round, the reference     *)
(* everywhere else.                                                        *)
PagedAttention(t, r) ==
  /\ Serves(t)
  /\ IF Takes(Mode(t), r)
     THEN launches < MaxLaunches /\ Register(t, r) /\ out' = [out EXCEPT ![t] = None]
     ELSE /\ out' = [out EXCEPT ![t] =
               {[round |-> r, path |-> "Reference", rows |-> PagedAttentionReference(r)]}]
          /\ UNCHANGED <<launches, op>>
  /\ UNCHANGED <<device, setting, forced, scale, check>>

(* The output is read.                                                     *)
ReadOutput(t) ==
  /\ check.stage = "Over"
  /\ \E o \in op[t] :
       /\ Finished(o)
       /\ out' = [out EXCEPT ![t] =
            {[round |-> o.round, path |-> "Kernel", rows |-> KernelRows(o)]}]
  /\ op' = [op EXCEPT ![t] = None]
  /\ UNCHANGED <<device, setting, forced, launches, scale, check>>

-------------------------------------------------------------------------------
(* dispatch_self_check, which has the process to itself. Each decode of it *)
(* is read before the next begins.                                         *)

NoVerdict ==
  [kernelDelta |-> 0, referenceDelta |-> 0, ran |-> FALSE, vsOracle |-> TRUE,
   injectedDiffers |-> FALSE, restored |-> TRUE]

ForceMode(mode) == forced' = [forced EXCEPT ![Checker] = mode]
Stage(from, to) == check.stage = from /\ check' = [check EXCEPT !.stage = to]

(* A forced-kernel decode ...                                              *)
CheckKernel ==
  /\ Stage("Start", "Kernel")
  /\ ForceMode("Kernel")
  /\ IF Takes("Kernel", CheckRound) THEN Register(Checker, CheckRound)
     ELSE UNCHANGED <<launches, op>>
  /\ UNCHANGED <<device, setting, scale, out>>

Seen == {KernelRows(o) : o \in {x \in op[Checker] : Finished(x)}}
Settled == op[Checker] = None \/ Seen # {}

(* ... and a forced-reference one, which returns nothing. If the kernel    *)
(* declined, the check ends here.                                          *)
CheckReference ==
  /\ check.stage = "Kernel" /\ Settled
  /\ LET again == Takes("Reference", CheckRound) IN
     check' = [check EXCEPT !.kernel = Seen, !.stage = IF Seen = {} THEN "Over" ELSE "Inject",
                 !.verdict = {[NoVerdict EXCEPT !.kernelDelta = launches,
                                !.referenceDelta = IF again THEN 1 ELSE 0]}]
  /\ op' = [op EXCEPT ![Checker] = None]
  /\ ForceMode(IF Seen = {} THEN "Auto" ELSE "Kernel")
  /\ UNCHANGED <<device, setting, launches, scale, out>>

StickyScale(value) == scale' = Larger(scale, value)

SetOutputScale(value) == scale' = value

(* An error is injected, process-wide, for one decode.                     *)
CheckInjected ==
  /\ Stage("Inject", "Injected")
  /\ SetOutputScale(2)
  /\ Register(Checker, CheckRound)
  /\ UNCHANGED <<device, setting, forced, out>>

CheckRestored ==
  /\ Seen # {}
  /\ check.stage = "Injected"
  /\ check' = [check EXCEPT !.stage = "Restored", !.injected = Seen]
  /\ SetOutputScale(1)
  /\ Register(Checker, CheckRound)
  /\ UNCHANGED <<device, setting, forced, out>>

Difference(x, y) == \E a \in x, b \in y : ~Agree(a, b)

CheckVerdict ==
  /\ check.stage = "Restored" /\ Seen # {}
  /\ \E v \in check.verdict :
       check' = [check EXCEPT !.stage = "Over",
         !.verdict = {[v EXCEPT !.ran = TRUE,
             !.vsOracle = ~Difference(check.kernel, {DecodeReferenceOnline(CheckRound)}),
             !.injectedDiffers = Difference(check.kernel, check.injected),
             !.restored = ~Difference(check.kernel, Seen)]},
         !.kernel = {}, !.injected = {}]
  /\ op' = [op EXCEPT ![Checker] = None]
  /\ ForceMode("Auto")
  /\ UNCHANGED <<device, setting, launches, scale, out>>

-------------------------------------------------------------------------------
DecodeInit ==
  /\ device \in Devices /\ setting \in EnvValues
  /\ forced = [t \in Threads |-> "Unset"]
  /\ launches = 0 /\ scale = 1
  /\ op = [t \in Threads |-> None]
  /\ out = [t \in Threads |-> None]
  /\ \E stage \in {"Start", "Over"} :
       check = [stage |-> stage, kernel |-> {}, injected |-> {}, verdict |-> {}]

DecodeNext ==
  \/ CheckKernel \/ CheckReference \/ CheckInjected \/ CheckRestored \/ CheckVerdict
  \/ \E t \in Threads :
       \/ Launch(t) \/ WalkBlock(t) \/ Publish(t) \/ Epilogue(t) \/ ReadOutput(t)
       \/ \E r \in DecodeRounds : PagedAttention(t, r)

DecodeSpec == DecodeInit /\ [][DecodeNext]_decodeVars

DecodeAtEnd == check.stage = "Over" /\ \A t \in Threads : op[t] = None

-------------------------------------------------------------------------------
(* Whichever implementation ran, every query head of every lane has        *)
(* attended each position of its lane's own history exactly once, under    *)
(* one maximum, over the whole head row and without the injected error;    *)
(* what the gates let through never panics at the launch.                  *)
DecodeExact ==
  \A t \in Threads : \A o \in out[t] :
    /\ DOMAIN o.rows = Outputs(o.round)
    /\ Agree(o.rows, PagedAttentionReference(o.round))

(* The self-check's evidence means what it is read for: it says that the   *)
(* kernel ran exactly when the device has it, the counter moved for the    *)
(* kernel alone, the injected error reached the output, and nothing of it  *)
(* is left.                                                                *)
CheckHonest ==
  /\ check.stage = "Over" => scale = 1
  /\ \A v \in check.verdict : check.stage = "Over" =>
       /\ v.ran = Takes("Kernel", CheckRound)
       /\ v.kernelDelta = (IF v.ran THEN 1 ELSE 0) /\ v.referenceDelta = 0
       /\ v.ran => v.vsOracle /\ v.injectedDiffers /\ v.restored
===============================================================================
