------------------------------ MODULE RoundProofs ------------------------------
(***************************************************************************)
(* What a round makes of the batch, for any jobs, sizes and budgets:       *)
(*                                                                         *)
(*   Lanes     each sequence has a lane of its own, in lockstep with it    *)
(*   Coverage  no lane outgrows the blocks its sequence reserved, so the   *)
(*             worker stays within the ledger of the KV cache              *)
(*   Order     the prefill budget is spent oldest first                    *)
(*   Oldest    the oldest sequence is never left out of a round            *)
(*   Reserve   without evictions an unload finds nothing in flight         *)
(***************************************************************************)
EXTENDS WorkerProofs

-------------------------------------------------------------------------------

(* A lane belongs to one sequence, and holds what that sequence processed  *)
(* unless its round failed; without a model the lanes are empty. From the  *)
(* growth pass to the retire sweep a batch always has its model.           *)
Lendings == {"Resume", "Admit", "Sweep", "Senior", "Round"}

OwnSlots ==
  /\ \A j \in Range(active) : seq[j].slot \in Slots
  /\ \A j, k \in Range(active) : seq[k].slot = seq[j].slot => k = j

LanesGood ==
  /\ OwnSlots
  /\ \A s \in Slots : lane[s] # 0 => \E j \in Range(active) : seq[j].slot = s
  /\ loaded => \A j \in Range(active) : FailedNow(j) \/ lane[seq[j].slot] = seq[j].processed
  /\ ~loaded => lane = EmptyLanes
  /\ active # <<>> /\ phase \notin Lendings => loaded

(* A sequence without elements is the empty one.                           *)
LEMMA NoMembers ==
  ASSUME NEW S, NEW s \in Seq(S), Range(s) = {}
  PROVE  s = <<>>
<1>1. Len(s) \in Nat /\ \A i \in 1 .. Len(s) : s[i] \in Range(s)
  BY LenProperties, SeqMembers
<1>2. CASE Len(s) = 0
  BY <1>2, EmptySeq
<1>3. CASE Len(s) # 0
  <2>1. 1 \in 1 .. Len(s)
    BY <1>1, <1>3
  <2> QED
    BY <1>1, <2>1
<1> QED
  BY <1>2, <1>3

(* An empty batch leaves every lane empty.                                 *)
LEMMA NoneActive ==
  ASSUME TypeOK, LanesGood, active = <<>>
  PROVE  Range(active) = {} /\ lane = EmptyLanes
<1>1. Range(active) = {}
  BY EmptyRange
<1>2. \A s \in Slots : lane[s] = 0
  BY <1>1 DEF LanesGood
<1> QED
  BY <1>1, <1>2 DEF TypeOK, EmptyLanes

(* A step that touches neither the batch, nor the lanes, nor how far its   *)
(* sequences are.                                                          *)
LEMMA LanesQuiet ==
  ASSUME TypeOK, LanesGood, active' = active, lane' = lane, loaded' = loaded,
         \A j \in Range(active) :
           /\ seq'[j].slot = seq[j].slot /\ seq'[j].processed = seq[j].processed
           /\ FailedNow(j) => FailedNow(j)',
         active # <<>> /\ phase \in Lendings => phase' \in Lendings
  PROVE  LanesGood'
BY DEF LanesGood, OwnSlots, EmptyLanes, Slots

(* Borrowing the decoder: the model stays with a batch it already runs,    *)
(* and is loaded for an empty one.                                         *)
LEMMA LanesLent ==
  ASSUME TypeOK, LanesGood, Borrow, active' = active, lane' = lane,
         \A j \in Range(active) :
           /\ seq'[j].slot = seq[j].slot /\ seq'[j].processed = seq[j].processed
           /\ FailedNow(j) => FailedNow(j)'
  PROVE  LanesGood'
<1>1. loaded' /\ (loaded \/ active = <<>>)
  BY DEF Borrow
<1>2. CASE active = <<>>
  <2>1. Range(active') = {} /\ \A s \in Slots : lane'[s] = 0
    BY <1>2, NoneActive DEF EmptyLanes
  <2> QED
    BY <1>1, <2>1 DEF LanesGood, OwnSlots
<1>3. CASE loaded
  BY <1>1, <1>3 DEF LanesGood, OwnSlots
<1> QED
  BY <1>1, <1>2, <1>3

(* A borrow that fails takes every lane with it.                           *)
LEMMA LanesLost ==
  ASSUME TypeOK, LanesGood, ~loaded', lane' = EmptyLanes,
         Range(active') \subseteq Range(active),
         \A j \in Range(active') : seq'[j].slot = seq[j].slot,
         active' = <<>> \/ phase' \in Lendings
  PROVE  LanesGood'
<1>1. \A s \in Slots : lane'[s] = 0
  BY DEF EmptyLanes
<1>2. lane' = EmptyLanes'
  BY DEF EmptyLanes, Slots
<1> QED
  BY <1>1, <1>2 DEF LanesGood, OwnSlots, Slots

(* A sequence enters the lowest free slot, whose lane was emptied.         *)
LEMMA LanesEntered ==
  ASSUME TypeOK, Placement, LanesGood, NEW j \in Jobs, j \notin Range(active), Enter(j),
         Len(active) < MaxSlots, phase' = phase
  PROVE  LanesGood'
<1> DEFINE s0 == LowestFreeSlot
<1>1. s0 \in Slots /\ s0 \in FreeSlots
  BY SlotAvailable
<1>2. /\ loaded' /\ (loaded \/ active = <<>>)
      /\ Range(active') = Range(active) \cup {j}
      /\ lane' = [lane EXCEPT ![s0] = 0] /\ lane \in [Slots -> Nat]
  BY Pushed DEF Enter, Borrow, TypeOK
<1>3. /\ seq'[j].slot = s0 /\ seq'[j].processed = 0
      /\ \A k \in Range(active) : seq'[k] = seq[k] /\ k \in Jobs
  BY SeqMembers DEF Enter, Entering, Blank, TypeOK
<1> HIDE DEF s0
<1>4. \A k \in Range(active) : seq[k].slot # s0
  BY <1>1 DEF FreeSlots
<1>5. OwnSlots'
  BY <1>1, <1>2, <1>3, <1>4 DEF OwnSlots, LanesGood, Slots
<1>6. \A s \in Slots : lane'[s] # 0 => \E k \in Range(active') : seq'[k].slot = s
  BY <1>1, <1>2, <1>3 DEF LanesGood
<1>7. \A k \in Range(active') : FailedNow(k)' \/ lane'[seq'[k].slot] = seq'[k].processed
  <2> SUFFICES ASSUME NEW k \in Range(active')
               PROVE  FailedNow(k)' \/ lane'[seq'[k].slot] = seq'[k].processed
    OBVIOUS
  <2>1. CASE k = j
    BY <1>1, <1>2, <1>3, <2>1
  <2>2. CASE k \in Range(active)
    <3>1. loaded
      BY <1>2, <2>2, EmptyRange
    <3>2. FailedNow(k) \/ lane[seq[k].slot] = seq[k].processed
      BY <2>2, <3>1 DEF LanesGood
    <3>3. seq[k].slot \in Slots /\ seq[k].slot # s0
      BY <1>4, <2>2 DEF LanesGood, OwnSlots
    <3> QED
      BY <1>2, <1>3, <2>2, <3>2, <3>3 DEF FailedNow
  <2> QED
    BY <1>2, <2>1, <2>2
<1> QED
  BY <1>2, <1>5, <1>6, <1>7 DEF LanesGood, Slots

(* A sequence leaves with its lane, evicted or retired.                    *)
LEMMA LanesLeft ==
  ASSUME TypeOK, Placement, LanesGood, NEW v \in 1 .. Len(active),
         active' = RemoveAt(active, v), lane' = Released(active[v]),
         loaded' = loaded, phase' = phase,
         \A k \in Range(active) : k # active[v] => seq'[k] = seq[k]
  PROVE  LanesGood'
<1> DEFINE j == active[v]
<1>1. /\ j \in Range(active) /\ Range(active') = Range(active) \ {j}
      /\ active' # <<>> => active # <<>>
  <2>1. active \in Seq(Jobs)
    BY DEF TypeOK
  <2>2. Range(active') = Range(active) \ {j} /\ active[v] \in Range(active)
    BY <2>1, Removed, SeqMembers DEF Placement
  <2> QED
    BY <2>1, <2>2, EmptySeq
<1>2. lane' = [lane EXCEPT ![seq[j].slot] = 0] /\ lane \in [Slots -> Nat]
  BY DEF Released, TypeOK
<1> HIDE DEF j
<1>3. /\ seq[j].slot \in Slots
      /\ \A k \in Range(active') : /\ seq'[k] = seq[k] /\ seq[k].slot # seq[j].slot
                                   /\ seq[k].slot \in Slots
  BY <1>1 DEF LanesGood, OwnSlots, j
<1>4. OwnSlots'
  BY <1>1, <1>3 DEF LanesGood, OwnSlots, Slots
<1>5. \A s \in Slots : lane'[s] # 0 => \E k \in Range(active') : seq'[k].slot = s
  <2> SUFFICES ASSUME NEW s \in Slots, lane'[s] # 0
               PROVE  \E k \in Range(active') : seq'[k].slot = s
    OBVIOUS
  <2>1. s # seq[j].slot /\ lane[s] # 0
    BY <1>2
  <2>2. PICK k \in Range(active) : seq[k].slot = s
    BY <2>1 DEF LanesGood
  <2> QED
    BY <1>1, <1>3, <2>1, <2>2
<1>6. loaded => \A k \in Range(active') : FailedNow(k)' \/ lane'[seq'[k].slot] = seq'[k].processed
  BY <1>1, <1>2, <1>3 DEF LanesGood, FailedNow
<1>7. ~loaded => lane' = EmptyLanes
  BY <1>2 DEF LanesGood, EmptyLanes
<1> QED
  BY <1>1, <1>4, <1>5, <1>6, <1>7 DEF LanesGood, Slots, EmptyLanes

(* The forwards of a round: a running sequence's lane follows what it      *)
(* processed, or the sequence fails.                                       *)
LEMMA LanesRun ==
  ASSUME TypeOK, LanesGood, loaded, active' = active, loaded' = loaded,
         lane' \in [Slots -> Nat],
         \A j \in Range(active) :
           /\ seq'[j].slot = seq[j].slot
           /\ FailedNow(j)' \/ lane'[seq[j].slot] = seq'[j].processed,
         \A s \in Slots : lane'[s] # lane[s] => \E j \in Range(active) : seq[j].slot = s
  PROVE  LanesGood'
BY DEF LanesGood, OwnSlots, Slots

(* The prompt at the cursor has tokens left and fits the window; it is     *)
(* pushed at least one token unless the round's budget is spent.           *)
LEMMA PendingIs ==
  ASSUME TypeOK, Placement, RequestsGood, Pending
  PROVE  /\ phase = "Prefill" /\ cursor \in 1 .. Len(active)
         /\ Current \in Range(active) /\ Current \in Jobs /\ seq[Current] \in SeqStates
         /\ seq[Current].out = "Prefill" /\ ~seq[Current].finished
         /\ Tokens(Current) \in Nat /\ Tokens(Current) <= Ctx
         /\ Unprocessed(Current) \in Nat \ {0}
         /\ Unprocessed(Current) = Tokens(Current) - seq[Current].processed
         /\ Grant(Current) \in 0 .. Unprocessed(Current)
         /\ Grant(Current) = 0 <=> budget = 0
<1> DEFINE j == Current
<1>1. /\ phase = "Prefill" /\ cursor \in 1 .. Len(active) /\ j \in Range(active)
      /\ seq[j].out = "Prefill"
  BY CurrentType DEF Pending, Prefilling
<1>2. j \in Jobs /\ seq[j] \in SeqStates /\ Sound(j, seq[j], "Prefill")
  BY <1>1, ActiveIs
<1>3. /\ Prompt[j] \in Nat /\ Ctx \in Nat /\ seq[j].generated \in Nat /\ seq[j].processed \in Nat
      /\ Tokens(j) = Prompt[j] + seq[j].generated
      /\ Unprocessed(j) = Prompt[j] + seq[j].generated - seq[j].processed
  BY <1>2, NumbersAre
<1>4. /\ ~seq[j].finished /\ Prompt[j] + seq[j].generated <= Ctx
      /\ seq[j].processed < Prompt[j] + seq[j].generated
  BY <1>1, <1>2 DEF Sound
<1>5. /\ Tokens(j) \in Nat /\ Tokens(j) <= Ctx /\ Unprocessed(j) \in Nat \ {0}
      /\ Unprocessed(j) = Tokens(j) - seq[j].processed
  BY <1>3, <1>4
<1>6. Wanted(j) \in 1 .. Unprocessed(j)
  BY <1>5, WorkerAssumption DEF Wanted, Smaller
<1>7. Grant(j) \in 0 .. Unprocessed(j) /\ (Grant(j) = 0 <=> budget = 0)
  BY <1>5, <1>6 DEF Grant, Smaller, TypeOK, Unbounded
<1> QED
  BY <1>1, <1>2, <1>4, <1>5, <1>7

(* A push: the lane at the cursor grows by the grant, and with it what its *)
(* sequence processed, or the forward failed and the sequence ends.        *)
LEMMA PushIs ==
  ASSUME TypeOK, Placement, RequestsGood, PrefillChunk \/ PrefillLast \/ PrefillFails
  PROVE  /\ Pending /\ active' = active /\ loaded' = loaded /\ phase' = phase
         /\ resume' = resume /\ cursor' = cursor + 1 /\ budget # 0
         /\ Grant(Current) \in 1 .. Unprocessed(Current)
         /\ \A k \in Jobs : k # Current => seq'[k] = seq[k]
         /\ seq'[Current].slot = seq[Current].slot /\ seq'[Current].resv = seq[Current].resv
         /\ seq'[Current].cancelled = seq[Current].cancelled
         /\ seq'[Current].paused = seq[Current].paused
         /\ seq'[Current].out \in {"Prefilling", "Stepped", "Stopped", "Failed"}
         /\ lane' \in {lane, [lane EXCEPT ![seq[Current].slot] =
                                seq[Current].processed + Grant(Current)]}
         /\ seq'[Current].out # "Failed" =>
              /\ lane' = [lane EXCEPT ![seq[Current].slot] = seq[Current].processed + Grant(Current)]
              /\ seq'[Current].processed = seq[Current].processed + Grant(Current)
<1> DEFINE j == Current
           g == Grant(Current)
<1>1. /\ Pending /\ active' = active /\ loaded' = loaded /\ phase' = phase
      /\ resume' = resume /\ cursor' = cursor + 1
  BY DEF PrefillChunk, PrefillLast, PrefillFails, PrefillNext
<1>2. /\ j \in Jobs /\ seq[j] \in SeqStates /\ g \in 0 .. Unprocessed(j) /\ (g = 0 <=> budget = 0)
      /\ Tokens(j) \in Nat /\ Unprocessed(j) \in Nat \ {0}
      /\ Unprocessed(j) = Tokens(j) - seq[j].processed
  BY <1>1, PendingIs
<1>3. g \in 1 .. Unprocessed(j)
  BY <1>2 DEF PrefillChunk, PrefillLast, PrefillFails
<1>4. \A k \in Jobs : k # j => seq'[k] = seq[k]
  BY DEF PrefillChunk, PrefillLast, PrefillFails, TypeOK
<1>5. CASE PrefillChunk
  <2>1. seq'[j] = [seq[j] EXCEPT !.processed = @ + g, !.out = "Prefilling"]
    BY <1>2, <1>5 DEF PrefillChunk, TypeOK
  <2>2. lane' = [lane EXCEPT ![seq[j].slot] = seq[j].processed + g]
    BY <1>5 DEF PrefillChunk
  <2> HIDE DEF j, g
  <2> QED
    BY <1>1, <1>2, <1>3, <1>4, <2>1, <2>2 DEF SeqStates, j, g
<1>6. CASE PrefillLast
  <2>1. PICK stop : seq' = [seq EXCEPT ![j] = Advanced(j, stop)]
    BY <1>6 DEF PrefillLast
  <2>2. seq'[j] = Advanced(j, stop)
    BY <1>2, <2>1 DEF TypeOK
  <2>3. lane' = [lane EXCEPT ![seq[j].slot] = Tokens(j)] /\ Tokens(j) = seq[j].processed + g
    BY <1>2, <1>6 DEF PrefillLast, SeqStates
  <2>4. /\ Advanced(j, stop).slot = seq[j].slot /\ Advanced(j, stop).resv = seq[j].resv
        /\ Advanced(j, stop).cancelled = seq[j].cancelled
        /\ Advanced(j, stop).paused = seq[j].paused
        /\ Advanced(j, stop).out \in {"Stepped", "Stopped"}
        /\ Advanced(j, stop).processed = Tokens(j)
    BY <1>2 DEF Advanced, SeqStates
  <2> HIDE DEF j, g
  <2> QED
    BY <1>1, <1>2, <1>3, <1>4, <2>2, <2>3, <2>4 DEF j, g
<1>7. CASE PrefillFails
  <2>1. seq'[j] = Failed(j)
    BY <1>2, <1>7 DEF PrefillFails, TypeOK
  <2>2. lane' = lane \/ lane' = [lane EXCEPT ![seq[j].slot] = seq[j].processed + g]
    BY <1>7 DEF PrefillFails
  <2>3. /\ Failed(j).slot = seq[j].slot /\ Failed(j).resv = seq[j].resv
        /\ Failed(j).cancelled = seq[j].cancelled /\ Failed(j).paused = seq[j].paused
        /\ Failed(j).out = "Failed"
    BY <1>2 DEF Failed, SeqStates
  <2> HIDE DEF j, g
  <2> QED
    BY <1>1, <1>2, <1>3, <1>4, <2>1, <2>2, <2>3 DEF j, g
<1> QED
  BY <1>5, <1>6, <1>7

(* The fused decode: the rows of the batch advance by a token each, each   *)
(* in its lane, or all of them fail.                                       *)
LEMMA DecodeIs ==
  ASSUME TypeOK, Placement, RequestsGood, DecodeRows \/ DecodeFails
  PROVE  /\ phase = "Decode" /\ phase' = "Ship" /\ active' = active /\ loaded' = loaded
         /\ resume' = resume /\ Rows \subseteq Range(active)
         /\ lane' \in {lane, LanesAdvanced}
         /\ \A j \in Jobs : j \notin Rows => seq'[j] = seq[j]
         /\ \A j \in Rows :
              /\ j \in Jobs /\ seq[j] \in SeqStates /\ seq[j].out = "Decode" /\ ~seq[j].finished
              /\ Tokens(j) = seq[j].processed + 1 /\ Tokens(j) <= Ctx
              /\ seq'[j].slot = seq[j].slot /\ seq'[j].resv = seq[j].resv
              /\ seq'[j].cancelled = seq[j].cancelled
              /\ seq'[j].out \in {"Stepped", "Stopped", "Failed"}
              /\ seq'[j].out # "Failed" => lane' = LanesAdvanced /\ seq'[j].processed = Tokens(j)
<1>1. /\ phase = "Decode" /\ phase' = "Ship" /\ active' = active /\ loaded' = loaded
      /\ resume' = resume /\ Rows \subseteq Range(active) /\ Range(active) \subseteq Jobs
      /\ lane' \in {lane, LanesAdvanced}
  BY SeqMembers DEF DecodeRows, DecodeFails, Rows, TypeOK
<1>2. \A k \in Jobs : IF k \in Rows
                      THEN \/ (\E stop \in BOOLEAN : seq'[k] = Advanced(k, stop)) /\ lane' = LanesAdvanced
                           \/ seq'[k] = Failed(k)
                      ELSE seq'[k] = seq[k]
  <2>1. CASE DecodeRows
    <3>1. PICK stops : seq' = [j \in Jobs |-> IF j \in Rows THEN Advanced(j, j \in stops) ELSE seq[j]]
      BY <2>1 DEF DecodeRows
    <3>2. \A k \in Jobs : (k \in stops) \in BOOLEAN
      OBVIOUS
    <3>3. lane' = LanesAdvanced
      BY <2>1 DEF DecodeRows
    <3> QED
      BY <3>1, <3>2, <3>3
  <2>2. CASE DecodeFails
    BY <2>2 DEF DecodeFails
  <2> QED
    BY <2>1, <2>2
<1>3. ASSUME NEW j \in Rows
      PROVE  /\ j \in Jobs /\ seq[j] \in SeqStates /\ seq[j].out = "Decode" /\ ~seq[j].finished
             /\ Tokens(j) = seq[j].processed + 1 /\ Tokens(j) <= Ctx
             /\ seq'[j].slot = seq[j].slot /\ seq'[j].resv = seq[j].resv
             /\ seq'[j].cancelled = seq[j].cancelled
             /\ seq'[j].out \in {"Stepped", "Stopped", "Failed"}
             /\ seq'[j].out # "Failed" => lane' = LanesAdvanced /\ seq'[j].processed = Tokens(j)
  <2>1. /\ j \in Range(active) /\ j \in Jobs /\ seq[j] \in SeqStates /\ seq[j].out = "Decode"
        /\ Sound(j, seq[j], "Decode")
    BY <1>1, ActiveIs DEF Rows
  <2>2. /\ ~seq[j].finished /\ Tokens(j) = seq[j].processed + 1 /\ Tokens(j) <= Ctx
    BY <2>1, NumbersAre DEF Sound
  <2>3. /\ \A stop \in BOOLEAN :
             /\ Advanced(j, stop).slot = seq[j].slot /\ Advanced(j, stop).resv = seq[j].resv
             /\ Advanced(j, stop).cancelled = seq[j].cancelled
             /\ Advanced(j, stop).out \in {"Stepped", "Stopped"}
             /\ Advanced(j, stop).processed = Tokens(j)
        /\ Failed(j).slot = seq[j].slot /\ Failed(j).resv = seq[j].resv
        /\ Failed(j).cancelled = seq[j].cancelled /\ Failed(j).out = "Failed"
    BY <2>1 DEF Advanced, Failed, SeqStates
  <2>4. \/ (\E stop \in BOOLEAN : seq'[j] = Advanced(j, stop)) /\ lane' = LanesAdvanced
        \/ seq'[j] = Failed(j)
    BY <1>2, <2>1
  <2> QED
    BY <2>1, <2>2, <2>3, <2>4
<1>4. \A j \in Jobs : j \notin Rows => seq'[j] = seq[j]
  BY <1>2
<1> QED
  BY <1>1, <1>3, <1>4

-------------------------------------------------------------------------------
(* Steps and lanes.                                                        *)

(* A prefill moves one lane, that of the sequence it pushes.               *)
LEMMA PrefillLanes ==
  ASSUME TypeOK, Placement, RequestsGood, LanesGood, PrefillChunk \/ PrefillLast \/ PrefillFails
  PROVE  LanesGood'
<1> DEFINE j == Current
           n == seq[j].processed + Grant(j)
<1>1. /\ j \in Range(active) /\ j \in Jobs /\ phase = "Prefill" /\ phase' = phase
      /\ active' = active /\ loaded' = loaded
      /\ \A k \in Jobs : k # j => seq'[k] = seq[k]
      /\ seq'[j].slot = seq[j].slot
      /\ lane' \in {lane, [lane EXCEPT ![seq[j].slot] = n]}
      /\ seq'[j].out # "Failed" =>
           lane' = [lane EXCEPT ![seq[j].slot] = n] /\ seq'[j].processed = n
  BY PendingIs, PushIs
<1>2. n \in Nat
  BY PendingIs, PushIs DEF SeqStates
<1>3. loaded
  BY <1>1, EmptyRange DEF LanesGood, Lendings
<1>4. seq[j].slot \in Slots /\ lane \in [Slots -> Nat] /\ Range(active) \subseteq Jobs
  BY <1>1, SeqMembers DEF LanesGood, OwnSlots, TypeOK
<1> HIDE DEF j, n
<1>5. lane' \in [Slots -> Nat] /\ \A s \in Slots : s # seq[j].slot => lane'[s] = lane[s]
  BY <1>1, <1>2, <1>4
<1>6. ASSUME NEW k \in Range(active)
      PROVE  /\ seq'[k].slot = seq[k].slot
             /\ FailedNow(k)' \/ lane'[seq[k].slot] = seq'[k].processed
  <2>1. CASE k = j
    BY <1>1, <1>4, <2>1 DEF FailedNow
  <2>2. CASE k # j
    <3>1. seq[k].slot \in Slots /\ seq[k].slot # seq[j].slot
      BY <1>1, <2>2 DEF LanesGood, OwnSlots
    <3>2. FailedNow(k) \/ lane[seq[k].slot] = seq[k].processed
      BY <1>3 DEF LanesGood
    <3> QED
      BY <1>1, <1>4, <1>5, <2>2, <3>1, <3>2 DEF FailedNow
  <2> QED
    BY <2>1, <2>2
<1>7. \A s \in Slots : lane'[s] # lane[s] => \E k \in Range(active) : seq[k].slot = s
  BY <1>1, <1>5
<1> QED
  BY <1>1, <1>3, <1>5, <1>6, <1>7, LanesRun

(* The fused decode moves the lanes of its rows.                           *)
LEMMA DecodeLanes ==
  ASSUME TypeOK, Placement, RequestsGood, LanesGood, DecodeRows \/ DecodeFails
  PROVE  LanesGood'
<1>1. /\ phase = "Decode" /\ phase' = "Ship" /\ active' = active /\ loaded' = loaded
      /\ Rows \subseteq Range(active) /\ lane' \in {lane, LanesAdvanced}
      /\ Range(active) \subseteq Jobs /\ lane \in [Slots -> Nat]
  BY DecodeIs, SeqMembers DEF TypeOK
<1>2. CASE Range(active) = {}
  <2>1. \A s \in Slots : LanesAdvanced[s] = lane[s]
    BY <1>1, <1>2 DEF LanesAdvanced
  <2>2. LanesAdvanced = lane
    BY <1>1, <2>1 DEF LanesAdvanced
  <2>3. active = <<>>
    BY <1>2, NoMembers DEF TypeOK
  <2> QED
    BY <1>1, <1>2, <2>2, <2>3, LanesQuiet
<1>3. CASE Range(active) # {}
  <2>1. loaded
    BY <1>1, <1>3, EmptyRange DEF LanesGood, Lendings
  <2>2. LanesAdvanced \in [Slots -> Nat]
    BY <1>1 DEF LanesAdvanced
  <2>3. ASSUME NEW k \in Range(active)
        PROVE  /\ seq'[k].slot = seq[k].slot
               /\ FailedNow(k)' \/ lane'[seq[k].slot] = seq'[k].processed
    <3>1. k \in Jobs /\ seq[k].slot \in Slots
      BY <1>1 DEF LanesGood, OwnSlots
    <3>2. FailedNow(k) \/ lane[seq[k].slot] = seq[k].processed
      BY <2>1 DEF LanesGood
    <3>3. CASE k \in Rows
      <4>1. /\ seq'[k].slot = seq[k].slot /\ seq[k].out = "Decode"
            /\ Tokens(k) = seq[k].processed + 1
            /\ seq'[k].out # "Failed" => lane' = LanesAdvanced /\ seq'[k].processed = Tokens(k)
        BY <3>3, DecodeIs
      <4>2. LanesAdvanced[seq[k].slot] = lane[seq[k].slot] + 1
        BY <3>1, <3>3 DEF LanesAdvanced
      <4>3. lane[seq[k].slot] = seq[k].processed
        BY <1>1, <3>2, <4>1 DEF FailedNow
      <4> QED
        BY <4>1, <4>2, <4>3 DEF FailedNow
    <3>4. CASE k \notin Rows
      <4>1. seq'[k] = seq[k]
        BY <3>1, <3>4, DecodeIs
      <4>2. \A i \in Rows : seq[i].slot # seq[k].slot
        BY <1>1, <3>4 DEF LanesGood, OwnSlots
      <4>3. LanesAdvanced[seq[k].slot] = lane[seq[k].slot]
        BY <3>1, <4>2 DEF LanesAdvanced
      <4>4. lane'[seq[k].slot] = lane[seq[k].slot]
        BY <1>1, <4>3
      <4> QED
        BY <1>1, <3>2, <4>1, <4>4 DEF FailedNow
    <3> QED
      BY <3>3, <3>4
  <2>4. \A s \in Slots : lane'[s] # lane[s] => \E k \in Range(active) : seq[k].slot = s
    BY <1>1 DEF LanesAdvanced
  <2>5. lane' \in [Slots -> Nat]
    BY <1>1, <2>2
  <2> QED
    BY <1>1, <2>1, <2>3, <2>4, <2>5, LanesRun
<1> QED
  BY <1>2, <1>3

(* Growth, classification and shipment leave a sequence in its lane, and   *)
(* what failed stays failed until it is retired.                           *)
LEMMA RecordsStay ==
  ASSUME TypeOK, Placement, RequestsGood, NEW j \in Range(active),
         \/ SweepCancelled \/ TopUpSenior \/ GrowFinished \/ GrowWithin \/ GrowGranted
         \/ GrowPauses \/ BeginRound \/ PrefillSkips \/ PrefillDefers \/ Ship
  PROVE  /\ seq'[j].slot = seq[j].slot /\ seq'[j].processed = seq[j].processed
         /\ FailedNow(j) => FailedNow(j)'
<1>1. j \in Jobs /\ seq[j] \in SeqStates /\ Sound(j, seq[j], phase)
  BY ActiveIs
<1>2. CASE SweepCancelled
  <2>1. seq'[j] \in {seq[j], [seq[j] EXCEPT !.finished = TRUE, !.cancelled = TRUE]}
    BY <1>1, <1>2 DEF SweepCancelled
  <2>2. phase = "Sweep"
    BY <1>2 DEF SweepCancelled
  <2> QED
    BY <1>1, <2>1, <2>2 DEF SeqStates, FailedNow
<1>3. CASE TopUpSenior
  <2>1. seq'[j] \in {seq[j], [seq[j] EXCEPT !.resv = @ + TopUp(j)]} /\ phase = "Senior"
    BY <1>1, <1>3 DEF TopUpSenior
  <2> QED
    BY <1>1, <2>1 DEF SeqStates, FailedNow
<1>4. CASE GrowFinished \/ GrowWithin \/ GrowGranted \/ GrowPauses
  <2>1. /\ seq'[j] \in {seq[j], [seq[j] EXCEPT !.paused = FALSE], [seq[j] EXCEPT !.paused = TRUE],
                        [seq[j] EXCEPT !.resv = Need(j), !.paused = FALSE]}
        /\ phase = "Grow" /\ phase' = "Grow"
    BY <1>1, <1>4 DEF GrowFinished, GrowWithin, GrowGranted, GrowPauses, GrowNext, Growing,
       Unpaused, Paused, TypeOK
  <2> QED
    BY <1>1, <2>1 DEF SeqStates, FailedNow
<1>5. CASE BeginRound
  <2>1. seq'[j] = Classified(j) /\ phase = "Round"
    BY <1>1, <1>5 DEF BeginRound
  <2>2. seq[j].out = "Skipped"
    BY <1>1, <2>1 DEF Sound, Rounds
  <2>3. Classified(j).slot = seq[j].slot /\ Classified(j).processed = seq[j].processed
    BY <1>1 DEF Classified, SeqStates
  <2> QED
    BY <2>1, <2>2, <2>3 DEF FailedNow
<1>6. CASE PrefillSkips
  BY <1>6 DEF PrefillSkips, PrefillNext, FailedNow
<1>7. CASE PrefillDefers
  <2>1. /\ seq'[j] = seq[j] \/ (j = Current /\ seq'[j] = [seq[j] EXCEPT !.out = "Skipped"])
        /\ phase' = "Prefill" /\ phase = "Prefill" /\ seq[Current].out = "Prefill"
    BY <1>1, <1>7 DEF PrefillDefers, PrefillNext, Pending, Prefilling, TypeOK
  <2> QED
    BY <1>1, <2>1 DEF SeqStates, FailedNow
<1>8. CASE Ship
  <2>1. /\ seq'[j] = [seq[j] EXCEPT !.stopped = @ \/ seq[j].out = "Stopped", !.out = "Skipped"]
        /\ phase' = "Retire" /\ phase = "Ship"
    BY <1>1, <1>8, Zenon DEF Ship
  <2>2. /\ seq'[j].slot = seq[j].slot /\ seq'[j].processed = seq[j].processed
        /\ seq'[j].finished = seq[j].finished
    BY <1>1, <2>1 DEF SeqStates
  <2>3. seq[j].out = "Failed" => seq[j].finished
    BY <1>1 DEF Sound
  <2> QED
    BY <2>1, <2>2, <2>3 DEF FailedNow
<1> QED
  BY <1>2, <1>3, <1>4, <1>5, <1>6, <1>7, <1>8

(* Every step leaves every sequence its lane, in lockstep with it.         *)
LEMMA LanesStep ==
  ASSUME TypeOK, Placement, RequestsGood, LanesGood, [Next]_vars
  PROVE  LanesGood'
<1> USE DEF Lendings
<1>1. ASSUME active' = active, lane' = lane, loaded' = loaded, seq' = seq, phase' = phase
      PROVE  LanesGood'
  BY <1>1, LanesQuiet DEF FailedNow
<1>2. CASE Client \/ TakeSubmit \/ UNCHANGED vars
  BY <1>1, <1>2 DEF Client, Submit, Cancel, Control, TakeSubmit, Receive, vars
<1>3. CASE TakeLoad
  <2>1. phase = "Poll" /\ loaded' /\ active' = active /\ lane' = lane /\ seq' = seq /\ phase' = phase
    BY <1>3 DEF TakeLoad, Receive
  <2>2. CASE loaded
    <3>1. loaded' = loaded
      BY <1>3, <2>2 DEF TakeLoad
    <3> QED
      BY <1>1, <2>1, <3>1
  <2>3. CASE ~loaded
    <3>1. active = <<>>
      BY <2>1, <2>3 DEF LanesGood
    <3>2. Range(active') = {} /\ \A s \in Slots : lane'[s] = 0
      BY <2>1, <3>1, NoneActive DEF EmptyLanes
    <3> QED
      BY <2>1, <3>2 DEF LanesGood, OwnSlots
  <2> QED
    BY <2>2, <2>3
<1>4. CASE TakeUnload \/ TakeClearState
  <2>1. active' = active /\ seq' = seq /\ phase' = phase /\ phase = "Poll"
    BY <1>4 DEF TakeUnload, TakeClearState, Receive
  <2>2. CASE ~Drained
    BY <1>1, <1>4, <2>1, <2>2 DEF TakeUnload, TakeClearState, TypeOK
  <2>3. CASE Drained
    <3>1. active = <<>> /\ lane' = EmptyLanes
      BY <1>4, <2>3 DEF TakeUnload, TakeClearState, Drained
    <3>2. Range(active') = {} /\ \A s \in Slots : lane'[s] = 0
      BY <2>1, <3>1, EmptyRange DEF EmptyLanes
    <3> QED
      BY <2>1, <3>1, <3>2 DEF LanesGood, OwnSlots, EmptyLanes, Slots
  <2> QED
    BY <2>2, <2>3
<1>5. ASSUME NEW last, Exit(last) PROVE LanesGood'
  <2>1. active' = <<>> /\ ~loaded' /\ lane' = EmptyLanes /\ Range(active') = {}
    BY <1>5, EmptyRange DEF Exit
  <2> QED
    BY <2>1, LanesLost
<1>6. CASE EndPoll \/ SweepIdle \/ GrowEnds \/ RetireKeeps \/ RetireEnds \/ PrefillEnds \/ Respawn
  <2>1. active' = active /\ lane' = lane /\ loaded' = loaded /\ seq' = seq
    BY <1>6 DEF EndPoll, SweepIdle, GrowEnds, RetireKeeps, RetireEnds, PrefillEnds, Respawn
  <2>2. active # <<>> /\ phase \in Lendings => phase' \in Lendings
    BY <1>6 DEF EndPoll, SweepIdle, GrowEnds, RetireKeeps, RetireEnds, PrefillEnds, Respawn, Retiring
  <2>3. ASSUME NEW j \in Range(active), FailedNow(j) PROVE FailedNow(j)'
    <3>1. CASE RetireEnds
      <4>1. active \in Seq(Jobs) /\ Len(active) \in Nat /\ phase = "Retire" /\ cursor > Len(active)
        BY <3>1, LenProperties DEF RetireEnds, TypeOK
      <4>2. PICK i \in 1 .. Len(active) : j = active[i]
        BY <4>1, SeqMembers
      <4>3. ~seq[j].finished
        BY <4>1, <4>2 DEF RequestsGood, Live, TypeOK
      <4>4. Sound(j, seq[j], phase)
        BY ActiveIs
      <4> QED
        BY <2>3, <4>3, <4>4 DEF FailedNow, Sound
    <3>2. CASE ~RetireEnds
      BY <1>6, <2>1, <2>3, <3>2 DEF EndPoll, SweepIdle, GrowEnds, RetireKeeps, PrefillEnds, Respawn,
         FailedNow
    <3> QED
      BY <3>1, <3>2
  <2> QED
    BY <2>1, <2>2, <2>3, LanesQuiet
<1>7. CASE ResumeStops \/ AdmitStops \/ GrantSkipped \/ RejectCancelled \/ RejectFailed
           \/ RejectTooLarge
  <2>1. active' = active /\ seq' = seq
    BY <1>7 DEF ResumeStops, AdmitStops, GrantSkipped, RejectCancelled, RejectFailed, RejectTooLarge,
       Reject
  <2>2. phase \in Lendings /\ phase' \in Lendings /\ phase \notin {"Retire"} /\ phase' # "Retire"
    BY <1>7 DEF ResumeStops, AdmitStops, GrantSkipped, RejectCancelled, RejectFailed, RejectTooLarge,
       Reject, Admissible
  <2>3. \/ lane' = lane /\ loaded' = loaded
        \/ Borrow /\ lane' = lane
        \/ ~loaded' /\ lane' = EmptyLanes
    BY <1>7 DEF ResumeStops, AdmitStops, GrantSkipped, RejectCancelled, RejectFailed, RejectTooLarge,
       Reject, BorrowFails
  <2>4. \A j \in Range(active) : FailedNow(j) => FailedNow(j)'
    BY <2>1, <2>2 DEF FailedNow
  <2> QED
    BY <2>1, <2>2, <2>3, <2>4, LanesQuiet, LanesLent, LanesLost
<1>8. CASE ResumeOne
  <2>1. /\ resume # <<>> /\ Len(active) < MaxSlots /\ Enter(Last(resume)) /\ phase' = phase
    BY <1>8 DEF ResumeOne, Resumable
  <2>2. Last(resume) \in Range(resume) /\ Last(resume) \in Jobs
    BY <2>1, Popped, FrontLast DEF TypeOK
  <2> QED
    BY <2>1, <2>2, LanesEntered DEF Placement
<1>9. CASE AdmitOne
  <2>1. /\ queue # <<>> /\ Len(active) < MaxSlots /\ Enter(Head(queue)) /\ phase' = phase
    BY <1>9 DEF AdmitOne, Admissible
  <2>2. Head(queue) \in Range(queue) /\ Head(queue) \in Jobs
    BY <2>1, Popped, HeadTailProperties DEF TypeOK
  <2> QED
    BY <2>1, <2>2, LanesEntered DEF Placement
<1>10. CASE SweepCancelled \/ GrowFinished \/ GrowWithin \/ GrowGranted \/ GrowPauses
            \/ PrefillSkips \/ PrefillDefers \/ Ship
  <2>1. active' = active /\ lane' = lane /\ loaded' = loaded
    BY <1>10, ZenonT(60) DEF SweepCancelled, GrowFinished, GrowWithin, GrowGranted, GrowPauses, GrowNext,
       PrefillSkips, PrefillDefers, PrefillNext, Ship
  <2>2. phase \in Lendings => phase' \in Lendings
    BY <1>10 DEF SweepCancelled, GrowFinished, GrowWithin, GrowGranted, GrowPauses, GrowNext, Growing,
       PrefillSkips, PrefillDefers, PrefillNext, Prefilling, Pending, Ship
  <2> QED
    BY <1>10, <2>1, <2>2, RecordsStay, LanesQuiet
<1>11. CASE TopUpSenior \/ BeginRound
  <2>1. active' = active /\ lane' = lane /\ Borrow
    BY <1>11 DEF TopUpSenior, BeginRound
  <2> QED
    BY <1>11, <2>1, RecordsStay, LanesLent
<1>12. CASE GrowEvicts
  <2>1. PICK v \in 1 .. Len(active) :
          /\ active' = RemoveAt(active, v) /\ lane' = Released(active[v])
          /\ seq' = [seq EXCEPT ![active[v]] = [Blank EXCEPT !.generated = seq[active[v]].generated]]
    BY <1>12 DEF GrowEvicts
  <2>2. loaded' = loaded /\ phase' = phase
    BY <1>12 DEF GrowEvicts
  <2>3. \A k \in Range(active) : k # active[v] => seq'[k] = seq[k]
    BY <2>1, SeqMembers DEF TypeOK
  <2> QED
    BY <2>1, <2>2, <2>3, LanesLeft
<1>13. CASE RetireOne
  <2>1. /\ cursor \in 1 .. Len(active)
        /\ active' = RemoveAt(active, cursor) /\ lane' = Released(active[cursor])
        /\ seq' = [seq EXCEPT ![active[cursor]] = Blank]
        /\ loaded' = loaded /\ phase' = phase
    BY <1>13, CurrentType DEF RetireOne, Retiring, Current
  <2>2. \A k \in Range(active) : k # active[cursor] => seq'[k] = seq[k]
    BY <2>1, SeqMembers DEF TypeOK
  <2> QED
    BY <2>1, <2>2, LanesLeft
<1>14. CASE RoundFails
  <2>1. active' = <<>> /\ ~loaded' /\ lane' = EmptyLanes /\ Range(active') = {}
    BY <1>14, EmptyRange DEF RoundFails, BorrowFails
  <2> QED
    BY <2>1, LanesLost
<1>15. CASE TakeShutdown \/ Panic
  BY <1>5, <1>15 DEF TakeShutdown, Panic
<1>16. CASE PrefillChunk \/ PrefillLast \/ PrefillFails \/ DecodeRows \/ DecodeFails
  BY <1>16, PrefillLanes, DecodeLanes
<1> QED
  BY <1>2, <1>3, <1>4, <1>6, <1>7, <1>8, <1>9, <1>10, <1>11, <1>12, <1>13, <1>14, <1>15, <1>16
     DEF Next, Worker, Poll, Admit, GrantGrowth, StepRound, Deliver

(* A fresh worker has no batch and no lanes in use.                        *)
LEMMA InitLanes == Init => LanesGood
BY EmptyRange DEF Init, LanesGood, OwnSlots, EmptyLanes

LaneInv == RequestInv /\ LanesGood

LEMMA LanesHold == Spec => []LaneInv
<1>1. RequestInv /\ LanesGood /\ [Next]_vars => LanesGood'
  BY LanesStep DEF RequestInv, Inv
<1> QED
  BY <1>1, InitLanes, RequestsHold, PTL DEF Spec, LaneInv

(* A lane belongs to one sequence and holds exactly the tokens it has      *)
(* processed, as LlamaDecoder::prefill asserts; nobody's lane is empty.    *)
THEOREM LanesAlwaysInStep == Spec => []LaneLockstep
<1>1. LaneInv => LaneLockstep
  BY DEF LaneInv, LanesGood, OwnSlots, LaneLockstep
<1> QED
  BY <1>1, LanesHold, PTL

-------------------------------------------------------------------------------
(* What a step of each phase can be.                                       *)

(* Clients and idling touch nothing of the round.                          *)
Untouched == UNCHANGED <<active, resume, seq, loaded, lane, phase, cursor, budget>>

Growth == GrowFinished \/ GrowWithin \/ GrowGranted \/ GrowEvicts \/ GrowPauses \/ GrowEnds
Push == PrefillChunk \/ PrefillLast \/ PrefillFails
Prefills == PrefillSkips \/ PrefillDefers \/ Push \/ PrefillEnds

(* The steps that lead into the growth pass and the round behind it.       *)
LEMMA IntoGrowth ==
  ASSUME [Next]_vars, phase' \in {"Grow", "Round"}
  PROVE  Untouched \/ GrantSkipped \/ TopUpSenior \/ Growth
<1>1. CASE Client \/ UNCHANGED vars
  BY <1>1 DEF Client, Submit, Cancel, Control, vars, Untouched
<1>2. CASE Poll \/ Panic \/ Respawn
  BY <1>2 DEF Poll, TakeSubmit, TakeLoad, TakeUnload, TakeClearState, TakeShutdown, EndPoll,
     Receive, Panic, Exit, Respawn
<1>3. CASE Admit
  BY <1>3 DEF Admit, ResumeStops, ResumeOne, RejectCancelled, RejectFailed, RejectTooLarge, AdmitOne,
     AdmitStops, Reject, Admissible
<1>4. CASE SweepIdle \/ SweepCancelled
  BY <1>4, ZenonT(60) DEF SweepIdle, SweepCancelled
<1>5. CASE StepRound \/ Deliver
  BY <1>5 DEF StepRound, RoundFails, BeginRound, PrefillSkips, PrefillDefers, PrefillChunk,
     PrefillLast, PrefillFails, PrefillEnds, PrefillNext, Prefilling, Pending, DecodeRows, DecodeFails,
     Deliver, Ship, RetireOne, RetireKeeps, RetireEnds, Retiring
<1> QED
  BY <1>1, <1>2, <1>3, <1>4, <1>5 DEF Next, Worker, GrantGrowth, Growth

(* The steps of a running round.                                           *)
LEMMA IntoRound ==
  ASSUME [Next]_vars, phase' \in Rounds
  PROVE  Untouched \/ BeginRound \/ Prefills \/ DecodeRows \/ DecodeFails
<1> USE DEF Rounds
<1>1. CASE Client \/ UNCHANGED vars
  BY <1>1 DEF Client, Submit, Cancel, Control, vars, Untouched
<1>2. CASE Poll \/ Panic \/ Respawn
  BY <1>2 DEF Poll, TakeSubmit, TakeLoad, TakeUnload, TakeClearState, TakeShutdown, EndPoll,
     Receive, Panic, Exit, Respawn
<1>3. CASE Admit
  BY <1>3 DEF Admit, ResumeStops, ResumeOne, RejectCancelled, RejectFailed, RejectTooLarge, AdmitOne,
     AdmitStops, Reject, Admissible
<1>4. CASE GrantGrowth
  BY <1>4 DEF GrantGrowth, SweepIdle, SweepCancelled, GrantSkipped, TopUpSenior, GrowFinished,
     GrowWithin, GrowGranted, GrowEvicts, GrowPauses, GrowEnds, GrowNext, Growing
<1>5. CASE RoundFails \/ Deliver
  BY <1>5 DEF RoundFails, Deliver, Ship, RetireOne, RetireKeeps, RetireEnds, Retiring
<1> QED
  BY <1>1, <1>2, <1>3, <1>4, <1>5 DEF Next, Worker, StepRound, Prefills, Push

-------------------------------------------------------------------------------
(* Coverage: no lane outgrows the blocks its sequence reserved.            *)

LEMMA BlocksForMono ==
  ASSUME NEW m \in Nat, NEW n \in Nat, m <= n
  PROVE  BlocksFor(m) <= BlocksFor(n)
BY KvBudgetAssumption, Z3 DEF BlocksFor

LEMMA BlocksForZero == BlocksFor(0) = 0
BY KvBudgetAssumption, Z3 DEF BlocksFor

Binds == TotalBlocks # UsizeMax
Ready(j) == seq[j].finished \/ seq[j].paused \/ Need(j) <= seq[j].resv

LanesFit == \A s \in Slots : lane[s] <= Ctx
LanesCovered == Binds => \A j \in Range(active) : BlocksFor(lane[seq[j].slot]) <= seq[j].resv
RunsCovered ==
  Binds /\ phase \in Rounds =>
    \A j \in Range(active) :
      seq[j].out \in {"Prefill", "Decode"} => BlocksFor(Tokens(j)) <= seq[j].resv
GrantsCover ==
  Binds => \A i \in 1 .. Len(active) :
             (phase = "Grow" /\ i < cursor) \/ (phase = "Round" /\ loaded) => Ready(active[i])

CoveredGood == LanesFit /\ LanesCovered /\ RunsCovered /\ GrantsCover

(* What a step makes of the lanes: it leaves them, empties some, pushes    *)
(* the prompt at the cursor or advances the decoding rows.                 *)
Emptied(S) == [s \in Slots |-> IF s \in S THEN 0 ELSE lane[s]]

LEMMA LaneMoves ==
  ASSUME TypeOK, [Next]_vars
  PROVE  \/ \E S \in SUBSET Slots : lane' = Emptied(S)
         \/ Push
         \/ (DecodeRows \/ DecodeFails) /\ lane' = LanesAdvanced
<1>0. lane \in [Slots -> Nat]
  BY DEF TypeOK
<1>1. ASSUME lane' = lane PROVE \E S \in SUBSET Slots : lane' = Emptied(S)
  <2>1. lane' = Emptied({})
    BY <1>0, <1>1 DEF Emptied
  <2> QED
    BY <2>1
<1>2. ASSUME lane' = EmptyLanes PROVE \E S \in SUBSET Slots : lane' = Emptied(S)
  <2>1. lane' = Emptied(Slots)
    BY <1>2 DEF Emptied, EmptyLanes
  <2> QED
    BY <2>1
<1>3. ASSUME NEW s0, lane' = [lane EXCEPT ![s0] = 0] PROVE \E S \in SUBSET Slots : lane' = Emptied(S)
  <2>1. lane' = Emptied({s0} \cap Slots)
    BY <1>0, <1>3 DEF Emptied
  <2> QED
    BY <2>1
<1>4. CASE Client \/ UNCHANGED vars
  BY <1>1, <1>4 DEF Client, Submit, Cancel, Control, vars
<1>5. CASE Poll \/ Panic \/ Respawn
  BY <1>1, <1>2, <1>5 DEF Poll, TakeSubmit, TakeLoad, TakeUnload, TakeClearState, TakeShutdown,
     EndPoll, Panic, Exit, Respawn
<1>6. CASE ResumeOne \/ AdmitOne
  BY <1>3, <1>6 DEF ResumeOne, AdmitOne, Enter
<1>7. CASE ResumeStops \/ RejectCancelled \/ RejectFailed \/ RejectTooLarge \/ AdmitStops
           \/ SweepIdle \/ SweepCancelled \/ GrantSkipped \/ TopUpSenior \/ RoundFails
  BY <1>1, <1>2, <1>7 DEF ResumeStops, RejectCancelled, RejectFailed, RejectTooLarge, AdmitStops,
     SweepIdle, SweepCancelled, GrantSkipped, TopUpSenior, RoundFails, BorrowFails
<1>8. CASE GrowEvicts \/ RetireOne
  BY <1>3, <1>8 DEF GrowEvicts, RetireOne, Released
<1>9. CASE GrowFinished \/ GrowWithin \/ GrowGranted \/ GrowPauses \/ GrowEnds
  BY <1>1, <1>9 DEF GrowFinished, GrowWithin, GrowGranted, GrowPauses, GrowNext, GrowEnds
<1>10. CASE BeginRound \/ PrefillSkips \/ PrefillDefers \/ PrefillEnds \/ Ship
            \/ RetireKeeps \/ RetireEnds
  BY <1>1, <1>10 DEF BeginRound, PrefillSkips, PrefillDefers, PrefillEnds, Ship, RetireKeeps,
     RetireEnds
<1>11. CASE DecodeRows \/ DecodeFails
  BY <1>1, <1>11 DEF DecodeRows, DecodeFails
<1> QED
  BY <1>4, <1>5, <1>6, <1>7, <1>8, <1>9, <1>10, <1>11
     DEF Next, Worker, Admit, GrantGrowth, StepRound, Deliver, Push

(* A sequence about to run is in lockstep with its lane.                   *)
LEMMA RunnerLane ==
  ASSUME TypeOK, Placement, RequestsGood, LanesGood, NEW j \in Range(active),
         seq[j].out \in {"Prefill", "Decode"}
  PROVE  /\ j \in Jobs /\ seq[j].slot \in Slots /\ loaded
         /\ lane[seq[j].slot] = seq[j].processed /\ seq[j].processed \in Nat
         /\ Tokens(j) \in Nat /\ Tokens(j) <= Ctx /\ seq[j].processed < Tokens(j)
         /\ seq[j].out = "Decode" => Tokens(j) = seq[j].processed + 1
         /\ phase \in Rounds /\ ~seq[j].finished
<1>1. j \in Jobs /\ Sound(j, seq[j], phase)
  BY ActiveIs
<1>2. /\ ~seq[j].finished /\ phase \in Rounds
      /\ Prompt[j] + seq[j].generated <= Ctx
      /\ seq[j].processed < Prompt[j] + seq[j].generated
      /\ seq[j].out = "Decode" => seq[j].processed + 1 = Prompt[j] + seq[j].generated
  BY <1>1 DEF Sound
<1>3. /\ Tokens(j) = Prompt[j] + seq[j].generated /\ seq[j].processed \in Nat
      /\ Prompt[j] \in Nat /\ seq[j].generated \in Nat
  BY <1>1, NumbersAre
<1>4. loaded
  <2>1. active # <<>>
    BY EmptyRange
  <2> QED
    BY <1>2, <2>1 DEF LanesGood, Lendings, Rounds
<1>5. lane[seq[j].slot] = seq[j].processed /\ seq[j].slot \in Slots
  BY <1>2, <1>4 DEF LanesGood, OwnSlots, FailedNow, Rounds
<1> QED
  BY <1>1, <1>2, <1>3, <1>4, <1>5

(* Nobody who stays in the batch changes lanes or gives back blocks, and   *)
(* whoever joins starts in an emptied lane with what it was promised.      *)
LEMMA MembersKept ==
  ASSUME TypeOK, ReservationsFit, Placement, RequestsGood, [Next]_vars, NEW j \in Range(active')
  PROVE  \/ /\ j \in Range(active) /\ seq'[j].slot = seq[j].slot
            /\ seq[j].resv \in Nat /\ seq'[j].resv \in Nat /\ seq'[j].resv >= seq[j].resv
         \/ /\ ResumeOne \/ AdmitOne
            /\ j \notin Range(active) /\ Range(active') = Range(active) \cup {j}
            /\ seq'[j].resv = Guaranteed(j) /\ seq'[j].resv \in Nat
            /\ seq'[j].slot \in Slots /\ lane'[seq'[j].slot] = 0 /\ ~seq'[j].paused
<1>0. /\ active \in Seq(Jobs) /\ Range(active) \subseteq Jobs
      /\ \A k \in Jobs : seq[k] \in SeqStates /\ seq[k].resv \in Nat
  BY SeqMembers DEF TypeOK, SeqStates
<1>1. ASSUME Range(active') \subseteq Range(active), seq'[j] = seq[j]
      PROVE  /\ j \in Range(active) /\ seq'[j].slot = seq[j].slot
             /\ seq[j].resv \in Nat /\ seq'[j].resv \in Nat /\ seq'[j].resv >= seq[j].resv
  BY <1>0, <1>1
<1>2. ASSUME j \in Range(active), seq'[j].slot = seq[j].slot, seq'[j].resv = seq[j].resv
      PROVE  /\ j \in Range(active) /\ seq'[j].slot = seq[j].slot
             /\ seq[j].resv \in Nat /\ seq'[j].resv \in Nat /\ seq'[j].resv >= seq[j].resv
  BY <1>0, <1>2
<1>3. CASE Client \/ Poll \/ Panic \/ Respawn \/ UNCHANGED vars
  <2>1. CASE TakeShutdown \/ Panic
    BY <2>1, EmptyRange DEF TakeShutdown, Panic, Exit
  <2>2. CASE ~(TakeShutdown \/ Panic)
    BY <1>1, <1>3, <2>2 DEF Client, Submit, Cancel, Control, Poll, TakeSubmit, TakeLoad, TakeUnload,
       TakeClearState, EndPoll, Respawn, vars
  <2> QED
    BY <2>1, <2>2
<1>4. ASSUME NEW k \in Jobs, k \notin Range(active), Enter(k), Len(active) < MaxSlots,
             ResumeOne \/ AdmitOne
      PROVE  \/ /\ j \in Range(active) /\ seq'[j].slot = seq[j].slot
                /\ seq[j].resv \in Nat /\ seq'[j].resv \in Nat /\ seq'[j].resv >= seq[j].resv
             \/ /\ ResumeOne \/ AdmitOne
                /\ j \notin Range(active) /\ Range(active') = Range(active) \cup {j}
                /\ seq'[j].resv = Guaranteed(j) /\ seq'[j].resv \in Nat
                /\ seq'[j].slot \in Slots /\ lane'[seq'[j].slot] = 0 /\ ~seq'[j].paused
  <2>1. Range(active') = Range(active) \cup {k}
    BY <1>0, <1>4, Pushed DEF Enter
  <2>2. CASE j = k
    <3>1. /\ seq'[j].resv = Guaranteed(j) /\ seq'[j].slot = LowestFreeSlot /\ ~seq'[j].paused
          /\ lane' = [lane EXCEPT ![LowestFreeSlot] = 0]
      BY <1>4, <2>2 DEF Enter, Entering, Blank, TypeOK
    <3>2. LowestFreeSlot \in Slots /\ lane \in [Slots -> Nat] /\ Guaranteed(j) \in Nat
      BY <1>4, <2>2, SlotAvailable, ChargesNat DEF TypeOK
    <3> QED
      BY <1>4, <2>1, <2>2, <3>1, <3>2
  <2>3. CASE j # k
    <3>1. j \in Range(active) /\ seq'[j] = seq[j]
      BY <1>0, <1>4, <2>1, <2>3 DEF Enter, TypeOK
    <3> QED
      BY <1>2, <3>1
  <2> QED
    BY <2>2, <2>3
<1>5. CASE ResumeOne
  <2>1. /\ resume # <<>> /\ Len(active) < MaxSlots /\ Enter(Last(resume))
    BY <1>5 DEF ResumeOne, Resumable
  <2>2. Last(resume) \in Range(resume) /\ Last(resume) \in Jobs
    BY <2>1, Popped, FrontLast DEF TypeOK
  <2> QED
    BY <1>4, <1>5, <2>1, <2>2 DEF Placement
<1>6. CASE AdmitOne
  <2>1. /\ queue # <<>> /\ Len(active) < MaxSlots /\ Enter(Head(queue))
    BY <1>6 DEF AdmitOne, Admissible
  <2>2. Head(queue) \in Range(queue) /\ Head(queue) \in Jobs
    BY <2>1, Popped, HeadTailProperties DEF TypeOK
  <2> QED
    BY <1>4, <1>6, <2>1, <2>2 DEF Placement
<1>7. CASE ResumeStops \/ RejectCancelled \/ RejectFailed \/ RejectTooLarge \/ AdmitStops
           \/ SweepIdle \/ GrantSkipped \/ GrowEnds \/ PrefillEnds \/ RetireKeeps \/ RetireEnds
  BY <1>1, <1>7 DEF ResumeStops, RejectCancelled, RejectFailed, RejectTooLarge, AdmitStops, Reject,
     SweepIdle, GrantSkipped, GrowEnds, PrefillEnds, RetireKeeps, RetireEnds
<1>8. CASE SweepCancelled \/ GrowFinished \/ GrowWithin \/ GrowPauses \/ BeginRound
           \/ PrefillSkips \/ PrefillDefers \/ Ship
  <2>1. active' = active
    BY <1>8 DEF SweepCancelled, GrowFinished, GrowWithin, GrowPauses, GrowNext, BeginRound,
       PrefillSkips, PrefillDefers, PrefillNext, Ship
  <2>2. j \in Jobs /\ seq[j] \in SeqStates /\ j \in Range(active)
    BY <1>0, <2>1
  <2>3. seq'[j].slot = seq[j].slot
    BY <1>8, <2>2, RecordsStay
  <2>4. CASE SweepCancelled
    <3>1. seq'[j] \in {seq[j], [seq[j] EXCEPT !.finished = TRUE, !.cancelled = TRUE]}
      BY <2>2, <2>4 DEF SweepCancelled
    <3> QED
      BY <1>2, <2>2, <3>1 DEF SeqStates
  <2>5. CASE GrowFinished \/ GrowWithin \/ GrowPauses \/ PrefillSkips \/ PrefillDefers
    <3>1. seq'[j] \in {seq[j], [seq[j] EXCEPT !.paused = FALSE], [seq[j] EXCEPT !.paused = TRUE],
                       [seq[j] EXCEPT !.out = "Skipped"]}
      BY <2>2, <2>5 DEF GrowFinished, GrowWithin, GrowPauses, Unpaused, Paused, PrefillSkips,
         PrefillDefers, TypeOK
    <3> QED
      BY <1>2, <2>2, <3>1 DEF SeqStates
  <2>6. CASE BeginRound
    <3>1. seq'[j] = Classified(j)
      BY <2>2, <2>6 DEF BeginRound
    <3>2. Classified(j).slot = seq[j].slot /\ Classified(j).resv = seq[j].resv
      BY <2>2 DEF Classified, SeqStates
    <3> QED
      BY <1>2, <2>2, <3>1, <3>2
  <2>7. CASE Ship
    <3>1. seq'[j] = [seq[j] EXCEPT !.stopped = @ \/ seq[j].out = "Stopped", !.out = "Skipped"]
      BY <2>2, <2>7, Zenon DEF Ship
    <3>2. seq'[j].resv = seq[j].resv
      BY <2>2, <3>1 DEF SeqStates
    <3> QED
      BY <1>2, <2>2, <2>3, <3>2
  <2> QED
    BY <1>8, <2>4, <2>5, <2>6, <2>7
<1>9. CASE TopUpSenior
  <2>1. /\ active' = active
        /\ seq'[j] = seq[j] \/ (Worst(j) > seq[j].resv
                                /\ seq'[j] = [seq[j] EXCEPT !.resv = @ + TopUp(j)])
    BY <1>0, <1>9 DEF TopUpSenior
  <2>2. j \in Jobs /\ seq[j] \in SeqStates /\ j \in Range(active)
    BY <1>0, <2>1
  <2>3. CASE seq'[j] = seq[j]
    BY <1>1, <2>1, <2>3
  <2>4. CASE Worst(j) > seq[j].resv /\ seq'[j] = [seq[j] EXCEPT !.resv = @ + TopUp(j)]
    <3>1. TopUp(j) \in Nat
      BY <2>2, <2>4, TopUpNat
    <3>2. seq'[j].slot = seq[j].slot /\ seq'[j].resv = seq[j].resv + TopUp(j)
      BY <2>2, <2>4 DEF SeqStates
    <3> QED
      BY <1>0, <2>2, <3>1, <3>2
  <2> QED
    BY <2>1, <2>3, <2>4
<1>10. CASE GrowGranted
  <2>1. /\ active' = active /\ Short(Current)
        /\ seq' = [seq EXCEPT ![Current].resv = Need(Current), ![Current].paused = FALSE]
    BY <1>10 DEF GrowGranted, GrowNext
  <2>2. j \in Jobs /\ seq[j] \in SeqStates /\ j \in Range(active)
    BY <1>0, <2>1
  <2>3. CASE j # Current
    <3>1. seq'[j] = seq[j]
      BY <2>1, <2>2, <2>3 DEF TypeOK
    <3> QED
      BY <1>1, <2>1, <3>1
  <2>4. CASE j = Current
    <3>1. seq'[j] = [seq[j] EXCEPT !.resv = Need(j), !.paused = FALSE]
      BY <2>1, <2>2, <2>4 DEF TypeOK
    <3>2. seq'[j].slot = seq[j].slot /\ seq'[j].resv = Need(j)
      BY <2>2, <3>1 DEF SeqStates
    <3>3. Need(j) > seq[j].resv
      BY <2>1, <2>4 DEF Short
    <3> QED
      BY <1>0, <2>2, <3>2, <3>3, ChargesNat
  <2> QED
    BY <2>3, <2>4
<1>11. CASE GrowEvicts \/ RetireOne
  <2>1. PICK v \in 1 .. Len(active) :
          /\ active' = RemoveAt(active, v)
          /\ \E r : seq' = [seq EXCEPT ![active[v]] = r]
    BY <1>11, CurrentType DEF GrowEvicts, RetireOne, Retiring, Current
  <2>2. Range(active') = Range(active) \ {active[v]}
    BY <1>0, <2>1, Removed DEF Placement
  <2>3. j \in Range(active) /\ j # active[v] /\ j \in Jobs
    BY <1>0, <2>2
  <2>4. seq'[j] = seq[j]
    BY <2>1, <2>3 DEF TypeOK
  <2> QED
    BY <1>1, <2>2, <2>4
<1>12. CASE RoundFails
  BY <1>12, EmptyRange DEF RoundFails
<1>13. CASE PrefillChunk \/ PrefillLast \/ PrefillFails
  <2>1. /\ active' = active /\ Current \in Jobs
        /\ \A k \in Jobs : k # Current => seq'[k] = seq[k]
        /\ seq'[Current].slot = seq[Current].slot /\ seq'[Current].resv = seq[Current].resv
    BY <1>13, PushIs, PendingIs
  <2> QED
    BY <1>0, <1>1, <1>2, <2>1
<1>14. CASE DecodeRows \/ DecodeFails
  <2>1. /\ active' = active /\ \A k \in Jobs : k \notin Rows => seq'[k] = seq[k]
        /\ \A k \in Rows : seq'[k].slot = seq[k].slot /\ seq'[k].resv = seq[k].resv
    BY <1>14, DecodeIs
  <2> QED
    BY <1>0, <1>1, <1>2, <2>1
<1> QED
  BY <1>3, <1>5, <1>6, <1>7, <1>8, <1>9, <1>10, <1>11, <1>12, <1>13, <1>14
     DEF Next, Worker, Admit, GrantGrowth, StepRound, Deliver

(* What a push makes of its lane, and a fused decode of its rows' lanes.   *)
LEMMA PushedLane ==
  ASSUME TypeOK, Placement, RequestsGood, LanesGood, Push
  PROVE  /\ Current \in Range(active) /\ Current \in Jobs /\ seq[Current].slot \in Slots
         /\ \E n \in 1 .. Ctx : /\ lane[seq[Current].slot] + n <= Tokens(Current)
                                /\ lane' \in {lane, [lane EXCEPT ![seq[Current].slot] = @ + n]}
         /\ Tokens(Current) \in Nat /\ Tokens(Current) <= Ctx /\ seq[Current].out = "Prefill"
         /\ phase = "Prefill"
<1> DEFINE j == Current
           g == Grant(j)
<1>1. /\ j \in Range(active) /\ seq[j].out = "Prefill" /\ phase = "Prefill"
      /\ Unprocessed(j) = Tokens(j) - seq[j].processed
      /\ g \in 1 .. Unprocessed(j)
      /\ lane' \in {lane, [lane EXCEPT ![seq[j].slot] = seq[j].processed + g]}
  BY PendingIs, PushIs DEF Push
<1>2. /\ j \in Jobs /\ seq[j].slot \in Slots
      /\ lane[seq[j].slot] = seq[j].processed /\ seq[j].processed \in Nat
      /\ Tokens(j) \in Nat /\ Tokens(j) <= Ctx
  BY <1>1, RunnerLane
<1>3. lane \in [Slots -> Nat] /\ Ctx \in Nat
  BY WorkerAssumption DEF TypeOK
<1> HIDE DEF j, g
<1>4. /\ g \in 1 .. Ctx /\ lane[seq[j].slot] + g <= Tokens(j)
      /\ lane' \in {lane, [lane EXCEPT ![seq[j].slot] = @ + g]}
  BY <1>1, <1>2, <1>3
<1> QED
  BY <1>1, <1>2, <1>4 DEF j

LEMMA RowLanes ==
  ASSUME TypeOK, Placement, RequestsGood, LanesGood
  PROVE  /\ \A j \in Rows : /\ j \in Range(active) /\ seq[j].slot \in Slots
                            /\ LanesAdvanced[seq[j].slot] = lane[seq[j].slot] + 1
                            /\ LanesAdvanced[seq[j].slot] = Tokens(j) /\ Tokens(j) <= Ctx
         /\ \A s \in Slots : (\A j \in Rows : seq[j].slot # s) => LanesAdvanced[s] = lane[s]
<1>1. ASSUME NEW j \in Rows
      PROVE  /\ j \in Range(active) /\ seq[j].slot \in Slots
             /\ LanesAdvanced[seq[j].slot] = lane[seq[j].slot] + 1
             /\ LanesAdvanced[seq[j].slot] = Tokens(j) /\ Tokens(j) <= Ctx
  <2>1. j \in Range(active) /\ seq[j].out = "Decode"
    BY DEF Rows
  <2>2. /\ seq[j].slot \in Slots /\ lane[seq[j].slot] = seq[j].processed
        /\ Tokens(j) = seq[j].processed + 1 /\ Tokens(j) <= Ctx
    BY <2>1, RunnerLane
  <2>3. LanesAdvanced[seq[j].slot] = lane[seq[j].slot] + 1
    BY <2>2 DEF LanesAdvanced
  <2> QED
    BY <2>1, <2>2, <2>3
<1>2. \A s \in Slots : (\A j \in Rows : seq[j].slot # s) => LanesAdvanced[s] = lane[s]
  BY DEF LanesAdvanced
<1> QED
  BY <1>1, <1>2

(* No lane passes the context window.                                      *)
LEMMA LanesFitStep ==
  ASSUME TypeOK, Placement, RequestsGood, LanesGood, LanesFit, [Next]_vars
  PROVE  LanesFit'
<1>0. lane \in [Slots -> Nat] /\ Ctx \in Nat
  BY WorkerAssumption DEF TypeOK
<1>1. ASSUME NEW S \in SUBSET Slots, lane' = Emptied(S) PROVE LanesFit'
  BY <1>0, <1>1 DEF LanesFit, Emptied, Slots
<1>2. CASE Push
  <2>1. PICK n \in 1 .. Ctx :
          /\ lane[seq[Current].slot] + n <= Ctx
          /\ lane' \in {lane, [lane EXCEPT ![seq[Current].slot] = @ + n]}
    <3>1. PICK n \in 1 .. Ctx :
            /\ lane[seq[Current].slot] + n <= Tokens(Current)
            /\ lane' \in {lane, [lane EXCEPT ![seq[Current].slot] = @ + n]}
      BY <1>2, PushedLane
    <3>2. Tokens(Current) \in Nat /\ Tokens(Current) <= Ctx /\ seq[Current].slot \in Slots
      BY <1>2, PushedLane
    <3>3. lane[seq[Current].slot] + n <= Ctx
      BY <1>0, <3>1, <3>2
    <3> QED
      BY <3>1, <3>3
  <2> QED
    BY <1>0, <2>1 DEF LanesFit, Slots
<1>3. CASE lane' = LanesAdvanced
  <2>1. \A s \in Slots : LanesAdvanced[s] <= Ctx
    BY RowLanes DEF LanesFit
  <2> QED
    BY <1>3, <2>1 DEF LanesFit, Slots
<1> QED
  BY <1>1, <1>2, <1>3, LaneMoves

(* No lane outgrows its sequence's reservation.                            *)
LEMMA LanesCoveredStep ==
  ASSUME TypeOK, ReservationsFit, Placement, RequestsGood, LanesGood, LanesCovered, RunsCovered,
         [Next]_vars
  PROVE  LanesCovered'
<1> SUFFICES ASSUME Binds, NEW j \in Range(active')
             PROVE  BlocksFor(lane'[seq'[j].slot]) <= seq'[j].resv
  BY DEF LanesCovered, Binds
<1>0. lane \in [Slots -> Nat]
  BY DEF TypeOK
<1>1. CASE seq'[j].slot \in Slots /\ lane'[seq'[j].slot] = 0 /\ seq'[j].resv \in Nat
  BY <1>1, BlocksForZero
<1>2. ASSUME j \in Range(active), seq'[j].slot = seq[j].slot,
             seq[j].resv \in Nat, seq'[j].resv \in Nat, seq'[j].resv >= seq[j].resv
      PROVE  BlocksFor(lane'[seq'[j].slot]) <= seq'[j].resv
  <2> DEFINE s == seq[j].slot
  <2>1. /\ s \in Slots /\ BlocksFor(lane[s]) <= seq[j].resv
        /\ lane[s] \in Nat /\ BlocksFor(lane[s]) \in Nat
    BY <1>0, <1>2, BlocksForNat DEF LanesGood, OwnSlots, LanesCovered
  <2>2. SUFFICES BlocksFor(lane'[s]) \in Nat /\ BlocksFor(lane'[s]) <= seq[j].resv
    BY <1>2
  <2> HIDE DEF s
  <2>3. CASE lane'[s] \in {lane[s], 0}
    BY <1>2, <2>1, <2>3, BlocksForZero
  <2>4. ASSUME seq[j].out \in {"Prefill", "Decode"}, lane'[s] \in Nat, lane'[s] <= Tokens(j)
        PROVE  BlocksFor(lane'[s]) \in Nat /\ BlocksFor(lane'[s]) <= seq[j].resv
    <3>1. Tokens(j) \in Nat /\ phase \in Rounds
      BY <1>2, <2>4, RunnerLane
    <3>2. BlocksFor(Tokens(j)) <= seq[j].resv
      BY <1>2, <2>4, <3>1 DEF RunsCovered
    <3>3. /\ BlocksFor(lane'[s]) \in Nat /\ BlocksFor(Tokens(j)) \in Nat
          /\ BlocksFor(lane'[s]) <= BlocksFor(Tokens(j))
      BY <2>4, <3>1, BlocksForMono, BlocksForNat
    <3> QED
      BY <1>2, <3>2, <3>3
  <2>5. CASE \E S \in SUBSET Slots : lane' = Emptied(S)
    BY <2>1, <2>3, <2>5 DEF Emptied
  <2>6. CASE Push
    <3>1. PICK n \in 1 .. Ctx :
            /\ lane[seq[Current].slot] + n <= Tokens(Current)
            /\ lane' \in {lane, [lane EXCEPT ![seq[Current].slot] = @ + n]}
      BY <2>6, PushedLane
    <3>2. Current \in Range(active) /\ seq[Current].slot \in Slots /\ seq[Current].out = "Prefill"
      BY <2>6, PushedLane
    <3>3. CASE j = Current
      <4>1. lane'[s] = lane[s] \/ (lane'[s] \in Nat /\ lane'[s] <= Tokens(j))
        BY <1>0, <2>1, <3>1, <3>3 DEF s
      <4> QED
        BY <2>3, <2>4, <3>2, <3>3, <4>1
    <3>4. CASE j # Current
      <4>1. s # seq[Current].slot
        BY <1>2, <3>2, <3>4 DEF LanesGood, OwnSlots, s
      <4>2. lane'[s] = lane[s]
        BY <1>0, <2>1, <3>1, <4>1
      <4> QED
        BY <2>3, <4>2
    <3> QED
      BY <3>3, <3>4
  <2>7. CASE lane' = LanesAdvanced
    <3>1. CASE j \in Rows
      <4>1. lane'[s] = lane[s] + 1 /\ lane'[s] = Tokens(j) /\ seq[j].out = "Decode"
        BY <2>7, <3>1, RowLanes DEF s, Rows
      <4> QED
        BY <2>1, <2>4, <4>1
    <3>2. CASE j \notin Rows
      <4>1. \A k \in Rows : seq[k].slot # s
        BY <1>2, <3>2, RowLanes DEF LanesGood, OwnSlots, s
      <4>2. lane'[s] = lane[s]
        BY <2>1, <2>7, <4>1, RowLanes
      <4> QED
        BY <2>3, <4>2
    <3> QED
      BY <3>1, <3>2
  <2> QED
    BY <2>5, <2>6, <2>7, LaneMoves
<1> QED
  BY <1>1, <1>2, MembersKept

(* Who runs was granted the blocks its tokens need.                        *)
LEMMA RunsCoveredStep ==
  ASSUME TypeOK, Placement, RequestsGood, LanesGood, RunsCovered, GrantsCover, [Next]_vars
  PROVE  RunsCovered'
<1> SUFFICES ASSUME Binds, phase' \in Rounds, NEW j \in Range(active'),
                    seq'[j].out \in {"Prefill", "Decode"}
             PROVE  BlocksFor(Tokens(j)') <= seq'[j].resv
  BY DEF RunsCovered, Binds
<1>0. active \in Seq(Jobs) /\ Range(active) \subseteq Jobs /\ \A k \in Jobs : seq[k] \in SeqStates
  BY SeqMembers DEF TypeOK
<1>1. ASSUME phase \in Rounds, active' = active, seq'[j] = seq[j]
      PROVE  BlocksFor(Tokens(j)') <= seq'[j].resv
  BY <1>1 DEF RunsCovered, Tokens
<1>2. CASE Untouched
  BY <1>1, <1>2 DEF Untouched
<1>3. CASE BeginRound
  <2>1. /\ j \in Range(active) /\ j \in Jobs /\ seq[j] \in SeqStates /\ seq'[j] = Classified(j)
        /\ phase = "Round" /\ (loaded \/ active = <<>>)
    BY <1>0, <1>3 DEF BeginRound, Borrow
  <2>2. loaded
    BY <2>1, EmptyRange
  <2>3. PICK i \in 1 .. Len(active) : j = active[i]
    BY <1>0, <2>1, SeqMembers
  <2>4. Ready(j)
    BY <2>1, <2>2, <2>3 DEF GrantsCover
  <2>5. /\ ~seq[j].finished /\ ~seq[j].paused /\ Tokens(j) <= Ctx
        /\ seq'[j].generated = seq[j].generated /\ seq'[j].resv = seq[j].resv
    <3>1. Classified(j).generated = seq[j].generated /\ Classified(j).resv = seq[j].resv
      BY <2>1 DEF Classified, SeqStates
    <3>2. Tokens(j) \in Nat /\ Ctx \in Nat
      BY <2>1, ChargesNat, WorkerAssumption
    <3>3. ~seq[j].finished /\ ~seq[j].paused /\ ~(Tokens(j) > Ctx)
      BY <2>1 DEF Classified, SeqStates
    <3> QED
      BY <2>1, <3>1, <3>2, <3>3
  <2>6. Need(j) = BlocksFor(Tokens(j)) /\ Tokens(j)' = Tokens(j)
    BY <2>5 DEF Need, Smaller, Tokens
  <2> QED
    BY <2>4, <2>5, <2>6 DEF Ready
<1>4. CASE PrefillSkips \/ PrefillEnds
  <2>1. phase \in Rounds /\ active' = active /\ seq' = seq
    BY <1>4 DEF PrefillSkips, PrefillEnds, PrefillNext, Prefilling, Rounds
  <2> QED
    BY <1>1, <2>1
<1>5. CASE PrefillDefers
  <2>1. /\ phase \in Rounds /\ active' = active
        /\ seq' = [seq EXCEPT ![Current].out = "Skipped"]
    BY <1>5 DEF PrefillDefers, PrefillNext, Pending, Prefilling, Rounds
  <2>2. j \in Jobs /\ seq[j] \in SeqStates /\ seq \in [Jobs -> SeqStates]
    BY <1>0, <2>1 DEF TypeOK
  <2>3. j # Current
    <3>1. [seq[j] EXCEPT !.out = "Skipped"].out = "Skipped"
      BY <2>2 DEF SeqStates
    <3>2. j = Current => seq'[j] = [seq[j] EXCEPT !.out = "Skipped"]
      BY <2>1, <2>2
    <3> QED
      BY <3>1, <3>2
  <2> QED
    BY <1>1, <2>1, <2>2, <2>3
<1>6. CASE Push
  <2>1. /\ active' = active /\ phase \in Rounds
        /\ seq'[Current].out \notin {"Prefill", "Decode"}
        /\ \A k \in Jobs : k # Current => seq'[k] = seq[k]
    BY <1>6, PushIs, PendingIs DEF Push, Rounds
  <2>2. seq'[j] = seq[j]
    BY <1>0, <2>1
  <2> QED
    BY <1>1, <2>1, <2>2
<1>7. CASE DecodeRows \/ DecodeFails
  <2>1. /\ active' = active /\ phase \in Rounds
        /\ \A k \in Rows : seq'[k].out \notin {"Prefill", "Decode"}
        /\ \A k \in Jobs : k \notin Rows => seq'[k] = seq[k]
    BY <1>7, DecodeIs DEF Rounds
  <2>2. seq'[j] = seq[j]
    BY <1>0, <2>1
  <2> QED
    BY <1>1, <2>1, <2>2
<1> QED
  BY <1>2, <1>3, <1>4, <1>5, <1>6, <1>7, IntoRound DEF Prefills

(* A grant of the growth pass at the cursor, and what it leaves alone.     *)
LEMMA GrantedIs ==
  ASSUME TypeOK, Placement, GrowFinished \/ GrowWithin \/ GrowGranted \/ GrowPauses
  PROVE  /\ phase = "Grow" /\ phase' = "Grow" /\ cursor' = cursor + 1 /\ active' = active
         /\ resume' = resume /\ cursor \in 1 .. Len(active)
         /\ Current \in Jobs /\ Current \in Range(active)
         /\ \A k \in Jobs : k # Current => seq'[k] = seq[k]
         /\ seq'[Current].generated = seq[Current].generated
         /\ seq'[Current].finished = seq[Current].finished
         /\ seq'[Current].cancelled = seq[Current].cancelled
         /\ seq'[Current].finished \/ seq'[Current].paused \/ Need(Current) <= seq'[Current].resv
         /\ ~GrowPauses => seq'[Current].finished \/ ~seq'[Current].paused
<1> DEFINE j == Current
<1>1. /\ phase = "Grow" /\ phase' = "Grow" /\ cursor' = cursor + 1 /\ active' = active
      /\ resume' = resume /\ cursor \in 1 .. Len(active)
      /\ j \in Jobs /\ j \in Range(active) /\ seq[j] \in SeqStates
  BY CurrentType DEF GrowFinished, GrowWithin, GrowGranted, GrowPauses, GrowNext, Growing, TypeOK
<1>2. \A k \in Jobs : k # j => seq'[k] = seq[k]
  BY DEF GrowFinished, GrowWithin, GrowGranted, GrowPauses, Unpaused, Paused, TypeOK
<1>3. Need(j) \in Nat /\ seq[j].resv \in Nat
  BY <1>1, ChargesNat DEF SeqStates
<1>4. CASE GrowFinished
  <2>1. seq'[j] = seq[j] /\ seq[j].finished
    BY <1>4 DEF GrowFinished, Live, Current, Growing, TypeOK, RequestInv, LaneInv
  <2> QED
    BY <1>1, <1>2, <1>4, <2>1
<1>5. CASE GrowWithin
  <2>1. seq'[j] = [seq[j] EXCEPT !.paused = FALSE] /\ ~(Need(j) > seq[j].resv)
    BY <1>1, <1>5 DEF GrowWithin, Unpaused, Short, TypeOK
  <2>2. /\ seq'[j].generated = seq[j].generated /\ seq'[j].finished = seq[j].finished
        /\ seq'[j].cancelled = seq[j].cancelled
        /\ seq'[j].resv = seq[j].resv /\ ~seq'[j].paused
    BY <1>1, <2>1 DEF SeqStates
  <2> QED
    BY <1>1, <1>2, <1>3, <2>1, <2>2
<1>6. CASE GrowGranted
  <2>1. seq'[j] = [seq[j] EXCEPT !.resv = Need(j), !.paused = FALSE]
    BY <1>1, <1>6 DEF GrowGranted, TypeOK
  <2>2. /\ seq'[j].generated = seq[j].generated /\ seq'[j].finished = seq[j].finished
        /\ seq'[j].cancelled = seq[j].cancelled
        /\ seq'[j].resv = Need(j) /\ ~seq'[j].paused
    BY <1>1, <2>1 DEF SeqStates
  <2> QED
    BY <1>1, <1>2, <1>3, <2>2
<1>7. CASE GrowPauses
  <2>1. seq'[j] = [seq[j] EXCEPT !.paused = TRUE]
    BY <1>1, <1>7 DEF GrowPauses, Paused, TypeOK
  <2>2. /\ seq'[j].generated = seq[j].generated /\ seq'[j].finished = seq[j].finished
        /\ seq'[j].cancelled = seq[j].cancelled /\ seq'[j].paused
    BY <1>1, <2>1 DEF SeqStates
  <2> QED
    BY <1>1, <1>2, <1>7, <2>2
<1> QED
  BY <1>4, <1>5, <1>6, <1>7

(* An eviction in the growth pass, from behind the cursor.                 *)
LEMMA EvictionIs ==
  ASSUME TypeOK, Placement, GrowEvicts
  PROVE  \E v \in 1 .. Len(active) :
           /\ phase = "Grow" /\ phase' = "Grow" /\ cursor' = cursor
           /\ cursor \in 1 .. v - 1 /\ Live(v)
           /\ active[v] \in Jobs /\ active[v] \in Range(active)
           /\ active' = RemoveAt(active, v) /\ active' \in Seq(Jobs) /\ Len(active') = Len(active) - 1
           /\ Range(active') = Range(active) \ {active[v]}
           /\ \A i \in 1 .. v - 1 : active'[i] = active[i]
           /\ Range(resume') = Range(resume) \cup {active[v]}
           /\ \A k \in Jobs : k # active[v] => seq'[k] = seq[k]
           /\ seq'[active[v]].generated = seq[active[v]].generated
<1>1. /\ active \in Seq(Jobs) /\ resume \in Seq(Jobs) /\ Len(active) \in Nat
      /\ cursor \in Nat \ {0}
  BY LenProperties DEF TypeOK
<1>2. PICK v \in 1 .. Len(active) :
        /\ IsVictim(v) /\ active' = RemoveAt(active, v) /\ resume' = Append(resume, active[v])
        /\ seq' = [seq EXCEPT ![active[v]] = [Blank EXCEPT !.generated = seq[active[v]].generated]]
  BY DEF GrowEvicts
<1>3. phase = "Grow" /\ phase' = "Grow" /\ cursor' = cursor
  BY DEF GrowEvicts, Growing
<1>4. cursor \in 1 .. v - 1 /\ Live(v)
  BY <1>1, <1>2 DEF IsVictim
<1>5. active[v] \in Jobs /\ active[v] \in Range(active)
  BY <1>1, SeqMembers, ElementOfSeq
<1>6. /\ active' \in Seq(Jobs) /\ Len(active') = Len(active) - 1
      /\ Range(active') = Range(active) \ {active[v]}
      /\ \A i \in 1 .. v - 1 : active'[i] = active[i]
  BY <1>1, <1>2, Removed DEF Placement
<1>7. Range(resume') = Range(resume) \cup {active[v]}
  BY <1>1, <1>2, <1>5, Pushed
<1>8. /\ \A k \in Jobs : k # active[v] => seq'[k] = seq[k]
      /\ seq'[active[v]].generated = seq[active[v]].generated
  BY <1>2, <1>5 DEF TypeOK, Blank
<1> QED
  BY <1>2, <1>3, <1>4, <1>5, <1>6, <1>7, <1>8

(* Behind the cursor of the growth pass everyone is ready for the round.   *)
LEMMA GrantsCoverStep ==
  ASSUME TypeOK, Placement, GrantsCover, [Next]_vars
  PROVE  GrantsCover'
<1> SUFFICES ASSUME Binds, NEW i \in 1 .. Len(active'),
                    (phase' = "Grow" /\ i < cursor') \/ (phase' = "Round" /\ loaded')
             PROVE  Ready(active[i])'
  BY DEF GrantsCover, Binds
<1>0. active \in Seq(Jobs) /\ Len(active) \in Nat /\ cursor \in Nat \ {0} /\ DOMAIN active = 1 .. Len(active)
  BY LenProperties DEF TypeOK
<1>1. CASE Untouched
  BY <1>1 DEF Untouched, GrantsCover, Ready, Need, Tokens
<1>2. CASE GrantSkipped
  BY <1>2 DEF GrantSkipped, BorrowFails, Binds
<1>3. CASE TopUpSenior
  BY <1>3 DEF TopUpSenior
<1>4. CASE GrowFinished \/ GrowWithin \/ GrowGranted \/ GrowPauses
  <2>1. /\ phase = "Grow" /\ phase' = "Grow" /\ cursor' = cursor + 1 /\ active' = active
        /\ cursor \in 1 .. Len(active) /\ Current \in Jobs
        /\ \A k \in Jobs : k # Current => seq'[k] = seq[k]
        /\ seq'[Current].generated = seq[Current].generated
        /\ seq'[Current].finished \/ seq'[Current].paused \/ Need(Current) <= seq'[Current].resv
    BY <1>4, GrantedIs
  <2>2. CASE i = cursor
    <3>1. active'[i] = Current
      BY <2>1, <2>2 DEF Current
    <3>2. \A k \in Jobs : seq'[k].generated = seq[k].generated => Need(k)' = Need(k)
      BY DEF Need, Tokens
    <3> QED
      BY <2>1, <3>1, <3>2 DEF Ready
  <2>3. CASE i # cursor
    <3>1. i \in 1 .. Len(active) /\ i < cursor /\ active'[i] = active[i]
      BY <1>0, <2>1, <2>3
    <3>2. active[i] # Current /\ active[i] \in Jobs
      BY <1>0, <2>1, <2>3, <3>1, ElementOfSeq DEF Placement, IsInjective, Current
    <3>3. seq'[active[i]] = seq[active[i]] /\ Ready(active[i])
      BY <2>1, <3>1, <3>2 DEF GrantsCover
    <3> QED
      BY <3>1, <3>3 DEF Ready, Need, Tokens
  <2> QED
    BY <2>2, <2>3
<1>5. CASE GrowEvicts
  <2>1. PICK v \in 1 .. Len(active) :
          /\ phase = "Grow" /\ phase' = "Grow" /\ cursor' = cursor
          /\ cursor \in 1 .. v - 1 /\ active' \in Seq(Jobs)
          /\ Range(active') = Range(active) \ {active[v]}
          /\ \A k \in 1 .. v - 1 : active'[k] = active[k]
          /\ \A k \in Jobs : k # active[v] => seq'[k] = seq[k]
    BY <1>5, EvictionIs
  <2>2. i \in 1 .. Len(active) /\ i < cursor /\ active'[i] = active[i]
    BY <1>0, <2>1
  <2>3. active[i] # active[v] /\ active[i] \in Jobs
    BY <1>0, <2>1, <2>2, ElementOfSeq DEF Placement, IsInjective
  <2>4. seq'[active[i]] = seq[active[i]] /\ Ready(active[i])
    BY <2>1, <2>2, <2>3 DEF GrantsCover
  <2> QED
    BY <2>2, <2>4 DEF Ready, Need, Tokens
<1>6. CASE GrowEnds
  <2>1. phase = "Grow" /\ cursor > Len(active) /\ active' = active /\ seq' = seq
    BY <1>6 DEF GrowEnds
  <2>2. Ready(active[i])
    BY <1>0, <2>1 DEF GrantsCover
  <2> QED
    BY <2>1, <2>2 DEF Ready, Need, Tokens
<1> QED
  BY <1>1, <1>2, <1>3, <1>4, <1>5, <1>6, IntoGrowth DEF Growth

LEMMA InitCovered == Init => CoveredGood
<1> SUFFICES ASSUME Init PROVE CoveredGood
  OBVIOUS
<1>1. active = <<>> /\ phase = "Poll" /\ lane = EmptyLanes /\ Range(active) = {}
  BY EmptyRange DEF Init
<1>2. LanesFit
  BY <1>1, WorkerAssumption DEF LanesFit, EmptyLanes
<1> QED
  BY <1>1, <1>2 DEF CoveredGood, LanesCovered, RunsCovered, GrantsCover, Rounds

CoverInv == LaneInv /\ CoveredGood

LEMMA CoversHold == Spec => []CoverInv
<1>1. LaneInv /\ CoveredGood /\ [Next]_vars => CoveredGood'
  BY LanesFitStep, LanesCoveredStep, RunsCoveredStep, GrantsCoverStep
     DEF LaneInv, RequestInv, Inv, CoveredGood
<1> QED
  BY <1>1, InitCovered, LanesHold, PTL DEF Spec, CoverInv

(* A block of an occupied lane is one its sequence reserved: the lanes     *)
(* together hold no more than was promised, and that is in the pool. A     *)
(* budget that never binds has room for every lane filled to the window.   *)
LEMMA OccupiedFits ==
  ASSUME CoverInv
  PROVE  Cardinality(Occupied) <= TotalBlocks
<1>0. /\ TypeOK /\ ReservationsFit /\ LanesGood /\ LanesFit /\ LanesCovered
      /\ lane \in [Slots -> Nat] /\ active \in Seq(Jobs) /\ Range(active) \subseteq Jobs
  BY SeqMembers DEF CoverInv, LaneInv, RequestInv, Inv, CoveredGood, TypeOK
<1>1. CASE Binds
  <2> DEFINE owner(s) == CHOOSE j \in Range(active) : seq[j].slot = s
             f == [p \in Occupied |-> <<owner(p[1]), p[2]>>]
  <2>1. ASSUME NEW s \in Slots, NEW n \in 1 .. BlocksFor(lane[s])
        PROVE  owner(s) \in Range(active) /\ seq[owner(s)].slot = s /\ <<owner(s), n>> \in Credits
    <3>1. lane[s] # 0
      BY <2>1, BlocksForZero
    <3>2. owner(s) \in Range(active) /\ seq[owner(s)].slot = s
      BY <1>0, <3>1 DEF LanesGood
    <3>3. BlocksFor(lane[s]) <= seq[owner(s)].resv
      BY <1>0, <1>1, <3>2 DEF LanesCovered
    <3>4. seq[owner(s)].resv \in Nat /\ BlocksFor(lane[s]) \in Nat
      BY <1>0, <3>2, BlocksForNat DEF TypeOK, SeqStates
    <3> HIDE DEF owner
    <3>5. n \in 1 .. seq[owner(s)].resv
      BY <2>1, <3>3, <3>4
    <3> QED
      BY <3>2, <3>5 DEF Credits
  <2>2. \A p \in Occupied : /\ p[1] \in Slots /\ p[2] \in 1 .. BlocksFor(lane[p[1]])
                            /\ p = <<p[1], p[2]>>
    BY DEF Occupied
  <2> HIDE DEF owner
  <2>3. f \in [Occupied -> Credits]
    BY <2>1, <2>2
  <2>4. ASSUME NEW p \in Occupied, NEW q \in Occupied, f[p] = f[q] PROVE p = q
    <3>1. owner(p[1]) = owner(q[1]) /\ p[2] = q[2]
      BY <2>4
    <3>2. p[1] = seq[owner(p[1])].slot /\ q[1] = seq[owner(q[1])].slot
      BY <2>1, <2>2
    <3> QED
      BY <2>2, <3>1, <3>2
  <2>5. f \in Injection(Occupied, Credits)
    BY <2>3, <2>4 DEF Injection, IsInjective
  <2>6. Cardinality(Occupied) <= Cardinality(Credits) /\ IsFiniteSet(Occupied)
    BY <1>0, <2>5, CreditsFinite, FS_Injection
  <2>7. Cardinality(Occupied) \in Nat
    BY <2>6, FS_CardinalityType
  <2>8. Reserved \in Nat /\ Reserved <= TotalBlocks /\ TotalBlocks \in Nat
    BY <1>0, CreditsFinite, KvBudgetAssumption DEF ReservationsFit
  <2> QED
    BY <2>6, <2>7, <2>8 DEF Reserved
<1>2. CASE ~Binds
  <2> DEFINE N == BlocksFor(Ctx)
             G == Slots \X (1 .. N)
  <2>1. N \in Nat /\ MaxSlots \in Nat
    BY BlocksForNat, WorkerAssumption
  <2>2. Occupied \subseteq G
    <3>1. ASSUME NEW s \in Slots, NEW n \in 1 .. BlocksFor(lane[s]) PROVE n \in 1 .. N
      <4>1. BlocksFor(lane[s]) <= N /\ BlocksFor(lane[s]) \in Nat
        BY <1>0, BlocksForMono, BlocksForNat, WorkerAssumption DEF LanesFit
      <4> QED
        BY <2>1, <3>1, <4>1
    <3> QED
      BY <3>1 DEF Occupied
  <2> HIDE DEF N
  <2>3. /\ IsFiniteSet(Slots) /\ Cardinality(Slots) = MaxSlots
        /\ IsFiniteSet(1 .. N) /\ Cardinality(1 .. N) = N
    <3>1. /\ IsFiniteSet(0 .. MaxSlots - 1)
          /\ Cardinality(0 .. MaxSlots - 1) = IF 0 > MaxSlots - 1 THEN 0 ELSE MaxSlots - 1 - 0 + 1
      BY <2>1, FS_Interval
    <3>2. IsFiniteSet(1 .. N) /\ Cardinality(1 .. N) = IF 1 > N THEN 0 ELSE N - 1 + 1
      BY <2>1, FS_Interval
    <3> QED
      BY <2>1, <3>1, <3>2 DEF Slots
  <2>4. IsFiniteSet(G) /\ Cardinality(G) = MaxSlots * N
    BY <2>3, FS_Product
  <2>5. /\ IsFiniteSet(Occupied) /\ Cardinality(Occupied) <= MaxSlots * N
        /\ Cardinality(Occupied) \in Nat
    <3> HIDE DEF G
    <3>1. IsFiniteSet(Occupied) /\ Cardinality(Occupied) <= Cardinality(G)
      BY <2>2, <2>4, FS_Subset
    <3> QED
      BY <2>4, <3>1, FS_CardinalityType
  <2>6. MaxSlots * N <= TotalBlocks
    BY <1>2, UnlimitedAssumption DEF Binds, N
  <2>7. MaxSlots * N \in Int /\ TotalBlocks \in Nat
    BY <2>1, KvBudgetAssumption
  <2> QED
    BY <2>5, <2>6, <2>7
<1> QED
  BY <1>1, <1>2

(* The lanes together never hold more blocks than the pool has, and a      *)
(* sequence about to run is covered by its own reservation: pool           *)
(* exhaustion is unreachable for live sequences.                           *)
THEOREM RunnersAlwaysCovered == Spec => []RunnersCovered
<1>1. CoverInv => RunnersCovered
  <2> SUFFICES ASSUME CoverInv, NEW j \in Range(active), seq[j].out \in {"Prefill", "Decode"}, Binds
               PROVE  BlocksFor(Tokens(j)) <= seq[j].resv
    BY OccupiedFits DEF RunnersCovered, Binds
  <2>1. TypeOK /\ Placement /\ RequestsGood /\ LanesGood /\ RunsCovered
    BY DEF CoverInv, LaneInv, RequestInv, Inv, CoveredGood
  <2>2. phase \in Rounds
    BY <2>1, RunnerLane
  <2> QED
    BY <2>1, <2>2 DEF RunsCovered
<1> QED
  BY <1>1, CoversHold, PTL

(* What the ledger charges is what the lanes occupy.                       *)
LEMMA LedgerFits ==
  ASSUME CoverInv
  PROVE  Ledger!Fits
<1>1. Ledger!Blocks = Occupied
  BY DEF Ledger!Blocks, Ledger!BlocksFor, Occupied, BlocksFor
<1>2. Cardinality(Occupied) <= TotalBlocks
  BY OccupiedFits
<1>3. Ledger!Cardinality(Occupied) = Cardinality(Occupied)
  BY DEF Ledger!Cardinality, Cardinality
<1>4. \A s \in Slots : lane[s] <= Ctx
  BY DEF CoverInv, CoveredGood, LanesFit
<1> QED
  BY <1>1, <1>2, <1>3, <1>4 DEF Ledger!Fits

LEMMA LedgerStep ==
  ASSUME CoverInv, (Ledger!Fits)', [Next]_vars
  PROVE  [Ledger!Next]_lane
<1>0. /\ TypeOK /\ Placement /\ RequestsGood /\ LanesGood /\ lane \in [Slots -> Nat]
  BY DEF CoverInv, LaneInv, RequestInv, Inv, CoveredGood, TypeOK
<1>1. CASE \E S \in SUBSET Slots : lane' = Emptied(S)
  BY <1>1 DEF Emptied, Ledger!Next, Ledger!Vacate
<1>2. CASE Push
  <2> DEFINE s == seq[Current].slot
  <2>1. s \in Slots /\ \E n \in 1 .. Ctx : lane' \in {lane, [lane EXCEPT ![s] = @ + n]}
    BY <1>0, <1>2, PushedLane
  <2> HIDE DEF s
  <2>2. PICK n \in 1 .. Ctx : lane' \in {lane, [lane EXCEPT ![s] = @ + n]}
    BY <2>1
  <2>3. CASE lane' = [lane EXCEPT ![s] = @ + n]
    <3>1. lane' = [l \in Slots |-> IF l \in {s} THEN lane[l] + n ELSE lane[l]]
      BY <1>0, <2>1, <2>3
    <3>2. Ledger!Advance({s}, n)
      BY <3>1 DEF Ledger!Advance
    <3> QED
      BY <2>1, <3>2 DEF Ledger!Next
  <2> QED
    BY <2>2, <2>3
<1>3. CASE (DecodeRows \/ DecodeFails) /\ lane' = LanesAdvanced
  <2> DEFINE S == {seq[j].slot : j \in Rows}
  <2>1. S \subseteq Slots
    BY <1>0, RowLanes
  <2>2. lane' = [l \in Slots |-> IF l \in S THEN lane[l] + 1 ELSE lane[l]]
    BY <1>3 DEF LanesAdvanced
  <2>3. Ledger!Advance(S, 1)
    BY <2>2 DEF Ledger!Advance
  <2> QED
    BY <2>1, <2>3 DEF Ledger!Next
<1> QED
  BY <1>0, <1>1, <1>2, <1>3, LaneMoves

(* Whatever the worker asks of its decoder stays within the ledger the KV  *)
(* cache implements: every round fits the pool, no lane passes the window. *)
THEOREM WorkerImplementsLedger == Spec => ImplementsLedger
<1>1. Init => Ledger!Init
  BY DEF Init, EmptyLanes, Ledger!Init
<1>2. CoverInv => Ledger!Fits
  BY LedgerFits
<1>3. CoverInv /\ (Ledger!Fits)' /\ [Next]_vars => [Ledger!Next]_lane
  BY LedgerStep
<1> QED
  BY <1>1, <1>2, <1>3, CoversHold, PTL DEF Spec, ImplementsLedger, Ledger!Spec

-------------------------------------------------------------------------------
(* Prompts are pushed oldest first.                                        *)

(* Behind the cursor a prompt that waits means the budget is spent, and    *)
(* nobody was pushed past one; at and after the cursor nobody has run.     *)
Ran == {"Prefilling", "Stepped", "Stopped"}
Behind(i) == i \in 1 .. Len(active) /\ i < cursor
Ahead(i) == i \in 1 .. Len(active) /\ i >= cursor
Unpassed(k) == seq[active[k]].out \in Ran => \A i \in 1 .. k - 1 : ~Deferred(active[i])

PromptsGood ==
  /\ phase = "Prefill" =>
       /\ \A i : Behind(i) => (Deferred(active[i]) => budget = 0) /\ Unpassed(i)
       /\ \A i : Ahead(i) => ~Deferred(active[i]) /\ seq[active[i]].out \notin Ran
  /\ phase = "Decode" => \A k \in 1 .. Len(active) : Unpassed(k)

(* One turn of the prefill loop.                                           *)
LEMMA PrefillTurn ==
  ASSUME TypeOK, Placement, RequestsGood, PromptsGood, PrefillSkips \/ PrefillDefers \/ Push
  PROVE  /\ phase = "Prefill" /\ phase' = "Prefill" /\ active' = active /\ cursor' = cursor + 1
         /\ cursor \in 1 .. Len(active) /\ Current \in Jobs
         /\ \A k \in Jobs : k # Current => seq'[k] = seq[k]
         /\ budget = 0 => budget' = 0 /\ seq'[Current].out \notin Ran
         /\ seq'[Current].out = "Skipped" /\ ~seq'[Current].finished /\ ~seq'[Current].paused =>
              budget' = 0
<1> DEFINE j == Current
<1>1. CASE PrefillSkips
  <2>1. /\ phase = "Prefill" /\ phase' = "Prefill" /\ active' = active /\ cursor' = cursor + 1
        /\ cursor \in 1 .. Len(active) /\ j \in Jobs /\ seq' = seq /\ budget' = budget
    BY <1>1, CurrentType DEF PrefillSkips, PrefillNext, Prefilling
  <2>2. Ahead(cursor)
    BY <2>1 DEF Ahead, TypeOK
  <2>3. ~Deferred(active[cursor]) /\ seq[active[cursor]].out \notin Ran
    BY <2>1, <2>2 DEF PromptsGood
  <2> QED
    BY <2>1, <2>3 DEF Deferred, Current
<1>2. CASE PrefillDefers
  <2>1. /\ Pending /\ Grant(j) = 0 /\ seq' = [seq EXCEPT ![j].out = "Skipped"]
        /\ budget' = budget /\ active' = active /\ cursor' = cursor + 1 /\ phase' = phase
    BY <1>2 DEF PrefillDefers, PrefillNext
  <2>2. /\ phase = "Prefill" /\ cursor \in 1 .. Len(active) /\ j \in Jobs /\ seq[j] \in SeqStates
        /\ budget = 0
    BY <2>1, PendingIs
  <2>3. seq'[j] = [seq[j] EXCEPT !.out = "Skipped"]
    BY <2>1, <2>2 DEF TypeOK
  <2>4. seq'[j].out = "Skipped"
    BY <2>2, <2>3 DEF SeqStates
  <2> QED
    BY <2>1, <2>2, <2>4 DEF TypeOK, Ran
<1>3. CASE Push
  <2>1. /\ Pending /\ active' = active /\ phase' = phase /\ cursor' = cursor + 1 /\ budget # 0
        /\ \A k \in Jobs : k # j => seq'[k] = seq[k]
        /\ seq'[j].out # "Skipped"
    BY <1>3, PushIs DEF Push
  <2>2. phase = "Prefill" /\ cursor \in 1 .. Len(active) /\ j \in Jobs
    BY <2>1, PendingIs
  <2> QED
    BY <2>1, <2>2
<1> QED
  BY <1>1, <1>2, <1>3

LEMMA PromptsStep ==
  ASSUME TypeOK, Placement, RequestsGood, PromptsGood, [Next]_vars
  PROVE  PromptsGood'
<1>0. /\ active \in Seq(Jobs) /\ cursor \in Nat \ {0} /\ IsInjective(active)
      /\ \A i \in 1 .. Len(active) : active[i] \in Jobs
  BY ElementOfSeq DEF TypeOK, Placement
<1>1. CASE phase' \notin {"Prefill", "Decode"}
  BY <1>1 DEF PromptsGood
<1>2. CASE Untouched
  BY <1>2 DEF Untouched, PromptsGood, Behind, Ahead, Unpassed, Deferred
<1>3. CASE BeginRound
  <2>1. phase' = "Prefill" /\ cursor' = 1 /\ active' = active
    BY <1>3 DEF BeginRound
  <2>2. ASSUME NEW i \in 1 .. Len(active)
        PROVE  ~Deferred(active[i])' /\ seq'[active[i]].out \notin Ran
    <3>1. active[i] \in Jobs /\ active[i] \in Range(active) /\ seq[active[i]] \in SeqStates
      BY <1>0, SeqMembers DEF TypeOK
    <3>2. seq'[active[i]] = Classified(active[i])
      BY <1>3, <3>1 DEF BeginRound
    <3>3. LET r == Classified(active[i]) IN
            /\ r.out \notin Ran
            /\ r.out = "Skipped" => r.finished \/ r.paused
      BY <3>1 DEF Classified, SeqStates, Ran
    <3>4. seq'[active'[i]] = Classified(active[i])
      BY <2>1, <3>2
    <3> QED
      BY <3>2, <3>3, <3>4 DEF Deferred
  <2>3. ~\E i : Behind(i)'
    BY <2>1 DEF Behind
  <2>4. \A i : Ahead(i)' => i \in 1 .. Len(active) /\ active'[i] = active[i]
    BY <2>1 DEF Ahead
  <2> QED
    BY <2>1, <2>2, <2>3, <2>4 DEF PromptsGood, Deferred
<1>4. CASE PrefillSkips \/ PrefillDefers \/ Push
  <2>1. /\ phase = "Prefill" /\ phase' = "Prefill" /\ active' = active /\ cursor' = cursor + 1
        /\ cursor \in 1 .. Len(active) /\ Current \in Jobs
        /\ \A k \in Jobs : k # Current => seq'[k] = seq[k]
        /\ budget = 0 => budget' = 0 /\ seq'[Current].out \notin Ran
        /\ seq'[Current].out = "Skipped" /\ ~seq'[Current].finished /\ ~seq'[Current].paused =>
             budget' = 0
    BY <1>4, PrefillTurn
  <2>2. ASSUME NEW i \in 1 .. Len(active), i # cursor
        PROVE  seq'[active[i]] = seq[active[i]]
    <3>1. active[i] # active[cursor]
      BY <1>0, <2>1, <2>2, LenProperties DEF IsInjective
    <3> QED
      BY <1>0, <2>1, <3>1 DEF Current
  <2>3. ASSUME NEW i \in 1 .. Len(active), i < cursor
        PROVE  /\ Deferred(active[i])' <=> Deferred(active[i])
               /\ Deferred(active[i]) => budget = 0 /\ budget' = 0
    BY <2>1, <2>2, <2>3 DEF Deferred, PromptsGood, Behind
  <2>4. ASSUME NEW i \in 1 .. Len(active), i >= cursor + 1
        PROVE  ~Deferred(active[i])' /\ seq'[active[i]].out \notin Ran
    <3>1. i \in Nat /\ cursor \in Nat /\ i # cursor /\ Ahead(i)
      BY <2>1, <2>4 DEF Ahead
    <3>2. ~Deferred(active[i]) /\ seq[active[i]].out \notin Ran
      BY <2>1, <3>1 DEF PromptsGood
    <3>3. seq'[active[i]] = seq[active[i]] /\ active'[i] = active[i]
      BY <2>1, <2>2, <3>1
    <3> QED
      BY <3>2, <3>3 DEF Deferred
  <2>5. ASSUME NEW i \in 1 .. Len(active), i < cursor + 1
        PROVE  (Deferred(active[i])' => budget' = 0) /\ Unpassed(i)'
    <3>1. CASE i < cursor
      <4>1. Unpassed(i) /\ (Deferred(active[i])' => budget' = 0)
        BY <2>1, <2>3, <3>1 DEF PromptsGood, Behind
      <4>2. \A k \in 1 .. i - 1 : Deferred(active[k])' <=> Deferred(active[k])
        BY <2>3, <3>1, <1>0
      <4>3. seq'[active'[i]] = seq[active[i]]
        BY <2>1, <2>2, <3>1, <1>0
      <4> QED
        BY <4>1, <4>2, <4>3 DEF Unpassed
    <3>2. CASE i = cursor
      <4>1. Deferred(active[i])' => budget' = 0
        BY <2>1, <3>2 DEF Deferred, Current
      <4>2. ASSUME seq'[active[i]].out \in Ran, NEW k \in 1 .. i - 1 PROVE ~Deferred(active[k])'
        <5>1. budget # 0
          BY <2>1, <3>2, <4>2 DEF Current
        <5> QED
          BY <1>0, <2>1, <2>3, <3>2, <5>1
      <4> QED
        BY <2>1, <4>1, <4>2 DEF Unpassed
    <3> QED
      BY <1>0, <2>5, <3>1, <3>2
  <2>6. \A i : /\ Behind(i)' => i \in 1 .. Len(active) /\ i < cursor + 1
               /\ Ahead(i)' => i \in 1 .. Len(active) /\ i >= cursor + 1 /\ active'[i] = active[i]
    BY <2>1 DEF Behind, Ahead
  <2> QED
    BY <2>1, <2>4, <2>5, <2>6 DEF PromptsGood
<1>5. CASE PrefillEnds
  <2>1. /\ phase = "Prefill" /\ phase' = "Decode" /\ active' = active /\ seq' = seq
        /\ cursor > Len(active)
    BY <1>5 DEF PrefillEnds
  <2>2. \A i \in 1 .. Len(active) : Behind(i)
    BY <1>0, <2>1 DEF Behind
  <2> QED
    BY <2>1, <2>2 DEF PromptsGood, Unpassed, Deferred
<1>6. CASE DecodeRows \/ DecodeFails
  BY <1>6 DEF DecodeRows, DecodeFails, PromptsGood
<1> QED
  BY <1>1, <1>2, <1>3, <1>4, <1>5, <1>6, IntoRound DEF Prefills, Rounds

(* The prefill budget is spent oldest first: while an older prompt waits   *)
(* untouched no younger one is pushed, so no later arrival starves it.     *)
THEOREM PromptsAlwaysInOrder == Spec => []PromptsInOrder
<1>1. Init => PromptsGood
  BY DEF Init, PromptsGood
<1>2. RequestInv /\ PromptsGood /\ [Next]_vars => PromptsGood'
  BY PromptsStep DEF RequestInv, Inv
<1>3. RequestInv /\ PromptsGood => PromptsInOrder
  BY DEF PromptsGood, PromptsInOrder, Unpassed, Ran
<1> QED
  BY <1>1, <1>2, <1>3, RequestsHold, PTL DEF Spec

-------------------------------------------------------------------------------
(* The oldest sequence advances.                                           *)

(* A sequence's worst case does not change while it runs.                  *)
Whole(j) == BlocksFor(Smaller(Prompt[j] + MaxGen(j), Ctx))

LEMMA WorstIsWhole ==
  ASSUME TypeOK, NEW j \in Jobs
  PROVE  /\ Worst(j) = Whole(j) /\ Whole(j) \in Nat
         /\ seq[j].generated <= MaxGen(j) => Need(j) <= Whole(j)
<1>1. /\ Prompt[j] \in Nat /\ Ctx \in Nat /\ MaxGen(j) \in Nat /\ seq[j].generated \in Nat
      /\ Tokens(j) = Prompt[j] + seq[j].generated
  BY NumbersAre
<1>2. Tokens(j) + MaxGen(j) - seq[j].generated = Prompt[j] + MaxGen(j)
  BY <1>1
<1>3. Smaller(Prompt[j] + MaxGen(j), Ctx) \in Nat /\ Smaller(Tokens(j), Ctx) \in Nat
  BY <1>1 DEF Smaller
<1>4. seq[j].generated <= MaxGen(j) => Smaller(Tokens(j), Ctx) <= Smaller(Prompt[j] + MaxGen(j), Ctx)
  BY <1>1 DEF Smaller
<1>5. Worst(j) = Whole(j)
  BY <1>2 DEF Worst, Whole
<1>6. Whole(j) \in Nat
  BY <1>3, BlocksForNat DEF Whole
<1> QED
  BY <1>3, <1>4, <1>5, <1>6, BlocksForMono DEF Need, Whole

AllFit == \A j \in Range(active) \cup Range(resume) : Whole(j) <= TotalBlocks
NobodyWaits == ~Binds => phase # "Grow" /\ \A j \in Range(active) : ~seq[j].paused
FirstServed == phase = "Prefill" /\ cursor = 1 => budget # 0
OldestRuns ==
  ~CancelledLeaving /\ active # <<>> =>
    /\ (phase = "Grow" /\ cursor > 1) \/ (phase = "Round" /\ loaded) => ~seq[active[1]].paused
    /\ phase \in Rounds => seq[active[1]].finished \/ seq[active[1]].out # "Skipped"

OldestGood == AllFit /\ NobodyWaits /\ FirstServed /\ OldestRuns

(* The stack of evicted sequences is fed by the batch alone.               *)
LEMMA EvictedFrom ==
  ASSUME TypeOK, Placement, [Next]_vars
  PROVE  Range(resume') \subseteq Range(resume) \cup Range(active)
<1>1. active \in Seq(Jobs) /\ resume \in Seq(Jobs)
  BY DEF TypeOK
<1>2. CASE resume' = resume
  BY <1>2
<1>3. CASE resume' = <<>>
  BY <1>3, EmptyRange
<1>4. CASE ResumeOne
  <2>1. resume # <<>> /\ resume' = Front(resume)
    BY <1>4 DEF ResumeOne, Resumable
  <2> QED
    BY <1>1, <2>1, Popped DEF Placement
<1>5. CASE GrowEvicts
  <2>1. PICK v \in 1 .. Len(active) : resume' = Append(resume, active[v])
    BY <1>5 DEF GrowEvicts
  <2>2. active[v] \in Jobs
    BY <1>1, ElementOfSeq
  <2>3. active[v] \in Range(active)
    <3>1. \A x : x \in Range(active) <=> \E i \in 1 .. Len(active) : x = active[i]
      BY <1>1, SeqMembers
    <3> QED
      BY <3>1, Zenon
  <2> QED
    BY <1>1, <2>1, <2>2, <2>3, AppendRange
<1>6. ASSUME Next, ~ResumeOne, ~GrowEvicts PROVE resume' = resume \/ resume' = <<>>
  BY <1>6 DEF Next, Client, Submit, Cancel, Control, Worker, Poll, TakeSubmit, TakeLoad, TakeUnload,
     TakeClearState, TakeShutdown, EndPoll, Panic, Exit, Respawn, Admit, ResumeStops, RejectCancelled,
     RejectFailed, RejectTooLarge, AdmitOne, AdmitStops, Reject, GrantGrowth, SweepIdle,
     SweepCancelled, GrantSkipped, TopUpSenior, GrowFinished, GrowWithin, GrowGranted, GrowPauses,
     GrowNext, GrowEnds, StepRound, RoundFails, BeginRound, PrefillSkips, PrefillDefers, PrefillChunk,
     PrefillLast, PrefillFails, PrefillNext, PrefillEnds, DecodeRows, DecodeFails, Deliver, Ship,
     RetireOne, RetireKeeps, RetireEnds
<1> QED
  BY <1>2, <1>3, <1>4, <1>5, <1>6 DEF vars

(* No request in the batch or evicted from it could never fit the pool.    *)
LEMMA AllFitStep ==
  ASSUME TypeOK, ReservationsFit, Placement, RequestsGood, AllFit, [Next]_vars
  PROVE  AllFit'
<1> SUFFICES ASSUME NEW j \in Range(active') PROVE Whole(j) <= TotalBlocks
  BY EvictedFrom DEF AllFit, Whole, MaxGen
<1>1. CASE j \in Range(active)
  BY <1>1 DEF AllFit
<1>2. CASE j \notin Range(active)
  <2>1. (ResumeOne \/ AdmitOne) /\ Range(active') = Range(active) \cup {j}
    BY <1>2, MembersKept
  <2>2. CASE ResumeOne
    <3>1. resume # <<>> /\ active' = Append(active, Last(resume)) /\ Last(resume) \in Range(resume)
      BY <2>2, Popped DEF ResumeOne, Resumable, Enter, TypeOK
    <3>2. j = Last(resume)
      BY <1>2, <3>1, AppendRange, FrontLast DEF TypeOK
    <3> QED
      BY <3>1, <3>2 DEF AllFit
  <2>3. CASE AdmitOne
    <3>1. /\ queue # <<>> /\ active' = Append(active, Head(queue)) /\ Head(queue) \in Jobs
          /\ Worst(Head(queue)) <= TotalBlocks
      BY <2>3, HeadTailProperties DEF AdmitOne, Admissible, Enter, TypeOK
    <3>2. j = Head(queue)
      BY <1>2, <3>1, AppendRange DEF TypeOK
    <3> QED
      BY <3>1, <3>2, WorstIsWhole
  <2> QED
    BY <2>1, <2>2, <2>3
<1> QED
  BY <1>1, <1>2

(* Only the growth pass pauses anybody.                                    *)
LEMMA PausedStays ==
  ASSUME TypeOK, Placement, RequestsGood, [Next]_vars, phase # "Grow",
         NEW j \in Range(active), j \in Range(active')
  PROVE  seq'[j].paused = seq[j].paused
<1>1. j \in Jobs /\ seq[j] \in SeqStates
  BY ActiveIs
<1>2. ASSUME seq'[j] = seq[j] PROVE seq'[j].paused = seq[j].paused
  BY <1>2
<1>3. CASE Client \/ Poll \/ Panic \/ Respawn \/ UNCHANGED vars
  <2>1. CASE TakeShutdown \/ Panic
    BY <2>1, EmptyRange DEF TakeShutdown, Panic, Exit
  <2>2. CASE ~(TakeShutdown \/ Panic)
    BY <1>2, <1>3, <2>2 DEF Client, Submit, Cancel, Control, Poll, TakeSubmit, TakeLoad, TakeUnload,
       TakeClearState, EndPoll, Respawn, vars
  <2> QED
    BY <2>1, <2>2
<1>4. CASE ResumeOne
  <2>1. resume # <<>> /\ Enter(Last(resume))
    BY <1>4 DEF ResumeOne, Resumable
  <2>2. Last(resume) \in Range(resume)
    BY <2>1, Popped DEF TypeOK
  <2>3. j # Last(resume)
    BY <2>2 DEF Placement
  <2> QED
    BY <1>1, <1>2, <2>1, <2>3 DEF Enter, TypeOK
<1>5. CASE AdmitOne
  <2>1. queue # <<>> /\ Enter(Head(queue))
    BY <1>5 DEF AdmitOne, Admissible
  <2>2. Head(queue) \in Range(queue)
    BY <2>1, Popped DEF TypeOK
  <2>3. j # Head(queue)
    BY <2>2 DEF Placement
  <2> QED
    BY <1>1, <1>2, <2>1, <2>3 DEF Enter, TypeOK
<1>6. CASE ResumeStops \/ RejectCancelled \/ RejectFailed \/ RejectTooLarge \/ AdmitStops
           \/ SweepIdle \/ GrantSkipped \/ GrowEnds \/ PrefillSkips \/ PrefillEnds \/ RetireKeeps
           \/ RetireEnds
  BY <1>2, <1>6 DEF ResumeStops, RejectCancelled, RejectFailed, RejectTooLarge, AdmitStops, Reject,
     SweepIdle, GrantSkipped, GrowEnds, PrefillSkips, PrefillEnds, RetireKeeps, RetireEnds
<1>7. CASE SweepCancelled
  <2>1. seq'[j] \in {seq[j], [seq[j] EXCEPT !.finished = TRUE, !.cancelled = TRUE]}
    BY <1>1, <1>7 DEF SweepCancelled
  <2> QED
    BY <1>1, <2>1 DEF SeqStates
<1>8. CASE TopUpSenior
  <2>1. seq'[j] \in {seq[j], [seq[j] EXCEPT !.resv = @ + TopUp(j)]}
    BY <1>1, <1>8 DEF TopUpSenior
  <2> QED
    BY <1>1, <2>1 DEF SeqStates
<1>9. CASE GrowFinished \/ GrowWithin \/ GrowGranted \/ GrowEvicts \/ GrowPauses
  BY <1>9 DEF GrowFinished, GrowWithin, GrowGranted, GrowEvicts, GrowPauses, Growing
<1>10. CASE RoundFails
  BY <1>10, EmptyRange DEF RoundFails
<1>11. CASE BeginRound
  <2>1. seq'[j] = Classified(j)
    BY <1>1, <1>11 DEF BeginRound
  <2>2. Classified(j).paused = seq[j].paused
    BY <1>1 DEF Classified, SeqStates
  <2> QED
    BY <2>1, <2>2
<1>12. CASE PrefillDefers
  <2>1. seq'[j] \in {seq[j], [seq[j] EXCEPT !.out = "Skipped"]}
    BY <1>1, <1>12 DEF PrefillDefers, TypeOK
  <2> QED
    BY <1>1, <2>1 DEF SeqStates
<1>13. CASE PrefillChunk \/ PrefillLast \/ PrefillFails
  BY <1>1, <1>2, <1>13, PushIs
<1>14. CASE DecodeRows \/ DecodeFails
  <2>1. \/ seq'[j] = seq[j] \/ seq'[j] = Failed(j)
        \/ \E stop : seq'[j] = Advanced(j, stop)
    BY <1>1, <1>14 DEF DecodeRows, DecodeFails
  <2>2. /\ Failed(j).paused = seq[j].paused
        /\ \A stop : Advanced(j, stop).paused = seq[j].paused
    BY <1>1 DEF Failed, Advanced, SeqStates
  <2> QED
    BY <2>1, <2>2
<1>15. CASE Ship
  <2>1. seq'[j] = [seq[j] EXCEPT !.stopped = @ \/ seq[j].out = "Stopped", !.out = "Skipped"]
    BY <1>1, <1>15, Zenon DEF Ship
  <2> QED
    BY <1>1, <2>1 DEF SeqStates
<1>16. CASE RetireOne
  <2>1. cursor \in 1 .. Len(active) /\ active' = RemoveAt(active, cursor)
        /\ seq' = [seq EXCEPT ![Current] = Blank]
    BY <1>16, CurrentType DEF RetireOne, Retiring
  <2>2. j # Current
    BY <2>1, Removed DEF Placement, TypeOK, Current
  <2> QED
    BY <1>1, <1>2, <2>1, <2>2 DEF TypeOK
<1> QED
  BY <1>3, <1>4, <1>5, <1>6, <1>7, <1>8, <1>9, <1>10, <1>11, <1>12, <1>13, <1>14, <1>15, <1>16
     DEF Next, Worker, Admit, GrantGrowth, StepRound, Deliver

LEMMA NobodyWaitsStep ==
  ASSUME TypeOK, ReservationsFit, Placement, RequestsGood, NobodyWaits, [Next]_vars
  PROVE  NobodyWaits'
<1> SUFFICES ASSUME ~Binds PROVE phase' # "Grow" /\ \A j \in Range(active') : ~seq'[j].paused
  BY DEF NobodyWaits, Binds
<1>1. phase # "Grow" /\ \A j \in Range(active) : ~seq[j].paused
  BY DEF NobodyWaits
<1>2. phase' # "Grow"
  BY <1>1, IntoGrowth DEF Untouched, GrantSkipped, TopUpSenior, Growth, GrowFinished, GrowWithin,
     GrowGranted, GrowEvicts, GrowPauses, GrowEnds, Growing, Binds
<1>3. ASSUME NEW j \in Range(active') PROVE ~seq'[j].paused
  <2>1. CASE j \in Range(active)
    BY <1>1, <1>3, <2>1, PausedStays
  <2>2. CASE j \notin Range(active)
    BY <2>2, MembersKept
  <2> QED
    BY <2>1, <2>2
<1> QED
  BY <1>2, <1>3

(* A round starts with tokens to spend.                                    *)
LEMMA FirstServedStep ==
  ASSUME TypeOK, FirstServed, [Next]_vars
  PROVE  FirstServed'
<1> SUFFICES ASSUME phase' = "Prefill", cursor' = 1 PROVE budget' # 0
  BY DEF FirstServed
<1>1. Untouched \/ BeginRound \/ Prefills \/ DecodeRows \/ DecodeFails
  BY IntoRound DEF Rounds
<1>2. CASE Untouched
  BY <1>2 DEF Untouched, FirstServed
<1>3. CASE BeginRound
  BY <1>3, WorkerAssumption DEF BeginRound, Unbounded
<1>4. CASE Prefills
  <2>1. cursor \in Nat \ {0}
    BY DEF TypeOK
  <2>2. phase' # "Prefill" \/ cursor' = cursor + 1
    BY <1>4 DEF Prefills, Push, PrefillSkips, PrefillDefers, PrefillChunk, PrefillLast, PrefillFails,
       PrefillNext, PrefillEnds
  <2> QED
    BY <2>1, <2>2
<1>5. CASE DecodeRows \/ DecodeFails
  BY <1>5 DEF DecodeRows, DecodeFails
<1> QED
  BY <1>1, <1>2, <1>3, <1>4, <1>5

(* While no cancelled sequence holds blocks, the growth pass finds nobody  *)
(* finished.                                                               *)
LEMMA EveryoneLive ==
  ASSUME TypeOK, Placement, RequestsGood, phase \in Grants, ~CancelledLeaving
  PROVE  \A i \in 1 .. Len(active) : /\ Live(i) /\ active[i] \in Range(active)
                                     /\ active[i] \in Jobs
<1> TAKE i \in 1 .. Len(active)
<1>1. active[i] \in Range(active)
  BY SeqMembers DEF TypeOK
<1>2. active[i] \in Jobs /\ Sound(active[i], seq[active[i]], phase)
  BY <1>1, ActiveIs
<1>3. ~seq[active[i]].cancelled
  BY <1>1 DEF CancelledLeaving
<1> QED
  BY <1>1, <1>2, <1>3 DEF Sound, Live

(* The oldest sequence, alone in the pool, has room to grow: its worst     *)
(* case fits the pool, or it would not have been admitted.                 *)
LEMMA AloneGrows ==
  ASSUME TypeOK, Placement, RequestsGood, AllFit, Growing, ~CancelledLeaving,
         IsSenior(cursor), ~HasVictim
  PROVE  cursor = 1 /\ Growable(Current)
<1> DEFINE j == Current
<1>0. cursor \in 1 .. Len(active) /\ Len(active) \in Nat /\ phase = "Grow" /\ phase \in Grants
  BY CurrentType, LenProperties DEF Growing, TypeOK, Grants
<1>1. \A i \in 1 .. Len(active) : Live(i)
  BY <1>0, EveryoneLive
<1>2. cursor = 1
  <2>1. ASSUME cursor # 1 PROVE FALSE
    <3>1. 1 \in 1 .. cursor - 1 /\ 1 \in 1 .. Len(active)
      BY <1>0, <2>1
    <3> QED
      BY <1>1, <3>1 DEF IsSenior
  <2> QED
    BY <2>1
<1>3. Len(active) = 1
  <2>1. ASSUME Len(active) # 1 PROVE FALSE
    <3>0. \A n \in Nat : 1 \in 1 .. n /\ n # 1 => n > 1 /\ n \in 1 .. n
      OBVIOUS
    <3>1. Len(active) > cursor /\ Len(active) \in 1 .. Len(active)
      BY <1>0, <1>2, <2>1, <3>0
    <3>2. IsVictim(Len(active))
      BY <1>0, <1>1, <3>1 DEF IsVictim
    <3> QED
      BY <3>1, <3>2 DEF HasVictim
  <2> QED
    BY <2>1
<1>4. Range(active) = {j} /\ j \in Jobs
  <2>1. \A x : x \in Range(active) <=> \E i \in 1 .. 1 : x = active[i]
    BY <1>3, SeqMembers DEF TypeOK
  <2>2. \A x : x \in Range(active) <=> x = active[1]
    BY <2>1
  <2>3. j = active[1] /\ j \in Jobs
    BY <1>0, <1>2, CurrentType DEF Current
  <2> QED
    BY <2>2, <2>3
<1>5. Reserved = seq[j].resv /\ seq[j].resv \in Nat
  <2>1. seq[j].resv \in Nat
    BY <1>4 DEF TypeOK, SeqStates
  <2>2. Credits = {j} \X (1 .. seq[j].resv)
    BY <1>4 DEF Credits
  <2>3. IsFiniteSet({j}) /\ Cardinality({j}) = 1
    BY FS_Singleton
  <2> DEFINE n == seq[j].resv
  <2> HIDE DEF j, n
  <2>4. IsFiniteSet(1 .. n) /\ Cardinality(1 .. n) = IF 1 > n THEN 0 ELSE n - 1 + 1
    BY <2>1, FS_Interval DEF n
  <2>5. Cardinality({j} \X (1 .. n)) = Cardinality({j}) * Cardinality(1 .. n)
    BY <2>3, <2>4, FS_Product
  <2>6. Cardinality(1 .. n) = n
    BY <2>1, <2>4 DEF n
  <2>7. Cardinality({j} \X (1 .. n)) = n
    BY <2>1, <2>3, <2>5, <2>6 DEF n
  <2> QED
    BY <2>1, <2>2, <2>7 DEF Reserved, n
<1>6. Need(j) <= Whole(j) /\ Whole(j) <= TotalBlocks /\ Need(j) \in Nat /\ Whole(j) \in Nat
  <2>1. seq[j].generated <= MaxGen(j)
    BY <1>4, ActiveIs DEF Sound
  <2> QED
    BY <1>4, <2>1, WorstIsWhole, ChargesNat DEF AllFit
<1>7. TotalBlocks \in Nat
  BY KvBudgetAssumption
<1> QED
  BY <1>2, <1>5, <1>6, <1>7 DEF Growable, Slack

(* Nobody's cancellation is undone before its sequence is retired.         *)
LEMMA CancelStays ==
  ASSUME TypeOK, Placement, RequestsGood, [Next]_vars, phase' \in {"Grow", "Round"} \cup Rounds,
         phase \in {"Grow", "Round"} \cup Rounds, CancelledLeaving
  PROVE  CancelledLeaving'
<1>1. PICK j \in Range(active) : seq[j].cancelled
  BY DEF CancelledLeaving
<1>2. j \in Jobs /\ seq[j] \in SeqStates /\ seq[j].finished
  BY <1>1, ActiveIs DEF Sound
<1> SUFFICES j \in Range(active') /\ seq'[j].cancelled
  BY DEF CancelledLeaving
<1>3. CASE Untouched
  BY <1>1, <1>3 DEF Untouched
<1>4. CASE GrantSkipped \/ TopUpSenior
  BY <1>4 DEF GrantSkipped, TopUpSenior, Rounds
<1>5. CASE GrowFinished \/ GrowWithin \/ GrowGranted \/ GrowPauses
  BY <1>1, <1>2, <1>5, GrantedIs
<1>6. CASE GrowEvicts
  <2>1. PICK v \in 1 .. Len(active) :
          /\ Live(v) /\ Range(active') = Range(active) \ {active[v]}
          /\ \A k \in Jobs : k # active[v] => seq'[k] = seq[k]
    BY <1>6, EvictionIs
  <2>2. j # active[v]
    BY <1>2, <2>1 DEF Live
  <2> QED
    BY <1>1, <1>2, <2>1, <2>2
<1>7. CASE GrowEnds \/ PrefillSkips \/ PrefillEnds
  BY <1>1, <1>7 DEF GrowEnds, PrefillSkips, PrefillNext, PrefillEnds
<1>8. CASE BeginRound
  <2>1. active' = active /\ seq'[j] = Classified(j)
    BY <1>1, <1>2, <1>8 DEF BeginRound
  <2>2. Classified(j).cancelled = seq[j].cancelled
    BY <1>2 DEF Classified, SeqStates
  <2> QED
    BY <1>1, <2>1, <2>2
<1>9. CASE PrefillDefers
  <2>1. active' = active /\ seq'[j] \in {seq[j], [seq[j] EXCEPT !.out = "Skipped"]}
    BY <1>2, <1>9 DEF PrefillDefers, PrefillNext, TypeOK
  <2> QED
    BY <1>1, <1>2, <2>1 DEF SeqStates
<1>10. CASE Push
  BY <1>1, <1>2, <1>10, PushIs DEF Push
<1>11. CASE DecodeRows \/ DecodeFails
  BY <1>1, <1>2, <1>11, DecodeIs
<1> QED
  BY <1>3, <1>4, <1>5, <1>6, <1>7, <1>8, <1>9, <1>10, <1>11, IntoGrowth, IntoRound
     DEF Growth, Prefills

LEMMA OldestGrows ==
  ASSUME TypeOK, Placement, RequestsGood, AllFit, NobodyWaits, OldestRuns, [Next]_vars,
         ~CancelledLeaving', active' # <<>>,
         (phase' = "Grow" /\ cursor' > 1) \/ (phase' = "Round" /\ loaded')
  PROVE  ~seq'[active'[1]].paused
<1>0. /\ active \in Seq(Jobs) /\ Len(active) \in Nat /\ IsInjective(active) /\ cursor \in Nat \ {0}
      /\ \A i \in 1 .. Len(active) : active[i] \in Jobs
      /\ active # <<>> => 1 \in 1 .. Len(active)
  BY LenProperties, ElementOfSeq, EmptySeq DEF TypeOK, Placement
<1>1. CASE Untouched
  BY <1>1 DEF Untouched, OldestRuns, CancelledLeaving
<1>2. CASE GrantSkipped
  <2>1. active' = active /\ seq' = seq /\ ~Binds
    BY <1>2 DEF GrantSkipped, BorrowFails, Binds
  <2>2. active[1] \in Range(active)
    BY <1>0, <2>1, SeqMembers
  <2> QED
    BY <2>1, <2>2 DEF NobodyWaits
<1>3. CASE TopUpSenior
  BY <1>3 DEF TopUpSenior
<1>4. CASE Growth
  <2>1. phase = "Grow" /\ phase \in Grants
    BY <1>4 DEF Growth, GrowFinished, GrowWithin, GrowGranted, GrowEvicts, GrowPauses, GrowEnds,
       Growing, Grants
  <2>2. ~CancelledLeaving
    BY <2>1, CancelStays
  <2>3. \A i \in 1 .. Len(active) : Live(i)
    BY <2>1, <2>2, EveryoneLive
  <2>4. active # <<>> /\ cursor > 1 => ~seq[active[1]].paused
    BY <2>1, <2>2 DEF OldestRuns
  <2>5. CASE GrowFinished \/ GrowWithin \/ GrowGranted \/ GrowPauses
    <3>1. /\ active' = active /\ cursor \in 1 .. Len(active) /\ Current \in Jobs
          /\ \A k \in Jobs : k # Current => seq'[k] = seq[k]
          /\ seq'[Current].finished = seq[Current].finished
          /\ ~GrowPauses => seq'[Current].finished \/ ~seq'[Current].paused
      BY <2>5, GrantedIs
    <3>2. 1 \in 1 .. Len(active) /\ active[1] \in Jobs
      BY <1>0, <3>1
    <3>3. CASE cursor = 1
      <4>1. Live(cursor) /\ ~seq[Current].finished
        BY <2>3, <3>1 DEF Live, Current
      <4>2. ~GrowPauses
        <5>1. ASSUME GrowPauses PROVE FALSE
          <6>1. Growing /\ ~Growable(Current) /\ ~(IsSenior(cursor) /\ HasVictim)
            BY <5>1 DEF GrowPauses
          <6>2. IsSenior(cursor)
            BY <3>3, <4>1 DEF IsSenior
          <6> QED
            BY <2>2, <6>1, <6>2, AloneGrows
        <5> QED
          BY <5>1
      <4>3. Current = active'[1]
        BY <3>1, <3>3 DEF Current
      <4> QED
        BY <3>1, <4>1, <4>2, <4>3
    <3>4. CASE cursor # 1
      <4>1. active[1] # Current /\ cursor > 1
        BY <1>0, <3>1, <3>2, <3>4 DEF Current, IsInjective
      <4> QED
        BY <2>4, <3>1, <3>2, <4>1
    <3> QED
      BY <3>3, <3>4
  <2>6. CASE GrowEvicts
    <3>1. PICK v \in 1 .. Len(active) :
            /\ phase' = "Grow" /\ cursor' = cursor /\ cursor \in 1 .. v - 1
            /\ \A i \in 1 .. v - 1 : active'[i] = active[i]
            /\ \A k \in Jobs : k # active[v] => seq'[k] = seq[k]
      BY <2>6, EvictionIs
    <3>2. cursor > 1 /\ 1 \in 1 .. v - 1 /\ 1 # v /\ 1 \in 1 .. Len(active)
      BY <1>0, <3>1
    <3>3. active[1] # active[v] /\ active[1] \in Jobs
      BY <1>0, <3>2 DEF IsInjective
    <3>4. active # <<>>
      BY <1>0, <3>2
    <3> QED
      BY <2>4, <3>1, <3>2, <3>3, <3>4
  <2>7. CASE GrowEnds
    <3>1. active' = active /\ seq' = seq /\ cursor > Len(active)
      BY <2>7 DEF GrowEnds
    <3>2. cursor > 1
      BY <1>0, <3>1
    <3> QED
      BY <2>4, <3>1, <3>2
  <2> QED
    BY <1>4, <2>5, <2>6, <2>7 DEF Growth
<1> QED
  BY <1>1, <1>2, <1>3, <1>4, IntoGrowth

LEMMA OldestSteps ==
  ASSUME TypeOK, Placement, RequestsGood, LanesGood, FirstServed, OldestRuns, [Next]_vars,
         ~CancelledLeaving', active' # <<>>, phase' \in Rounds
  PROVE  seq'[active'[1]].finished \/ seq'[active'[1]].out # "Skipped"
<1>0. /\ active \in Seq(Jobs) /\ Len(active) \in Nat /\ IsInjective(active) /\ cursor \in Nat \ {0}
      /\ \A i \in 1 .. Len(active) : active[i] \in Jobs
      /\ active # <<>> => 1 \in 1 .. Len(active)
  BY LenProperties, ElementOfSeq, EmptySeq DEF TypeOK, Placement
<1> DEFINE o == active[1]
           Fine(r) == r.finished \/ r.out # "Skipped"
<1>1. CASE Untouched
  BY <1>1 DEF Untouched, OldestRuns, CancelledLeaving
<1>2. CASE BeginRound
  <2>1. /\ phase = "Round" /\ phase \in Grants /\ active' = active /\ active # <<>> /\ loaded
    BY <1>2 DEF BeginRound, Grants, Borrow
  <2>2. o \in Jobs /\ seq[o] \in SeqStates /\ o \in Range(active) /\ ~CancelledLeaving
    BY <1>0, <2>1, SeqMembers, CancelStays DEF TypeOK
  <2>3. ~seq[o].finished
    BY <1>0, <2>1, <2>2, EveryoneLive DEF Live
  <2>4. ~seq[o].paused
    BY <2>1, <2>2 DEF OldestRuns
  <2>5. seq'[o] = Classified(o)
    BY <1>2, <2>2 DEF BeginRound
  <2>6. Fine(Classified(o))
    BY <2>2, <2>3, <2>4 DEF Classified, SeqStates
  <2> QED
    BY <2>1, <2>5, <2>6
<1>3. CASE Prefills \/ DecodeRows \/ DecodeFails
  <2>1. active' = active /\ phase \in {"Prefill", "Decode"} /\ phase \in Rounds
    BY <1>3 DEF Prefills, Push, PrefillSkips, PrefillDefers, PrefillChunk, PrefillLast, PrefillFails,
       PrefillNext, Prefilling, Pending, PrefillEnds, DecodeRows, DecodeFails, Rounds
  <2>2. o \in Jobs /\ seq[o] \in SeqStates /\ 1 \in 1 .. Len(active) /\ ~CancelledLeaving
    BY <1>0, <2>1, CancelStays DEF TypeOK
  <2>3. Fine(seq[o])
    BY <2>1, <2>2 DEF OldestRuns
  <2>4. CASE PrefillSkips \/ PrefillEnds
    BY <2>1, <2>3, <2>4 DEF PrefillSkips, PrefillEnds
  <2>5. CASE PrefillDefers
    <3>1. /\ Pending /\ Grant(Current) = 0 /\ seq' = [seq EXCEPT ![Current].out = "Skipped"]
      BY <2>5 DEF PrefillDefers
    <3>2. phase = "Prefill" /\ budget = 0 /\ cursor \in 1 .. Len(active) /\ Current \in Jobs
      BY <3>1, PendingIs
    <3>3. cursor # 1
      BY <3>2 DEF FirstServed
    <3>4. o # Current
      BY <1>0, <2>2, <3>2, <3>3 DEF Current, IsInjective
    <3>5. seq'[o] = seq[o]
      BY <2>2, <3>1, <3>4 DEF TypeOK
    <3> QED
      BY <2>1, <2>3, <3>5
  <2>6. CASE Push
    <3>1. /\ \A k \in Jobs : k # Current => seq'[k] = seq[k]
          /\ seq'[Current].out # "Skipped"
      BY <2>6, PushIs DEF Push
    <3> QED
      BY <2>1, <2>2, <2>3, <3>1
  <2>7. CASE DecodeRows \/ DecodeFails
    <3>1. /\ \A k \in Jobs : k \notin Rows => seq'[k] = seq[k]
          /\ \A k \in Rows : seq'[k].out # "Skipped"
      BY <2>7, DecodeIs
    <3> QED
      BY <2>1, <2>2, <2>3, <3>1
  <2> QED
    BY <1>3, <2>4, <2>5, <2>6, <2>7 DEF Prefills
<1> QED
  BY <1>1, <1>2, <1>3, IntoRound

LEMMA OldestStep ==
  ASSUME TypeOK, ReservationsFit, Placement, RequestsGood, LanesGood, OldestGood, [Next]_vars
  PROVE  OldestGood'
<1>1. OldestRuns'
  BY OldestGrows, OldestSteps DEF OldestGood, OldestRuns
<1> QED
  BY <1>1, AllFitStep, NobodyWaitsStep, FirstServedStep DEF OldestGood

LEMMA InitOldest == Init => OldestGood
BY EmptyRange DEF Init, OldestGood, AllFit, NobodyWaits, FirstServed, OldestRuns

OldestInv == LaneInv /\ OldestGood

LEMMA OldestHold == Spec => []OldestInv
<1>1. LaneInv /\ OldestGood /\ [Next]_vars => OldestGood'
  BY OldestStep DEF LaneInv, RequestInv, Inv
<1> QED
  BY <1>1, InitOldest, LanesHold, PTL DEF Spec, OldestInv

(* The oldest sequence advances in every other round, however short the    *)
(* pool and the prefill budget are; only a sequence cancelled in that very *)
(* round can keep it waiting.                                              *)
THEOREM OldestAlwaysAdvances == Spec => []OldestAdvances
<1>1. OldestInv => StuckOnlyByCancel
  <2> SUFFICES ASSUME OldestInv, SeniorStuck, ~CancelledLeaving PROVE FALSE
    BY DEF StuckOnlyByCancel
  <2>1. TypeOK /\ Placement /\ RequestsGood /\ AllFit
    BY DEF OldestInv, LaneInv, RequestInv, Inv, OldestGood
  <2> QED
    BY <2>1, AloneGrows DEF SeniorStuck
<1>2. ASSUME OldestInv, phase = "Ship", ~CancelledLeaving,
             NEW j \in {active[i] : i \in 1 .. Smaller(1, Len(active))}
      PROVE  seq[j].finished \/ seq[j].out # "Skipped"
  <2>1. active \in Seq(Jobs) /\ Len(active) \in Nat
    BY <1>2, LenProperties DEF OldestInv, LaneInv, RequestInv, Inv, TypeOK
  <2>2. PICK i \in 1 .. Smaller(1, Len(active)) : j = active[i]
    BY <1>2
  <2>3. i = 1 /\ Len(active) > 0
    BY <2>1, <2>2 DEF Smaller
  <2>4. active # <<>>
    BY <2>1, <2>3
  <2> QED
    BY <1>2, <2>2, <2>3, <2>4 DEF OldestInv, OldestGood, OldestRuns, Rounds
<1>3. OldestInv => OldestAdvances
  BY <1>1, <1>2 DEF OldestAdvances
<1> QED
  BY <1>3, OldestHold, PTL

-------------------------------------------------------------------------------
(* Reserve admission: nobody is evicted, so an idle worker holds nothing.  *)

ReserveGood == resume = <<>> /\ \A j \in Range(active) : Whole(j) <= seq[j].resv

LEMMA ReserveStep ==
  ASSUME TypeOK, ReservationsFit, Placement, RequestsGood, ReserveGood, [Next]_vars,
         Admission = "Reserve"
  PROVE  ReserveGood'
<1>1. ~GrowEvicts
  <2>1. ASSUME GrowEvicts PROVE FALSE
    <3>1. /\ Current \in Jobs /\ Current \in Range(active) /\ Need(Current) > seq[Current].resv
      BY <2>1, CurrentType DEF GrowEvicts, Growing, Short
    <3>2. Need(Current) <= Whole(Current)
      BY <3>1, WorstIsWhole, ActiveIs DEF Sound
    <3>3. Whole(Current) <= seq[Current].resv
      BY <3>1 DEF ReserveGood
    <3>4. Need(Current) \in Nat /\ Whole(Current) \in Nat /\ seq[Current].resv \in Nat
      BY <3>1, WorstIsWhole, ChargesNat DEF TypeOK, SeqStates
    <3> QED
      BY <3>1, <3>2, <3>3, <3>4
  <2> QED
    BY <2>1
<1>2. resume' = <<>>
  <2>1. Range(resume') \subseteq Range(active)
    BY EvictedFrom, EmptyRange DEF ReserveGood
  <2>2. Range(resume') = {}
    BY <1>1, <2>1, OnlyGrowthEvicts
  <2>3. resume' \in Seq(Jobs)
    BY NextType DEF TypeOK
  <2> QED
    BY <2>2, <2>3, NoMembers
<1>3. ASSUME NEW j \in Range(active') PROVE Whole(j) <= seq'[j].resv
  <2>1. CASE j \in Range(active)
    <3>1. /\ seq[j].resv \in Nat /\ seq'[j].resv \in Nat /\ seq'[j].resv >= seq[j].resv
      BY <2>1, MembersKept
    <3>2. j \in Jobs /\ Whole(j) <= seq[j].resv
      BY <2>1, ActiveIs DEF ReserveGood
    <3> QED
      BY <3>1, <3>2, WorstIsWhole
  <2>2. CASE j \notin Range(active)
    <3>1. seq'[j].resv = Guaranteed(j)
      BY <2>2, MembersKept
    <3>2. j \in Jobs
      BY NextType, SeqMembers DEF TypeOK
    <3>3. Guaranteed(j) = Worst(j) /\ Worst(j) = Whole(j) /\ Whole(j) \in Nat
      BY <3>2, WorstIsWhole DEF Guaranteed
    <3> QED
      BY <3>1, <3>3
  <2> QED
    BY <2>1, <2>2
<1> QED
  BY <1>2, <1>3 DEF ReserveGood, Whole, MaxGen

(* The model goes only with an unload, a failed borrow or the thread.      *)
LEMMA ModelGoes ==
  ASSUME [Next]_vars, loaded, ~loaded', phase' \notin {"Dead", "Stopped"}, "decoder" \notin Env
  PROVE  active = <<>> /\ queue = <<>>
<1>1. CASE Client \/ UNCHANGED vars
  BY <1>1 DEF Client, Submit, Cancel, Control, vars
<1>2. CASE Poll \/ Panic \/ Respawn
  BY <1>2 DEF Poll, TakeSubmit, TakeLoad, TakeUnload, Drained, TakeClearState, TakeShutdown, EndPoll,
     Panic, Exit, Respawn
<1>3. CASE Admit
  BY <1>3 DEF Admit, ResumeStops, ResumeOne, RejectCancelled, RejectFailed, RejectTooLarge, AdmitOne,
     AdmitStops, Enter, Borrow, BorrowFails
<1>4. CASE GrantGrowth
  BY <1>4 DEF GrantGrowth, SweepIdle, SweepCancelled, GrantSkipped, TopUpSenior, GrowFinished,
     GrowWithin, GrowGranted, GrowEvicts, GrowPauses, GrowNext, GrowEnds, Borrow, BorrowFails
<1>5. CASE StepRound \/ Deliver
  BY <1>5 DEF StepRound, RoundFails, BeginRound, PrefillSkips, PrefillDefers, PrefillChunk,
     PrefillLast, PrefillFails, PrefillNext, PrefillEnds, DecodeRows, DecodeFails, Deliver, Ship,
     RetireOne, RetireKeeps, RetireEnds, Borrow, BorrowFails
<1> QED
  BY <1>1, <1>2, <1>3, <1>4, <1>5 DEF Next, Worker

(* Under reserve admission, with a decoder the server always lends, an     *)
(* unload takes the model only when nothing is in flight. (Under elastic   *)
(* admission the code breaks this: evicted sequences are not counted.)     *)
THEOREM UnloadsOnlyWhenDrained ==
  ASSUME Admission = "Reserve", "decoder" \notin Env
  PROVE  Spec => UnloadOnlyWhenDrained
<1>1. Init => ReserveGood
  BY EmptyRange DEF Init, ReserveGood
<1>2. RequestInv /\ ReserveGood /\ [Next]_vars => ReserveGood'
  BY ReserveStep DEF RequestInv, Inv
<1>3. ReserveGood /\ [Next]_vars =>
        [loaded /\ ~loaded' /\ phase' \notin {"Dead", "Stopped"}
           => active = <<>> /\ queue = <<>> /\ resume = <<>>]_vars
  BY ModelGoes DEF ReserveGood
<1> QED
  BY <1>1, <1>2, <1>3, RequestsHold, PTL DEF Spec, UnloadOnlyWhenDrained
===============================================================================
