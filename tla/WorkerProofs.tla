------------------------------ MODULE WorkerProofs ------------------------------
(***************************************************************************)
(* Every reachable state of the worker is well typed and never promises    *)
(* more KV blocks than the pool has, for any jobs, sizes and budgets: the  *)
(* first half, with the facts about the operators the worker is built from *)
(* (block arithmetic, the sequences of jobs, the credits that stand for    *)
(* reserved blocks, the choice of a slot). Then what becomes of each       *)
(* request: in which one place it waits, what it is told, with which       *)
(* reason it ends, and who can be evicted.                                 *)
(***************************************************************************)
EXTENDS WorkerProperties, FiniteSetTheorems, SequenceTheorems, TLAPS

-------------------------------------------------------------------------------
(* Arithmetic.                                                             *)

(* Smaller stays in the naturals and is a lower bound (usize::min).        *)
LEMMA SmallerNat ==
  ASSUME NEW m \in Nat, NEW n \in Nat
  PROVE  Smaller(m, n) \in Nat /\ Smaller(m, n) <= m /\ Smaller(m, n) <= n
BY DEF Smaller

(* A count of tokens occupies a natural number of blocks (blocks_for).     *)
LEMMA BlocksForNat ==
  ASSUME NEW t \in Nat
  PROVE  BlocksFor(t) \in Nat
<1>1. BlockSize \in Nat /\ BlockSize >= 1
  BY KvBudgetAssumption
<1>2. \A n \in Nat, b \in Nat : b >= 1 => n \div b \in Nat
  BY SMT
<1> QED
  BY <1>1, <1>2 DEF BlocksFor

(* The token cap of a job is a natural number, requested or not.           *)
LEMMA MaxGenNat ==
  ASSUME NEW j \in Jobs
  PROVE  MaxGen(j) \in Nat
BY WorkerAssumption, SmallerNat DEF MaxGen, NoRequest

(* What a job holds and what it may be charged are natural numbers.        *)
LEMMA ChargesNat ==
  ASSUME TypeOK, NEW j \in Jobs
  PROVE  /\ Tokens(j) \in Nat
         /\ Worst(j) \in Nat /\ Footprint(j) \in Nat
         /\ Guaranteed(j) \in Nat /\ Need(j) \in Nat
<1>1. seq[j].generated \in Nat
  BY DEF TypeOK, SeqStates
<1>2. Prompt[j] \in Nat /\ Ctx \in Nat
  BY WorkerAssumption
<1>3. Tokens(j) \in Nat /\ Tokens(j) = Prompt[j] + seq[j].generated
  BY <1>1, <1>2 DEF Tokens
<1>4. Tokens(j) + MaxGen(j) - seq[j].generated \in Nat
  BY <1>1, <1>2, <1>3, MaxGenNat
<1>5. Worst(j) \in Nat
  BY <1>2, <1>4, SmallerNat, BlocksForNat DEF Worst
<1>6. Footprint(j) \in Nat
  <2>1. Tokens(j) + 1 \in Nat
    BY <1>3
  <2> QED
    BY <1>2, <2>1, SmallerNat, BlocksForNat DEF Footprint
<1>7. Need(j) \in Nat
  BY <1>2, <1>3, SmallerNat, BlocksForNat DEF Need
<1> QED
  BY <1>3, <1>5, <1>6, <1>7 DEF Guaranteed

-------------------------------------------------------------------------------
(* Sequences of jobs.                                                      *)

(* The elements of a sequence, as the range of a function.                 *)
LEMMA SeqMembers ==
  ASSUME NEW S, NEW s \in Seq(S)
  PROVE  /\ \A x : x \in Range(s) <=> \E i \in 1 .. Len(s) : x = s[i]
         /\ Range(s) \subseteq S
<1>1. Len(s) \in Nat /\ \A x : x \in Range(s) <=> \E i \in 1 .. Len(s) : x = s[i]
  BY LenProperties DEF Range
<1>2. Range(s) \subseteq S
  BY <1>1, ElementOfSeq
<1> QED
  BY <1>1, <1>2

(* An empty batch has no members.                                          *)
LEMMA EmptyRange == Range(<<>>) = {}
<1>1. <<>> \in Seq(Jobs) /\ Len(<<>>) = 0
  BY EmptySeq
<1>2. \A x : x \in Range(<<>>) <=> \E i \in 1 .. Len(<<>>) : x = <<>>[i]
  BY <1>1, SeqMembers
<1>3. 1 .. 0 = {}
  OBVIOUS
<1> QED
  BY <1>1, <1>2, <1>3

(* A sequence has finitely many elements, no more than its length.         *)
LEMMA RangeFinite ==
  ASSUME NEW S, NEW s \in Seq(S)
  PROVE  IsFiniteSet(Range(s)) /\ Cardinality(Range(s)) <= Len(s)
<1>1. Len(s) \in Nat /\ s \in [1 .. Len(s) -> Range(s)]
  BY LenProperties DEF Range
<1>2. \A x \in Range(s) : \E i \in 1 .. Len(s) : s[i] = x
  BY SeqMembers
<1>3. s \in Surjection(1 .. Len(s), Range(s))
  BY <1>1, <1>2 DEF Surjection
<1>4. IsFiniteSet(1 .. Len(s)) /\ Cardinality(1 .. Len(s)) = Len(s)
  BY <1>1, FS_Interval
<1>5. IsFiniteSet(Range(s)) /\ Cardinality(Range(s)) <= Cardinality(1 .. Len(s))
  BY <1>3, <1>4, FS_Surjection
<1> QED
  BY <1>1, <1>4, <1>5

(* Appending adds one element (Vec::push, VecDeque::push_back).            *)
LEMMA AppendRange ==
  ASSUME NEW S, NEW s \in Seq(S), NEW e \in S
  PROVE  Append(s, e) \in Seq(S) /\ Range(Append(s, e)) \subseteq Range(s) \cup {e}
<1> DEFINE t == Append(s, e)
<1>0. t \in Seq(S)
  BY AppendProperties
<1>1. /\ Len(s) \in Nat /\ Len(t) = Len(s) + 1
      /\ \A i \in 1 .. Len(s) : t[i] = s[i]
      /\ t[Len(s) + 1] = e
  BY AppendProperties, LenProperties
<1>2. \A i \in 1 .. Len(s) + 1 : i \in 1 .. Len(s) \/ i = Len(s) + 1
  BY <1>1
<1>3. \A x : x \in Range(s) <=> \E i \in 1 .. Len(s) : x = s[i]
  BY SeqMembers
<1> HIDE DEF t
<1>4. \A x : x \in Range(t) <=> \E i \in 1 .. Len(t) : x = t[i]
  BY <1>0, SeqMembers
<1>5. Range(t) \subseteq Range(s) \cup {e}
  BY <1>1, <1>2, <1>3, <1>4
<1> QED
  BY <1>0, <1>5 DEF t

(* Removing an element removes at most it (Vec::remove, Vec::retain_mut).  *)
LEMMA RemoveAtRange ==
  ASSUME NEW S, NEW s \in Seq(S), NEW v \in 1 .. Len(s)
  PROVE  RemoveAt(s, v) \in Seq(S) /\ Range(RemoveAt(s, v)) \subseteq Range(s)
<1> DEFINE R == Range(s)
<1>0. Len(s) \in Nat
  BY LenProperties
<1>1. R \subseteq S /\ \A i \in 1 .. Len(s) : s[i] \in R
  BY SeqMembers
<1> HIDE DEF R
<1>2. SubSeq(s, 1, v - 1) \in Seq(R)
  <2>1. v - 1 \in Int /\ \A i \in 1 .. v - 1 : s[i] \in R
    BY <1>0, <1>1
  <2> QED
    BY <2>1, SubSeqProperties
<1>3. SubSeq(s, v + 1, Len(s)) \in Seq(R)
  <2>1. v + 1 \in Int /\ Len(s) \in Int /\ \A i \in v + 1 .. Len(s) : s[i] \in R
    BY <1>0, <1>1
  <2> QED
    BY <2>1, SubSeqProperties
<1>4. RemoveAt(s, v) \in Seq(R)
  BY <1>2, <1>3, ConcatProperties DEF RemoveAt
<1>5. RemoveAt(s, v) \in Seq(S)
  BY <1>1, <1>4, SeqMonotonic
<1>6. Range(RemoveAt(s, v)) \subseteq R
  BY <1>4, SeqMembers
<1> QED
  BY <1>5, <1>6 DEF R

(* Popping from the back keeps the type and yields a member (Vec::pop).    *)
LEMMA FrontLast ==
  ASSUME NEW S, NEW s \in Seq(S), s # <<>>
  PROVE  Front(s) \in Seq(S) /\ Last(s) \in S
<1>1. Len(s) \in Nat \ {0} /\ \A i \in 1 .. Len(s) : s[i] \in S
  BY EmptySeq, LenProperties, ElementOfSeq
<1>2. \A i \in 1 .. Len(s) - 1 : s[i] \in S
  BY <1>1
<1> QED
  BY <1>1, <1>2, SubSeqProperties DEF Front, Last
-------------------------------------------------------------------------------
(* Credits: Reserved is a cardinality, so sums become set inclusions.      *)

(* The credits of finitely many reservations are finitely many.            *)
LEMMA CreditsFinite ==
  ASSUME TypeOK
  PROVE  IsFiniteSet(Credits) /\ Reserved \in Nat
<1> DEFINE A == Range(active)
           C == {{j} \X (1 .. seq[j].resv) : j \in A}
           f == [j \in A |-> {j} \X (1 .. seq[j].resv)]
<1>1. active \in Seq(Jobs)
  BY DEF TypeOK
<1>2. A \subseteq Jobs /\ IsFiniteSet(A)
  BY <1>1, SeqMembers, RangeFinite
<1>3. f \in Surjection(A, C)
  BY DEF Surjection
<1>4. IsFiniteSet(C)
  BY <1>2, <1>3, FS_Surjection
<1>5. \A j \in A : IsFiniteSet({j} \X (1 .. seq[j].resv))
  <2> TAKE j \in A
  <2>1. seq[j].resv \in Nat
    BY <1>2 DEF TypeOK, SeqStates
  <2>2. IsFiniteSet({j})
    BY FS_Singleton
  <2>3. \A n \in Nat : IsFiniteSet(1 .. n)
    BY FS_Interval
  <2> QED
    BY <2>1, <2>2, <2>3, FS_Product
<1>6. IsFiniteSet(UNION C)
  BY <1>4, <1>5, FS_UNION
<1> QED
  BY <1>6, FS_CardinalityType DEF Credits, Reserved

(* Granting j the blocks numbered m + 1 to n costs at most n - m credits.  *)
LEMMA GrantCost ==
  ASSUME NEW C, IsFiniteSet(C), NEW D, NEW j, NEW m \in Nat, NEW n \in Nat, m <= n,
         D \subseteq C \cup ({j} \X (m + 1 .. n))
  PROVE  IsFiniteSet(D) /\ Cardinality(D) <= Cardinality(C) + (n - m)
<1> DEFINE G == {j} \X (m + 1 .. n)
<1>1. IsFiniteSet({j}) /\ Cardinality({j}) = 1
  BY FS_Singleton
<1>2. IsFiniteSet(m + 1 .. n) /\ Cardinality(m + 1 .. n) = n - m
  <2>1. m + 1 \in Int /\ n \in Int
    OBVIOUS
  <2>2. /\ IsFiniteSet(m + 1 .. n)
        /\ Cardinality(m + 1 .. n) = IF m + 1 > n THEN 0 ELSE n - (m + 1) + 1
    BY <2>1, FS_Interval
  <2> QED
    BY <2>2
<1>3. IsFiniteSet(G) /\ Cardinality(G) = n - m
  <2>1. IsFiniteSet(G) /\ Cardinality(G) = Cardinality({j}) * Cardinality(m + 1 .. n)
    BY <1>1, <1>2, FS_Product
  <2> QED
    BY <1>1, <1>2, <2>1
<1> HIDE DEF G
<1>4. /\ IsFiniteSet(C \cup G)
      /\ Cardinality(C \cup G) = Cardinality(C) + Cardinality(G) - Cardinality(C \cap G)
  BY <1>3, FS_Union
<1>5. IsFiniteSet(C \cap G)
  BY FS_Intersection
<1>6. Cardinality(C) \in Nat /\ Cardinality(C \cap G) \in Nat
  BY <1>5, FS_CardinalityType
<1>7. D \in SUBSET (C \cup G)
  BY DEF G
<1>8. IsFiniteSet(D) /\ Cardinality(D) <= Cardinality(C \cup G)
  BY <1>4, <1>7, FS_Subset
<1>9. Cardinality(D) \in Nat
  BY <1>8, FS_CardinalityType
<1> QED
  BY <1>3, <1>4, <1>6, <1>8, <1>9

-------------------------------------------------------------------------------
(* Slots.                                                                  *)

(* While the batch is short of MaxSlots a slot is free, and the choice of  *)
(* the lowest is well defined ("admission only runs while a slot is free").*)
LEMMA SlotAvailable ==
  ASSUME TypeOK, Len(active) < MaxSlots
  PROVE  LowestFreeSlot \in Slots /\ LowestFreeSlot \in FreeSlots
<1> DEFINE A == Range(active)
           T == {seq[j].slot : j \in A}
           f == [j \in A |-> seq[j].slot]
<1>1. active \in Seq(Jobs) /\ MaxSlots \in Nat
  BY WorkerAssumption DEF TypeOK
<1>2. IsFiniteSet(A) /\ Cardinality(A) <= Len(active) /\ Len(active) \in Nat
  BY <1>1, RangeFinite, LenProperties
<1>3. f \in Surjection(A, T)
  BY DEF Surjection
<1>4. IsFiniteSet(T) /\ Cardinality(T) <= Cardinality(A)
  BY <1>2, <1>3, FS_Surjection
<1>5. IsFiniteSet(Slots) /\ Cardinality(Slots) = MaxSlots
  <2> DEFINE m == MaxSlots - 1
  <2>1. m \in Int /\ 0 \in Int
    BY <1>1
  <2> HIDE DEF m
  <2>2. IsFiniteSet(0 .. m) /\ Cardinality(0 .. m) = IF 0 > m THEN 0 ELSE m - 0 + 1
    BY <2>1, FS_Interval
  <2> QED
    BY <1>1, <2>2 DEF Slots, m
<1>6. ~(Slots \subseteq T)
  <2>1. Cardinality(A) \in Nat /\ Cardinality(T) \in Nat
    BY <1>2, <1>4, FS_CardinalityType
  <2>2. SUFFICES ASSUME Slots \subseteq T PROVE FALSE
    OBVIOUS
  <2>3. Cardinality(Slots) <= Cardinality(T)
    BY <1>4, <2>2, FS_Subset
  <2> QED
    BY <1>1, <1>2, <1>4, <1>5, <2>1, <2>3
<1>7. PICK s0 \in FreeSlots : TRUE
  BY <1>6 DEF FreeSlots
<1>8. FreeSlots \subseteq Nat /\ FreeSlots \subseteq Slots
  BY <1>1 DEF FreeSlots, Slots
<1>9. \E s \in FreeSlots : \A t \in FreeSlots : s <= t
  <2> DEFINE L == {p \in Nat \X Nat : p[1] < p[2]}
  <2>1. IsWellFoundedOn(L, Nat)
    BY NatLessThanWellFounded DEF OpToRel
  <2>0. \A s, t \in Nat : t < s => <<t, s>> \in L
    OBVIOUS
  <2> HIDE DEF L
  <2>2. PICK s \in FreeSlots : \A t \in FreeSlots : ~(<<t, s>> \in L)
    BY <1>7, <1>8, <2>1, WFMin
  <2>3. ASSUME NEW t \in FreeSlots PROVE s <= t
    <3>1. s \in Nat /\ t \in Nat
      BY <1>8
    <3>2. ~(t < s)
      BY <2>0, <2>2, <3>1
    <3> QED
      BY <3>1, <3>2
  <2> QED
    BY <2>3
<1> QED
  BY <1>8, <1>9 DEF LowestFreeSlot

-------------------------------------------------------------------------------
(* Types of the values the steps store.                                    *)

(* A sequence that is in no slot yet (the ActiveSeq that `admit` pushes).  *)
LEMMA BlankType == Blank \in SeqStates
BY DEF Blank, SeqStates, Outcomes

(* The lanes of a decoder that was just loaded or cleared.                 *)
LEMMA EmptyLanesType == EmptyLanes \in [Slots -> Nat]
BY DEF EmptyLanes

(* While the loop's index is inside the batch it names a job of it: the    *)
(* indexing `active[i]` of the growth, prefill and retire loops is in      *)
(* bounds, also after a removal shifted the batch.                         *)
LEMMA CurrentType ==
  ASSUME TypeOK, cursor <= Len(active)
  PROVE  Current \in Jobs /\ Current \in Range(active) /\ cursor \in 1 .. Len(active)
<1>1. active \in Seq(Jobs) /\ Len(active) \in Nat /\ cursor \in Nat \ {0}
  BY LenProperties DEF TypeOK
<1>2. cursor \in 1 .. Len(active)
  BY <1>1
<1> QED
  BY <1>1, <1>2, ElementOfSeq, SeqMembers DEF Current

(* The decoder's lanes after a borrow, failed or not.                      *)
LEMMA BorrowType ==
  ASSUME TypeOK, Borrow \/ BorrowFails
  PROVE  loaded' \in BOOLEAN /\ (BorrowFails => lane' \in [Slots -> Nat])
BY EmptyLanesType DEF Borrow, BorrowFails

(* The worker is spawned well typed.                                       *)
LEMMA InitType == Init => TypeOK
<1> SUFFICES ASSUME Init PROVE TypeOK
  OBVIOUS
<1>1. seq \in [Jobs -> SeqStates]
  BY BlankType DEF Init
<1>2. lane \in [Slots -> Nat] /\ sent \in [Jobs -> Seq(Events)]
  BY EmptySeq, EmptyLanesType DEF Init
<1>3. phase \in Phases /\ cursor \in Nat \ {0} /\ budget \in Nat \cup {Unbounded}
  BY DEF Init, Phases, Unbounded
<1>4. channel \in Seq(Commands) /\ queue \in Seq(Jobs) /\ active \in Seq(Jobs) /\ resume \in Seq(Jobs)
  BY EmptySeq DEF Init
<1> QED
  BY <1>1, <1>2, <1>3, <1>4 DEF Init, TypeOK

-------------------------------------------------------------------------------
(* Clients and Poll.                                                       *)

(* Submitting, cancelling and sending lifecycle commands keep the types.   *)
LEMMA ClientType ==
  ASSUME TypeOK, Client
  PROVE  TypeOK'
<1>1. ASSUME NEW j \in Jobs, Submit(j) PROVE TypeOK'
  BY <1>1, AppendProperties DEF TypeOK, Submit, Send, Commands
<1>2. ASSUME NEW j \in Jobs, Cancel(j) PROVE TypeOK'
  BY <1>2 DEF TypeOK, Cancel
<1>3. ASSUME NEW op \in Controls, Control(op) PROVE TypeOK'
  BY <1>3, AppendProperties DEF TypeOK, Control, Send, Commands
<1> QED
  BY <1>1, <1>2, <1>3 DEF Client

(* Shutdown and the panic boundary leave a fresh, well typed worker.       *)
LEMMA ExitType ==
  ASSUME TypeOK, NEW last \in Phases, Exit(last)
  PROVE  TypeOK'
<1>1. sent' \in [Jobs -> Seq(Events)]
  <2>1. "WorkerDied" \in Events
    BY DEF Events, Replies, ErrReplies
  <2>2. \A s \in Seq(Events) : Append(s, "WorkerDied") \in Seq(Events)
    BY <2>1, AppendProperties
  <2> QED
    BY <2>2 DEF Exit, TypeOK
<1>2. seq' \in [Jobs -> SeqStates]
  BY BlankType DEF Exit
<1>3. /\ channel' \in Seq(Commands) /\ queue' \in Seq(Jobs)
      /\ active' \in Seq(Jobs) /\ resume' \in Seq(Jobs)
  BY EmptySeq DEF Exit
<1>4. lane' \in [Slots -> Nat] /\ loaded' \in BOOLEAN
  BY EmptyLanesType DEF Exit
<1>5. phase' \in Phases /\ cursor' \in Nat \ {0} /\ budget' \in Nat \cup {Unbounded}
  BY DEF Exit
<1> QED
  BY <1>1, <1>2, <1>3, <1>4, <1>5 DEF Exit, TypeOK

(* Handling a command (handle_command) keeps the types.                    *)
LEMMA PollType ==
  ASSUME TypeOK, Poll
  PROVE  TypeOK'
<1>1. ASSUME NEW op, Receive(op)
      PROVE  channel' \in Seq(Commands) /\ Head(channel) \in Commands /\ Head(channel).op = op
  BY <1>1, HeadTailProperties DEF TypeOK, Receive
<1>2. ASSUME TakeSubmit PROVE TypeOK'
  <2>1. Head(channel).job \in Jobs
    BY <1>1, <1>2 DEF TakeSubmit, Commands, Controls
  <2>2. queue' \in Seq(Jobs)
    BY <1>2, <2>1, AppendProperties DEF TypeOK, TakeSubmit
  <2> QED
    BY <1>1, <1>2, <2>2 DEF TypeOK, TakeSubmit
<1>3. ASSUME TakeLoad PROVE TypeOK'
  BY <1>1, <1>3 DEF TypeOK, TakeLoad
<1>4. ASSUME TakeUnload PROVE TypeOK'
  <2>1. loaded' \in BOOLEAN
    BY <1>4, Zenon DEF TakeUnload
  <2>2. lane' \in [Slots -> Nat]
    BY <1>4, EmptyLanesType DEF TypeOK, TakeUnload
  <2> QED
    BY <1>1, <1>4, <2>1, <2>2 DEF TypeOK, TakeUnload
<1>5. ASSUME TakeClearState PROVE TypeOK'
  <2>1. lane' \in [Slots -> Nat]
    BY <1>5, EmptyLanesType DEF TypeOK, TakeClearState
  <2> QED
    BY <1>1, <1>5, <2>1 DEF TypeOK, TakeClearState
<1>6. ASSUME TakeShutdown PROVE TypeOK'
  BY <1>6, ExitType DEF TakeShutdown, Phases
<1>7. ASSUME EndPoll PROVE TypeOK'
  <2>1. phase' \in Phases
    BY <1>7 DEF EndPoll, Phases
  <2> QED
    BY <1>7, <2>1 DEF TypeOK, EndPoll, clientVars
<1> QED
  BY <1>2, <1>3, <1>4, <1>5, <1>6, <1>7 DEF Poll

-------------------------------------------------------------------------------
(* Resume and Admit.                                                       *)

(* Admission puts a well typed sequence into a slot that exists.           *)
LEMMA EnterType ==
  ASSUME TypeOK, NEW j \in Jobs, Enter(j), Len(active) < MaxSlots
  PROVE  /\ seq' \in [Jobs -> SeqStates] /\ lane' \in [Slots -> Nat]
         /\ active' \in Seq(Jobs) /\ loaded' \in BOOLEAN
BY SlotAvailable, ChargesNat, AppendProperties
   DEF TypeOK, Enter, Borrow, Entering, Blank, SeqStates, Outcomes

(* Handing an event to the emission thread extends the request's history.  *)
LEMMA TellType ==
  ASSUME TypeOK, NEW j \in Jobs, NEW e \in Events, Tell(j, e)
  PROVE  sent' \in [Jobs -> Seq(Events)]
<1>1. Append(sent[j], e) \in Seq(Events)
  BY AppendProperties DEF TypeOK
<1> QED
  BY <1>1 DEF TypeOK, Tell

(* The resume and queue loops of `admit` keep the types.                   *)
LEMMA AdmitType ==
  ASSUME TypeOK, Admit
  PROVE  TypeOK'
<1>1. queue # <<>> => Head(queue) \in Jobs /\ Tail(queue) \in Seq(Jobs)
  BY HeadTailProperties DEF TypeOK
<1>2. resume # <<>> => Front(resume) \in Seq(Jobs) /\ Last(resume) \in Jobs
  BY FrontLast DEF TypeOK
<1>3. ASSUME ResumeStops PROVE TypeOK'
  <2>1. lane' \in [Slots -> Nat] /\ loaded' \in BOOLEAN
    BY <1>3, BorrowType DEF TypeOK, ResumeStops
  <2>2. phase' \in Phases
    BY <1>3 DEF ResumeStops, Phases
  <2> QED
    BY <1>3, <2>1, <2>2 DEF TypeOK, ResumeStops, clientVars
<1>4. ASSUME ResumeOne PROVE TypeOK'
  <2>1. Last(resume) \in Jobs /\ Front(resume) \in Seq(Jobs) /\ Len(active) < MaxSlots
    BY <1>2, <1>4 DEF ResumeOne, Resumable
  <2>2. /\ seq' \in [Jobs -> SeqStates] /\ lane' \in [Slots -> Nat]
        /\ active' \in Seq(Jobs) /\ loaded' \in BOOLEAN
    BY <1>4, <2>1, EnterType DEF ResumeOne
  <2> QED
    BY <1>4, <2>1, <2>2 DEF TypeOK, ResumeOne, clientVars
<1>5. ASSUME NEW e \in Events, queue # <<>>, Reject(e),
             loaded' \in BOOLEAN, lane' \in [Slots -> Nat]
      PROVE  TypeOK'
  <2>1. sent' \in [Jobs -> Seq(Events)]
    BY <1>1, <1>5, TellType DEF Reject
  <2> QED
    BY <1>1, <1>5, <2>1 DEF TypeOK, Reject, clientVars
<1>6. {"CancelledInQueue", "Error", "Admitted"} \subseteq Events
  BY DEF Events, Replies, ErrReplies
<1>7. ASSUME RejectCancelled PROVE TypeOK'
  BY <1>5, <1>6, <1>7 DEF RejectCancelled, Admissible, TypeOK
<1>8. ASSUME RejectFailed PROVE TypeOK'
  <2>1. loaded' \in BOOLEAN /\ lane' \in [Slots -> Nat]
    BY <1>8, BorrowType DEF RejectFailed, TypeOK
  <2> QED
    BY <1>5, <1>6, <1>8, <2>1 DEF RejectFailed, Admissible
<1>9. ASSUME RejectTooLarge PROVE TypeOK'
  <2>1. loaded' \in BOOLEAN /\ lane' \in [Slots -> Nat]
    BY <1>9, BorrowType DEF RejectTooLarge, TypeOK
  <2> QED
    BY <1>5, <1>6, <1>9, <2>1 DEF RejectTooLarge, Admissible
<1>10. ASSUME AdmitOne PROVE TypeOK'
  <2>1. Head(queue) \in Jobs /\ Tail(queue) \in Seq(Jobs) /\ Len(active) < MaxSlots
    BY <1>1, <1>10 DEF AdmitOne, Admissible
  <2>2. /\ seq' \in [Jobs -> SeqStates] /\ lane' \in [Slots -> Nat]
        /\ active' \in Seq(Jobs) /\ loaded' \in BOOLEAN
    BY <1>10, <2>1, EnterType DEF AdmitOne
  <2>3. sent' \in [Jobs -> Seq(Events)]
    BY <1>6, <1>10, <2>1, TellType DEF AdmitOne
  <2> QED
    BY <1>10, <2>1, <2>2, <2>3 DEF TypeOK, AdmitOne, clientVars
<1>11. ASSUME AdmitStops PROVE TypeOK'
  <2>1. loaded' \in BOOLEAN
    BY <1>11, BorrowType DEF AdmitStops, TypeOK
  <2>2. phase' \in Phases
    BY <1>11 DEF AdmitStops, Phases
  <2> QED
    BY <1>11, <2>1, <2>2 DEF TypeOK, AdmitStops, clientVars
<1> QED
  BY <1>3, <1>4, <1>7, <1>8, <1>9, <1>10, <1>11 DEF Admit
-------------------------------------------------------------------------------
(* Growth.                                                                 *)

(* What is left of the pool is never negative while the reservations fit:  *)
(* `kv.total_blocks - reserved` does not underflow.                        *)
LEMMA SlackNat ==
  ASSUME TypeOK, ReservationsFit
  PROVE  Slack \in Nat /\ Reserved \in Nat /\ Reserved + Slack = TotalBlocks
BY CreditsFinite, KvBudgetAssumption DEF Slack, ReservationsFit

(* A top-up is positive and stays within the slack.                        *)
LEMMA TopUpNat ==
  ASSUME TypeOK, ReservationsFit, NEW j \in Jobs, Worst(j) > seq[j].resv
  PROVE  TopUp(j) \in Nat /\ TopUp(j) <= Slack
<1>1. Worst(j) \in Nat /\ seq[j].resv \in Nat /\ Slack \in Nat
  BY ChargesNat, SlackNat DEF TypeOK, SeqStates
<1>2. Worst(j) - seq[j].resv \in Nat
  BY <1>1
<1> QED
  BY <1>1, <1>2, SmallerNat DEF TopUp

(* The cancel sweep and the growth pass keep the types: a reservation that *)
(* is topped up or grown stays a natural number.                           *)
LEMMA GrantGrowthType ==
  ASSUME TypeOK, ReservationsFit, GrantGrowth
  PROVE  TypeOK'
<1>1. ASSUME SweepIdle PROVE TypeOK'
  <2>1. phase' \in Phases
    BY <1>1 DEF SweepIdle, Phases
  <2> QED
    BY <1>1, <2>1 DEF TypeOK, SweepIdle, clientVars
<1>2. ASSUME SweepCancelled PROVE TypeOK'
  <2>0. \A r \in SeqStates : [r EXCEPT !.finished = TRUE, !.cancelled = TRUE] \in SeqStates
    BY DEF SeqStates
  <2>1. seq' \in [Jobs -> SeqStates]
    BY <1>2, <2>0 DEF TypeOK, SweepCancelled
  <2>2. phase' \in Phases
    BY <1>2 DEF SweepCancelled, Phases
  <2> QED
    BY <1>2, <2>1, <2>2 DEF TypeOK, SweepCancelled, clientVars
<1>3. ASSUME GrantSkipped PROVE TypeOK'
  <2>1. loaded' \in BOOLEAN /\ lane' \in [Slots -> Nat]
    BY <1>3, BorrowType DEF GrantSkipped, TypeOK
  <2>2. phase' \in Phases
    BY <1>3 DEF GrantSkipped, Phases
  <2> QED
    BY <1>3, <2>1, <2>2 DEF TypeOK, GrantSkipped, clientVars
<1>4. ASSUME TopUpSenior PROVE TypeOK'
  <2>1. ASSUME NEW j \in Jobs, Worst(j) > seq[j].resv
        PROVE  [seq[j] EXCEPT !.resv = @ + TopUp(j)] \in SeqStates
    <3>1. seq[j] \in SeqStates /\ seq[j].resv + TopUp(j) \in Nat
      BY <2>1, TopUpNat DEF TypeOK, SeqStates
    <3>2. \A n \in Nat : [seq[j] EXCEPT !.resv = n] \in SeqStates
      BY <3>1 DEF SeqStates
    <3> QED
      BY <3>1, <3>2
  <2>2. seq' \in [Jobs -> SeqStates]
    BY <1>4, <2>1 DEF TypeOK, TopUpSenior
  <2>3. phase' \in Phases /\ cursor' \in Nat \ {0}
    BY <1>4 DEF TopUpSenior, Phases
  <2> QED
    BY <1>4, <2>2, <2>3 DEF TypeOK, TopUpSenior, Borrow, clientVars
<1>5. cursor + 1 \in Nat \ {0}
  BY DEF TypeOK
<1>6. ASSUME Growing PROVE Current \in Jobs
  BY <1>6, CurrentType DEF Growing
<1>7. ASSUME GrowFinished PROVE TypeOK'
  BY <1>5, <1>7 DEF TypeOK, GrowFinished, GrowNext, clientVars
<1>8. ASSUME GrowWithin PROVE TypeOK'
  <2>1. seq' \in [Jobs -> SeqStates]
    BY <1>6, <1>8, ZenonT(60) DEF TypeOK, GrowWithin, Unpaused, SeqStates
  <2> QED
    BY <1>5, <1>8, <2>1 DEF TypeOK, GrowWithin, GrowNext, clientVars
<1>9. ASSUME GrowGranted PROVE TypeOK'
  <2>1. Current \in Jobs /\ Need(Current) \in Nat
    BY <1>6, <1>9, ChargesNat DEF GrowGranted
  <2>2. [seq[Current] EXCEPT !.resv = Need(Current), !.paused = FALSE] \in SeqStates
    BY <2>1 DEF TypeOK, SeqStates
  <2>3. seq' = [seq EXCEPT ![Current] = [seq[Current] EXCEPT !.resv = Need(Current), !.paused = FALSE]]
    BY <1>9, <2>1 DEF GrowGranted, TypeOK
  <2>4. seq' \in [Jobs -> SeqStates]
    BY <2>2, <2>3 DEF TypeOK
  <2> QED
    BY <1>5, <1>9, <2>4 DEF TypeOK, GrowGranted, GrowNext, clientVars
<1>10. ASSUME GrowEvicts PROVE TypeOK'
  <2>1. PICK v \in 1 .. Len(active) :
          /\ active' = RemoveAt(active, v)
          /\ resume' = Append(resume, active[v])
          /\ lane' = Released(active[v])
          /\ seq' = [seq EXCEPT ![active[v]] =
                       [Blank EXCEPT !.generated = seq[active[v]].generated]]
    BY <1>10 DEF GrowEvicts
  <2>2. active[v] \in Jobs
    BY ElementOfSeq DEF TypeOK
  <2>3. active' \in Seq(Jobs) /\ resume' \in Seq(Jobs)
    BY <2>1, <2>2, RemoveAtRange, AppendProperties DEF TypeOK
  <2>4. lane' \in [Slots -> Nat]
    BY <2>1 DEF TypeOK, Released
  <2>5. seq' \in [Jobs -> SeqStates]
    BY <2>1, <2>2 DEF TypeOK, Blank, SeqStates, Outcomes
  <2> QED
    BY <1>10, <2>3, <2>4, <2>5 DEF TypeOK, GrowEvicts, clientVars
<1>11. ASSUME GrowPauses PROVE TypeOK'
  <2>1. seq' \in [Jobs -> SeqStates]
    BY <1>6, <1>11, ZenonT(60) DEF TypeOK, GrowPauses, Paused, SeqStates
  <2> QED
    BY <1>5, <1>11, <2>1 DEF TypeOK, GrowPauses, GrowNext, clientVars
<1>12. ASSUME GrowEnds PROVE TypeOK'
  <2>1. phase' \in Phases /\ cursor' \in Nat \ {0}
    BY <1>12 DEF GrowEnds, Phases
  <2> QED
    BY <1>12, <2>1 DEF TypeOK, GrowEnds, clientVars
<1> QED
  BY <1>1, <1>2, <1>3, <1>4, <1>7, <1>8, <1>9, <1>10, <1>11, <1>12 DEF GrantGrowth

-------------------------------------------------------------------------------
(* The round and its delivery.                                             *)

(* What a forward makes of a sequence, sampled or failed.                  *)
LEMMA AdvancedType ==
  ASSUME TypeOK, NEW j \in Jobs, NEW stop \in BOOLEAN
  PROVE  Advanced(j, stop) \in SeqStates /\ Failed(j) \in SeqStates
<1>1. seq[j] \in SeqStates /\ Tokens(j) \in Nat /\ MaxGen(j) \in Nat
  BY ChargesNat, MaxGenNat DEF TypeOK
<1>2. (stop \/ seq[j].generated + 1 >= MaxGen(j)) \in BOOLEAN
  OBVIOUS
<1>3. "Stopped" \in Outcomes /\ "Stepped" \in Outcomes /\ "Failed" \in Outcomes
  BY DEF Outcomes
<1>4. Failed(j) \in SeqStates
  BY <1>1, <1>3 DEF Failed, SeqStates
<1>5. \A p \in Nat, g \in Nat, b \in BOOLEAN, o \in Outcomes :
        [seq[j] EXCEPT !.processed = p, !.generated = g, !.finished = b, !.out = o] \in SeqStates
  BY <1>1 DEF SeqStates
<1>6. seq[j].generated + 1 \in Nat
  BY <1>1 DEF SeqStates
<1>7. Advanced(j, stop) \in SeqStates
  BY <1>1, <1>2, <1>3, <1>5, <1>6 DEF Advanced
<1> QED
  BY <1>4, <1>7

(* A prefill grant never exceeds a bound budget, so the `remaining` of     *)
(* admit_prefill does not underflow.                                       *)
LEMMA GrantWithin ==
  ASSUME TypeOK, NEW j \in Jobs
  PROVE  Grant(j) \in Int /\ (budget # Unbounded => budget - Grant(j) \in Nat)
<1>4. Tokens(j) \in Nat
  BY ChargesNat
<1>5. seq[j].processed \in Nat
  BY ONLY TypeOK, j \in Jobs DEF TypeOK, SeqStates
<1>1. Unprocessed(j) \in Int
  BY ONLY <1>4, <1>5 DEF Unprocessed
<1> PICK left \in Int : left = Unprocessed(j)
  BY <1>1
<1>3. ChunkSize \in Nat
  BY WorkerAssumption
<1>2. Wanted(j) \in Int
  BY ONLY <1>3, left \in Int, left = Unprocessed(j) DEF Wanted, Smaller
<1> QED
  BY <1>2 DEF Grant, Smaller, TypeOK

(* Classification stores only outcomes and flags.                          *)
LEMMA ClassifiedType ==
  ASSUME TypeOK, NEW j \in Jobs
  PROVE  Classified(j) \in SeqStates
<1>1. seq[j] \in SeqStates
  BY DEF TypeOK
<1>2. \A o \in Outcomes, b \in BOOLEAN :
        /\ [seq[j] EXCEPT !.out = o] \in SeqStates
        /\ [seq[j] EXCEPT !.out = o, !.finished = b] \in SeqStates
  BY <1>1 DEF SeqStates
<1>3. {"Skipped", "Failed", "Prefill", "Decode"} \subseteq Outcomes
  BY DEF Outcomes
<1> QED
  BY <1>2, <1>3 DEF Classified

(* A lane of the decoder set to a number of tokens.                        *)
LEMMA LaneSet ==
  ASSUME TypeOK, NEW s, NEW n \in Nat
  PROVE  [lane EXCEPT ![s] = n] \in [Slots -> Nat]
BY DEF TypeOK

(* step_round keeps the types: the prefill budget never falls below zero   *)
(* and a lane is always set to a natural number of tokens.                 *)
LEMMA StepRoundType ==
  ASSUME TypeOK, StepRound
  PROVE  TypeOK'
<1>1. cursor + 1 \in Nat \ {0} /\ {"Poll", "Prefill", "Decode", "Ship"} \subseteq Phases
  BY DEF TypeOK, Phases
<1>2. ASSUME Pending PROVE Current \in Jobs
  BY <1>2, CurrentType DEF Pending, Prefilling
<1>3. ASSUME Pending, SpendBudget PROVE budget' \in Nat \cup {Unbounded}
  BY <1>2, <1>3, GrantWithin DEF SpendBudget
<1>4. ASSUME RoundFails PROVE TypeOK'
  <2>1. \A s \in Seq(Events) : Append(s, "Error") \in Seq(Events)
    BY AppendProperties DEF Events, Replies, ErrReplies
  <2>2. sent' \in [Jobs -> Seq(Events)]
    BY <1>4, <2>1 DEF TypeOK, RoundFails
  <2>3. seq' \in [Jobs -> SeqStates]
    BY <1>4, BlankType DEF TypeOK, RoundFails
  <2>4. active' \in Seq(Jobs)
    BY <1>4, EmptySeq DEF RoundFails
  <2>5. lane' \in [Slots -> Nat] /\ loaded' \in BOOLEAN
    BY <1>4, BorrowType DEF RoundFails
  <2> QED
    BY <1>1, <1>4, <2>2, <2>3, <2>4, <2>5 DEF TypeOK, RoundFails, clientVars
<1>5. ASSUME BeginRound PROVE TypeOK'
  <2>1. seq' \in [Jobs -> SeqStates]
    BY <1>5, ClassifiedType DEF TypeOK, BeginRound
  <2>2. budget' \in Nat \cup {Unbounded}
    BY <1>5, WorkerAssumption DEF BeginRound
  <2>3. loaded' \in BOOLEAN
    BY <1>5, BorrowType DEF BeginRound
  <2> QED
    BY <1>1, <1>5, <2>1, <2>2, <2>3 DEF TypeOK, BeginRound, clientVars
<1>6. ASSUME PrefillSkips PROVE TypeOK'
  BY <1>1, <1>6 DEF TypeOK, PrefillSkips, PrefillNext, clientVars
<1>7. ASSUME PrefillDefers PROVE TypeOK'
  <2>1. seq' \in [Jobs -> SeqStates]
    <3>1. \A r \in SeqStates : [r EXCEPT !.out = "Skipped"] \in SeqStates
      BY DEF SeqStates, Outcomes
    <3> QED
      BY <1>2, <1>7, <3>1 DEF TypeOK, PrefillDefers
  <2> QED
    BY <1>1, <1>7, <2>1 DEF TypeOK, PrefillDefers, PrefillNext, clientVars
<1>8. ASSUME PrefillChunk PROVE TypeOK'
  <2>1. Pending /\ Current \in Jobs /\ Grant(Current) \in Nat
    BY <1>2, <1>8, ChargesNat DEF PrefillChunk, Unprocessed, TypeOK, SeqStates
  <2>2. seq[Current] \in SeqStates /\ seq[Current].processed + Grant(Current) \in Nat
    BY <2>1 DEF TypeOK, SeqStates
  <2>3. \A n \in Nat : [seq[Current] EXCEPT !.processed = n, !.out = "Prefilling"] \in SeqStates
    BY <2>2 DEF SeqStates, Outcomes
  <2>4. seq' \in [Jobs -> SeqStates]
    <3>1. seq' = [seq EXCEPT ![Current] =
                   [seq[Current] EXCEPT !.processed = seq[Current].processed + Grant(Current),
                                        !.out = "Prefilling"]]
      BY <1>8, <2>1 DEF PrefillChunk, TypeOK
    <3> QED
      BY <2>2, <2>3, <3>1 DEF TypeOK
  <2>5. lane' \in [Slots -> Nat]
    BY <1>8, <2>2, LaneSet DEF PrefillChunk
  <2> QED
    BY <1>1, <1>3, <1>8, <2>1, <2>4, <2>5 DEF TypeOK, PrefillChunk, PrefillNext, clientVars
<1>9. ASSUME PrefillLast PROVE TypeOK'
  <2>1. Pending /\ Current \in Jobs /\ Tokens(Current) \in Nat
    BY <1>2, <1>9, ChargesNat DEF PrefillLast
  <2>2. PICK stop \in BOOLEAN : seq' = [seq EXCEPT ![Current] = Advanced(Current, stop)]
    BY <1>9 DEF PrefillLast, StopChoices
  <2>3. seq' \in [Jobs -> SeqStates]
    BY <2>1, <2>2, AdvancedType DEF TypeOK
  <2>4. lane' \in [Slots -> Nat]
    BY <1>9, <2>1, LaneSet DEF PrefillLast
  <2> QED
    BY <1>1, <1>3, <1>9, <2>1, <2>3, <2>4 DEF TypeOK, PrefillLast, PrefillNext, clientVars
<1>10. ASSUME PrefillFails PROVE TypeOK'
  <2>1. Pending /\ Current \in Jobs
    BY <1>2, <1>10 DEF PrefillFails
  <2>2. seq[Current].processed + Grant(Current) \in Nat
    BY <1>10, <2>1, GrantWithin DEF PrefillFails, TypeOK, SeqStates
  <2>3. seq' \in [Jobs -> SeqStates]
    BY <1>10, <2>1, AdvancedType DEF TypeOK, PrefillFails
  <2>4. lane' \in [Slots -> Nat]
    BY <1>10, <2>2, LaneSet DEF PrefillFails, TypeOK
  <2> QED
    BY <1>1, <1>3, <1>10, <2>1, <2>3, <2>4 DEF TypeOK, PrefillFails, PrefillNext, clientVars
<1>11. ASSUME PrefillEnds PROVE TypeOK'
  BY <1>1, <1>11 DEF TypeOK, PrefillEnds, clientVars
<1>12. LanesAdvanced \in [Slots -> Nat]
  BY DEF TypeOK, LanesAdvanced
<1>13. ASSUME DecodeRows PROVE TypeOK'
  <2>1. PICK stops : seq' = [j \in Jobs |-> IF j \in Rows THEN Advanced(j, j \in stops) ELSE seq[j]]
    BY <1>13 DEF DecodeRows
  <2>2. \A j \in Jobs : (j \in stops) \in BOOLEAN
    OBVIOUS
  <2>3. \A j \in Jobs : Advanced(j, j \in stops) \in SeqStates
    BY <2>2, AdvancedType
  <2>4. seq' \in [Jobs -> SeqStates]
    BY <2>1, <2>3 DEF TypeOK
  <2> QED
    BY <1>1, <1>12, <1>13, <2>4 DEF TypeOK, DecodeRows, clientVars
<1>14. ASSUME DecodeFails PROVE TypeOK'
  <2>1. seq' \in [Jobs -> SeqStates]
    BY <1>14, AdvancedType DEF TypeOK, DecodeFails
  <2>2. lane' \in [Slots -> Nat]
    BY <1>12, <1>14 DEF TypeOK, DecodeFails
  <2> QED
    BY <1>1, <1>14, <2>1, <2>2 DEF TypeOK, DecodeFails, clientVars
<1> QED
  BY <1>4, <1>5, <1>6, <1>7, <1>8, <1>9, <1>10, <1>11, <1>13, <1>14 DEF StepRound

(* Shipping the round's events and retiring the finished keep the types.   *)
LEMMA DeliverType ==
  ASSUME TypeOK, Deliver
  PROVE  TypeOK'
<1>1. cursor + 1 \in Nat \ {0} /\ {"Poll", "Retire"} \subseteq Phases
  BY DEF TypeOK, Phases
<1>2. ASSUME Ship PROVE TypeOK'
  <2>1. \A s \in Seq(Events) :
          Append(s, "Error") \in Seq(Events) /\ Append(s, "Token") \in Seq(Events)
    BY AppendProperties DEF Events, Replies, ErrReplies
  <2>2. sent' \in [Jobs -> Seq(Events)]
    <3> DEFINE F == {j \in Range(active) : seq[j].out = "Failed"}
               P == {j \in Range(active) : seq[j].out = "Stepped"}
    <3>1. sent' = [j \in Jobs |-> CASE j \in F -> Append(sent[j], "Error")
                                    [] j \in P -> Append(sent[j], "Token")
                                    [] OTHER -> sent[j]]
      BY <1>2 DEF Ship
    <3>2. F \cap P = {}
      OBVIOUS
    <3> HIDE DEF F, P
    <3>3. \A j \in Jobs : sent[j] \in Seq(Events)
      BY DEF TypeOK
    <3> QED
      BY <2>1, <3>1, <3>2, <3>3
  <2>3. seq' \in [Jobs -> SeqStates]
    <3>1. \A r \in SeqStates, b \in BOOLEAN :
            [r EXCEPT !.stopped = b, !.out = "Skipped"] \in SeqStates
      BY DEF SeqStates, Outcomes
    <3>2. ASSUME NEW j \in Jobs
          PROVE  [seq[j] EXCEPT !.stopped = @ \/ seq[j].out = "Stopped", !.out = "Skipped"]
                   \in SeqStates
      <4>1. seq[j] \in SeqStates
        BY DEF TypeOK
      <4>2. (seq[j].stopped \/ seq[j].out = "Stopped") \in BOOLEAN
        OBVIOUS
      <4> QED
        BY <3>1, <4>1, <4>2
    <3> QED
      BY <1>2, <3>2 DEF TypeOK, Ship
  <2>4. /\ phase' = "Retire" /\ cursor' = 1
        /\ UNCHANGED <<clientVars, queue, active, resume, loaded, lane, budget>>
    BY <1>2, Zenon DEF Ship
  <2> QED
    BY <1>1, <2>2, <2>3, <2>4 DEF TypeOK, clientVars
<1>3. ASSUME RetireOne PROVE TypeOK'
  <2>1. Current \in Jobs /\ cursor \in 1 .. Len(active)
    BY <1>3, CurrentType DEF RetireOne, Retiring
  <2>2. Reason(Current) \in Events
    BY <2>1, Zenon DEF Reason, Events, Replies, OkReplies
  <2>3. sent' \in [Jobs -> Seq(Events)]
    BY <1>3, <2>1, <2>2, TellType DEF RetireOne
  <2>4. active' \in Seq(Jobs)
    BY <1>3, <2>1, RemoveAtRange DEF RetireOne, TypeOK
  <2>5. lane' \in [Slots -> Nat]
    BY <1>3, LaneSet DEF RetireOne, Released
  <2>6. seq' \in [Jobs -> SeqStates]
    BY <1>3, BlankType DEF RetireOne, TypeOK
  <2> QED
    BY <1>3, <2>3, <2>4, <2>5, <2>6 DEF TypeOK, RetireOne, clientVars
<1>4. ASSUME RetireKeeps PROVE TypeOK'
  BY <1>1, <1>4 DEF TypeOK, RetireKeeps, clientVars
<1>5. ASSUME RetireEnds PROVE TypeOK'
  BY <1>1, <1>5 DEF TypeOK, RetireEnds, clientVars
<1> QED
  BY <1>2, <1>3, <1>4, <1>5 DEF Deliver

(* Types are preserved by every step of a worker that has promised no more *)
(* than the pool.                                                          *)
LEMMA NextType ==
  ASSUME TypeOK, ReservationsFit, [Next]_vars
  PROVE  TypeOK'
<1>1. ASSUME Panic PROVE TypeOK'
  <2>1. "Dead" \in Phases
    BY DEF Phases
  <2> QED
    BY <1>1, <2>1, ExitType DEF Panic
<1>2. ASSUME Respawn PROVE TypeOK'
  <2>1. "Poll" \in Phases
    BY DEF Phases
  <2> QED
    BY <1>2, <2>1 DEF TypeOK, Respawn, clientVars
<1>3. ASSUME UNCHANGED vars PROVE TypeOK'
  BY <1>3 DEF TypeOK, vars
<1> QED
  BY <1>1, <1>2, <1>3, ClientType, PollType, AdmitType, GrantGrowthType, StepRoundType,
     DeliverType DEF Next, Worker

-------------------------------------------------------------------------------
(* Reservations.                                                           *)

(* Sequences that leave, keep what they have or give it back cannot        *)
(* overdraw the pool.                                                      *)
LEMMA NothingGranted ==
  ASSUME TypeOK, ReservationsFit, Range(active') \subseteq Range(active),
         \A j \in Range(active') : seq'[j].resv = seq[j].resv \/ seq'[j].resv = 0
  PROVE  ReservationsFit'
<1>1. Credits' \subseteq Credits
  BY DEF Credits
<1>2. IsFiniteSet(Credits) /\ IsFiniteSet(Credits')
  BY <1>1, CreditsFinite, FS_Subset
<1>3. Cardinality(Credits') <= Cardinality(Credits)
  BY <1>1, <1>2, FS_Subset
<1>4. Cardinality(Credits) \in Nat /\ Cardinality(Credits') \in Nat
  BY <1>2, FS_CardinalityType
<1> QED
  BY <1>3, <1>4, KvBudgetAssumption DEF ReservationsFit, Reserved

(* One sequence whose reservation grows from m to n, by no more than the   *)
(* slack, does not overdraw the pool either.                               *)
LEMMA OneGrant ==
  ASSUME TypeOK, ReservationsFit,
         NEW j \in Jobs, NEW m \in Nat, NEW n \in Nat, m <= n, n - m <= Slack,
         m = 0 \/ (j \in Range(active) /\ seq[j].resv = m),
         seq'[j].resv = n,
         \A k \in Range(active') : k # j => k \in Range(active) /\ seq'[k].resv = seq[k].resv
  PROVE  ReservationsFit'
<1>1. Credits' \subseteq Credits \cup ({j} \X (m + 1 .. n))
  <2>1. SUFFICES ASSUME NEW k \in Range(active'), NEW i \in 1 .. seq'[k].resv
                 PROVE  <<k, i>> \in Credits \cup ({j} \X (m + 1 .. n))
    BY DEF Credits
  <2>2. CASE k # j
    BY <2>1, <2>2 DEF Credits
  <2>3. CASE k = j /\ i > m
    <3>1. i \in m + 1 .. n
      BY <2>1, <2>3
    <3> QED
      BY <2>3, <3>1
  <2>4. CASE k = j /\ i <= m
    <3>1. i \in 1 .. seq[j].resv /\ j \in Range(active)
      BY <2>1, <2>4
    <3> QED
      BY <2>4, <3>1 DEF Credits
  <2> QED
    BY <2>1, <2>2, <2>3, <2>4
<1>2. IsFiniteSet(Credits)
  BY CreditsFinite
<1>3. IsFiniteSet(Credits') /\ Cardinality(Credits') <= Cardinality(Credits) + (n - m)
  BY <1>1, <1>2, GrantCost
<1>4. Cardinality(Credits') \in Nat /\ Cardinality(Credits) \in Nat
  BY <1>2, <1>3, FS_CardinalityType
<1> QED
  BY <1>3, <1>4, SlackNat, KvBudgetAssumption DEF ReservationsFit, Reserved, Slack

(* Admission promises a newcomer no more than the slack (`fits`).          *)
LEMMA EnterFits ==
  ASSUME TypeOK, ReservationsFit, NEW j \in Jobs, Enter(j), Fits(j)
  PROVE  ReservationsFit'
<1>1. Range(active') \subseteq Range(active) \cup {j} /\ Range(active) \subseteq Jobs
  BY AppendRange, SeqMembers DEF Enter, TypeOK
<1>2. Guaranteed(j) \in Nat /\ Guaranteed(j) - 0 <= Slack
  BY ChargesNat, SlackNat DEF Fits
<1>3. seq'[j].resv = Guaranteed(j) /\ \A k \in Jobs : k # j => seq'[k] = seq[k]
  BY DEF Enter, Entering, Blank, TypeOK
<1> QED
  BY <1>1, <1>2, <1>3, OneGrant

(* The growth pass: the senior's top-up and a grant are bounded by what is *)
(* left of the pool, an eviction returns blocks, a pause keeps them.       *)
LEMMA GrantGrowthFits ==
  ASSUME TypeOK, ReservationsFit, GrantGrowth
  PROVE  ReservationsFit'
<1>0. Range(active) \subseteq Jobs /\ active \in Seq(Jobs)
  BY SeqMembers DEF TypeOK
<1>1. CASE TopUpSenior
  <2>1. CASE \E i \in 1 .. Len(active) : IsSenior(i) /\ Worst(active[i]) > seq[active[i]].resv
    <3>1. PICK i \in 1 .. Len(active) : IsSenior(i) /\ Worst(active[i]) > seq[active[i]].resv
      BY <2>1
    <3> DEFINE j == active[i]
    <3>2. j \in Jobs /\ j \in Range(active) /\ seq[j].resv \in Nat
      BY <1>0, <3>1, SeqMembers DEF TypeOK, SeqStates
    <3>3. TopUp(j) \in Nat /\ TopUp(j) <= Slack
      BY <3>1, <3>2, TopUpNat
    <3>4. \A k \in 1 .. Len(active) : IsSenior(k) => k = i
      <4>1. Len(active) \in Nat
        BY <1>0, LenProperties
      <4> QED
        BY <3>1, <4>1 DEF IsSenior
    <3>5. seq'[j].resv = seq[j].resv + TopUp(j) /\ active' = active
      BY <1>1, <3>1, <3>2 DEF TopUpSenior, TypeOK, SeqStates
    <3>6. \A k \in Jobs : k # j => seq'[k] = seq[k]
      BY <1>1, <3>4 DEF TopUpSenior
    <3> DEFINE n == seq[j].resv + TopUp(j)
    <3>7. /\ n \in Nat /\ seq[j].resv <= n /\ n - seq[j].resv <= Slack
          /\ seq'[j].resv = n
      BY <3>2, <3>3, <3>5, SlackNat
    <3>8. \A k \in Range(active') : k # j => k \in Range(active) /\ seq'[k].resv = seq[k].resv
      BY <1>0, <3>5, <3>6
    <3> HIDE DEF n, j
    <3> QED
      BY <3>2, <3>7, <3>8, OneGrant
  <2>2. CASE ~\E i \in 1 .. Len(active) : IsSenior(i) /\ Worst(active[i]) > seq[active[i]].resv
    <3>1. active' = active /\ \A k \in Jobs : seq'[k] = seq[k]
      BY <1>1, <2>2 DEF TopUpSenior
    <3> QED
      BY <1>0, <3>1, NothingGranted
  <2> QED
    BY <2>1, <2>2
<1>2. CASE GrowGranted
  <2>1. Current \in Jobs /\ Current \in Range(active)
    BY <1>2, CurrentType DEF GrowGranted, Growing
  <2>2. seq[Current].resv \in Nat /\ Need(Current) \in Nat
    BY <2>1, ChargesNat DEF TypeOK, SeqStates
  <2>3. seq[Current].resv <= Need(Current) /\ Need(Current) - seq[Current].resv <= Slack
    BY <1>2, <2>2, SlackNat DEF GrowGranted, Short, Growable
  <2>4. /\ active' = active /\ seq'[Current].resv = Need(Current)
        /\ \A k \in Jobs : k # Current => seq'[k] = seq[k]
    BY <1>2, <2>1 DEF GrowGranted, GrowNext, TypeOK, SeqStates
  <2> QED
    BY <1>0, <2>1, <2>2, <2>3, <2>4, OneGrant
<1>3. CASE GrowEvicts
  <2>1. PICK v \in 1 .. Len(active) :
          /\ active' = RemoveAt(active, v)
          /\ seq' = [seq EXCEPT ![active[v]] =
                       [Blank EXCEPT !.generated = seq[active[v]].generated]]
    BY <1>3 DEF GrowEvicts
  <2>2. Range(active') \subseteq Range(active)
    BY <1>0, <2>1, RemoveAtRange
  <2>3. \A k \in Jobs : seq'[k].resv = seq[k].resv \/ seq'[k].resv = 0
    <3>1. \A k \in Jobs : k # active[v] => seq'[k] = seq[k]
      BY <2>1 DEF TypeOK
    <3>2. active[v] \in Jobs /\ seq'[active[v]].resv = 0
      BY <1>0, <2>1, ElementOfSeq DEF TypeOK, Blank
    <3> QED
      BY <3>1, <3>2
  <2> QED
    BY <1>0, <2>2, <2>3, NothingGranted
<1>4. ASSUME active' = active, \A j \in Jobs : seq'[j].resv = seq[j].resv
      PROVE  ReservationsFit'
  BY <1>0, <1>4, NothingGranted
<1>5. CASE SweepCancelled
  BY <1>4, <1>5 DEF SweepCancelled, TypeOK, SeqStates
<1>6. CASE SweepIdle \/ GrantSkipped \/ GrowEnds \/ GrowFinished
  BY <1>4, <1>6 DEF SweepIdle, GrantSkipped, GrowEnds, GrowFinished, GrowNext
<1>7. CASE GrowWithin
  BY <1>4, <1>7 DEF GrowWithin, GrowNext, Unpaused, TypeOK, SeqStates
<1>8. CASE GrowPauses
  BY <1>4, <1>8 DEF GrowPauses, GrowNext, Paused, TypeOK, SeqStates
<1> QED
  BY <1>1, <1>2, <1>3, <1>5, <1>6, <1>7, <1>8 DEF GrantGrowth

(* A step that empties the batch, or leaves it and its reservations alone. *)
LEMMA UntouchedFits ==
  ASSUME TypeOK, ReservationsFit,
         active' = <<>> \/ (active' = active /\ \A j \in Jobs : seq'[j].resv = seq[j].resv)
  PROVE  ReservationsFit'
<1>1. Range(active) \subseteq Jobs /\ Range(<<>>) = {}
  BY SeqMembers, EmptyRange DEF TypeOK
<1> QED
  BY <1>1, NothingGranted

(* Retiring a sequence returns its blocks.                                 *)
LEMMA RetireFits ==
  ASSUME TypeOK, ReservationsFit, RetireOne
  PROVE  ReservationsFit'
<1>1. active \in Seq(Jobs) /\ Range(active) \subseteq Jobs /\ cursor \in 1 .. Len(active)
  BY SeqMembers, CurrentType DEF TypeOK, RetireOne, Retiring
<1>2. Range(active') \subseteq Range(active)
  BY <1>1, RemoveAtRange DEF RetireOne
<1>3. \A j \in Jobs : seq'[j].resv = seq[j].resv \/ seq'[j].resv = 0
  BY DEF RetireOne, TypeOK, Blank
<1> QED
  BY <1>1, <1>2, <1>3, NothingGranted

(* The round reads reservations and never changes them.                    *)
LEMMA StepRoundFits ==
  ASSUME TypeOK, ReservationsFit, StepRound
  PROVE  ReservationsFit'
<1>1. \A j \in Jobs : seq[j] \in SeqStates
  BY DEF TypeOK
<1>2. \A j \in Jobs : Classified(j).resv = seq[j].resv /\ Failed(j).resv = seq[j].resv
  BY <1>1 DEF Classified, Failed, SeqStates
<1>3. \A j \in Jobs : \A stop : Advanced(j, stop).resv = seq[j].resv
  BY <1>1 DEF Advanced, SeqStates
<1>4. CASE RoundFails
  BY <1>4, UntouchedFits DEF RoundFails
<1>5. CASE BeginRound
  BY <1>2, <1>5, UntouchedFits DEF BeginRound
<1>6. CASE PrefillSkips \/ PrefillEnds
  BY <1>6, UntouchedFits DEF PrefillSkips, PrefillEnds, PrefillNext
<1>7. CASE PrefillDefers
  BY <1>1, <1>7, UntouchedFits DEF PrefillDefers, PrefillNext, TypeOK, SeqStates
<1>8. CASE PrefillChunk
  BY <1>1, <1>8, UntouchedFits DEF PrefillChunk, PrefillNext, TypeOK, SeqStates
<1>9. CASE PrefillLast
  BY <1>3, <1>9, UntouchedFits DEF PrefillLast, PrefillNext, TypeOK
<1>10. CASE PrefillFails
  BY <1>2, <1>10, UntouchedFits DEF PrefillFails, PrefillNext, TypeOK
<1>11. CASE DecodeRows
  BY <1>3, <1>11, UntouchedFits DEF DecodeRows
<1>12. CASE DecodeFails
  BY <1>2, <1>12, UntouchedFits DEF DecodeFails
<1> QED
  BY <1>4, <1>5, <1>6, <1>7, <1>8, <1>9, <1>10, <1>11, <1>12 DEF StepRound

(* No step of anybody overdraws the pool.                                  *)
LEMMA NextFits ==
  ASSUME TypeOK, ReservationsFit, [Next]_vars
  PROVE  ReservationsFit'
<1>1. CASE Client
  BY <1>1, UntouchedFits DEF Client, Submit, Cancel, Control
<1>2. CASE Poll
  <2>1. ASSUME NEW last, Exit(last) PROVE ReservationsFit'
    BY <2>1, UntouchedFits DEF Exit
  <2> QED
    BY <1>2, <2>1, UntouchedFits
       DEF Poll, TakeSubmit, TakeLoad, TakeUnload, TakeClearState, TakeShutdown, EndPoll
<1>3. CASE Admit
  <2>1. CASE ResumeOne
    <3>1. Last(resume) \in Jobs
      BY <2>1, FrontLast DEF ResumeOne, Resumable, TypeOK
    <3> QED
      BY <2>1, <3>1, EnterFits DEF ResumeOne
  <2>2. CASE AdmitOne
    <3>1. Head(queue) \in Jobs
      BY <2>2, HeadTailProperties DEF AdmitOne, Admissible, TypeOK
    <3> QED
      BY <2>2, <3>1, EnterFits DEF AdmitOne
  <2>3. CASE ResumeStops \/ RejectCancelled \/ RejectFailed \/ RejectTooLarge \/ AdmitStops
    BY <2>3, UntouchedFits
       DEF ResumeStops, RejectCancelled, RejectFailed, RejectTooLarge, AdmitStops, Reject
  <2> QED
    BY <1>3, <2>1, <2>2, <2>3 DEF Admit
<1>4. CASE GrantGrowth
  BY <1>4, GrantGrowthFits
<1>5. CASE StepRound
  BY <1>5, StepRoundFits
<1>6. CASE Deliver
  <2>1. CASE RetireOne
    BY <2>1, RetireFits
  <2>2. CASE RetireKeeps \/ RetireEnds
    BY <2>2, UntouchedFits DEF RetireKeeps, RetireEnds
  <2>3. CASE Ship
    <3>1. /\ active' = active
          /\ seq' = [j \in Jobs |-> IF j \in Range(active)
                                    THEN [seq[j] EXCEPT !.stopped = @ \/ seq[j].out = "Stopped",
                                                        !.out = "Skipped"]
                                    ELSE seq[j]]
      BY <2>3, Zenon DEF Ship
    <3>2. \A r \in SeqStates : \A b : [r EXCEPT !.stopped = b, !.out = "Skipped"].resv = r.resv
      BY DEF SeqStates
    <3>3. \A j \in Jobs : seq'[j].resv = seq[j].resv
      BY <3>1, <3>2 DEF TypeOK
    <3> QED
      BY <3>1, <3>3, UntouchedFits
  <2> QED
    BY <1>6, <2>1, <2>2, <2>3 DEF Deliver
<1>7. CASE Panic
  BY <1>7, UntouchedFits DEF Panic, Exit
<1>8. CASE Respawn
  BY <1>8, UntouchedFits DEF Respawn
<1>9. CASE UNCHANGED vars
  BY <1>9, UntouchedFits DEF vars
<1> QED
  BY <1>1, <1>2, <1>3, <1>4, <1>5, <1>6, <1>7, <1>8, <1>9 DEF Next, Worker

(* Nothing is promised before the first admission.                         *)
LEMMA InitFits == Init => ReservationsFit
<1> SUFFICES ASSUME Init PROVE ReservationsFit
  OBVIOUS
<1>1. Range(active) = {}
  BY EmptyRange DEF Init
<1>2. Credits = {}
  BY <1>1 DEF Credits
<1>3. Reserved = 0
  BY <1>2, FS_EmptySet DEF Reserved
<1> QED
  BY <1>3, KvBudgetAssumption DEF ReservationsFit

-------------------------------------------------------------------------------
(* Neither half is inductive alone: a top-up is a natural number only      *)
(* while the reservations fit, and the reservations have a sum only while  *)
(* they are natural numbers.                                               *)
Inv == TypeOK /\ ReservationsFit

(* The inductive invariant holds in every reachable state of the worker.   *)
THEOREM Invariance == Spec => []Inv
<1>1. Init => Inv
  BY InitType, InitFits DEF Inv
<1>2. Inv /\ [Next]_vars => Inv'
  BY NextType, NextFits DEF Inv
<1> QED
  BY <1>1, <1>2, PTL DEF Spec

(* No step stores a value outside its type: in particular a reservation, a *)
(* lane and the prefill budget never go below zero (worker.rs: `reserved`  *)
(* and `extra` in grant_kv_growth; batching.rs: `remaining`).              *)
THEOREM TypeCorrect == Spec => []TypeOK
<1>1. Inv => TypeOK
  BY DEF Inv
<1> QED
  BY <1>1, Invariance, PTL

(* The worker never promises more KV blocks than the pool has, so the      *)
(* subtraction `kv.total_blocks - reserved` of the growth pass never       *)
(* underflows, whatever clients cancel and whoever is evicted.             *)
THEOREM NeverOverdrawn == Spec => []ReservationsFit
<1>1. Inv => ReservationsFit
  BY DEF Inv
<1> QED
  BY <1>1, Invariance, PTL


-------------------------------------------------------------------------------
(* Sequences without repetition. Every list of the worker is one.          *)

(* An element pushed at the back of a list that does not hold it.          *)
LEMMA Pushed ==
  ASSUME NEW S, NEW s \in Seq(S), NEW e \in S
  PROVE  /\ Append(s, e) \in Seq(S)
         /\ Len(Append(s, e)) = Len(s) + 1 /\ Append(s, e)[Len(s) + 1] = e
         /\ \A i \in 1 .. Len(s) : Append(s, e)[i] = s[i]
         /\ Range(Append(s, e)) = Range(s) \cup {e}
         /\ IsInjective(s) /\ e \notin Range(s) => IsInjective(Append(s, e))
<1>1. PICK t \in Seq(S) : t = Append(s, e)
  BY AppendProperties
<1>2. /\ Len(t) = Len(s) + 1 /\ t[Len(s) + 1] = e
      /\ \A i \in 1 .. Len(s) : t[i] = s[i]
  BY <1>1, AppendProperties
<1>3. /\ Len(s) \in Nat /\ DOMAIN s = 1 .. Len(s) /\ DOMAIN t = 1 .. Len(t)
      /\ \A x : x \in Range(s) <=> \E i \in 1 .. Len(s) : x = s[i]
      /\ \A x : x \in Range(t) <=> \E i \in 1 .. Len(t) : x = t[i]
  BY SeqMembers, LenProperties
<1>4. \A i \in 1 .. Len(t) : i \in 1 .. Len(s) \/ i = Len(s) + 1
  BY <1>2, <1>3
<1>5. \A i \in 1 .. Len(s) + 1 : i \in 1 .. Len(t)
  BY <1>2
<1>6. Len(s) + 1 \in 1 .. Len(t) /\ \A i \in 1 .. Len(s) : i \in 1 .. Len(t)
  BY <1>2, <1>3
<1>7. Range(t) = Range(s) \cup {e}
  <2>1. ASSUME NEW x \in Range(t) PROVE x \in Range(s) \cup {e}
    BY <1>2, <1>3, <1>4, <2>1
  <2>2. ASSUME NEW x \in Range(s) \cup {e} PROVE x \in Range(t)
    BY <1>2, <1>3, <1>6, <2>2
  <2> QED
    BY <2>1, <2>2
<1>8. ASSUME IsInjective(s), e \notin Range(s) PROVE IsInjective(t)
  <2>1. SUFFICES ASSUME NEW i \in 1 .. Len(t), NEW k \in 1 .. Len(t), t[i] = t[k] PROVE i = k
    BY <1>3 DEF IsInjective
  <2>2. CASE i \in 1 .. Len(s) /\ k \in 1 .. Len(s)
    BY <1>2, <1>3, <1>8, <2>1, <2>2 DEF IsInjective
  <2>3. CASE i \in 1 .. Len(s) /\ k = Len(s) + 1
    BY <1>2, <1>3, <1>8, <2>1, <2>3
  <2>4. CASE i = Len(s) + 1 /\ k \in 1 .. Len(s)
    BY <1>2, <1>3, <1>8, <2>1, <2>4
  <2> QED
    BY <1>4, <2>2, <2>3, <2>4
<1> QED
  BY <1>1, <1>2, <1>7, <1>8

(* An element taken out of a list, the others closing up behind it.        *)
LEMMA TakenOut ==
  ASSUME NEW S, NEW s \in Seq(S), NEW v \in 1 .. Len(s), NEW t \in Seq(S),
         Len(t) = Len(s) - 1,
         \A i \in 1 .. v - 1 : t[i] = s[i],
         \A i \in v .. Len(s) - 1 : t[i] = s[i + 1]
  PROVE  /\ Range(t) \subseteq Range(s) /\ Range(s) \subseteq Range(t) \cup {s[v]}
         /\ IsInjective(s) => Range(t) = Range(s) \ {s[v]} /\ IsInjective(t)
<1>1. /\ Len(s) \in Nat /\ DOMAIN s = 1 .. Len(s) /\ DOMAIN t = 1 .. Len(t)
      /\ \A x : x \in Range(s) <=> \E i \in 1 .. Len(s) : x = s[i]
      /\ \A x : x \in Range(t) <=> \E i \in 1 .. Len(t) : x = t[i]
  BY SeqMembers, LenProperties
<1>2. \A i \in 1 .. Len(t) : i \in 1 .. v - 1 \/ i \in v .. Len(s) - 1
  BY <1>1
<1>3. \A i \in 1 .. Len(t) :
        \E k \in 1 .. Len(s) : t[i] = s[k] /\ k # v /\ k = (IF i < v THEN i ELSE i + 1)
  <2> TAKE i \in 1 .. Len(t)
  <2>1. CASE i \in 1 .. v - 1
    <3>1. i \in 1 .. Len(s) /\ i # v /\ t[i] = s[i] /\ i < v
      BY <1>1, <2>1
    <3> QED
      BY <3>1
  <2>2. CASE i \in v .. Len(s) - 1
    <3>1. i + 1 \in 1 .. Len(s) /\ i + 1 # v /\ t[i] = s[i + 1] /\ ~(i < v)
      BY <1>1, <2>2
    <3> QED
      BY <3>1
  <2> QED
    BY <1>2, <2>1, <2>2
<1>4. \A k \in 1 .. Len(s) : k # v => \E i \in 1 .. Len(t) : t[i] = s[k]
  <2> TAKE k \in 1 .. Len(s)
  <2>1. CASE k < v
    <3>1. k \in 1 .. Len(t) /\ t[k] = s[k]
      BY <1>1, <2>1
    <3> QED
      BY <3>1
  <2>2. CASE k > v
    <3>1. k - 1 \in v .. Len(s) - 1 /\ (k - 1) + 1 = k /\ k - 1 \in 1 .. Len(t)
      BY <1>1, <2>2
    <3>2. t[k - 1] = s[(k - 1) + 1]
      BY <3>1
    <3> QED
      BY <3>1, <3>2
  <2> QED
    BY <1>1, <2>1, <2>2
<1>5. Range(t) \subseteq Range(s)
  BY <1>1, <1>3
<1>6. Range(s) \subseteq Range(t) \cup {s[v]}
  BY <1>1, <1>4
<1>7. ASSUME IsInjective(s) PROVE s[v] \notin Range(t) /\ IsInjective(t)
  <2>0. \A m, n \in 1 .. Len(s) : s[m] = s[n] => m = n
    BY <1>1, <1>7 DEF IsInjective
  <2>1. ASSUME s[v] \in Range(t) PROVE FALSE
    <3>1. PICK i \in 1 .. Len(t) : s[v] = t[i]
      BY <1>1, <2>1
    <3>2. PICK k \in 1 .. Len(s) : t[i] = s[k] /\ k # v
      BY <1>3
    <3> QED
      BY <2>0, <3>1, <3>2
  <2>2. SUFFICES ASSUME NEW i \in 1 .. Len(t), NEW k \in 1 .. Len(t), t[i] = t[k] PROVE i = k
    BY <1>1, <2>1 DEF IsInjective
  <2>3. PICK m \in 1 .. Len(s) : t[i] = s[m] /\ m = (IF i < v THEN i ELSE i + 1)
    BY <1>3
  <2>4. PICK n \in 1 .. Len(s) : t[k] = s[n] /\ n = (IF k < v THEN k ELSE k + 1)
    BY <1>3
  <2>5. m = n
    BY <2>0, <2>2, <2>3, <2>4
  <2> QED
    BY <1>1, <2>3, <2>4, <2>5
<1> QED
  BY <1>5, <1>6, <1>7

(* Vec::remove and the retire sweep: the tail closes up.                   *)
LEMMA Removed ==
  ASSUME NEW S, NEW s \in Seq(S), NEW v \in 1 .. Len(s)
  PROVE  /\ RemoveAt(s, v) \in Seq(S) /\ Len(RemoveAt(s, v)) = Len(s) - 1
         /\ \A i \in 1 .. v - 1 : RemoveAt(s, v)[i] = s[i]
         /\ \A i \in v .. Len(s) - 1 : RemoveAt(s, v)[i] = s[i + 1]
         /\ Range(RemoveAt(s, v)) \subseteq Range(s)
         /\ Range(s) \subseteq Range(RemoveAt(s, v)) \cup {s[v]}
         /\ IsInjective(s) =>
              Range(RemoveAt(s, v)) = Range(s) \ {s[v]} /\ IsInjective(RemoveAt(s, v))
<1>0. Len(s) \in Nat /\ \A i \in 1 .. Len(s) : s[i] \in S
  BY LenProperties, ElementOfSeq
<1>1. PICK p \in Seq(S) : p = SubSeq(s, 1, v - 1)
  <2>1. 1 \in Int /\ v - 1 \in Int /\ \A i \in 1 .. v - 1 : s[i] \in S
    BY <1>0
  <2> QED
    BY <2>1, SubSeqProperties
<1>2. PICK q \in Seq(S) : q = SubSeq(s, v + 1, Len(s))
  <2>1. v + 1 \in Int /\ Len(s) \in Int /\ \A i \in v + 1 .. Len(s) : s[i] \in S
    BY <1>0
  <2> QED
    BY <2>1, SubSeqProperties
<1>3. Len(p) = v - 1 /\ \A i \in 1 .. v - 1 : p[i] = s[i]
  <2>1. 1 \in Int /\ v - 1 \in Int /\ \A i \in 1 .. v - 1 : s[i] \in S
    BY <1>0
  <2>2. Len(p) = IF 1 <= v - 1 THEN (v - 1) - 1 + 1 ELSE 0
    BY <1>1, <2>1, SubSeqProperties
  <2>3. \A i \in 1 .. Len(p) : p[i] = s[1 + i - 1]
    BY <1>1, <2>1, SubSeqProperties
  <2> QED
    BY <2>2, <2>3
<1>4. Len(q) = Len(s) - v /\ \A i \in 1 .. Len(s) - v : q[i] = s[v + i]
  <2>1. v + 1 \in Int /\ Len(s) \in Int /\ \A i \in v + 1 .. Len(s) : s[i] \in S
    BY <1>0
  <2>2. Len(q) = IF v + 1 <= Len(s) THEN Len(s) - (v + 1) + 1 ELSE 0
    BY <1>2, <2>1, SubSeqProperties
  <2>3. \A i \in 1 .. Len(q) : q[i] = s[(v + 1) + i - 1]
    BY <1>2, <2>1, SubSeqProperties
  <2>4. \A i \in 1 .. Len(q) : (v + 1) + i - 1 = v + i
    OBVIOUS
  <2> QED
    BY <1>0, <2>2, <2>3, <2>4
<1>5. PICK t \in Seq(S) : t = RemoveAt(s, v) /\ t = p \o q
  BY <1>1, <1>2, ConcatProperties DEF RemoveAt
<1>6. Len(t) = Len(s) - 1
  BY <1>0, <1>3, <1>4, <1>5, ConcatProperties
<1>10. \A i \in 1 .. Len(s) - 1 : t[i] = IF i <= v - 1 THEN p[i] ELSE q[i - (v - 1)]
  <2>1. \A i \in 1 .. Len(p) + Len(q) : t[i] = IF i <= Len(p) THEN p[i] ELSE q[i - Len(p)]
    BY <1>5, ConcatProperties
  <2>2. Len(p) + Len(q) = Len(s) - 1
    BY <1>0, <1>3, <1>4
  <2> QED
    BY <1>3, <2>1, <2>2
<1>7. ASSUME NEW i \in 1 .. v - 1 PROVE t[i] = s[i]
  <2>1. i \in 1 .. Len(s) - 1 /\ i <= v - 1
    BY <1>0
  <2> QED
    BY <1>10, <1>3, <2>1
<1>8. ASSUME NEW i \in v .. Len(s) - 1 PROVE t[i] = s[i + 1]
  <2>1. i \in 1 .. Len(s) - 1 /\ ~(i <= v - 1)
    BY <1>0
  <2>2. i - (v - 1) \in 1 .. Len(s) - v /\ v + (i - (v - 1)) = i + 1
    BY <1>0
  <2> QED
    BY <1>10, <1>4, <2>1, <2>2
<1>9. /\ Range(t) \subseteq Range(s) /\ Range(s) \subseteq Range(t) \cup {s[v]}
      /\ IsInjective(s) => Range(t) = Range(s) \ {s[v]} /\ IsInjective(t)
  BY <1>6, <1>7, <1>8, TakenOut
<1> QED
  BY <1>5, <1>6, <1>7, <1>8, <1>9

(* pop_front takes the first element, pop the last.                        *)
LEMMA Popped ==
  ASSUME NEW S, NEW s \in Seq(S), s # <<>>
  PROVE  /\ Tail(s) \in Seq(S) /\ Head(s) \in Range(s)
         /\ Len(Tail(s)) = Len(s) - 1 /\ \A i \in 1 .. Len(s) - 1 : Tail(s)[i] = s[i + 1]
         /\ Head(s) = s[1] /\ Len(s) \in Nat \ {0}
         /\ IsInjective(s) => Range(Tail(s)) = Range(s) \ {Head(s)} /\ IsInjective(Tail(s))
         /\ Front(s) \in Seq(S) /\ Last(s) \in Range(s)
         /\ IsInjective(s) => Range(Front(s)) = Range(s) \ {Last(s)} /\ IsInjective(Front(s))
<1>1. Len(s) \in Nat \ {0} /\ 1 \in 1 .. Len(s) /\ Len(s) \in 1 .. Len(s)
  BY EmptySeq, LenProperties
<1>2. PICK t \in Seq(S) : t = Tail(s)
  BY HeadTailProperties
<1>3. Len(t) = Len(s) - 1 /\ (\A i \in 1 .. Len(t) : t[i] = s[i + 1]) /\ Head(s) = s[1]
  BY <1>2, HeadTailProperties
<1>4. PICK u \in Seq(S) : u = Front(s)
  BY FrontLast
<1>5. Len(u) = Len(s) - 1 /\ \A i \in 1 .. Len(u) : u[i] = s[i]
  <2>1. PICK m \in Nat \ {0} : m = Len(s)
    BY <1>1
  <2>2. u = SubSeq(s, 1, m - 1)
    BY <1>4, <2>1 DEF Front
  <2>3. 1 \in Int /\ m - 1 \in Int /\ \A i \in 1 .. m - 1 : s[i] \in S
    BY <2>1, ElementOfSeq
  <2>4. Len(u) = IF 1 <= m - 1 THEN (m - 1) - 1 + 1 ELSE 0
    BY <2>2, <2>3, SubSeqProperties, SMTT(30)
  <2>5. \A i \in 1 .. (m - 1) - 1 + 1 : u[i] = s[1 + i - 1]
    BY <2>2, <2>3, SubSeqProperties, SMTT(30)
  <2>6. (IF 1 <= m - 1 THEN (m - 1) - 1 + 1 ELSE 0) = m - 1 /\ (m - 1) - 1 + 1 = m - 1
    OBVIOUS
  <2>7. Len(u) = m - 1 /\ \A i \in 1 .. m - 1 : u[i] = s[1 + i - 1]
    BY <2>4, <2>5, <2>6
  <2>8. \A i \in 1 .. m - 1 : 1 + i - 1 = i
    OBVIOUS
  <2> QED
    BY <2>1, <2>7, <2>8
<1>6. IsInjective(s) => Range(t) = Range(s) \ {s[1]} /\ IsInjective(t)
  <2>1. PICK v \in 1 .. Len(s) : v = 1
    BY <1>1
  <2>2. Len(t) = Len(s) - 1 /\ \A i \in 1 .. v - 1 : t[i] = s[i]
    BY <1>1, <1>3, <2>1
  <2>3. \A i \in v .. Len(s) - 1 : t[i] = s[i + 1]
    BY <1>3, <2>1
  <2>4. IsInjective(s) => Range(t) = Range(s) \ {s[v]} /\ IsInjective(t)
    BY <2>2, <2>3, TakenOut
  <2> QED
    BY <2>1, <2>4
<1>7. IsInjective(s) => Range(u) = Range(s) \ {s[Len(s)]} /\ IsInjective(u)
  <2>1. PICK v \in 1 .. Len(s) : v = Len(s)
    BY <1>1
  <2>2. Len(u) = Len(s) - 1 /\ \A i \in 1 .. v - 1 : u[i] = s[i]
    BY <1>5, <2>1
  <2>3. \A i \in v .. Len(s) - 1 : u[i] = s[i + 1]
    BY <1>1, <2>1
  <2>4. IsInjective(s) => Range(u) = Range(s) \ {s[v]} /\ IsInjective(u)
    BY <2>2, <2>3, TakenOut
  <2> QED
    BY <2>1, <2>4
<1>8. s[1] \in Range(s) /\ s[Len(s)] \in Range(s)
  BY <1>1, SeqMembers
<1> QED
  BY <1>1, <1>2, <1>3, <1>4, <1>6, <1>7, <1>8 DEF Last

-------------------------------------------------------------------------------
(* Where a request is. Incoming requests are still in the channel.         *)
Asked(j) == [op |-> "Submit", job |-> j]
Incoming == {j \in Jobs : \E i \in 1 .. Len(channel) : channel[i] = Asked(j)}

Place(j) ==
  IF j \notin submitted THEN "new"
  ELSE IF j \in Incoming \cup Range(queue) THEN "waiting"
  ELSE IF j \in Range(active) THEN "active"
  ELSE IF j \in Range(resume) THEN "evicted" ELSE "gone"

(* No request is in two places, or twice in one.                           *)
Placement ==
  /\ IsInjective(queue) /\ IsInjective(active) /\ IsInjective(resume)
  /\ \A i, k \in 1 .. Len(channel) : channel[i].op = "Submit" /\ channel[k] = channel[i] => i = k
  /\ Incoming \cup Range(queue) \cup Range(active) \cup Range(resume) \subseteq submitted
  /\ Incoming \cap Range(queue) = {}
  /\ (Incoming \cup Range(queue)) \cap (Range(active) \cup Range(resume)) = {}
  /\ Range(active) \cap Range(resume) = {}

(* A command is a lifecycle command or the Submit of one job.              *)
LEMMA CommandsAre ==
  ASSUME NEW c \in Commands
  PROVE  /\ c.op = "Submit" => c.job \in Jobs /\ c = Asked(c.job)
         /\ \A j \in Jobs : c = Asked(j) => c.op = "Submit" /\ c.job = j
<1>1. "Submit" \notin Controls
  BY DEF Controls
<1>2. ASSUME c.op = "Submit" PROVE c.job \in Jobs /\ c = Asked(c.job)
  <2>1. c \in [op : {"Submit"}, job : Jobs]
    BY <1>1, <1>2 DEF Commands
  <2> QED
    BY <2>1 DEF Asked
<1>3. \A j \in Jobs : Asked(j).op = "Submit" /\ Asked(j).job = j
  BY DEF Asked
<1> QED
  BY <1>2, <1>3

(* The command at the head of the channel is received (Receiver::recv).    *)
LEMMA Received ==
  ASSUME TypeOK, Placement, NEW op, Receive(op)
  PROVE  /\ Head(channel).op = op
         /\ op = "Submit" => /\ Head(channel).job \in Incoming
                             /\ Incoming' = Incoming \ {Head(channel).job}
         /\ op # "Submit" => Incoming' = Incoming
         /\ \A i, k \in 1 .. Len(channel') :
              channel'[i].op = "Submit" /\ channel'[k] = channel'[i] => i = k
<1> DEFINE c == Head(channel)
<1>1. channel \in Seq(Commands) /\ channel # <<>> /\ c.op = op /\ channel' = Tail(channel)
  BY DEF TypeOK, Receive
<1>2. /\ channel' \in Seq(Commands) /\ Len(channel) \in Nat \ {0}
      /\ c = channel[1] /\ Len(channel') = Len(channel) - 1
      /\ \A i \in 1 .. Len(channel) - 1 : channel'[i] = channel[i + 1]
  BY <1>1, Popped
<1>3. c \in Commands /\ \A i \in 1 .. Len(channel) : channel[i] \in Commands
  BY <1>1, <1>2, ElementOfSeq, HeadTailProperties
<1>4. \A i, k \in 1 .. Len(channel) : channel[i].op = "Submit" /\ channel[k] = channel[i] => i = k
  BY DEF Placement
<1>5. \A i, k \in 1 .. Len(channel') :
        channel'[i].op = "Submit" /\ channel'[k] = channel'[i] => i = k
  <2> SUFFICES ASSUME NEW i \in 1 .. Len(channel'), NEW k \in 1 .. Len(channel'),
                      channel'[i].op = "Submit", channel'[k] = channel'[i]
               PROVE  i = k
    OBVIOUS
  <2>1. i + 1 \in 1 .. Len(channel) /\ k + 1 \in 1 .. Len(channel)
    BY <1>2
  <2>2. channel'[i] = channel[i + 1] /\ channel'[k] = channel[k + 1]
    BY <1>2
  <2>3. i + 1 = k + 1
    BY <1>4, <2>1, <2>2
  <2> QED
    BY <2>3
<1>6. ASSUME NEW j \in Jobs PROVE j \in Incoming' <=> j \in Incoming /\ c # Asked(j)
  <2>1. ASSUME NEW i \in 1 .. Len(channel'), channel'[i] = Asked(j)
        PROVE  j \in Incoming /\ c # Asked(j)
    <3>1. i + 1 \in 1 .. Len(channel) /\ channel[i + 1] = Asked(j) /\ 1 \in 1 .. Len(channel)
      BY <1>2, <2>1
    <3>2. channel[i + 1].op = "Submit"
      BY <1>3, <3>1, CommandsAre
    <3>3. ASSUME c = Asked(j) PROVE FALSE
      <4>1. i + 1 = 1
        BY <1>2, <1>4, <3>1, <3>2, <3>3
      <4> QED
        BY <4>1
    <3> QED
      BY <3>1, <3>3 DEF Incoming
  <2>2. ASSUME j \in Incoming, c # Asked(j)
        PROVE  \E i \in 1 .. Len(channel') : channel'[i] = Asked(j)
    <3>1. PICK i \in 1 .. Len(channel) : channel[i] = Asked(j)
      BY <2>2 DEF Incoming
    <3>2. i - 1 \in 1 .. Len(channel) - 1 /\ (i - 1) + 1 = i
      BY <1>2, <2>2, <3>1
    <3>3. channel'[i - 1] = channel[(i - 1) + 1]
      BY <1>2, <3>2
    <3> QED
      BY <1>2, <3>1, <3>2, <3>3
  <2> QED
    BY <2>1, <2>2 DEF Incoming
<1>7. Incoming \subseteq Jobs /\ Incoming' \subseteq Jobs
  BY DEF Incoming
<1>8. op = "Submit" => c.job \in Incoming /\ Incoming' = Incoming \ {c.job}
  <2> SUFFICES ASSUME op = "Submit" PROVE c.job \in Incoming /\ Incoming' = Incoming \ {c.job}
    OBVIOUS
  <2>1. c.job \in Jobs /\ c = Asked(c.job) /\ \A j \in Jobs : c = Asked(j) => c.job = j
    BY <1>1, <1>3, CommandsAre
  <2>2. c.job \in Incoming
    <3>1. 1 \in 1 .. Len(channel)
      BY <1>2
    <3> QED
      BY <1>2, <2>1, <3>1 DEF Incoming
  <2> QED
    BY <1>6, <1>7, <2>1, <2>2
<1>9. op # "Submit" => Incoming' = Incoming
  BY <1>1, <1>3, <1>6, <1>7, CommandsAre
<1> QED
  BY <1>1, <1>5, <1>8, <1>9

(* A command joins the channel (SyncSender::send).                         *)
LEMMA Posted ==
  ASSUME TypeOK, Placement, NEW c \in Commands, Send(c)
  PROVE  /\ c.op # "Submit" => Incoming' = Incoming
         /\ c.op = "Submit" => Incoming' = Incoming \cup {c.job}
         /\ (c.op = "Submit" => c.job \notin Incoming) =>
              \A i, k \in 1 .. Len(channel') :
                channel'[i].op = "Submit" /\ channel'[k] = channel'[i] => i = k
<1>1. channel \in Seq(Commands) /\ channel' = Append(channel, c)
  BY DEF TypeOK, Send
<1>2. /\ Len(channel) \in Nat /\ Len(channel') = Len(channel) + 1
      /\ channel'[Len(channel) + 1] = c /\ \A i \in 1 .. Len(channel) : channel'[i] = channel[i]
  BY <1>1, Pushed, LenProperties
<1>3. \A i \in 1 .. Len(channel') : i \in 1 .. Len(channel) \/ i = Len(channel) + 1
  BY <1>2
<1>4. Len(channel) + 1 \in 1 .. Len(channel') /\ \A i \in 1 .. Len(channel) : i \in 1 .. Len(channel')
  BY <1>2
<1>5. \A j \in Jobs : j \in Incoming' <=> j \in Incoming \/ c = Asked(j)
  BY <1>2, <1>3, <1>4 DEF Incoming
<1>6. Incoming \subseteq Jobs /\ Incoming' \subseteq Jobs
  BY DEF Incoming
<1>7. c.op # "Submit" => Incoming' = Incoming
  BY <1>5, <1>6, CommandsAre
<1>8. c.op = "Submit" => Incoming' = Incoming \cup {c.job}
  BY <1>5, <1>6, CommandsAre
<1>9. ASSUME c.op = "Submit" => c.job \notin Incoming,
             NEW i \in 1 .. Len(channel'), NEW k \in 1 .. Len(channel'),
             channel'[i].op = "Submit", channel'[k] = channel'[i]
      PROVE  i = k
  <2>1. ASSUME NEW m \in 1 .. Len(channel), c.op = "Submit" PROVE channel[m] # c
    <3>1. c.job \in Jobs /\ c = Asked(c.job)
      BY <2>1, CommandsAre
    <3> QED
      BY <1>9, <2>1, <3>1 DEF Incoming
  <2>2. CASE i \in 1 .. Len(channel) /\ k \in 1 .. Len(channel)
    BY <1>2, <1>9, <2>2 DEF Placement
  <2>3. CASE i \in 1 .. Len(channel) /\ k = Len(channel) + 1
    BY <1>2, <1>9, <2>1, <2>3
  <2>4. CASE i = Len(channel) + 1 /\ k \in 1 .. Len(channel)
    BY <1>2, <1>9, <2>1, <2>4
  <2> QED
    BY <1>3, <2>2, <2>3, <2>4
<1> QED
  BY <1>7, <1>8, <1>9

-------------------------------------------------------------------------------
(* One lemma per step that moves a request, then one for all the others.   *)

(* Nobody changes places but j, if anybody, which goes to `at`.            *)
Moves(j, at) == \A k \in Jobs : Place(k)' = IF k = j THEN at ELSE Place(k)
Stays == \A k \in Jobs : Place(k)' = Place(k)

(* A new request enters the channel.                                       *)
LEMMA SubmitMoves ==
  ASSUME TypeOK, Placement, NEW j \in Jobs, Submit(j)
  PROVE  Placement' /\ Moves(j, "waiting") /\ Place(j) = "new"
<1>1. Asked(j) \in Commands /\ Asked(j).op = "Submit" /\ Asked(j).job = j
  BY DEF Asked, Commands
<1>2. Send(Asked(j)) /\ j \notin submitted /\ submitted' = submitted \cup {j}
  BY DEF Submit, Asked
<1>3. j \notin Incoming
  BY <1>2 DEF Placement
<1>4. /\ Incoming' = Incoming \cup {j}
      /\ \A i, k \in 1 .. Len(channel') :
           channel'[i].op = "Submit" /\ channel'[k] = channel'[i] => i = k
  BY <1>1, <1>2, <1>3, Posted
<1>5. queue' = queue /\ active' = active /\ resume' = resume
  BY DEF Submit
<1>6. Placement'
  BY <1>2, <1>4, <1>5 DEF Placement
<1>7. Moves(j, "waiting")
  BY <1>2, <1>4, <1>5 DEF Moves, Place
<1> QED
  BY <1>2, <1>6, <1>7 DEF Place

(* Lifecycle commands and cancellations move nobody.                       *)
LEMMA ControlMoves ==
  ASSUME TypeOK, Placement, NEW op \in Controls, Control(op)
  PROVE  Placement' /\ Stays
<1> DEFINE c == [op |-> op]
<1>1. c \in Commands /\ c.op # "Submit" /\ Send(c)
  BY DEF Commands, Controls, Control
<1> HIDE DEF c
<1>2. /\ Incoming' = Incoming
      /\ \A i, k \in 1 .. Len(channel') :
           channel'[i].op = "Submit" /\ channel'[k] = channel'[i] => i = k
  BY <1>1, Posted
<1>3. queue' = queue /\ active' = active /\ resume' = resume /\ submitted' = submitted
  BY DEF Control
<1> QED
  BY <1>2, <1>3 DEF Placement, Stays, Place

(* A request goes from the channel to the queue.                           *)
LEMMA TakeSubmitMoves ==
  ASSUME TypeOK, Placement, TakeSubmit
  PROVE  Placement' /\ Stays
<1> DEFINE j == Head(channel).job
<1>1. /\ Head(channel).op = "Submit" /\ j \in Incoming /\ Incoming' = Incoming \ {j}
      /\ \A i, k \in 1 .. Len(channel') :
           channel'[i].op = "Submit" /\ channel'[k] = channel'[i] => i = k
  BY Received DEF TakeSubmit
<1>2. j \in Jobs /\ j \notin Range(queue) /\ queue \in Seq(Jobs)
  BY <1>1 DEF Incoming, Placement, TypeOK
<1>3. /\ queue' = Append(queue, j)
      /\ active' = active /\ resume' = resume /\ submitted' = submitted
  BY DEF TakeSubmit
<1> HIDE DEF j
<1>4. Range(queue') = Range(queue) \cup {j} /\ IsInjective(queue')
  BY <1>2, <1>3, Pushed DEF Placement
<1>5. Range(queue)' = Range(queue) \cup {j} /\ IsInjective(queue)'
  BY <1>4
<1>6. Placement'
  BY <1>1, <1>3, <1>5 DEF Placement
<1>7. Stays
  BY <1>1, <1>3, <1>5 DEF Stays, Place
<1> QED
  BY <1>6, <1>7

(* The front of the queue leaves it, answered or admitted.                 *)
LEMMA QueueMoves ==
  ASSUME TypeOK, Placement, queue # <<>>, queue' = Tail(queue),
         UNCHANGED <<channel, submitted, resume>>,
         active' = active \/ active' = Append(active, Head(queue))
  PROVE  /\ Placement' /\ Head(queue) \in Jobs /\ Place(Head(queue)) = "waiting"
         /\ Head(queue) \notin Range(active) \cup Range(resume)
         /\ active' = active => Moves(Head(queue), "gone")
         /\ active' = Append(active, Head(queue)) => Moves(Head(queue), "active")
<1> DEFINE j == Head(queue)
<1>1. /\ queue \in Seq(Jobs) /\ active \in Seq(Jobs) /\ j \in Range(queue) /\ j \in Jobs
      /\ Range(queue') = Range(queue) \ {j} /\ IsInjective(queue')
  BY Popped, SeqMembers DEF TypeOK, Placement
<1>2. Incoming' = Incoming
  BY DEF Incoming
<1>3. /\ j \in submitted /\ j \notin Incoming /\ j \notin Range(active) \cup Range(resume)
      /\ \A i, k \in 1 .. Len(channel') :
           channel'[i].op = "Submit" /\ channel'[k] = channel'[i] => i = k
  BY <1>1 DEF Placement
<1>4. /\ active' = active => Range(active') = Range(active)
      /\ active' = Append(active, j) => Range(active') = Range(active) \cup {j}
      /\ IsInjective(active')
  <2>1. /\ Range(Append(active, j)) = Range(active) \cup {j} /\ IsInjective(Append(active, j))
        /\ IsInjective(active)
    BY <1>1, <1>3, Pushed DEF Placement
  <2>2. active' = active \/ active' = Append(active, j)
    OBVIOUS
  <2> QED
    BY <2>1, <2>2
<1> HIDE DEF j
<1>5. /\ IsInjective(queue)' /\ IsInjective(active)' /\ IsInjective(resume)'
      /\ Range(queue)' = Range(queue) \ {j} /\ Range(resume)' = Range(resume)
      /\ Range(active)' = Range(active')
  BY <1>1, <1>4 DEF Placement
<1>6. Range(active') \in {Range(active), Range(active) \cup {j}}
  BY <1>4 DEF j
<1>7. Placement'
  BY <1>1, <1>2, <1>3, <1>5, <1>6 DEF Placement
<1>8. Place(j) = "waiting"
  BY <1>1, <1>3 DEF Place
<1>9. active' = active => Moves(j, "gone")
  BY <1>1, <1>2, <1>3, <1>4, <1>5 DEF Place, Moves
<1>10. active' = Append(active, j) => Moves(j, "active")
  BY <1>1, <1>2, <1>3, <1>4, <1>5 DEF Place, Moves
<1> QED
  BY <1>1, <1>3, <1>7, <1>8, <1>9, <1>10 DEF j

(* The last evicted sequence returns to the batch.                         *)
LEMMA ResumeMoves ==
  ASSUME TypeOK, Placement, resume # <<>>, resume' = Front(resume),
         UNCHANGED <<channel, submitted, queue>>, active' = Append(active, Last(resume))
  PROVE  /\ Placement' /\ Last(resume) \in Jobs /\ Place(Last(resume)) = "evicted"
         /\ Last(resume) \notin Range(active) /\ Moves(Last(resume), "active")
<1> DEFINE j == Last(resume)
<1>1. /\ resume \in Seq(Jobs) /\ active \in Seq(Jobs) /\ j \in Range(resume) /\ j \in Jobs
      /\ Range(resume') = Range(resume) \ {j} /\ IsInjective(resume')
  BY Popped, SeqMembers DEF TypeOK, Placement
<1>2. Incoming' = Incoming
  BY DEF Incoming
<1>3. /\ j \in submitted /\ j \notin Incoming \cup Range(queue) /\ j \notin Range(active)
      /\ \A i, k \in 1 .. Len(channel') :
           channel'[i].op = "Submit" /\ channel'[k] = channel'[i] => i = k
  BY <1>1 DEF Placement
<1>4. Range(active') = Range(active) \cup {j} /\ IsInjective(active')
  BY <1>1, <1>3, Pushed DEF Placement
<1> HIDE DEF j
<1>5. /\ IsInjective(queue)' /\ IsInjective(active)' /\ IsInjective(resume)'
      /\ Range(resume)' = Range(resume) \ {j} /\ Range(queue)' = Range(queue)
      /\ Range(active)' = Range(active) \cup {j}
  BY <1>1, <1>4 DEF Placement
<1>6. Placement'
  BY <1>1, <1>2, <1>3, <1>5 DEF Placement
<1>7. Place(j) = "evicted" /\ Moves(j, "active")
  BY <1>1, <1>2, <1>3, <1>5 DEF Place, Moves
<1> QED
  BY <1>1, <1>3, <1>6, <1>7 DEF j

(* A member of the batch leaves it, evicted or retired.                    *)
LEMMA LeaveMoves ==
  ASSUME TypeOK, Placement, NEW v \in 1 .. Len(active), active' = RemoveAt(active, v),
         UNCHANGED <<channel, submitted, queue>>,
         resume' = resume \/ resume' = Append(resume, active[v])
  PROVE  /\ Placement' /\ active[v] \in Jobs /\ Place(active[v]) = "active"
         /\ Range(active') = Range(active) \ {active[v]}
         /\ resume' = resume => Moves(active[v], "gone")
         /\ resume' = Append(resume, active[v]) => Moves(active[v], "evicted")
<1> DEFINE j == active[v]
<1>1. /\ resume \in Seq(Jobs) /\ active \in Seq(Jobs) /\ j \in Range(active) /\ j \in Jobs
      /\ Range(active') = Range(active) \ {j} /\ IsInjective(active')
  BY Removed, SeqMembers, ElementOfSeq DEF TypeOK, Placement
<1>2. Incoming' = Incoming
  BY DEF Incoming
<1>3. /\ j \in submitted /\ j \notin Incoming \cup Range(queue) /\ j \notin Range(resume)
      /\ \A i, k \in 1 .. Len(channel') :
           channel'[i].op = "Submit" /\ channel'[k] = channel'[i] => i = k
  BY <1>1 DEF Placement
<1>4. /\ resume' = resume => Range(resume') = Range(resume)
      /\ resume' = Append(resume, j) => Range(resume') = Range(resume) \cup {j}
      /\ IsInjective(resume')
  <2>1. /\ Range(Append(resume, j)) = Range(resume) \cup {j} /\ IsInjective(Append(resume, j))
        /\ IsInjective(resume)
    BY <1>1, <1>3, Pushed DEF Placement
  <2>2. resume' = resume \/ resume' = Append(resume, j)
    OBVIOUS
  <2> QED
    BY <2>1, <2>2
<1> HIDE DEF j
<1>5. /\ IsInjective(queue)' /\ IsInjective(active)' /\ IsInjective(resume)'
      /\ Range(active)' = Range(active) \ {j} /\ Range(queue)' = Range(queue)
      /\ Range(resume)' = Range(resume')
  BY <1>1, <1>4 DEF Placement
<1>6. Range(resume') \in {Range(resume), Range(resume) \cup {j}}
  BY <1>4 DEF j
<1>7. Placement'
  BY <1>1, <1>2, <1>3, <1>5, <1>6 DEF Placement
<1>8. Place(j) = "active"
  BY <1>1, <1>3 DEF Place
<1>9. resume' = resume => Moves(j, "gone")
  BY <1>1, <1>2, <1>3, <1>4, <1>5 DEF Place, Moves
<1>10. resume' = Append(resume, j) => Moves(j, "evicted")
  BY <1>1, <1>2, <1>3, <1>4, <1>5 DEF Place, Moves
<1> QED
  BY <1>1, <1>7, <1>8, <1>9, <1>10 DEF j

(* The whole batch is failed at once.                                      *)
LEMMA RoundFailsMoves ==
  ASSUME TypeOK, Placement, RoundFails
  PROVE  /\ Placement'
         /\ \A k \in Jobs : Place(k)' = IF Place(k) = "active" THEN "gone" ELSE Place(k)
<1>1. /\ active' = <<>> /\ queue' = queue /\ resume' = resume
      /\ channel' = channel /\ submitted' = submitted
  BY DEF RoundFails, clientVars
<1>2. Incoming' = Incoming /\ Range(active)' = {} /\ Range(queue)' = Range(queue)
  BY <1>1, EmptyRange DEF Incoming
<1>3. IsInjective(active') /\ Range(resume)' = Range(resume)
  <2>1. \A i : i \notin DOMAIN <<>>
    OBVIOUS
  <2> QED
    BY <1>1, <2>1 DEF IsInjective
<1>4. Placement'
  BY <1>1, <1>2, <1>3 DEF Placement
<1> QED
  BY <1>1, <1>2, <1>3, <1>4 DEF Place, Placement

(* The thread ends: every submitted request is gone.                       *)
LEMMA ExitMoves ==
  ASSUME TypeOK, Placement, NEW last, Exit(last)
  PROVE  /\ Placement'
         /\ \A k \in Jobs : Place(k)' = IF Place(k) = "new" THEN "new" ELSE "gone"
<1>1. /\ active' = <<>> /\ queue' = <<>> /\ resume' = <<>>
      /\ channel' = <<>> /\ submitted' = submitted
  BY DEF Exit
<1>2. \A i : i \notin 1 .. Len(<<>>)
  BY EmptySeq
<1>3. Incoming' = {} /\ Range(active)' = {} /\ Range(queue)' = {} /\ Range(resume)' = {}
  BY <1>1, <1>2, EmptyRange DEF Incoming
<1>4. IsInjective(active') /\ IsInjective(queue') /\ IsInjective(resume')
  <2>1. \A i : i \notin DOMAIN <<>>
    OBVIOUS
  <2> QED
    BY <1>1, <2>1 DEF IsInjective
<1>5. Placement'
  BY <1>1, <1>2, <1>3, <1>4 DEF Placement
<1> QED
  BY <1>1, <1>3, <1>5 DEF Place

(* A step that leaves the lists alone moves nobody.                        *)
LEMMA NobodyMoves ==
  ASSUME Placement, UNCHANGED <<submitted, queue, active, resume>>,
         channel' = channel
  PROVE  Placement' /\ Stays
BY DEF Placement, Stays, Place, Incoming

(* The steps that move nobody, and what they change of the rest.           *)
LEMMA StayingSteps ==
  ASSUME TypeOK, Placement,
         \/ \E j \in Jobs : Cancel(j)
         \/ \E op \in Controls : Control(op)
         \/ TakeSubmit \/ TakeLoad \/ TakeUnload \/ TakeClearState \/ EndPoll
         \/ ResumeStops \/ AdmitStops
         \/ SweepIdle \/ SweepCancelled \/ GrantSkipped \/ TopUpSenior
         \/ GrowFinished \/ GrowWithin \/ GrowGranted \/ GrowPauses \/ GrowEnds
         \/ BeginRound \/ PrefillSkips \/ PrefillDefers \/ PrefillChunk \/ PrefillLast
         \/ PrefillFails \/ PrefillEnds \/ DecodeRows \/ DecodeFails
         \/ Ship \/ RetireKeeps \/ RetireEnds \/ Respawn \/ UNCHANGED vars
  PROVE  Placement' /\ Stays
<1>1. CASE \E op \in Controls : Control(op)
  BY <1>1, ControlMoves
<1>2. CASE TakeSubmit
  BY <1>2, TakeSubmitMoves
<1>3. ASSUME NEW op, op # "Submit", Receive(op), UNCHANGED <<submitted, queue, active, resume>>
      PROVE  Placement' /\ Stays
  <2>1. /\ Incoming' = Incoming
        /\ \A i, k \in 1 .. Len(channel') :
             channel'[i].op = "Submit" /\ channel'[k] = channel'[i] => i = k
    BY <1>3, Received
  <2> QED
    BY <1>3, <2>1 DEF Placement, Stays, Place
<1>4. CASE TakeLoad \/ TakeUnload \/ TakeClearState
  BY <1>3, <1>4 DEF TakeLoad, TakeUnload, TakeClearState
<1>5. CASE (\E j \in Jobs : Cancel(j)) \/ EndPoll \/ ResumeStops \/ AdmitStops \/ Respawn
           \/ UNCHANGED vars
  BY <1>5, NobodyMoves, SMTT(40) DEF Cancel, EndPoll, ResumeStops, AdmitStops, Respawn, clientVars, vars
<1>6. CASE SweepIdle \/ SweepCancelled \/ GrantSkipped \/ TopUpSenior \/ GrowFinished
           \/ GrowWithin \/ GrowGranted \/ GrowPauses \/ GrowEnds
  BY <1>6, NobodyMoves DEF SweepIdle, SweepCancelled, GrantSkipped, TopUpSenior, GrowFinished,
     GrowWithin, GrowGranted, GrowPauses, GrowEnds, GrowNext, clientVars
<1>7. CASE BeginRound \/ PrefillSkips \/ PrefillDefers \/ PrefillChunk \/ PrefillLast
           \/ PrefillFails \/ PrefillEnds \/ DecodeRows \/ DecodeFails
  BY <1>7, NobodyMoves, SMTT(40) DEF BeginRound, PrefillSkips, PrefillDefers, PrefillChunk, PrefillLast,
     PrefillFails, PrefillEnds, DecodeRows, DecodeFails, PrefillNext, clientVars
<1>8. CASE Ship \/ RetireKeeps \/ RetireEnds
  BY <1>8, NobodyMoves DEF Ship, RetireKeeps, RetireEnds, clientVars
<1> QED
  BY <1>1, <1>2, <1>4, <1>5, <1>6, <1>7, <1>8

(* No step loses a request or puts it in two places.                       *)
LEMMA PlacementStep ==
  ASSUME TypeOK, Placement, [Next]_vars
  PROVE  Placement'
<1>1. CASE \E j \in Jobs : Submit(j)
  BY <1>1, SubmitMoves
<1>2. CASE TakeShutdown \/ Panic
  BY <1>2, ExitMoves DEF TakeShutdown, Panic
<1>3. CASE RejectCancelled \/ RejectFailed \/ RejectTooLarge \/ AdmitOne
  BY <1>3, QueueMoves
     DEF RejectCancelled, RejectFailed, RejectTooLarge, AdmitOne, Admissible, Reject, Enter, clientVars
<1>4. CASE ResumeOne
  BY <1>4, ResumeMoves DEF ResumeOne, Resumable, Enter, clientVars
<1>5. CASE GrowEvicts
  BY <1>5, LeaveMoves DEF GrowEvicts, clientVars
<1>6. CASE RetireOne
  <2>1. cursor \in 1 .. Len(active)
    BY <1>6, CurrentType DEF RetireOne, Retiring
  <2> QED
    BY <1>6, <2>1, LeaveMoves DEF RetireOne, clientVars
<1>7. CASE RoundFails
  BY <1>7, RoundFailsMoves
<1> QED
  BY <1>1, <1>2, <1>3, <1>4, <1>5, <1>6, <1>7, StayingSteps
     DEF Next, Client, Worker, Poll, Admit, GrantGrowth, StepRound, Deliver

(* At the start nobody is anywhere.                                        *)
LEMMA InitPlacement == Init => Placement
<1> SUFFICES ASSUME Init PROVE Placement
  OBVIOUS
<1>1. \A i : i \notin 1 .. Len(<<>>) /\ i \notin DOMAIN <<>>
  BY EmptySeq
<1>2. Range(queue) = {} /\ Range(active) = {} /\ Range(resume) = {} /\ Incoming = {}
  BY <1>1, EmptyRange DEF Init, Incoming
<1>3. IsInjective(queue) /\ IsInjective(active) /\ IsInjective(resume)
  BY <1>1 DEF Init, IsInjective
<1> QED
  BY <1>1, <1>2, <1>3 DEF Init, Placement

-------------------------------------------------------------------------------
(* What the worker has told a request.                                     *)
AnsweredIn(s) == \E i \in 1 .. Len(s) : s[i] \in Replies
Streams(s) == Cardinality({i \in 1 .. Len(s) : s[i] = "Token"})
Open(s) == s # <<>> /\ s[1] = "Admitted" /\ s[Len(s)] \in {"Admitted", "Token"} /\ ~AnsweredIn(s)
Shut(s) == s # <<>> /\ s[1] = "Admitted" /\ s[Len(s)] = "Error"

Idles == {"Poll", "Resume", "Admit", "Sweep", "Dead", "Stopped"}
Grants == {"Senior", "Grow", "Round"}
Rounds == {"Prefill", "Decode", "Ship"}

(* A sequence record r of job j in phase p.                                *)
Sound(j, r, p) ==
  /\ r.generated <= MaxGen(j)
  /\ r.cancelled \/ r.stopped => r.finished
  /\ p \in Idles => ~r.finished
  /\ p \in Grants /\ r.finished => r.cancelled
  /\ p \notin Rounds => r.out = "Skipped"
  /\ p # "Retire" => ~r.stopped
  /\ r.out \in {"Failed", "Stopped"} => r.finished
  /\ r.out \in {"Prefill", "Decode"} =>
       /\ ~r.finished /\ r.generated < MaxGen(j)
       /\ Prompt[j] + r.generated <= Ctx
       /\ r.processed < Prompt[j] + r.generated
  /\ r.out = "Decode" => r.processed + 1 = Prompt[j] + r.generated

Told(s, r, p) ==
  /\ Open(s) \/ (p = "Retire" /\ r.finished /\ Shut(s))
  /\ r.generated = Streams(s) + (IF r.out \in {"Stepped", "Stopped"} THEN 1 ELSE 0)
                              + (IF r.stopped THEN 1 ELSE 0)

Honest(j, s, sig) ==
  AnsweredIn(s) /\ Len(s) > 1 =>
    LET last == s[Len(s)]
        failed == s[Len(s) - 1] = "Error" IN
    /\ last = "Length" => failed \/ Streams(s) = MaxGen(j)
    /\ last = "Stop" => failed \/ Streams(s) < MaxGen(j)
    /\ last = "Cancelled" => j \in sig

Good(j, at, s, r, p, sig) ==
  /\ at \in {"new", "waiting"} => s = <<>> /\ r = Blank
  /\ at = "active" => Sound(j, r, p) /\ Told(s, r, p) /\ (r.cancelled => j \in sig)
  /\ at = "evicted" => Sound(j, r, "Poll") /\ Told(s, r, "Poll")
  /\ at = "gone" => AnsweredIn(s) /\ Honest(j, s, sig) /\ r = Blank

RequestsGood ==
  /\ \A j \in Jobs : Good(j, Place(j), sent[j], seq[j], phase, signalled)
  /\ phase = "Retire" => \A i \in 1 .. Len(active) : i < cursor => Live(i)

(* How an event said to a request adds to what it was told.                *)
LEMMA Telling ==
  ASSUME NEW s \in Seq(Events), NEW e \in Events
  PROVE  /\ Append(s, e) \in Seq(Events) /\ Append(s, e) # <<>>
         /\ Len(s) \in Nat /\ Len(Append(s, e)) = Len(s) + 1 /\ Append(s, e)[Len(s) + 1] = e
         /\ s # <<>> => Append(s, e)[1] = s[1] /\ Append(s, e)[Len(s)] = s[Len(s)] /\ Len(s) > 0
         /\ AnsweredIn(Append(s, e)) <=> AnsweredIn(s) \/ e \in Replies
         /\ Streams(s) \in Nat
         /\ Streams(Append(s, e)) = Streams(s) + (IF e = "Token" THEN 1 ELSE 0)
<1>1. PICK t \in Seq(Events) : t = Append(s, e)
  BY AppendProperties
<1>2. /\ Len(s) \in Nat /\ Len(t) = Len(s) + 1 /\ t[Len(s) + 1] = e
      /\ \A i \in 1 .. Len(s) : t[i] = s[i]
  BY <1>1, Pushed, LenProperties
<1>3. t # <<>>
  BY <1>2, EmptySeq
<1>4. s # <<>> => Len(s) > 0 /\ 1 \in 1 .. Len(s) /\ Len(s) \in 1 .. Len(s)
  BY <1>2, EmptySeq
<1>5. \A i \in 1 .. Len(t) : i \in 1 .. Len(s) \/ i = Len(s) + 1
  BY <1>2
<1>6. Len(s) + 1 \in 1 .. Len(t) /\ \A i \in 1 .. Len(s) : i \in 1 .. Len(t)
  BY <1>2
<1>7. AnsweredIn(t) <=> AnsweredIn(s) \/ e \in Replies
  BY <1>2, <1>5, <1>6 DEF AnsweredIn
<1> DEFINE A == {i \in 1 .. Len(s) : s[i] = "Token"}
           B == {i \in 1 .. Len(t) : t[i] = "Token"}
           n == Len(s) + 1
<1>8. IsFiniteSet(A) /\ n \notin A
  <2>1. IsFiniteSet(1 .. Len(s)) /\ A \subseteq 1 .. Len(s)
    BY <1>2, FS_Interval
  <2> QED
    BY <1>2, <2>1, FS_Subset
<1>9. B = IF e = "Token" THEN A \cup {n} ELSE A
  BY <1>2, <1>5, <1>6
<1> HIDE DEF A, B, n
<1>10. Cardinality(A) \in Nat /\ Cardinality(A \cup {n}) = Cardinality(A) + 1
  BY <1>8, FS_AddElement, FS_CardinalityType
<1>11. Cardinality(B) = Cardinality(A) + (IF e = "Token" THEN 1 ELSE 0)
  BY <1>9, <1>10
<1>12. Streams(s) = Cardinality(A) /\ Streams(t) = Cardinality(B)
  BY DEF Streams, A, B
<1> QED
  BY <1>1, <1>2, <1>3, <1>4, <1>7, <1>10, <1>11, <1>12

(* Nobody was told anything, and then Admitted.                            *)
LEMMA FirstWord ==
  /\ <<>> \in Seq(Events) /\ ~AnsweredIn(<<>>) /\ Streams(<<>>) = 0
  /\ Open(Append(<<>>, "Admitted")) /\ Streams(Append(<<>>, "Admitted")) = 0
<1> DEFINE none == <<>>
<1>1. none \in Seq(Events) /\ Len(none) = 0
  BY EmptySeq
<1>2. \A i : i \notin 1 .. Len(none)
  BY <1>1
<1>3. Streams(none) = 0 /\ ~AnsweredIn(none)
  <2>1. {i \in 1 .. Len(none) : none[i] = "Token"} = {}
    BY <1>2
  <2> QED
    BY <1>2, <2>1, FS_EmptySet DEF Streams, AnsweredIn
<1> HIDE DEF none
<1>4. "Admitted" \in Events /\ "Admitted" \notin Replies /\ "Admitted" # "Token"
  BY DEF Events, Replies, OkReplies, ErrReplies
<1>5. PICK t \in Seq(Events) : t = Append(none, "Admitted")
  BY <1>1, <1>4, Telling
<1>6. /\ t # <<>> /\ Len(t) = 1 /\ t[1] = "Admitted" /\ ~AnsweredIn(t) /\ Streams(t) = 0
  <2>1. /\ t # <<>> /\ Len(t) = Len(none) + 1 /\ t[Len(none) + 1] = "Admitted"
        /\ AnsweredIn(t) <=> AnsweredIn(none) \/ "Admitted" \in Replies
        /\ Streams(t) = Streams(none) + (IF "Admitted" = "Token" THEN 1 ELSE 0)
    BY <1>1, <1>4, <1>5, Telling
  <2> QED
    BY <1>1, <1>3, <1>4, <2>1
<1>7. Open(t)
  BY <1>6 DEF Open
<1> QED
  BY <1>1, <1>3, <1>5, <1>6, <1>7 DEF none

(* An open stream carries tokens until its reply; a failure shuts it.      *)
LEMMA StreamGoesOn ==
  ASSUME NEW s \in Seq(Events), Open(s)
  PROVE  /\ Open(Append(s, "Token")) /\ Streams(Append(s, "Token")) = Streams(s) + 1
         /\ Shut(Append(s, "Error")) /\ Streams(Append(s, "Error")) = Streams(s)
<1>1. {"Token", "Error"} \subseteq Events /\ "Error" # "Token" /\ "Token" \notin Replies
  BY DEF Events, Replies, OkReplies, ErrReplies
<1>2. PICK t \in Seq(Events) : t = Append(s, "Token")
  BY <1>1, Telling
<1>3. PICK u \in Seq(Events) : u = Append(s, "Error")
  BY <1>1, Telling
<1>4. /\ t # <<>> /\ Len(t) = Len(s) + 1 /\ t[Len(t)] = "Token" /\ t[1] = s[1]
      /\ ~AnsweredIn(t) /\ Streams(t) = Streams(s) + 1
  BY <1>1, <1>2, Telling DEF Open
<1>5. /\ u # <<>> /\ Len(u) = Len(s) + 1 /\ u[Len(u)] = "Error" /\ u[1] = s[1]
      /\ Streams(u) = Streams(s)
  <2>1. Streams(u) = Streams(s) + (IF "Error" = "Token" THEN 1 ELSE 0) /\ Streams(s) \in Nat
    BY <1>1, <1>3, Telling
  <2> QED
    BY <1>1, <1>3, <2>1, Telling DEF Open
<1> QED
  BY <1>2, <1>3, <1>4, <1>5 DEF Open, Shut

(* A request that is answered with an error, or ended with the thread.     *)
LEMMA ErrorEnds ==
  ASSUME NEW s \in Seq(Events), NEW e \in ErrReplies, NEW j \in Jobs, NEW sig
  PROVE  AnsweredIn(Append(s, e)) /\ Honest(j, Append(s, e), sig)
<1>1. e \in Events /\ e \in Replies /\ e \notin OkReplies
  BY DEF Events, Replies, OkReplies, ErrReplies
<1>2. PICK t \in Seq(Events) : t = Append(s, e)
  BY <1>1, Telling
<1>3. AnsweredIn(t) /\ t[Len(t)] = e
  BY <1>1, <1>2, Telling
<1> QED
  BY <1>1, <1>2, <1>3 DEF Honest, OkReplies

(* A shut stream was answered, honestly: its reply is the failure.         *)
LEMMA ShutIsHonest ==
  ASSUME NEW s \in Seq(Events), Shut(s), NEW j \in Jobs, NEW sig
  PROVE  AnsweredIn(s) /\ Honest(j, s, sig)
<1>1. Len(s) \in 1 .. Len(s)
  <2>1. Len(s) \in Nat \ {0}
    BY EmptySeq, LenProperties DEF Shut
  <2> QED
    BY <2>1
<1> QED
  BY <1>1 DEF Shut, AnsweredIn, Honest, Replies, ErrReplies

-------------------------------------------------------------------------------
(* What a step keeps of the requests it is not about.                      *)

(* The fields of a sequence that say how far its stream is.                *)
SameProgress(q, r) ==
  /\ q.generated = r.generated /\ q.processed = r.processed /\ q.finished = r.finished
  /\ q.stopped = r.stopped /\ q.cancelled = r.cancelled /\ q.out = r.out

(* Phases between which nothing is expected of a sequence.                 *)
Calm(p, q) ==
  \/ p = q \/ {p, q} \subseteq Idles \/ {p, q} \subseteq Grants
  \/ p = "Prefill" /\ q = "Decode"

(* Reservations, pauses and calm changes of phase leave a sequence sound.  *)
LEMMA SoundStays ==
  ASSUME NEW j \in Jobs, NEW s, NEW q, NEW r, SameProgress(q, r),
         NEW p, NEW o, Calm(p, o), Sound(j, r, p), Told(s, r, p)
  PROVE  Sound(j, q, o) /\ Told(s, q, o)
<1>1. "Retire" \notin Idles \cup Grants \cup Rounds
  BY DEF Idles, Grants, Rounds
<1>2. Sound(j, q, o)
  BY DEF Sound, SameProgress, Calm, Idles, Grants, Rounds
<1>3. Told(s, q, o)
  <2>1. p = "Retire" => o = "Retire"
    BY <1>1 DEF Calm
  <2> QED
    BY <2>1 DEF Told, SameProgress
<1> QED
  BY <1>2, <1>3

(* Every request but those a step is about keeps what is expected of it.   *)
LEMMA OthersGood ==
  ASSUME TypeOK, RequestsGood, signalled \subseteq signalled',
         \A k \in Jobs :
           \/ /\ Place(k)' = Place(k) /\ sent'[k] = sent[k]
              /\ Place(k) = "active" => Calm(phase, phase')
              /\ \/ seq'[k] = seq[k]
                 \/ Place(k) = "active" /\ SameProgress(seq'[k], seq[k])
           \/ Good(k, Place(k)', sent'[k], seq'[k], phase', signalled')
  PROVE  \A k \in Jobs : Good(k, Place(k)', sent'[k], seq'[k], phase', signalled')
<1> SUFFICES ASSUME NEW k \in Jobs,
                    Place(k)' = Place(k), sent'[k] = sent[k],
                    Place(k) = "active" => Calm(phase, phase'),
                    \/ seq'[k] = seq[k]
                    \/ Place(k) = "active" /\ SameProgress(seq'[k], seq[k])
             PROVE  Good(k, Place(k)', sent'[k], seq'[k], phase', signalled')
  OBVIOUS
<1>1. Good(k, Place(k), sent[k], seq[k], phase, signalled)
  BY DEF RequestsGood
<1>2. CASE Place(k) = "active"
  <2>1. Sound(k, seq[k], phase) /\ Told(sent[k], seq[k], phase)
        /\ (seq[k].cancelled => k \in signalled)
    BY <1>1, <1>2 DEF Good
  <2>2. SameProgress(seq'[k], seq[k])
    BY DEF SameProgress
  <2>3. Sound(k, seq'[k], phase') /\ Told(sent[k], seq'[k], phase')
    BY <1>2, <2>1, <2>2, SoundStays
  <2>4. seq'[k].cancelled => k \in signalled'
    BY <2>1, <2>2 DEF SameProgress
  <2> QED
    BY <1>2, <2>3, <2>4 DEF Good
<1>3. CASE Place(k) # "active"
  <2>1. Honest(k, sent[k], signalled) => Honest(k, sent[k], signalled')
    BY DEF Honest
  <2> QED
    BY <1>1, <1>3, <2>1 DEF Good
<1> QED
  BY <1>2, <1>3

(* Where a request is, in terms of the lists.                              *)
LEMMA PlacesAre ==
  ASSUME TypeOK, Placement, NEW j \in Jobs
  PROVE  /\ Place(j) = "new" <=> j \notin submitted
         /\ Place(j) = "waiting" <=> j \in Incoming \cup Range(queue)
         /\ Place(j) = "active" <=> j \in Range(active)
         /\ Place(j) = "evicted" <=> j \in Range(resume)
         /\ Place(j) \in {"new", "waiting", "active", "evicted", "gone"}
BY DEF Place, Placement

(* A sequence in the batch, and one evicted from it.                       *)
LEMMA ActiveIs ==
  ASSUME TypeOK, Placement, RequestsGood, NEW j \in Range(active)
  PROVE  /\ j \in Jobs /\ seq[j] \in SeqStates /\ sent[j] \in Seq(Events)
         /\ Place(j) = "active"
         /\ Sound(j, seq[j], phase) /\ Told(sent[j], seq[j], phase)
         /\ seq[j].cancelled => j \in signalled
<1>1. j \in Jobs /\ seq[j] \in SeqStates /\ sent[j] \in Seq(Events)
  BY SeqMembers DEF TypeOK
<1>2. Place(j) = "active"
  BY <1>1, PlacesAre
<1> QED
  BY <1>1, <1>2 DEF RequestsGood, Good

(* Growth grants and pauses are no progress; nor is waiting.               *)
LEMMA StillGood ==
  ASSUME TypeOK, Placement, RequestsGood,
         \/ \E j \in Jobs : Cancel(j)
         \/ \E op \in Controls : Control(op)
         \/ TakeSubmit \/ TakeLoad \/ TakeUnload \/ TakeClearState \/ EndPoll
         \/ ResumeStops \/ AdmitStops
         \/ SweepIdle \/ GrantSkipped \/ TopUpSenior
         \/ GrowFinished \/ GrowWithin \/ GrowGranted \/ GrowPauses \/ GrowEnds
         \/ PrefillSkips \/ PrefillEnds \/ RetireKeeps \/ Respawn \/ UNCHANGED vars
  PROVE  \A k \in Jobs : Good(k, Place(k)', sent'[k], seq'[k], phase', signalled')
<1>1. Stays
  BY StayingSteps
<1>2. \A k \in Jobs : seq[k] \in SeqStates /\ (Place(k) = "active" <=> k \in Range(active))
  BY PlacesAre DEF TypeOK
<1>3. ASSUME sent' = sent, Calm(phase, phase'), signalled \subseteq signalled',
             \A k \in Jobs : \/ seq'[k] = seq[k]
                             \/ k \in Range(active) /\ SameProgress(seq'[k], seq[k])
      PROVE  \A k \in Jobs : Good(k, Place(k)', sent'[k], seq'[k], phase', signalled')
  BY <1>1, <1>2, <1>3, OthersGood DEF Stays
<1>4. CASE \E j \in Jobs : Cancel(j)
  BY <1>3, <1>4 DEF Cancel, Calm
<1>5. CASE \/ \E op \in Controls : Control(op)
           \/ TakeSubmit \/ TakeLoad \/ TakeUnload \/ TakeClearState
  BY <1>3, <1>5 DEF Control, TakeSubmit, TakeLoad, TakeUnload, TakeClearState, Receive, Calm
<1>6. CASE EndPoll \/ ResumeStops \/ AdmitStops \/ SweepIdle \/ Respawn
  BY <1>3, <1>6 DEF EndPoll, ResumeStops, AdmitStops, SweepIdle, Respawn, Calm, Idles, clientVars
<1>7. CASE GrantSkipped \/ GrowFinished \/ GrowEnds
  BY <1>3, <1>7 DEF GrantSkipped, GrowFinished, GrowEnds, GrowNext, Calm, Grants, clientVars
<1>8. CASE PrefillSkips \/ PrefillEnds \/ RetireKeeps \/ UNCHANGED vars
  BY <1>3, <1>8 DEF PrefillSkips, PrefillEnds, RetireKeeps, PrefillNext, Calm, clientVars, vars
<1>9. ASSUME Growing PROVE Current \in Range(active) /\ Current \in Jobs
  BY <1>9, CurrentType DEF Growing
<1>10. \A r \in SeqStates : \A n : SameProgress([r EXCEPT !.resv = n], r)
  BY DEF SameProgress, SeqStates
<1>11. CASE TopUpSenior
  <2>1. \A k \in Jobs : \/ seq'[k] = seq[k]
                        \/ /\ k \in Range(active)
                           /\ seq'[k] = [seq[k] EXCEPT !.resv = seq[k].resv + TopUp(k)]
    <3>1. \A i \in 1 .. Len(active) : active[i] \in Range(active)
      BY SeqMembers DEF TypeOK
    <3> QED
      BY <1>2, <1>11, <3>1 DEF TopUpSenior
  <2> QED
    BY <1>2, <1>3, <1>10, <1>11, <2>1 DEF TopUpSenior, Calm, Grants, clientVars
<1>12. CASE GrowWithin \/ GrowPauses
  <2>1. PICK b \in BOOLEAN : seq' = [seq EXCEPT ![Current].paused = b]
    BY <1>12 DEF GrowWithin, GrowPauses, Unpaused, Paused
  <2>2. \A k \in Jobs : \/ seq'[k] = seq[k]
                        \/ k \in Range(active) /\ seq'[k] = [seq[k] EXCEPT !.paused = b]
    BY <1>2, <1>9, <1>12, <2>1 DEF TypeOK, GrowWithin, GrowPauses
  <2>3. \A k \in Jobs : \/ seq'[k] = seq[k]
                        \/ k \in Range(active) /\ SameProgress(seq'[k], seq[k])
    BY <1>2, <2>2, ZenonT(60) DEF SameProgress, SeqStates
  <2>4. sent' = sent /\ phase' = phase /\ signalled' = signalled
    BY <1>12 DEF GrowWithin, GrowPauses, GrowNext, clientVars
  <2> QED
    BY <1>3, <2>3, <2>4 DEF Calm
<1>13. CASE GrowGranted
  <2>1. \A k \in Jobs : \/ seq'[k] = seq[k]
                        \/ /\ k \in Range(active)
                           /\ seq'[k] = [seq[k] EXCEPT !.resv = Need(Current), !.paused = FALSE]
    BY <1>2, <1>9, <1>13 DEF TypeOK, GrowGranted
  <2>2. \A k \in Jobs : \/ seq'[k] = seq[k]
                        \/ k \in Range(active) /\ SameProgress(seq'[k], seq[k])
    BY <1>2, <2>1, ZenonT(60) DEF SameProgress, SeqStates
  <2>3. sent' = sent /\ phase' = phase /\ signalled' = signalled
    BY <1>13 DEF GrowGranted, GrowNext, clientVars
  <2> QED
    BY <1>3, <2>2, <2>3 DEF Calm
<1> QED
  BY <1>4, <1>5, <1>6, <1>7, <1>8, <1>11, <1>12, <1>13

-------------------------------------------------------------------------------
(* The steps that move one request.                                        *)

(* A sequence without flags is sound wherever its stream is open.          *)
LEMMA FreshSound ==
  ASSUME NEW j \in Jobs, NEW s, Open(s), NEW r, NEW p,
         r.generated = Streams(s), r.generated \in Nat, r.generated <= MaxGen(j),
         ~r.finished, ~r.stopped, ~r.cancelled, r.out = "Skipped"
  PROVE  Sound(j, r, p) /\ Told(s, r, p)
<1>1. Sound(j, r, p)
  BY DEF Sound
<1>2. Told(s, r, p)
  BY DEF Told
<1> QED
  BY <1>1, <1>2

(* Submitting: the request is new, and is now waiting.                     *)
LEMMA SubmitGood ==
  ASSUME TypeOK, Placement, RequestsGood, NEW j \in Jobs, Submit(j)
  PROVE  \A k \in Jobs : Good(k, Place(k)', sent'[k], seq'[k], phase', signalled')
<1>1. Moves(j, "waiting") /\ Place(j) = "new"
  BY SubmitMoves
<1>2. sent' = sent /\ seq' = seq /\ phase' = phase /\ signalled' = signalled
  BY DEF Submit
<1>3. Good(j, "waiting", sent[j], seq[j], phase, signalled)
  BY <1>1 DEF RequestsGood, Good
<1> QED
  BY <1>1, <1>2, <1>3, OthersGood DEF Moves, Calm

(* The front job is answered without being admitted.                       *)
LEMMA RejectGood ==
  ASSUME TypeOK, Placement, RequestsGood, queue # <<>>,
         NEW reply \in ErrReplies, Reject(reply)
  PROVE  \A k \in Jobs : Good(k, Place(k)', sent'[k], seq'[k], phase', signalled')
<1> DEFINE j == Head(queue)
<1>1. j \in Jobs /\ Place(j) = "waiting" /\ Moves(j, "gone")
  BY QueueMoves DEF Reject, clientVars
<1>2. sent[j] = <<>> /\ seq[j] = Blank
  BY <1>1 DEF RequestsGood, Good
<1>3. /\ sent'[j] = Append(sent[j], reply) /\ \A k \in Jobs : k # j => sent'[k] = sent[k]
      /\ seq' = seq /\ phase' = phase /\ signalled' = signalled
  BY <1>1 DEF Reject, Tell, TypeOK, clientVars
<1>4. sent[j] \in Seq(Events)
  BY <1>1 DEF TypeOK
<1> HIDE DEF j
<1>5. Good(j, "gone", sent'[j], seq'[j], phase', signalled')
  BY <1>1, <1>2, <1>3, <1>4, ErrorEnds DEF Good
<1> QED
  BY <1>1, <1>3, <1>5, OthersGood DEF Moves, Calm

(* The front job is admitted, and hears so.                                *)
LEMMA AdmitGood ==
  ASSUME TypeOK, Placement, RequestsGood, AdmitOne
  PROVE  \A k \in Jobs : Good(k, Place(k)', sent'[k], seq'[k], phase', signalled')
<1> DEFINE j == Head(queue)
<1>1. j \in Jobs /\ Place(j) = "waiting" /\ Moves(j, "active")
  BY QueueMoves DEF AdmitOne, Admissible, Enter, clientVars
<1>2. sent[j] = <<>> /\ seq[j] = Blank
  BY <1>1 DEF RequestsGood, Good
<1>3. /\ sent'[j] = Append(sent[j], "Admitted") /\ \A k \in Jobs : k # j => sent'[k] = sent[k]
      /\ seq'[j] = Entering(j) /\ \A k \in Jobs : k # j => seq'[k] = seq[k]
      /\ phase' = phase /\ signalled' = signalled
  BY <1>1 DEF AdmitOne, Enter, Tell, TypeOK, clientVars
<1>4. Open(sent'[j]) /\ Streams(sent'[j]) = 0
  BY <1>2, <1>3, FirstWord
<1> HIDE DEF j
<1>5. /\ seq'[j].generated = 0 /\ ~seq'[j].finished /\ ~seq'[j].stopped /\ ~seq'[j].cancelled
      /\ seq'[j].out = "Skipped"
  BY <1>2, <1>3 DEF Entering, Blank
<1>6. MaxGen(j) \in Nat
  BY <1>1, MaxGenNat
<1>7. Sound(j, seq'[j], phase') /\ Told(sent'[j], seq'[j], phase')
  BY <1>1, <1>4, <1>5, <1>6, FreshSound
<1>8. Good(j, "active", sent'[j], seq'[j], phase', signalled')
  BY <1>5, <1>7 DEF Good
<1> QED
  BY <1>1, <1>3, <1>8, OthersGood DEF Moves, Calm

(* What an evicted sequence remembers is how much it streamed.             *)
LEMMA EvictedIs ==
  ASSUME TypeOK, RequestsGood, NEW j \in Jobs, Place(j) = "evicted"
  PROVE  /\ Open(sent[j]) /\ seq[j].generated = Streams(sent[j])
         /\ seq[j].generated \in Nat /\ seq[j].generated <= MaxGen(j)
<1>1. Sound(j, seq[j], "Poll") /\ Told(sent[j], seq[j], "Poll")
  BY DEF RequestsGood, Good
<1>2. seq[j].out = "Skipped" /\ ~seq[j].stopped /\ seq[j].generated <= MaxGen(j)
  BY <1>1 DEF Sound, Rounds
<1>3. sent[j] \in Seq(Events) /\ seq[j].generated \in Nat
  BY DEF TypeOK, SeqStates
<1>4. Streams(sent[j]) \in Nat
  <2>1. "Token" \in Events \/ "Error" \in Events
    BY DEF Events
  <2> QED
    BY <1>3, <2>1, Telling
<1> QED
  BY <1>1, <1>2, <1>3, <1>4 DEF Told

(* An evicted sequence returns, its count of tokens with it.               *)
LEMMA ResumeGood ==
  ASSUME TypeOK, Placement, RequestsGood, ResumeOne
  PROVE  \A k \in Jobs : Good(k, Place(k)', sent'[k], seq'[k], phase', signalled')
<1> DEFINE j == Last(resume)
<1>1. j \in Jobs /\ Place(j) = "evicted" /\ Moves(j, "active")
  BY ResumeMoves DEF ResumeOne, Resumable, Enter, clientVars
<1>2. /\ sent' = sent /\ phase' = phase /\ signalled' = signalled
      /\ seq'[j] = Entering(j) /\ \A k \in Jobs : k # j => seq'[k] = seq[k]
  BY <1>1 DEF ResumeOne, Enter, TypeOK, clientVars
<1> HIDE DEF j
<1>3. /\ seq'[j].generated = seq[j].generated /\ ~seq'[j].finished /\ ~seq'[j].stopped
      /\ ~seq'[j].cancelled /\ seq'[j].out = "Skipped"
  BY <1>2 DEF Entering, Blank
<1>4. Sound(j, seq'[j], phase') /\ Told(sent'[j], seq'[j], phase')
  BY <1>1, <1>2, <1>3, EvictedIs, FreshSound
<1>5. Good(j, "active", sent'[j], seq'[j], phase', signalled')
  BY <1>3, <1>4 DEF Good
<1> QED
  BY <1>1, <1>2, <1>5, OthersGood DEF Moves, Calm

(* A sequence is evicted during the growth pass, its count of tokens kept. *)
LEMMA EvictGood ==
  ASSUME TypeOK, Placement, RequestsGood, GrowEvicts
  PROVE  \A k \in Jobs : Good(k, Place(k)', sent'[k], seq'[k], phase', signalled')
<1>1. PICK v \in 1 .. Len(active) :
        /\ IsVictim(v)
        /\ active' = RemoveAt(active, v)
        /\ resume' = Append(resume, active[v])
        /\ seq' = [seq EXCEPT ![active[v]] = [Blank EXCEPT !.generated = seq[active[v]].generated]]
  BY DEF GrowEvicts
<1> DEFINE j == active[v]
<1>2. j \in Jobs /\ Place(j) = "active" /\ Moves(j, "evicted")
  BY <1>1, LeaveMoves DEF GrowEvicts, clientVars
<1>3. /\ sent' = sent /\ phase' = phase /\ signalled' = signalled /\ phase = "Grow"
      /\ \A k \in Jobs : k # j => seq'[k] = seq[k]
  BY <1>1 DEF GrowEvicts, Growing, TypeOK, clientVars
<1>4. seq'[j] = [Blank EXCEPT !.generated = seq[j].generated]
  BY <1>1, <1>2 DEF TypeOK
<1>5. ~seq[j].finished
  BY <1>1 DEF IsVictim, Live
<1> HIDE DEF j
<1>6. Sound(j, seq[j], "Grow") /\ Told(sent[j], seq[j], "Grow") /\ sent[j] \in Seq(Events)
      /\ seq[j].generated \in Nat
  BY <1>2, <1>3 DEF RequestsGood, Good, TypeOK, SeqStates
<1>7. seq[j].out = "Skipped" /\ ~seq[j].stopped /\ seq[j].generated <= MaxGen(j)
  BY <1>6 DEF Sound, Rounds
<1>8. Open(sent[j]) /\ seq[j].generated = Streams(sent[j])
  <2>1. Streams(sent[j]) \in Nat
    <3>1. "Admitted" \in Events
      BY DEF Events
    <3> QED
      BY <1>6, <3>1, Telling
  <2> QED
    BY <1>6, <1>7, <2>1 DEF Told
<1>9. /\ seq'[j].generated = seq[j].generated /\ ~seq'[j].finished /\ ~seq'[j].stopped
      /\ ~seq'[j].cancelled /\ seq'[j].out = "Skipped"
  BY <1>4 DEF Blank
<1>10. Sound(j, seq'[j], "Poll") /\ Told(sent'[j], seq'[j], "Poll")
  BY <1>2, <1>3, <1>6, <1>7, <1>8, <1>9, FreshSound
<1>11. Good(j, "evicted", sent'[j], seq'[j], phase', signalled')
  BY <1>10 DEF Good
<1> QED
  BY <1>2, <1>3, <1>11, OthersGood DEF Moves, Calm

(* A finished sequence is retired with a reason that is true of it.        *)
LEMMA RetireGood ==
  ASSUME TypeOK, Placement, RequestsGood, RetireOne
  PROVE  \A k \in Jobs : Good(k, Place(k)', sent'[k], seq'[k], phase', signalled')
<1> DEFINE j == Current
<1>1. cursor \in 1 .. Len(active) /\ j = active[cursor] /\ j \in Range(active)
  BY CurrentType DEF RetireOne, Retiring, Current
<1>2. j \in Jobs /\ Place(j) = "active" /\ Moves(j, "gone")
  BY <1>1, LeaveMoves DEF RetireOne, clientVars
<1>3. /\ sent'[j] = Append(sent[j], Reason(j)) /\ \A k \in Jobs : k # j => sent'[k] = sent[k]
      /\ seq'[j] = Blank /\ \A k \in Jobs : k # j => seq'[k] = seq[k]
      /\ phase' = phase /\ signalled' = signalled /\ phase = "Retire"
  BY <1>2 DEF RetireOne, Retiring, Tell, TypeOK, clientVars
<1>4. seq[j].finished
  BY <1>1 DEF RetireOne, Live
<1> HIDE DEF j
<1>5. /\ Sound(j, seq[j], "Retire") /\ Told(sent[j], seq[j], "Retire")
      /\ seq[j].cancelled => j \in signalled
      /\ sent[j] \in Seq(Events) /\ seq[j] \in SeqStates /\ MaxGen(j) \in Nat
  BY <1>1, <1>2, <1>3, ActiveIs, MaxGenNat
<1> DEFINE e == Reason(j)
           s == sent[j]
           t == Append(sent[j], e)
<1>6. /\ e \in {"Stop", "Length", "Cancelled"}
      /\ e = "Cancelled" => seq[j].cancelled
      /\ e = "Length" => ~seq[j].stopped /\ seq[j].generated >= MaxGen(j)
      /\ e = "Stop" => seq[j].stopped \/ ~(seq[j].generated >= MaxGen(j))
  BY Zenon DEF Reason
<1> HIDE DEF e
<1>7. e \in Events /\ e \in Replies /\ e # "Token"
  BY <1>6 DEF Events, Replies, OkReplies
<1> HIDE DEF t, s
<1>8. /\ s \in Seq(Events) /\ s # <<>>
      /\ s[Len(s)] # "Error" => Open(s)
  BY <1>5 DEF Told, Open, Shut, s
<1>9. /\ Len(s) \in Nat /\ Len(t) = Len(s) + 1 /\ t[Len(t)] = e /\ t[Len(t) - 1] = s[Len(s)]
      /\ AnsweredIn(t) /\ Streams(t) = Streams(s) /\ Streams(s) \in Nat
  <2>1. /\ Len(s) \in Nat /\ Len(t) = Len(s) + 1 /\ t[Len(s) + 1] = e /\ t[Len(s)] = s[Len(s)]
        /\ AnsweredIn(t) /\ Streams(t) = Streams(s) + (IF e = "Token" THEN 1 ELSE 0)
        /\ Streams(s) \in Nat
    BY <1>7, <1>8, Telling DEF t, s
  <2> QED
    BY <1>7, <2>1
<1>10. seq[j].out = "Skipped" /\ seq[j].generated <= MaxGen(j)
  BY <1>5 DEF Sound, Rounds
<1>11. seq[j].generated = Streams(s) + (IF seq[j].stopped THEN 1 ELSE 0)
       /\ seq[j].generated \in Nat /\ seq[j].stopped \in BOOLEAN
  BY <1>5, <1>9, <1>10 DEF Told, SeqStates, s
<1>12. /\ e = "Length" => Streams(t) = MaxGen(j)
       /\ e = "Stop" => Streams(t) < MaxGen(j)
       /\ e = "Cancelled" => j \in signalled
  BY <1>5, <1>6, <1>9, <1>10, <1>11
<1>13. Honest(j, t, signalled)
  BY <1>9, <1>12 DEF Honest
<1>14. Good(j, "gone", sent'[j], seq'[j], phase', signalled')
  BY <1>3, <1>9, <1>13 DEF Good, t, e
<1> QED
  BY <1>2, <1>3, <1>14, OthersGood DEF Moves, Calm

-------------------------------------------------------------------------------
(* The steps of the round, sequence by sequence.                           *)

(* The numbers of a sequence.                                              *)
LEMMA NumbersAre ==
  ASSUME TypeOK, NEW j \in Jobs
  PROVE  /\ seq[j] \in SeqStates /\ sent[j] \in Seq(Events)
         /\ Prompt[j] \in Nat /\ Ctx \in Nat /\ MaxGen(j) \in Nat
         /\ seq[j].generated \in Nat /\ seq[j].processed \in Nat
         /\ Tokens(j) = Prompt[j] + seq[j].generated
         /\ Unprocessed(j) = Prompt[j] + seq[j].generated - seq[j].processed
         /\ Streams(sent[j]) \in Nat
<1>1. seq[j] \in SeqStates /\ sent[j] \in Seq(Events)
  BY DEF TypeOK
<1>2. Prompt[j] \in Nat /\ Ctx \in Nat /\ MaxGen(j) \in Nat
  BY WorkerAssumption, MaxGenNat
<1>3. Streams(sent[j]) \in Nat
  <2>1. "Admitted" \in Events
    BY DEF Events
  <2> QED
    BY <1>1, <2>1, Telling
<1> QED
  BY <1>1, <1>2, <1>3 DEF SeqStates, Tokens, Unprocessed

(* The sweep marks a cancelled sequence finished.                          *)
LEMMA CancelledSound ==
  ASSUME NEW j \in Jobs, NEW s, NEW r \in SeqStates, Sound(j, r, "Sweep"), Told(s, r, "Sweep"),
         NEW q \in {r, [r EXCEPT !.finished = TRUE, !.cancelled = TRUE]}
  PROVE  Sound(j, q, "Senior") /\ Told(s, q, "Senior")
<1>1. /\ q.generated = r.generated /\ q.stopped = r.stopped /\ q.out = r.out
      /\ q = r \/ (q.finished /\ q.cancelled)
  BY DEF SeqStates
<1>2. ~r.finished /\ ~r.stopped /\ ~r.cancelled /\ r.out = "Skipped"
  BY DEF Sound, Idles, Rounds
<1>3. Sound(j, q, "Senior")
  BY <1>1, <1>2 DEF Sound, Idles, Rounds, Grants
<1>4. Told(s, q, "Senior")
  BY <1>1 DEF Told
<1> QED
  BY <1>3, <1>4

(* Classification runs only what has room in its cap and in the window.    *)
LEMMA ClassifiedSound ==
  ASSUME TypeOK, NEW j \in Jobs, NEW s, Sound(j, seq[j], "Round"), Told(s, seq[j], "Round")
  PROVE  Sound(j, Classified(j), "Prefill") /\ Told(s, Classified(j), "Prefill")
<1> DEFINE r == seq[j]
           q == Classified(j)
<1>1. r \in SeqStates /\ Tokens(j) = Prompt[j] + r.generated
      /\ Unprocessed(j) = Prompt[j] + r.generated - r.processed
      /\ r.generated \in Nat /\ r.processed \in Nat /\ MaxGen(j) \in Nat
      /\ Prompt[j] \in Nat /\ Ctx \in Nat
  BY NumbersAre
<1>2. r.out = "Skipped" /\ ~r.stopped /\ (r.cancelled => r.finished) /\ r.generated <= MaxGen(j)
  BY DEF Sound, Rounds
<1>3. /\ q.generated = r.generated /\ q.processed = r.processed /\ q.stopped = r.stopped
      /\ q.cancelled = r.cancelled
      /\ q.out \in {"Skipped", "Failed", "Prefill", "Decode"}
      /\ r.finished => q.finished /\ q.out = "Skipped"
      /\ q.out = "Failed" => q.finished
  BY <1>1 DEF Classified, SeqStates
<1>4. q.out \in {"Prefill", "Decode"} =>
        /\ ~q.finished /\ ~NoOp(j) /\ ~(Tokens(j) > Ctx)
        /\ q.out = "Decode" => ~(Unprocessed(j) > 1)
  BY <1>1 DEF Classified, SeqStates
<1> HIDE DEF q, r
<1>5. q.out \in {"Prefill", "Decode"} =>
        /\ ~q.finished /\ q.generated < MaxGen(j)
        /\ Prompt[j] + q.generated <= Ctx /\ q.processed < Prompt[j] + q.generated
        /\ q.out = "Decode" => q.processed + 1 = Prompt[j] + q.generated
  BY <1>1, <1>3, <1>4 DEF NoOp, r
<1>6. Sound(j, q, "Prefill")
  BY <1>2, <1>3, <1>5 DEF Sound, Idles, Grants, Rounds
<1>7. Told(s, q, "Prefill")
  BY <1>2, <1>3 DEF Told, r
<1> QED
  BY <1>6, <1>7 DEF q

(* A sampled token, a chunk, a deferral or a failure.                      *)
LEMMA RunSound ==
  ASSUME TypeOK, NEW j \in Jobs, NEW s, Streams(s) \in Nat, NEW p \in Rounds, NEW o \in Rounds,
         Sound(j, seq[j], p), Told(s, seq[j], p), seq[j].out \in {"Prefill", "Decode"}
  PROVE  /\ \A stop \in BOOLEAN : /\ Sound(j, Advanced(j, stop), o)
                                  /\ Told(s, Advanced(j, stop), o)
         /\ Sound(j, Failed(j), o) /\ Told(s, Failed(j), o)
         /\ \A n \in Nat :
              /\ Sound(j, [seq[j] EXCEPT !.processed = n, !.out = "Prefilling"], o)
              /\ Told(s, [seq[j] EXCEPT !.processed = n, !.out = "Prefilling"], o)
         /\ Sound(j, [seq[j] EXCEPT !.out = "Skipped"], o)
         /\ Told(s, [seq[j] EXCEPT !.out = "Skipped"], o)
<1> DEFINE r == seq[j]
<1>1. r \in SeqStates /\ r.generated \in Nat /\ MaxGen(j) \in Nat
  BY NumbersAre
<1>2. p \notin Idles \cup Grants \cup {"Retire"} /\ o \notin Idles \cup Grants \cup {"Retire"}
  BY DEF Rounds, Idles, Grants
<1>3. /\ ~r.finished /\ ~r.stopped /\ ~r.cancelled /\ r.generated < MaxGen(j)
      /\ Open(s) /\ r.generated = Streams(s)
  BY <1>2 DEF Sound, Told
<1>4. ASSUME NEW q, ~q.stopped, ~q.cancelled, q.out \in {"Skipped", "Prefilling"},
             q.generated = r.generated
      PROVE  Sound(j, q, o) /\ Told(s, q, o)
  <2>1. Sound(j, q, o)
    BY <1>1, <1>2, <1>3, <1>4 DEF Sound
  <2>2. Told(s, q, o)
    BY <1>1, <1>3, <1>4 DEF Told
  <2> QED
    BY <2>1, <2>2
<1>5. ASSUME NEW stop \in BOOLEAN PROVE Sound(j, Advanced(j, stop), o) /\ Told(s, Advanced(j, stop), o)
  <2> DEFINE q == Advanced(j, stop)
  <2>1. /\ q.generated = r.generated + 1 /\ q.stopped = r.stopped /\ q.cancelled = r.cancelled
        /\ q.out \in {"Stopped", "Stepped"} /\ (q.out = "Stopped" => q.finished)
    BY <1>1 DEF Advanced, SeqStates
  <2> HIDE DEF q, r
  <2>2. Sound(j, q, o)
    BY <1>1, <1>2, <1>3, <2>1 DEF Sound
  <2>3. Told(s, q, o)
    BY <1>3, <2>1 DEF Told
  <2> QED
    BY <2>2, <2>3 DEF q
<1>6. Sound(j, Failed(j), o) /\ Told(s, Failed(j), o)
  <2> DEFINE q == Failed(j)
  <2>1. /\ q.generated = r.generated /\ q.stopped = r.stopped /\ q.cancelled = r.cancelled
        /\ q.out = "Failed" /\ q.finished
    BY <1>1 DEF Failed, SeqStates
  <2> HIDE DEF q, r
  <2>2. Sound(j, q, o)
    BY <1>1, <1>2, <1>3, <2>1 DEF Sound
  <2>3. Told(s, q, o)
    BY <1>3, <2>1 DEF Told
  <2> QED
    BY <2>2, <2>3 DEF q
<1>7. ASSUME NEW n \in Nat
      PROVE  LET q == [r EXCEPT !.processed = n, !.out = "Prefilling"] IN
             /\ ~q.stopped /\ ~q.cancelled /\ q.out = "Prefilling" /\ q.generated = r.generated
  BY <1>1, <1>3 DEF SeqStates
<1>8. LET q == [r EXCEPT !.out = "Skipped"] IN
      /\ ~q.stopped /\ ~q.cancelled /\ q.out = "Skipped" /\ q.generated = r.generated
  BY <1>1, <1>3 DEF SeqStates
<1> QED
  BY <1>4, <1>5, <1>6, <1>7, <1>8

(* Shipping turns a round's outcome into an event or a mark.               *)
LEMMA ShippedSound ==
  ASSUME NEW j \in Jobs, NEW s \in Seq(Events), NEW r \in SeqStates,
         Sound(j, r, "Ship"), Told(s, r, "Ship"), NEW q, NEW t,
         q = [r EXCEPT !.stopped = r.stopped \/ r.out = "Stopped", !.out = "Skipped"],
         t = CASE r.out = "Failed" -> Append(s, "Error")
               [] r.out = "Stepped" -> Append(s, "Token")
               [] OTHER -> s
  PROVE  Sound(j, q, "Retire") /\ Told(t, q, "Retire")
<1>1. /\ q.generated = r.generated /\ q.finished = r.finished /\ q.cancelled = r.cancelled
      /\ q.stopped <=> (r.out = "Stopped")
      /\ q.out = "Skipped" /\ ~r.stopped
  BY DEF SeqStates, Sound
<1>2. Open(s) /\ Streams(s) \in Nat
  <2>1. "Token" \in Events \/ "Error" \in Events
    BY DEF Events
  <2> QED
    BY <2>1, Telling DEF Told
<1>3. Sound(j, q, "Retire")
  BY <1>1 DEF Sound, Idles, Grants, Rounds
<1>4. CASE r.out = "Failed"
  <2>1. Shut(t) /\ Streams(t) = Streams(s) /\ q.finished /\ ~q.stopped
    BY <1>1, <1>2, <1>4, StreamGoesOn DEF Sound
  <2>2. q.generated = Streams(t)
    BY <1>1, <1>2, <1>4, <2>1 DEF Told
  <2> QED
    BY <1>1, <1>2, <1>3, <2>1, <2>2 DEF Told
<1>5. CASE r.out = "Stepped"
  <2>1. Open(t) /\ Streams(t) = Streams(s) + 1 /\ ~q.stopped
    BY <1>1, <1>2, <1>5, StreamGoesOn
  <2>2. q.generated = Streams(t)
    BY <1>1, <1>2, <1>5, <2>1 DEF Told
  <2> QED
    BY <1>1, <1>2, <1>3, <2>1, <2>2 DEF Told
<1>6. CASE r.out \notin {"Failed", "Stepped"}
  <2>1. t = s
    BY <1>6
  <2>2. q.generated = Streams(s) + (IF q.stopped THEN 1 ELSE 0)
    BY <1>1, <1>2, <1>6 DEF Told
  <2> QED
    BY <1>1, <1>2, <1>3, <2>1, <2>2 DEF Told
<1> QED
  BY <1>4, <1>5, <1>6

(* The sweep and the classification of the round touch the whole batch.    *)
LEMMA BatchGood ==
  ASSUME TypeOK, Placement, RequestsGood, SweepCancelled \/ BeginRound
  PROVE  \A k \in Jobs : Good(k, Place(k)', sent'[k], seq'[k], phase', signalled')
<1>1. Stays
  BY StayingSteps
<1>2. \A k \in Jobs : Place(k) = "active" <=> k \in Range(active)
  BY PlacesAre
<1>3. CASE SweepCancelled
  <2>1. phase = "Sweep" /\ phase' = "Senior" /\ signalled' = signalled /\ sent' = sent
    BY <1>3 DEF SweepCancelled, clientVars
  <2>2. ASSUME NEW k \in Range(active)
        PROVE  Good(k, Place(k)', sent'[k], seq'[k], phase', signalled')
    <3>1. k \in Jobs /\ seq[k] \in SeqStates /\ Place(k) = "active"
          /\ Sound(k, seq[k], "Sweep") /\ Told(sent[k], seq[k], "Sweep")
      BY <2>1, <2>2, ActiveIs
    <3>2. \/ seq'[k] = seq[k]
          \/ /\ seq'[k] = [seq[k] EXCEPT !.finished = TRUE, !.cancelled = TRUE]
             /\ k \in signalled
      BY <1>3, <3>1 DEF SweepCancelled
    <3>3. Sound(k, seq'[k], "Senior") /\ Told(sent[k], seq'[k], "Senior")
      BY <3>1, <3>2, CancelledSound
    <3>4. seq'[k].cancelled => k \in signalled
      <4>1. ~seq[k].cancelled
        BY <3>1 DEF Sound, Idles
      <4> QED
        BY <3>2, <4>1
    <3> QED
      BY <1>1, <2>1, <3>1, <3>3, <3>4 DEF Good, Stays
  <2>3. \A k \in Jobs : k \notin Range(active) => seq'[k] = seq[k]
    BY <1>3 DEF SweepCancelled
  <2> QED
    BY <1>1, <1>2, <2>1, <2>2, <2>3, OthersGood DEF Stays
<1>4. CASE BeginRound
  <2>1. phase = "Round" /\ phase' = "Prefill" /\ signalled' = signalled /\ sent' = sent
    BY <1>4 DEF BeginRound, clientVars
  <2>2. ASSUME NEW k \in Range(active)
        PROVE  Good(k, Place(k)', sent'[k], seq'[k], phase', signalled')
    <3>1. k \in Jobs /\ seq[k] \in SeqStates /\ Place(k) = "active"
          /\ Sound(k, seq[k], "Round") /\ Told(sent[k], seq[k], "Round")
          /\ (seq[k].cancelled => k \in signalled)
      BY <2>1, <2>2, ActiveIs
    <3>2. seq'[k] = Classified(k)
      BY <1>4, <3>1, <2>2 DEF BeginRound
    <3>3. Classified(k).cancelled = seq[k].cancelled
      BY <3>1 DEF Classified, SeqStates
    <3>4. Sound(k, seq'[k], "Prefill") /\ Told(sent[k], seq'[k], "Prefill")
      BY <3>1, <3>2, ClassifiedSound
    <3> QED
      BY <1>1, <2>1, <3>1, <3>2, <3>3, <3>4 DEF Good, Stays
  <2>3. \A k \in Jobs : k \notin Range(active) => seq'[k] = seq[k]
    BY <1>4 DEF BeginRound
  <2> QED
    BY <1>1, <1>2, <2>1, <2>2, <2>3, OthersGood DEF Stays
<1> QED
  BY <1>3, <1>4

(* A prompt advances, waits or fails.                                      *)
LEMMA PrefillGood ==
  ASSUME TypeOK, Placement, RequestsGood,
         PrefillDefers \/ PrefillChunk \/ PrefillLast \/ PrefillFails
  PROVE  \A k \in Jobs : Good(k, Place(k)', sent'[k], seq'[k], phase', signalled')
<1> DEFINE j == Current
           r == seq[j]
<1>1. Stays
  BY StayingSteps
<1>2. /\ phase = "Prefill" /\ phase' = "Prefill" /\ signalled' = signalled /\ sent' = sent
      /\ cursor <= Len(active) /\ r.out = "Prefill"
  BY DEF PrefillDefers, PrefillChunk, PrefillLast, PrefillFails, PrefillNext, Pending, Prefilling,
     clientVars
<1>3. j \in Range(active)
  BY <1>2, CurrentType
<1>4. /\ j \in Jobs /\ r \in SeqStates /\ Place(j) = "active" /\ Streams(sent[j]) \in Nat
      /\ Sound(j, r, "Prefill") /\ Told(sent[j], r, "Prefill")
      /\ r.cancelled => j \in signalled
  BY <1>2, <1>3, ActiveIs, NumbersAre
<1>5. ~r.cancelled /\ "Prefill" \in Rounds
  BY <1>2, <1>4 DEF Sound, Rounds
<1>6. /\ \A stop \in BOOLEAN : /\ Sound(j, Advanced(j, stop), "Prefill")
                               /\ Told(sent[j], Advanced(j, stop), "Prefill")
      /\ Sound(j, Failed(j), "Prefill") /\ Told(sent[j], Failed(j), "Prefill")
      /\ \A n \in Nat :
           /\ Sound(j, [r EXCEPT !.processed = n, !.out = "Prefilling"], "Prefill")
           /\ Told(sent[j], [r EXCEPT !.processed = n, !.out = "Prefilling"], "Prefill")
      /\ Sound(j, [r EXCEPT !.out = "Skipped"], "Prefill")
      /\ Told(sent[j], [r EXCEPT !.out = "Skipped"], "Prefill")
  BY <1>2, <1>4, <1>5, RunSound
<1>7. \A stop \in BOOLEAN : \A n \in Nat :
        /\ Advanced(j, stop).cancelled = r.cancelled /\ Failed(j).cancelled = r.cancelled
        /\ [r EXCEPT !.processed = n, !.out = "Prefilling"].cancelled = r.cancelled
        /\ [r EXCEPT !.out = "Skipped"].cancelled = r.cancelled
  BY <1>4 DEF Advanced, Failed, SeqStates
<1>8. \A k \in Jobs : k # j => seq'[k] = seq[k]
  BY DEF PrefillDefers, PrefillChunk, PrefillLast, PrefillFails, TypeOK
<1>9. \/ seq'[j] = [r EXCEPT !.out = "Skipped"]
      \/ \E n \in Nat : seq'[j] = [r EXCEPT !.processed = n, !.out = "Prefilling"]
      \/ \E stop \in BOOLEAN : seq'[j] = Advanced(j, stop)
      \/ seq'[j] = Failed(j)
  <2>1. CASE PrefillDefers
    BY <1>4, <2>1 DEF PrefillDefers, TypeOK
  <2>2. CASE PrefillChunk
    <3>1. r.processed + Grant(j) \in Nat
      BY <1>4, <2>2, NumbersAre DEF PrefillChunk
    <3>2. seq'[j] = [r EXCEPT !.processed = r.processed + Grant(j), !.out = "Prefilling"]
      BY <1>4, <2>2 DEF PrefillChunk, TypeOK
    <3> QED
      BY <3>1, <3>2
  <2>3. CASE PrefillLast
    <3>1. PICK stop \in BOOLEAN : seq' = [seq EXCEPT ![j] = Advanced(j, stop)]
      BY <2>3 DEF PrefillLast, StopChoices
    <3>2. seq'[j] = Advanced(j, stop)
      BY <1>4, <3>1 DEF TypeOK
    <3> QED
      BY <3>2
  <2>4. CASE PrefillFails
    BY <1>4, <2>4 DEF PrefillFails, TypeOK
  <2> QED
    BY <2>1, <2>2, <2>3, <2>4
<1> HIDE DEF j, r
<1>10. /\ Sound(j, seq'[j], "Prefill") /\ Told(sent[j], seq'[j], "Prefill")
       /\ seq'[j].cancelled = r.cancelled
  <2>1. CASE seq'[j] = [r EXCEPT !.out = "Skipped"]
    BY <1>6, <1>7, <2>1
  <2>2. CASE \E n \in Nat : seq'[j] = [r EXCEPT !.processed = n, !.out = "Prefilling"]
    BY <1>6, <1>7, <2>2
  <2>3. CASE \E stop \in BOOLEAN : seq'[j] = Advanced(j, stop)
    BY <1>6, <1>7, <2>3
  <2>4. CASE seq'[j] = Failed(j)
    BY <1>6, <1>7, <2>4
  <2> QED
    BY <1>9, <2>1, <2>2, <2>3, <2>4
<1>11. Good(j, "active", sent'[j], seq'[j], phase', signalled')
  BY <1>2, <1>4, <1>5, <1>10 DEF Good
<1>12. \A k \in Jobs : Place(k)' = IF k = j THEN "active" ELSE Place(k)
  BY <1>1, <1>4 DEF Stays
<1> QED
  BY <1>2, <1>8, <1>11, <1>12, OthersGood DEF Calm

(* The fused decode advances its rows or fails them all.                   *)
LEMMA DecodeGood ==
  ASSUME TypeOK, Placement, RequestsGood, DecodeRows \/ DecodeFails
  PROVE  \A k \in Jobs : Good(k, Place(k)', sent'[k], seq'[k], phase', signalled')
<1>1. Stays
  BY StayingSteps
<1>2. \A k \in Jobs : Place(k) = "active" <=> k \in Range(active)
  BY PlacesAre
<1>3. /\ phase = "Decode" /\ phase' = "Ship" /\ signalled' = signalled /\ sent' = sent
      /\ \A k \in Jobs : IF k \in Rows
                         THEN (\E stop \in BOOLEAN : seq'[k] = Advanced(k, stop)) \/ seq'[k] = Failed(k)
                         ELSE seq'[k] = seq[k]
  <2>1. CASE DecodeRows
    <3>1. PICK stops : seq' = [j \in Jobs |-> IF j \in Rows THEN Advanced(j, j \in stops) ELSE seq[j]]
      BY <2>1 DEF DecodeRows
    <3>2. \A k \in Jobs : (k \in stops) \in BOOLEAN
      OBVIOUS
    <3> QED
      BY <2>1, <3>1, <3>2 DEF DecodeRows, clientVars
  <2>2. CASE DecodeFails
    BY <2>2 DEF DecodeFails, clientVars
  <2> QED
    BY <2>1, <2>2
<1>4. "Decode" \in Rounds /\ "Ship" \in Rounds
  BY DEF Rounds
<1>5. ASSUME NEW k \in Range(active)
      PROVE  Good(k, Place(k)', sent'[k], seq'[k], phase', signalled')
  <2>1. /\ k \in Jobs /\ seq[k] \in SeqStates /\ Place(k) = "active" /\ Streams(sent[k]) \in Nat
        /\ Sound(k, seq[k], "Decode") /\ Told(sent[k], seq[k], "Decode")
        /\ (seq[k].cancelled => k \in signalled)
    BY <1>3, <1>5, ActiveIs, NumbersAre
  <2>2. CASE k \in Rows
    <3>1. seq[k].out = "Decode" /\ ~seq[k].cancelled
      BY <2>1, <2>2 DEF Rows, Sound
    <3>2. \A stop \in BOOLEAN : /\ Sound(k, Advanced(k, stop), "Ship")
                                /\ Told(sent[k], Advanced(k, stop), "Ship")
                                /\ Advanced(k, stop).cancelled = seq[k].cancelled
      BY <1>4, <2>1, <3>1, RunSound DEF Advanced, SeqStates
    <3>3. /\ Sound(k, Failed(k), "Ship") /\ Told(sent[k], Failed(k), "Ship")
          /\ Failed(k).cancelled = seq[k].cancelled
      BY <1>4, <2>1, <3>1, RunSound DEF Failed, SeqStates
    <3>4. /\ Sound(k, seq'[k], "Ship") /\ Told(sent[k], seq'[k], "Ship")
          /\ seq'[k].cancelled = seq[k].cancelled
      BY <1>3, <2>1, <2>2, <3>2, <3>3
    <3> QED
      BY <1>1, <1>3, <2>1, <3>4 DEF Good, Stays
  <2>3. CASE k \notin Rows
    <3>1. Sound(k, seq[k], "Ship") /\ Told(sent[k], seq[k], "Ship")
      BY <2>1 DEF Sound, Told, Idles, Grants, Rounds
    <3> QED
      BY <1>1, <1>3, <2>1, <2>3, <3>1 DEF Good, Stays
  <2> QED
    BY <2>2, <2>3
<1>6. \A k \in Jobs : k \notin Range(active) => seq'[k] = seq[k]
  BY <1>3, SMTT(40) DEF Rows
<1> QED
  BY <1>1, <1>2, <1>3, <1>5, <1>6, OthersGood DEF Stays

(* Each request of the batch hears what its round came to.                 *)
LEMMA ShipGood ==
  ASSUME TypeOK, Placement, RequestsGood, Ship
  PROVE  \A k \in Jobs : Good(k, Place(k)', sent'[k], seq'[k], phase', signalled')
<1> DEFINE F == {j \in Range(active) : seq[j].out = "Failed"}
           P == {j \in Range(active) : seq[j].out = "Stepped"}
<1>1. Stays
  BY StayingSteps
<1>2. \A k \in Jobs : Place(k) = "active" <=> k \in Range(active)
  BY PlacesAre
<1>3. /\ phase = "Ship" /\ phase' = "Retire" /\ signalled' = signalled
      /\ sent' = [j \in Jobs |-> CASE j \in F -> Append(sent[j], "Error")
                                   [] j \in P -> Append(sent[j], "Token")
                                   [] OTHER -> sent[j]]
      /\ seq' = [j \in Jobs |-> IF j \in Range(active)
                                THEN [seq[j] EXCEPT !.stopped = @ \/ seq[j].out = "Stopped",
                                                    !.out = "Skipped"]
                                ELSE seq[j]]
  BY Zenon DEF Ship, clientVars
<1>4. F \subseteq Range(active) /\ P \subseteq Range(active) /\ F \cap P = {}
  OBVIOUS
<1>5. ASSUME NEW k \in Jobs, k \notin Range(active) PROVE sent'[k] = sent[k] /\ seq'[k] = seq[k]
  <2>1. k \notin F /\ k \notin P
    BY <1>4, <1>5
  <2> HIDE DEF F, P
  <2> QED
    BY <1>3, <1>5, <2>1
<1>6. ASSUME NEW k \in Range(active)
      PROVE  Good(k, Place(k)', sent'[k], seq'[k], phase', signalled')
  <2>1. /\ k \in Jobs /\ seq[k] \in SeqStates /\ sent[k] \in Seq(Events) /\ Place(k) = "active"
        /\ Sound(k, seq[k], "Ship") /\ Told(sent[k], seq[k], "Ship")
        /\ (seq[k].cancelled => k \in signalled)
    BY <1>3, <1>6, ActiveIs
  <2>2. seq'[k] = [seq[k] EXCEPT !.stopped = seq[k].stopped \/ seq[k].out = "Stopped",
                                 !.out = "Skipped"]
    BY <1>3, <1>6, <2>1
  <2>3. sent'[k] = CASE seq[k].out = "Failed" -> Append(sent[k], "Error")
                     [] seq[k].out = "Stepped" -> Append(sent[k], "Token")
                     [] OTHER -> sent[k]
    <3>1. k \in F <=> seq[k].out = "Failed"
      BY <1>6
    <3>2. k \in P <=> seq[k].out = "Stepped"
      BY <1>6
    <3> HIDE DEF F, P
    <3> QED
      BY <1>3, <2>1, <3>1, <3>2
  <2>4. Sound(k, seq'[k], "Retire") /\ Told(sent'[k], seq'[k], "Retire")
    BY <2>1, <2>2, <2>3, ShippedSound
  <2>5. seq'[k].cancelled = seq[k].cancelled
    BY <2>1, <2>2 DEF SeqStates
  <2> QED
    BY <1>1, <1>3, <2>1, <2>4, <2>5 DEF Good, Stays
<1> QED
  BY <1>1, <1>2, <1>3, <1>5, <1>6, OthersGood DEF Stays

(* After the retire sweep only live sequences are left in the batch.       *)
LEMMA RetireEndsGood ==
  ASSUME TypeOK, Placement, RequestsGood, RetireEnds
  PROVE  \A k \in Jobs : Good(k, Place(k)', sent'[k], seq'[k], phase', signalled')
<1>1. Stays
  BY StayingSteps
<1>2. \A k \in Jobs : Place(k) = "active" <=> k \in Range(active)
  BY PlacesAre
<1>3. /\ phase = "Retire" /\ phase' = "Poll" /\ signalled' = signalled
      /\ sent' = sent /\ seq' = seq /\ cursor > Len(active)
  BY DEF RetireEnds, clientVars
<1>4. \A i \in 1 .. Len(active) : ~seq[active[i]].finished
  <2>1. Len(active) \in Nat /\ cursor \in Nat
    BY LenProperties DEF TypeOK
  <2> QED
    BY <1>3, <2>1 DEF RequestsGood, Live
<1>5. ASSUME NEW k \in Range(active)
      PROVE  Good(k, Place(k)', sent'[k], seq'[k], phase', signalled')
  <2>1. /\ k \in Jobs /\ Place(k) = "active"
        /\ Sound(k, seq[k], "Retire") /\ Told(sent[k], seq[k], "Retire")
        /\ (seq[k].cancelled => k \in signalled)
    BY <1>3, <1>5, ActiveIs
  <2>2. ~seq[k].finished
    <3>1. active \in Seq(Jobs)
      BY DEF TypeOK
    <3>2. PICK i \in 1 .. Len(active) : k = active[i]
      BY <1>5, <3>1, SeqMembers
    <3> QED
      BY <1>4, <3>2
  <2>3. Sound(k, seq[k], "Poll")
    BY <2>1, <2>2 DEF Sound, Idles, Grants, Rounds
  <2>4. Told(sent[k], seq[k], "Poll")
    BY <2>1, <2>2 DEF Told
  <2> QED
    BY <1>1, <1>3, <2>1, <2>3, <2>4 DEF Good, Stays
<1> QED
  BY <1>1, <1>2, <1>3, <1>5, OthersGood DEF Stays

(* A round without a decoder answers the whole batch the error.            *)
LEMMA RoundFailsGood ==
  ASSUME TypeOK, Placement, RequestsGood, RoundFails
  PROVE  \A k \in Jobs : Good(k, Place(k)', sent'[k], seq'[k], phase', signalled')
<1>1. \A k \in Jobs : Place(k)' = IF Place(k) = "active" THEN "gone" ELSE Place(k)
  BY RoundFailsMoves
<1>2. \A k \in Jobs : Place(k) = "active" <=> k \in Range(active)
  BY PlacesAre
<1>3. /\ signalled' = signalled
      /\ \A k \in Jobs : IF k \in Range(active)
                         THEN sent'[k] = Append(sent[k], "Error") /\ seq'[k] = Blank
                         ELSE sent'[k] = sent[k] /\ seq'[k] = seq[k]
  BY DEF RoundFails, clientVars
<1>4. ASSUME NEW k \in Jobs, k \in Range(active)
      PROVE  Good(k, Place(k)', sent'[k], seq'[k], phase', signalled')
  <2>1. sent[k] \in Seq(Events) /\ "Error" \in ErrReplies
    BY <1>4 DEF TypeOK, ErrReplies
  <2>2. AnsweredIn(sent'[k]) /\ Honest(k, sent'[k], signalled')
    BY <1>3, <1>4, <2>1, ErrorEnds
  <2> QED
    BY <1>1, <1>2, <1>3, <1>4, <2>2 DEF Good
<1> QED
  BY <1>1, <1>2, <1>3, <1>4, OthersGood

(* The commands that wait in the channel, as jobs.                         *)
LEMMA WaitingIs ==
  ASSUME TypeOK
  PROVE  Waiting = Incoming \cup Range(queue) \cup Range(resume)
                     \cup {j \in Range(active) : ~FailureShipped(j)}
<1>1. channel \in Seq(Commands) /\ \A i \in 1 .. Len(channel) : channel[i] \in Commands
  BY ElementOfSeq DEF TypeOK
<1>2. {channel[i].job : i \in {k \in 1 .. Len(channel) : channel[k].op = "Submit"}} = Incoming
  <2>1. ASSUME NEW i \in 1 .. Len(channel), channel[i].op = "Submit"
        PROVE  channel[i].job \in Incoming
    BY <1>1, <2>1, CommandsAre DEF Incoming
  <2>2. ASSUME NEW j \in Incoming
        PROVE  \E i \in 1 .. Len(channel) : channel[i].op = "Submit" /\ channel[i].job = j
    BY <1>1, <2>2, CommandsAre DEF Incoming
  <2> QED
    BY <2>1, <2>2
<1> QED
  BY <1>2 DEF Waiting

(* However the thread ends, whoever still waits is answered.               *)
LEMMA ExitGood ==
  ASSUME TypeOK, Placement, RequestsGood, NEW last, Exit(last)
  PROVE  \A k \in Jobs : Good(k, Place(k)', sent'[k], seq'[k], phase', signalled')
<1>1. /\ signalled' = signalled
      /\ \A k \in Jobs : /\ Place(k)' = IF Place(k) = "new" THEN "new" ELSE "gone"
                         /\ seq'[k] = Blank
                         /\ sent'[k] = IF k \in Waiting THEN Append(sent[k], "WorkerDied")
                                       ELSE sent[k]
  BY ExitMoves DEF Exit
<1> SUFFICES ASSUME NEW k \in Jobs
             PROVE  Good(k, Place(k)', sent'[k], seq'[k], phase', signalled')
  OBVIOUS
<1>2. /\ sent[k] \in Seq(Events) /\ "WorkerDied" \in ErrReplies
      /\ Good(k, Place(k), sent[k], seq[k], phase, signalled)
  BY DEF TypeOK, ErrReplies, RequestsGood
<1>3. CASE k \in Waiting
  <2>1. Place(k) # "new"
    BY <1>3, WaitingIs, PlacesAre
  <2> QED
    BY <1>1, <1>2, <1>3, <2>1, ErrorEnds DEF Good
<1>4. CASE k \notin Waiting
  <2>1. Place(k) = "new" \/ Place(k) = "gone" \/ (k \in Range(active) /\ FailureShipped(k))
    BY <1>4, WaitingIs, PlacesAre
  <2>2. CASE Place(k) \in {"new", "gone"}
    BY <1>1, <1>2, <1>4, <2>2 DEF Good
  <2>3. CASE k \in Range(active) /\ FailureShipped(k)
    <3>1. Place(k) = "active" /\ Told(sent[k], seq[k], phase)
      BY <2>3, ActiveIs
    <3>2. Shut(sent[k])
      <4>1. sent[k][Len(sent[k])] = "Error"
        BY <2>3 DEF FailureShipped, Last
      <4> QED
        BY <3>1, <4>1 DEF Told, Open
    <3>3. AnsweredIn(sent[k]) /\ Honest(k, sent[k], signalled')
      BY <1>2, <3>2, ShutIsHonest
    <3> QED
      BY <1>1, <1>4, <3>1, <3>3 DEF Good
  <2> QED
    BY <2>1, <2>2, <2>3
<1> QED
  BY <1>3, <1>4

-------------------------------------------------------------------------------
(* All steps together.                                                     *)

(* The retire sweep leaves only live sequences behind its index.           *)
LEMMA SweptStep ==
  ASSUME TypeOK, RequestsGood, [Next]_vars, phase' = "Retire"
  PROVE  \A i \in 1 .. Len(active') : i < cursor' => ~seq'[active'[i]].finished
<1>1. active \in Seq(Jobs) /\ Len(active) \in Nat /\ cursor \in Nat
  BY LenProperties DEF TypeOK
<1>2. CASE Ship
  <2>1. cursor' = 1
    BY <1>2, Zenon DEF Ship
  <2>2. \A i \in 1 .. Len(active') : ~(i < 1)
    OBVIOUS
  <2> QED
    BY <2>1, <2>2
<1>3. CASE RetireOne
  <2>1. cursor \in 1 .. Len(active) /\ phase = "Retire" /\ cursor' = cursor
        /\ active' = RemoveAt(active, cursor) /\ seq' = [seq EXCEPT ![Current] = Blank]
    BY <1>3, CurrentType DEF RetireOne, Retiring
  <2>2. /\ Len(active') = Len(active) - 1
        /\ \A i \in 1 .. cursor - 1 : active'[i] = active[i]
    BY <1>1, <2>1, Removed
  <2> SUFFICES ASSUME NEW i \in 1 .. Len(active'), i < cursor'
               PROVE  ~seq'[active'[i]].finished
    OBVIOUS
  <2>3. i \in 1 .. cursor - 1 /\ i \in 1 .. Len(active) /\ active'[i] = active[i]
    BY <1>1, <2>1, <2>2
  <2>4. ~seq[active[i]].finished
    BY <2>1, <2>3 DEF RequestsGood, Live
  <2>5. active[i] \in Jobs
    BY <1>1, <2>3, ElementOfSeq
  <2>6. seq'[active[i]] \in {seq[active[i]], Blank}
    BY <2>1, <2>5 DEF TypeOK
  <2> QED
    BY <2>3, <2>4, <2>6 DEF Blank
<1>4. CASE RetireKeeps
  <2>1. phase = "Retire" /\ cursor' = cursor + 1 /\ active' = active /\ seq' = seq
        /\ ~seq[active[cursor]].finished
    BY <1>4 DEF RetireKeeps, Retiring, Live
  <2>2. \A i \in 1 .. Len(active) : i < cursor => ~seq[active[i]].finished
    BY <2>1 DEF RequestsGood, Live
  <2> QED
    BY <1>1, <2>1, <2>2
<1>5. ASSUME phase = "Retire", active' = active, seq' = seq, cursor' = cursor
      PROVE  \A i \in 1 .. Len(active') : i < cursor' => ~seq'[active'[i]].finished
  BY <1>5 DEF RequestsGood, Live
<1>6. CASE Client
  BY <1>5, <1>6 DEF Client, Submit, Cancel, Control
<1>7. CASE UNCHANGED vars
  BY <1>5, <1>7 DEF vars
<1>8. CASE Poll
  BY <1>8 DEF Poll, TakeSubmit, TakeLoad, TakeUnload, TakeClearState, TakeShutdown, EndPoll,
     Receive, Exit
<1>9. CASE Admit
  BY <1>9 DEF Admit, ResumeStops, ResumeOne, RejectCancelled, RejectFailed, RejectTooLarge,
     AdmitOne, AdmitStops, Admissible, Reject
<1>10. CASE GrantGrowth
  BY <1>10 DEF GrantGrowth, SweepIdle, SweepCancelled, GrantSkipped, TopUpSenior, GrowFinished,
     GrowWithin, GrowGranted, GrowEvicts, GrowPauses, GrowEnds, GrowNext, Growing
<1>11. CASE StepRound
  BY <1>11 DEF StepRound, RoundFails, BeginRound, PrefillSkips, PrefillDefers, PrefillChunk,
     PrefillLast, PrefillFails, PrefillEnds, DecodeRows, DecodeFails, PrefillNext, Prefilling, Pending
<1>12. CASE RetireEnds \/ Panic \/ Respawn
  BY <1>12 DEF RetireEnds, Panic, Exit, Respawn
<1> QED
  BY <1>2, <1>3, <1>4, <1>6, <1>7, <1>8, <1>9, <1>10, <1>11, <1>12 DEF Next, Worker, Deliver

(* Every step keeps every request as it should be.                         *)
LEMMA RequestsStep ==
  ASSUME TypeOK, Placement, RequestsGood, [Next]_vars
  PROVE  RequestsGood'
<1>1. \A k \in Jobs : Good(k, Place(k)', sent'[k], seq'[k], phase', signalled')
  <2>1. CASE \E j \in Jobs : Submit(j)
    BY <2>1, SubmitGood
  <2>2. CASE TakeShutdown \/ Panic
    BY <2>2, ExitGood DEF TakeShutdown, Panic
  <2>3. CASE RejectCancelled \/ RejectFailed \/ RejectTooLarge
    <3>1. queue # <<>> /\ (Reject("CancelledInQueue") \/ Reject("Error"))
      BY <2>3 DEF RejectCancelled, RejectFailed, RejectTooLarge, Admissible
    <3>2. "CancelledInQueue" \in ErrReplies /\ "Error" \in ErrReplies
      BY DEF ErrReplies
    <3> QED
      BY <3>1, <3>2, RejectGood
  <2>4. CASE AdmitOne \/ ResumeOne
    BY <2>4, AdmitGood, ResumeGood
  <2>5. CASE GrowEvicts \/ RetireOne \/ RetireEnds
    BY <2>5, EvictGood, RetireGood, RetireEndsGood
  <2>6. CASE SweepCancelled \/ BeginRound
    BY <2>6, BatchGood
  <2>7. CASE PrefillDefers \/ PrefillChunk \/ PrefillLast \/ PrefillFails
    BY <2>7, PrefillGood
  <2>8. CASE DecodeRows \/ DecodeFails
    BY <2>8, DecodeGood
  <2>9. CASE Ship
    BY <2>9, ShipGood
  <2>10. CASE RoundFails
    BY <2>10, RoundFailsGood
  <2> QED
    BY <2>1, <2>2, <2>3, <2>4, <2>5, <2>6, <2>7, <2>8, <2>9, <2>10, StillGood
       DEF Next, Client, Worker, Poll, Admit, GrantGrowth, StepRound, Deliver
<1>2. phase' = "Retire" => \A i \in 1 .. Len(active') : i < cursor' => ~seq'[active'[i]].finished
  BY SweptStep
<1> QED
  BY <1>1, <1>2 DEF RequestsGood, Live

(* At the start nobody has asked and nobody was told anything.             *)
LEMMA InitRequests == Init => RequestsGood
<1> SUFFICES ASSUME Init PROVE RequestsGood
  OBVIOUS
<1>1. \A j \in Jobs : Place(j) = "new" /\ sent[j] = <<>> /\ seq[j] = Blank
  BY DEF Init, Place
<1>2. phase # "Retire"
  BY DEF Init
<1> QED
  BY <1>1, <1>2 DEF RequestsGood, Good

RequestInv == Inv /\ Placement /\ RequestsGood

(* Where requests are and what they were told, in every reachable state.   *)
LEMMA RequestsHold == Spec => []RequestInv
<1>1. Init => Placement /\ RequestsGood
  BY InitPlacement, InitRequests
<1>2. Inv /\ Placement /\ RequestsGood /\ [Next]_vars => (Placement /\ RequestsGood)'
  BY PlacementStep, RequestsStep DEF Inv
<1> QED
  BY <1>1, <1>2, Invariance, PTL DEF Spec, RequestInv

-------------------------------------------------------------------------------
(* Nobody is lost.                                                         *)

(* A set without two elements.                                             *)
LEMMA AtMostOne ==
  ASSUME NEW T, \A x, y \in T : x = y
  PROVE  Cardinality(T) = IF T = {} THEN 0 ELSE 1
<1>1. CASE T = {}
  BY <1>1, FS_EmptySet
<1>2. CASE T # {}
  <2>1. PICK x \in T : TRUE
    BY <1>2
  <2>2. T = {x}
    BY <2>1
  <2> QED
    BY <1>2, <2>2, FS_Singleton
<1> QED
  BY <1>1, <1>2

(* A request is held as often as it is somewhere: once.                    *)
LEMMA HeldIs ==
  ASSUME TypeOK, Placement, NEW j \in Jobs
  PROVE  Held(j) = IF Place(j) \in {"waiting", "active", "evicted"} THEN 1 ELSE 0
<1>1. /\ queue \in Seq(Jobs) /\ active \in Seq(Jobs) /\ resume \in Seq(Jobs)
      /\ channel \in Seq(Commands)
  BY DEF TypeOK
<1>2. ASSUME NEW s \in Seq(Jobs), IsInjective(s)
      PROVE  Cardinality(Positions(s, j)) = IF j \in Range(s) THEN 1 ELSE 0
  <2>1. \A x, y \in Positions(s, j) : x = y
    <3>1. DOMAIN s = 1 .. Len(s)
      OBVIOUS
    <3> QED
      BY <1>2, <3>1 DEF Positions, IsInjective
  <2>2. Positions(s, j) = {} <=> j \notin Range(s)
    BY SeqMembers DEF Positions
  <2> QED
    BY <2>1, <2>2, AtMostOne
<1>3. Cardinality(InChannel(j)) = IF j \in Incoming THEN 1 ELSE 0
  <2>1. \A x, y \in InChannel(j) : x = y
    <3>1. [op |-> "Submit", job |-> j].op = "Submit"
      OBVIOUS
    <3> QED
      BY <3>1 DEF InChannel, Placement
  <2>2. InChannel(j) = {} <=> j \notin Incoming
    BY DEF InChannel, Incoming, Asked
  <2> QED
    BY <2>1, <2>2, AtMostOne
<1>4. /\ Cardinality(Positions(queue, j)) = IF j \in Range(queue) THEN 1 ELSE 0
      /\ Cardinality(Positions(active, j)) = IF j \in Range(active) THEN 1 ELSE 0
      /\ Cardinality(Positions(resume, j)) = IF j \in Range(resume) THEN 1 ELSE 0
  BY <1>1, <1>2 DEF Placement
<1> QED
  BY <1>3, <1>4, PlacesAre DEF Held, Placement

(* A submitted request is in exactly one place until it is answered, and   *)
(* in none after: whatever is cancelled, refused, evicted, failed or       *)
(* panics, no request is forgotten by the worker and none is run twice.    *)
THEOREM NobodyEverLost == Spec => []NobodyLost
<1>1. RequestInv => NobodyLost
  <2> SUFFICES ASSUME RequestInv, NEW j \in Jobs
               PROVE  /\ j \notin submitted => Held(j) = 0 /\ sent[j] = <<>>
                      /\ j \in submitted /\ ~Answered(j) => Held(j) = 1
                      /\ Answered(j) => \/ Held(j) = 0
                                        \/ /\ Held(j) = 1 /\ phase = "Retire"
                                           /\ j \in Range(active) /\ seq[j].finished
    BY DEF NobodyLost
  <2>1. TypeOK /\ Placement /\ RequestsGood
    BY DEF RequestInv, Inv
  <2>2. Held(j) = IF Place(j) \in {"waiting", "active", "evicted"} THEN 1 ELSE 0
    BY <2>1, HeldIs
  <2>3. Answered(j) <=> AnsweredIn(sent[j])
    BY DEF Answered, AnsweredIn
  <2>4. /\ Place(j) \in {"new", "waiting"} => sent[j] = <<>>
        /\ Place(j) = "active" => Told(sent[j], seq[j], phase)
        /\ Place(j) = "evicted" => Told(sent[j], seq[j], "Poll")
        /\ Place(j) = "gone" => AnsweredIn(sent[j])
    BY <2>1 DEF RequestsGood, Good
  <2>5. /\ Place(j) \in {"new", "waiting"} => ~Answered(j)
        /\ Place(j) = "active" /\ Answered(j) => phase = "Retire" /\ seq[j].finished
        /\ Place(j) = "evicted" => ~Answered(j)
        /\ Place(j) = "gone" => Answered(j)
    BY <2>3, <2>4, FirstWord DEF Told, Open
  <2>6. /\ Place(j) = "new" <=> j \notin submitted
        /\ Place(j) = "active" <=> j \in Range(active)
        /\ Place(j) \in {"new", "waiting", "active", "evicted", "gone"}
    BY <2>1, PlacesAre
  <2> QED
    BY <2>2, <2>4, <2>5, <2>6
<1> QED
  BY <1>1, RequestsHold, PTL

-------------------------------------------------------------------------------
(* What is told, and in which order.                                       *)

(* A request that waits is refused or admitted, a stream goes on or ends,  *)
(* and only a failed one is retired after its reply.                       *)
Continues(s, t) ==
  \/ t = s
  \/ \E e \in Events :
       /\ t = Append(s, e)
       /\ \/ s = <<>> /\ e \in {"Admitted"} \cup ErrReplies
          \/ Open(s) /\ e # "Admitted"
          \/ Shut(s) /\ e \in OkReplies

(* Every step continues every request's history.                           *)
LEMMA SentContinues ==
  ASSUME TypeOK, Placement, RequestsGood, [Next]_vars, NEW j \in Jobs
  PROVE  Continues(sent[j], sent'[j])
<1>0. /\ ErrReplies \subseteq Events /\ OkReplies \subseteq Events
      /\ {"Admitted", "Token", "Error", "WorkerDied"} \subseteq Events
      /\ {"CancelledInQueue", "Error", "WorkerDied"} \subseteq ErrReplies
      /\ "Admitted" \notin OkReplies
  BY DEF Events, Replies, ErrReplies, OkReplies
<1>1. ASSUME sent' = sent PROVE Continues(sent[j], sent'[j])
  BY <1>1 DEF Continues
<1>2. ASSUME queue # <<>>, NEW e \in {"Admitted"} \cup ErrReplies, Tell(Head(queue), e)
      PROVE  Continues(sent[j], sent'[j])
  <2>1. CASE j = Head(queue)
    <3>1. j \in Range(queue) /\ Place(j) = "waiting"
      BY <1>2, <2>1, Popped, PlacesAre DEF TypeOK
    <3>2. sent[j] = <<>> /\ sent'[j] = Append(sent[j], e)
      BY <1>2, <2>1, <3>1 DEF RequestsGood, Good, Tell, TypeOK
    <3> QED
      BY <1>0, <3>2 DEF Continues
  <2>2. CASE j # Head(queue)
    BY <1>2, <2>2 DEF Tell, TypeOK, Continues
  <2> QED
    BY <2>1, <2>2
<1>3. CASE RejectCancelled \/ RejectFailed \/ RejectTooLarge \/ AdmitOne
  BY <1>0, <1>2, <1>3
     DEF RejectCancelled, RejectFailed, RejectTooLarge, AdmitOne, Reject, Admissible
<1>4. ASSUME j \in Range(active), phase # "Retire" \/ ~FailureShipped(j)
      PROVE  Open(sent[j])
  <2>1. Told(sent[j], seq[j], phase)
    BY <1>4, ActiveIs
  <2> QED
    BY <1>4, <2>1 DEF Told, Shut, FailureShipped, Last
<1>5. CASE RoundFails
  <2>1. phase = "Round"
        /\ sent'[j] = IF j \in Range(active) THEN Append(sent[j], "Error") ELSE sent[j]
    BY <1>5 DEF RoundFails
  <2> QED
    BY <1>0, <1>4, <2>1 DEF Continues
<1>6. CASE Ship
  <2> DEFINE F == {k \in Range(active) : seq[k].out = "Failed"}
             P == {k \in Range(active) : seq[k].out = "Stepped"}
  <2>1. /\ phase = "Ship"
        /\ sent' = [k \in Jobs |-> CASE k \in F -> Append(sent[k], "Error")
                                     [] k \in P -> Append(sent[k], "Token")
                                     [] OTHER -> sent[k]]
    BY <1>6, Zenon DEF Ship
  <2>2. F \subseteq Range(active) /\ P \subseteq Range(active) /\ F \cap P = {}
    OBVIOUS
  <2> HIDE DEF F, P
  <2>3. \/ j \in F /\ sent'[j] = Append(sent[j], "Error")
        \/ j \in P /\ sent'[j] = Append(sent[j], "Token")
        \/ sent'[j] = sent[j]
    BY <2>1, <2>2
  <2> QED
    BY <1>0, <1>4, <2>1, <2>2, <2>3 DEF Continues
<1>7. CASE RetireOne
  <2>1. /\ sent' = [sent EXCEPT ![Current] = Append(@, Reason(Current))]
        /\ Current \in Range(active)
    BY <1>7, CurrentType DEF RetireOne, Retiring, Tell
  <2>2. CASE j = Current
    <3>1. Told(sent[j], seq[j], phase)
      BY <2>1, <2>2, ActiveIs
    <3>2. Reason(j) \in OkReplies
      BY Zenon DEF Reason, OkReplies
    <3>3. sent'[j] = Append(sent[j], Reason(j))
      BY <2>1, <2>2 DEF TypeOK
    <3> QED
      BY <1>0, <3>1, <3>2, <3>3 DEF Continues, Told
  <2>3. CASE j # Current
    BY <2>1, <2>3 DEF TypeOK, Continues
  <2> QED
    BY <2>2, <2>3
<1>8. ASSUME NEW last, Exit(last) PROVE Continues(sent[j], sent'[j])
  <2>1. sent'[j] = IF j \in Waiting THEN Append(sent[j], "WorkerDied") ELSE sent[j]
    BY <1>8 DEF Exit
  <2>2. j \in Waiting => sent[j] = <<>> \/ Open(sent[j])
    <3>1. CASE j \in Incoming \cup Range(queue)
      BY <3>1, PlacesAre DEF RequestsGood, Good
    <3>2. CASE j \in Range(resume)
      BY <3>2, PlacesAre DEF RequestsGood, Good, Told
    <3>3. CASE j \in Range(active) /\ ~FailureShipped(j)
      BY <1>4, <3>3
    <3> QED
      BY <3>1, <3>2, <3>3, WaitingIs
  <2> QED
    BY <1>0, <2>1, <2>2 DEF Continues
<1>9. CASE Client
  BY <1>1, <1>9 DEF Client, Submit, Cancel, Control
<1>10. CASE TakeSubmit \/ TakeLoad \/ TakeUnload \/ TakeClearState \/ EndPoll \/ ResumeStops
            \/ ResumeOne \/ AdmitStops \/ Respawn \/ UNCHANGED vars
  BY <1>1, <1>10 DEF TakeSubmit, TakeLoad, TakeUnload, TakeClearState, EndPoll, ResumeStops,
     ResumeOne, AdmitStops, Respawn, vars
<1>11. CASE GrantGrowth
  BY <1>1, <1>11 DEF GrantGrowth, SweepIdle, SweepCancelled, GrantSkipped, TopUpSenior,
     GrowFinished, GrowWithin, GrowGranted, GrowEvicts, GrowPauses, GrowEnds, GrowNext
<1>12. CASE BeginRound \/ PrefillSkips \/ PrefillDefers \/ PrefillChunk \/ PrefillLast
            \/ PrefillFails \/ PrefillEnds \/ DecodeRows \/ DecodeFails
  BY <1>1, <1>12 DEF BeginRound, PrefillSkips, PrefillDefers, PrefillChunk, PrefillLast,
     PrefillFails, PrefillEnds, DecodeRows, DecodeFails, PrefillNext
<1>13. CASE RetireKeeps \/ RetireEnds
  BY <1>1, <1>13 DEF RetireKeeps, RetireEnds
<1> QED
  BY <1>3, <1>5, <1>6, <1>7, <1>8, <1>9, <1>10, <1>11, <1>12, <1>13
     DEF Next, Worker, Poll, Admit, StepRound, Deliver, TakeShutdown, Panic

-------------------------------------------------------------------------------
(* What a request hears, as the emission thread sees it.                   *)
Hears(s) == [i \in DOMAIN s |-> Heard(s[i])]

(* Every event is heard as one of the port's.                              *)
LEMMA HeardIs ==
  /\ \A e \in Events : Heard(e) \in Port!PortEvents
  /\ Heard("Admitted") = "Admitted" /\ Heard("Token") = "Token" /\ Heard("Error") = "Error"
  /\ \A e \in OkReplies : Heard(e) = "Done"
  /\ \A e \in ErrReplies : Heard(e) \in {"Error", "WorkerDied"}
  /\ \A e \in Events : e # "Admitted" => Heard(e) # "Admitted"
<1>1. /\ Heard("Admitted") = "Admitted" /\ Heard("Token") = "Token" /\ Heard("Error") = "Error"
      /\ Heard("CancelledInQueue") = "Error" /\ Heard("WorkerDied") = "WorkerDied"
  BY DEF Heard, OkReplies
<1>2. \A e \in OkReplies : Heard(e) = "Done"
  BY DEF Heard, OkReplies
<1> QED
  BY <1>1, <1>2 DEF Events, Replies, ErrReplies, Port!PortEvents

(* Hearing one event more is hearing its translation after the others.     *)
LEMMA HearsOn ==
  ASSUME NEW s \in Seq(Events)
  PROVE  /\ Hears(s) \in Seq(Port!PortEvents) /\ Len(Hears(s)) = Len(s)
         /\ \A i \in 1 .. Len(s) : Hears(s)[i] = Heard(s[i])
         /\ Hears(s) = <<>> <=> s = <<>>
         /\ \A e \in Events : Hears(Append(s, e)) = Append(Hears(s), Heard(e))
<1>1. /\ Len(s) \in Nat /\ DOMAIN s = 1 .. Len(s)
      /\ \A i \in 1 .. Len(s) : s[i] \in Events
  BY LenProperties, ElementOfSeq
<1>2. PICK h \in Seq(Port!PortEvents) :
        h = Hears(s) /\ Len(h) = Len(s) /\ \A i \in 1 .. Len(s) : h[i] = Heard(s[i])
  <2> DEFINE h == Hears(s)
  <2>1. h \in [1 .. Len(s) -> Port!PortEvents] /\ \A i \in 1 .. Len(s) : h[i] = Heard(s[i])
    BY <1>1, HeardIs DEF Hears
  <2>2. h \in Seq(Port!PortEvents) /\ DOMAIN h = 1 .. Len(s)
    BY <1>1, <2>1, SeqDef
  <2>3. Len(h) = Len(s)
    BY <1>1, <2>2, LenProperties
  <2> QED
    BY <2>1, <2>2, <2>3
<1>3. Hears(s) = <<>> <=> s = <<>>
  BY <1>2, EmptySeq
<1>4. ASSUME NEW e \in Events PROVE Hears(Append(s, e)) = Append(h, Heard(e))
  <2>1. PICK t \in Seq(Events) : t = Append(s, e)
    BY AppendProperties
  <2>2. Len(t) = Len(s) + 1 /\ (\A i \in 1 .. Len(s) : t[i] = s[i]) /\ t[Len(s) + 1] = e
    BY <2>1, AppendProperties
  <2>3. Heard(e) \in Port!PortEvents
    BY HeardIs
  <2>4. PICK u \in Seq(Port!PortEvents) : u = Append(h, Heard(e))
    BY <2>3, AppendProperties
  <2>5. /\ Len(u) = Len(s) + 1 /\ (\A i \in 1 .. Len(s) : u[i] = h[i])
        /\ u[Len(s) + 1] = Heard(e)
    BY <1>2, <2>3, <2>4, AppendProperties
  <2>6. DOMAIN t = 1 .. Len(s) + 1 /\ DOMAIN u = 1 .. Len(s) + 1
    BY <2>2, <2>5, LenProperties
  <2>7. \A i \in 1 .. Len(s) + 1 : u[i] = Heard(t[i])
    BY <1>1, <1>2, <2>2, <2>5
  <2>8. u = [i \in 1 .. Len(s) + 1 |-> Heard(t[i])]
    <3>1. u \in [1 .. Len(s) + 1 -> Port!PortEvents]
      BY <2>5, LenProperties
    <3> QED
      BY <2>7, <3>1
  <2> QED
    BY <2>1, <2>4, <2>6, <2>8 DEF Hears
<1> QED
  BY <1>2, <1>3, <1>4

(* What the worker tells a request is what the emission thread is built    *)
(* to serve: a refusal, or an admission, tokens and one retirement, with   *)
(* only a failed request retired a second time. The worker implements the  *)
(* port, whatever fails, panics or is cancelled.                           *)
THEOREM PortAlwaysKept == Spec => KeepsPort
<1> DEFINE told == [j \in Jobs |-> [i \in DOMAIN sent[j] |-> Heard(sent[j][i])]]
<1>0. \A j \in Jobs : told[j] = Hears(sent[j]) /\ told'[j] = Hears(sent'[j])
  BY DEF Hears
<1>1. Init => Port!PortInit
  <2> SUFFICES ASSUME Init PROVE told = [j \in Jobs |-> <<>>]
    BY DEF Port!PortInit
  <2>1. ASSUME NEW j \in Jobs PROVE Hears(sent[j]) = <<>>
    BY HearsOn, FirstWord DEF Init
  <2> QED
    BY <1>0, <2>1
<1>2. RequestInv /\ RequestInv' /\ [Next]_vars => [Port!PortNext]_told
  <2> SUFFICES ASSUME RequestInv, RequestInv', [Next]_vars, NEW j \in Jobs
               PROVE  told'[j] = told[j] \/ Port!Says(j)
    BY DEF Port!PortNext
  <2>1. Continues(sent[j], sent'[j]) /\ sent[j] \in Seq(Events)
    BY SentContinues DEF RequestInv, Inv, TypeOK
  <2>2. CASE sent'[j] = sent[j]
    BY <1>0, <2>2
  <2>3. ASSUME NEW e \in Events, sent'[j] = Append(sent[j], e),
               \/ sent[j] = <<>> /\ e \in {"Admitted"} \cup ErrReplies
               \/ Open(sent[j]) /\ e # "Admitted"
               \/ Shut(sent[j]) /\ e \in OkReplies
        PROVE  Port!Says(j)
    <3>1. PICK h \in Seq(Port!PortEvents) : h = told[j] /\ h = Hears(sent[j])
      BY <1>0, <2>1, HearsOn
    <3>2. told'[j] = Append(h, Heard(e))
      BY <1>0, <2>1, <2>3, <3>1, HearsOn
    <3>3. /\ Len(h) = Len(sent[j]) /\ (h = <<>> <=> sent[j] = <<>>)
          /\ \A i \in 1 .. Len(sent[j]) : h[i] = Heard(sent[j][i])
      BY <2>1, <3>1, HearsOn
    <3>4. sent[j] # <<>> => /\ 1 \in 1 .. Len(sent[j]) /\ Len(sent[j]) \in 1 .. Len(sent[j])
                            /\ Head(h) = Heard(sent[j][1])
                            /\ h[Len(h)] = Heard(sent[j][Len(sent[j])])
      <4> SUFFICES ASSUME sent[j] # <<>>
                   PROVE  /\ 1 \in 1 .. Len(sent[j]) /\ Len(sent[j]) \in 1 .. Len(sent[j])
                          /\ Head(h) = Heard(sent[j][1])
                          /\ h[Len(h)] = Heard(sent[j][Len(sent[j])])
        OBVIOUS
      <4>1. Len(sent[j]) \in Nat \ {0}
        BY <2>1, EmptySeq, LenProperties
      <4>2. Head(h) = h[1]
        BY <3>3, HeadTailProperties
      <4> QED
        BY <3>3, <4>1, <4>2
    <3>5. Heard(e) \in Port!PortEvents
      BY HeardIs
    <3>6. Heard(e) \in Port!Sayable(j)
      <4>1. CASE sent[j] = <<>> /\ e \in {"Admitted"} \cup ErrReplies
        <5>1. Heard(e) \in {"Admitted", "Error", "WorkerDied"} /\ told[j] = <<>>
          BY <3>1, <3>3, <4>1, HeardIs
        <5> QED
          BY <3>5, <5>1 DEF Port!Sayable, Port!Queued
      <4>2. CASE Open(sent[j]) /\ e # "Admitted"
        <5>1. /\ Heard(e) # "Admitted" /\ told[j] # <<>>
              /\ told[j][Len(told[j])] \in {"Admitted", "Token"}
          BY <3>1, <3>3, <3>4, <4>2, HeardIs DEF Open
        <5> QED
          BY <3>5, <5>1 DEF Port!Sayable, Port!Streaming, Port!Last
      <4>3. CASE Shut(sent[j]) /\ e \in OkReplies
        <5>1. /\ Heard(e) = "Done" /\ told[j] # <<>>
              /\ told[j][Len(told[j])] = "Error" /\ Head(told[j]) = "Admitted"
          BY <3>1, <3>3, <3>4, <4>3, HeardIs DEF Shut
        <5> QED
          BY <3>5, <5>1 DEF Port!Sayable, Port!FailedOnce, Port!Last
      <4> QED
        BY <2>3, <4>1, <4>2, <4>3
    <3> QED
      BY <3>1, <3>2, <3>6 DEF Port!Says
  <2> QED
    BY <2>1, <2>2, <2>3 DEF Continues
<1> QED
  BY <1>1, <1>2, RequestsHold, PTL DEF Spec, KeepsPort, Port!PortSpec

(* Every generated token but a stop token is streamed exactly once, also   *)
(* across an eviction and the re-prefill after it (ResumedJob).            *)
THEOREM StreamsAlwaysSeamless == Spec => []StreamSeamless
<1>1. RequestInv => StreamSeamless
  <2> SUFFICES ASSUME RequestInv, NEW j \in Range(active) \cup Range(resume)
               PROVE  seq[j].generated = Streamed(j)
                        + (IF seq[j].out \in {"Stepped", "Stopped"} THEN 1 ELSE 0)
                        + (IF seq[j].stopped THEN 1 ELSE 0)
    BY DEF StreamSeamless
  <2>1. TypeOK /\ Placement /\ RequestsGood /\ j \in Jobs
    BY SeqMembers DEF RequestInv, Inv, TypeOK
  <2>2. Told(sent[j], seq[j], phase) \/ Told(sent[j], seq[j], "Poll")
    BY <2>1, PlacesAre DEF RequestsGood, Good
  <2>3. Streamed(j) = Streams(sent[j])
    BY DEF Streamed, Streams
  <2> QED
    BY <2>2, <2>3 DEF Told
<1> QED
  BY <1>1, RequestsHold, PTL

(* "Length" goes exactly to the request that received its whole token cap, *)
(* "Stop" to one short of it, "Cancelled" only to one whose caller         *)
(* cancelled it (finish_reason in the retire sweep).                       *)
THEOREM ReasonsAlwaysHonest == Spec => []ReasonHonest
<1>1. RequestInv => ReasonHonest
  <2> SUFFICES ASSUME RequestInv, NEW j \in Jobs PROVE Honest(j, sent[j], signalled)
    BY DEF ReasonHonest, Honest, Answered, AnsweredIn, Streamed, Streams
  <2>1. TypeOK /\ Placement /\ RequestsGood /\ sent[j] \in Seq(Events)
    BY DEF RequestInv, Inv, TypeOK
  <2>2. Good(j, Place(j), sent[j], seq[j], phase, signalled)
    BY <2>1 DEF RequestsGood
  <2>3. CASE Place(j) \in {"new", "waiting"}
    BY <2>2, <2>3, FirstWord DEF Good, Honest
  <2>4. CASE Place(j) \in {"active", "evicted"}
    <3>1. Open(sent[j]) \/ Shut(sent[j])
      BY <2>2, <2>4 DEF Good, Told
    <3>2. CASE Open(sent[j])
      BY <3>2 DEF Open, Honest
    <3> QED
      BY <2>1, <3>1, <3>2, ShutIsHonest
  <2>5. CASE Place(j) = "gone"
    BY <2>2, <2>5 DEF Good
  <2> QED
    BY <2>1, <2>3, <2>4, <2>5, PlacesAre
<1> QED
  BY <1>1, RequestsHold, PTL

-------------------------------------------------------------------------------
(* Eviction.                                                               *)

(* Only the growth pass evicts: it alone moves a running sequence to the   *)
(* resume list.                                                            *)
LEMMA OnlyGrowthEvicts ==
  ASSUME TypeOK, Placement, [Next]_vars, NEW j \in Range(active), j \in Range(resume')
  PROVE  GrowEvicts
<1>1. active \in Seq(Jobs) /\ resume \in Seq(Jobs) /\ j \notin Range(resume)
  BY DEF TypeOK, Placement
<1>2. ASSUME resume' = resume PROVE FALSE
  BY <1>1, <1>2
<1>3. CASE ResumeOne
  <2>1. resume # <<>> /\ resume' = Front(resume)
    BY <1>3 DEF ResumeOne, Resumable
  <2>2. Range(resume') \subseteq Range(resume)
    BY <1>1, <2>1, Popped DEF Placement
  <2> QED
    BY <1>1, <2>2
<1>4. ASSUME NEW last, Exit(last) PROVE FALSE
  BY <1>4, EmptyRange DEF Exit
<1>5. CASE Client
  BY <1>2, <1>5 DEF Client, Submit, Cancel, Control
<1>6. CASE Poll
  BY <1>2, <1>4, <1>6
     DEF Poll, TakeSubmit, TakeLoad, TakeUnload, TakeClearState, TakeShutdown, EndPoll
<1>7. CASE Admit
  BY <1>2, <1>3, <1>7 DEF Admit, ResumeStops, RejectCancelled, RejectFailed, RejectTooLarge,
     AdmitOne, AdmitStops, Reject
<1>8. CASE GrantGrowth
  BY <1>2, <1>8 DEF GrantGrowth, SweepIdle, SweepCancelled, GrantSkipped, TopUpSenior, GrowFinished,
     GrowWithin, GrowGranted, GrowPauses, GrowEnds, GrowNext
<1>9. CASE StepRound
  BY <1>2, <1>9 DEF StepRound, RoundFails, BeginRound, PrefillSkips, PrefillDefers, PrefillChunk,
     PrefillLast, PrefillFails, PrefillEnds, DecodeRows, DecodeFails, PrefillNext
<1>10. CASE Deliver
  BY <1>2, <1>10 DEF Deliver, Ship, RetireOne, RetireKeeps, RetireEnds
<1>11. CASE Panic \/ Respawn \/ UNCHANGED vars
  BY <1>2, <1>4, <1>11 DEF Panic, Respawn, vars
<1> QED
  BY <1>5, <1>6, <1>7, <1>8, <1>9, <1>10, <1>11 DEF Next, Worker

(* The oldest live sequence is never the one evicted: whoever is evicted   *)
(* is live and has a live sequence ahead of it, the one it makes room for. *)
THEOREM SeniorAlwaysStays == Spec => SeniorNeverEvicted
<1>1. RequestInv /\ [Next]_vars =>
        \A i \in 1 .. Len(active) :
          Leaves(active[i]) /\ active[i] \in Range(resume') => Live(i) /\ ~IsSenior(i)
  <2> SUFFICES ASSUME RequestInv, [Next]_vars, NEW i \in 1 .. Len(active),
                      Leaves(active[i]), active[i] \in Range(resume')
               PROVE  Live(i) /\ ~IsSenior(i)
    OBVIOUS
  <2>1. TypeOK /\ Placement /\ active \in Seq(Jobs) /\ resume \in Seq(Jobs) /\ Len(active) \in Nat
    BY LenProperties DEF RequestInv, Inv, TypeOK
  <2>2. active[i] \in Range(active) /\ active[i] \notin Range(active')
    BY DEF Leaves
  <2>3. GrowEvicts
    BY <2>1, <2>2, OnlyGrowthEvicts
  <2>4. PICK v \in 1 .. Len(active) :
          /\ v > cursor /\ Live(v) /\ active' = RemoveAt(active, v)
    BY <2>3 DEF GrowEvicts, IsVictim
  <2>5. cursor \in 1 .. v - 1 /\ Live(cursor)
    <3>1. cursor \in Nat \ {0}
      BY <2>1 DEF TypeOK
    <3>2. Live(cursor)
      BY <2>3 DEF GrowEvicts, IsSenior
    <3> QED
      BY <2>4, <3>1, <3>2
  <2>6. Range(active') = Range(active) \ {active[v]}
    BY <2>1, <2>4, Removed DEF Placement
  <2>7. active[i] = active[v]
    BY <2>2, <2>6
  <2>8. i = v
    <3>1. DOMAIN active = 1 .. Len(active)
      BY <2>1, LenProperties
    <3> QED
      BY <2>1, <2>7, <3>1 DEF Placement, IsInjective
  <2> QED
    BY <2>4, <2>5, <2>8 DEF IsSenior
<1> QED
  BY <1>1, RequestsHold, PTL DEF Spec, SeniorNeverEvicted
===============================================================================
