----------------------------- MODULE DeliveryProofs -----------------------------
(***************************************************************************)
(* Every reply is sent once, to a caller that awaits it, and is the        *)
(* worker's first word on the request; and a caller that joins has heard   *)
(* every token: for any requests, tokens, and listeners that panic.        *)
(***************************************************************************)
EXTENDS DeliveryProperties, FiniteSetTheorems, SequenceTheorems, TLAPS

-------------------------------------------------------------------------------
(* The events under way, by the requests they are about.                   *)

AdmitEvents == [kind : {"Admitted"}, job : Jobs]
Entries == [job : Jobs, token : Nat]
TokenEvents == [kind : {"Tokens"}, batch : Seq(Entries) \ {<<>>}]
RetireEvents == [kind : {"Retire"}, job : Jobs, reply : {"Done", "Error"}]
EmissionEvents == AdmitEvents \cup TokenEvents \cup RetireEvents

Admits(e, j) == e.kind = "Admitted" /\ e.job = j
Retires(e, j) == e.kind = "Retire" /\ e.job = j
Places(e) == IF e.kind = "Tokens" THEN 1 .. Len(e.batch) ELSE {}
Carries(e, j) == \E k \in Places(e) : e.batch[k].job = j
About(e, j) == Admits(e, j) \/ Retires(e, j) \/ Carries(e, j)

DeliveryTypes ==
  /\ told \in [Jobs -> Seq(PortEvents)]
  /\ worker \in {"Up", "Gone"}
  /\ events \in Seq(EmissionEvents)
  /\ live \subseteq Jobs
  /\ held \in [Jobs -> Seq(Nat)]
  /\ finishing \in Seq([job : Jobs, reply : Verdicts]) /\ Len(finishing) <= 1
  /\ items \in [Jobs -> Seq(Seq(Nat))]
  /\ done \in [Jobs -> BOOLEAN]
  /\ listener \in [Jobs -> {"Up", "Gone"}]
  /\ heard \in [Jobs -> Seq(Nat)]
  /\ completion \in [Jobs -> Verdicts \cup {None}]
  /\ caller \in [Jobs -> {"Waiting", "Joining", "Returned", "Broken", "Left"}]
  /\ answer \in [Jobs -> Verdicts \cup {None}]

-------------------------------------------------------------------------------
(* Replies.                                                                *)

(* On its way to the emission thread, or in its hands.                     *)
Owned(j) == j \in live \/ \E i \in 1 .. Len(events) : Admits(events[i], j)

(* About to be answered.                                                   *)
Closing(j) == finishing # <<>> /\ Head(finishing).job = j

(* Its caller waits, and nothing has been sent to it yet.                  *)
Awaited(j) == completion[j] = None /\ answer[j] = None /\ caller[j] = "Waiting"

(* The port: a request that streams has no verdict, and a worker that goes *)
(* leaves nobody without one.                                              *)
PortInv(j) ==
  /\ worker = "Up" => \A i \in 1 .. Len(told[j]) : told[j][i] # "WorkerDied"
  /\ worker = "Gone" => told[j] # <<>> /\ ~Streaming(j)
  /\ Streaming(j) => ~Decided(j) /\ Owned(j)

(* The events of a request: its admission first, its tokens, then its      *)
(* retirement, of which the first carries the first verdict.               *)
EventsInv(j) ==
  /\ Owned(j) => told[j] # <<>>
  /\ \A i \in 1 .. Len(events) :
       /\ Admits(events[i], j) => j \notin live /\ \A k \in 1 .. i - 1 : ~About(events[k], j)
       /\ Carries(events[i], j) => Owned(j)
       /\ Retires(events[i], j) =>
            /\ Decided(j)
            /\ \A k \in i + 1 .. Len(events) : ~Carries(events[k], j)
            /\ Owned(j) /\ (\A k \in 1 .. i - 1 : ~Retires(events[k], j))
                 => FirstVerdict(j, events[i].reply)
  /\ Owned(j) /\ Decided(j) =>
       FirstVerdict(j, "WorkerDied") \/ \E i \in 1 .. Len(events) : Retires(events[i], j)

(* The reply is on its way from one hand to the next.                      *)
ReplyInv(j) ==
  /\ Owned(j) => Awaited(j) /\ ~Closing(j)
  /\ Closing(j) => Awaited(j) /\ FirstVerdict(j, Head(finishing).reply)
  /\ completion[j] # None => /\ answer[j] = None /\ caller[j] = "Waiting"
                             /\ FirstVerdict(j, completion[j])
  /\ answer[j] # None => FirstVerdict(j, answer[j])
  /\ answer[j] = None <=> caller[j] = "Waiting"

RequestInv(j) == PortInv(j) /\ EventsInv(j) /\ ReplyInv(j)

(* Only a caller in join has sent Finished, and nothing is sent after it.  *)
FinishedInv(j) ==
  \A k \in 1 .. Len(items[j]) : items[j][k] = Finished => k = Len(items[j]) /\ caller[j] = "Joining"

RepliesInv == DeliveryTypes /\ \A j \in Jobs : RequestInv(j) /\ FinishedInv(j)

-------------------------------------------------------------------------------
(* Texts.                                                                  *)

(* The texts in a listener's channel, and the last token of the first k of *)
(* them, or of what the listener has heard.                                *)
Texts(its) == IF its # <<>> /\ its[Len(its)] = Finished THEN Len(its) - 1 ELSE Len(its)
End(h, its, k) == IF k = 0 THEN Len(h) ELSE its[k][Len(its[k])]

(* What is heard, on its way and held back is the tokens 1, 2, 3...        *)
InPlace(h, its, hl) ==
  /\ \A i \in 1 .. Len(h) : h[i] = i
  /\ \A k \in 1 .. Texts(its) :
       its[k] # <<>> /\ \A i \in 1 .. Len(its[k]) : its[k][i] = End(h, its, k - 1) + i
  /\ \A i \in 1 .. Len(hl) : hl[i] = End(h, its, Texts(its)) + i

(* ...up to the cursor; the rest of what was produced is in the events.    *)
Reached(h, its, hl) == End(h, its, Texts(its)) + Len(hl)
Cursor(j) == Reached(heard[j], items[j], held[j])

Sends(e, j, t) == \E k \in Places(e) : e.batch[k].job = j /\ e.batch[k].token = t
Sent(j, t) == \E i \in 1 .. Len(events) : Sends(events[i], j, t)

(* A round has one token of a request at most, and a later round a later.  *)
InOrder(j) ==
  \A i, h \in 1 .. Len(events) :
    \A k \in Places(events[i]), l \in Places(events[h]) :
      events[i].batch[k].job = j /\ events[h].batch[l].job = j =>
        /\ i < h => events[i].batch[k].token < events[h].batch[l].token
        /\ i = h => k = l

SentInv(j) ==
  /\ Cursor(j) <= Produced(j)
  /\ \A i \in 1 .. Len(events) : \A k \in Places(events[i]) :
       events[i].batch[k].job = j => events[i].batch[k].token \in Cursor(j) + 1 .. Produced(j)
  /\ \A t \in Cursor(j) + 1 .. Produced(j) : Sent(j, t)

TextInv(j) ==
  /\ held[j] # <<>> => j \in live
  /\ listener[j] = "Up" => /\ ~done[j] /\ caller[j] # "Returned"
                           /\ InPlace(heard[j], items[j], held[j]) /\ SentInv(j) /\ InOrder(j)
  /\ caller[j] = "Returned" => heard[j] = [i \in 1 .. Produced(j) |-> i]

TextsInv == \A j \in Jobs : TextInv(j)

-------------------------------------------------------------------------------
(* What is said of a request, and what its first verdict is.               *)

LEMMA ToldGrows ==
  ASSUME NEW j \in Jobs, told[j] \in Seq(PortEvents), NEW e \in PortEvents,
         told'[j] = Append(told[j], e)
  PROVE  /\ told'[j] \in Seq(PortEvents) /\ told'[j] # <<>>
         /\ \A v : FirstVerdict(j, v) => FirstVerdict(j, v)'
         /\ Decided(j) => Decided(j)'
         /\ e \in Verdicts => Decided(j)' /\ ~Streaming(j)'
         /\ e \in Verdicts /\ ~Decided(j) => \A v : FirstVerdict(j, v)' <=> v = e
         /\ e \notin Verdicts /\ Decided(j)' => Decided(j)
         /\ e = "Token" => Streaming(j)'
         /\ e # "WorkerDied" /\ (\A i \in 1 .. Len(told[j]) : told[j][i] # "WorkerDied")
              => \A i \in 1 .. Len(told'[j]) : told'[j][i] # "WorkerDied"
<1> DEFINE s == told[j]
           t == told'[j]
<1>1. /\ t \in Seq(PortEvents) /\ t # <<>> /\ Len(t) = Len(s) + 1 /\ Len(s) \in Nat
      /\ DOMAIN s = 1 .. Len(s) /\ DOMAIN t = 1 .. Len(s) + 1
      /\ \A i \in 1 .. Len(s) : t[i] = s[i]
      /\ t[Len(s) + 1] = e
  OBVIOUS
<1> HIDE DEF s, t
<1>2. \A i \in 1 .. Len(s) : i \in 1 .. Len(s) + 1 /\ \A k \in 1 .. i - 1 : k \in 1 .. Len(s)
  BY <1>1
<1>3. \A v : FirstVerdict(j, v) => FirstVerdict(j, v)'
  <2>1. SUFFICES ASSUME NEW v, FirstVerdict(j, v) PROVE FirstVerdict(j, v)'
    OBVIOUS
  <2>2. PICK i \in 1 .. Len(s) : v \in Verdicts /\ s[i] = v /\ \A k \in 1 .. i - 1 : s[k] \notin Verdicts
    BY <1>1, <2>1 DEF FirstVerdict, s
  <2>3. i \in DOMAIN t /\ t[i] = v /\ \A k \in 1 .. i - 1 : t[k] \notin Verdicts
    BY <1>1, <1>2, <2>2
  <2> QED
    BY <2>2, <2>3 DEF FirstVerdict, t, Verdicts
<1>4. Decided(j) => Decided(j)'
  BY <1>1, <1>2 DEF Decided, s, t, Verdicts
<1>5. e \in Verdicts => Decided(j)' /\ ~Streaming(j)'
  <2>1. Len(s) + 1 \in 1 .. Len(s) + 1 /\ t[Len(t)] = e
    BY <1>1
  <2> QED
    BY <1>1, <2>1 DEF Decided, Streaming, Last, t, Verdicts
<1>6. e \in Verdicts /\ ~Decided(j) => \A v : FirstVerdict(j, v)' <=> v = e
  <2>1. SUFFICES ASSUME e \in Verdicts, ~Decided(j), NEW v PROVE FirstVerdict(j, v)' <=> v = e
    OBVIOUS
  <2>2. \A i \in 1 .. Len(s) : t[i] \notin Verdicts
    BY <1>1, <2>1 DEF Decided, s
  <2>3. Len(s) + 1 \in DOMAIN t /\ \A k \in 1 .. (Len(s) + 1) - 1 : t[k] \notin Verdicts
    BY <1>1, <2>2
  <2>4. \A i \in DOMAIN t : t[i] \in Verdicts => i = Len(s) + 1
    BY <1>1, <2>2
  <2> QED
    BY <1>1, <2>1, <2>3, <2>4 DEF FirstVerdict, t, Verdicts
<1>7. e \notin Verdicts /\ Decided(j)' => Decided(j)
  <2>1. \A i \in DOMAIN t : i \in DOMAIN s \/ i = Len(s) + 1
    BY <1>1
  <2> QED
    BY <1>1, <2>1 DEF Decided, s, t, Verdicts
<1>8. e = "Token" => Streaming(j)'
  BY <1>1 DEF Streaming, Last, t
<1>9. e # "WorkerDied" /\ (\A i \in 1 .. Len(s) : s[i] # "WorkerDied")
        => \A i \in 1 .. Len(t) : t[i] # "WorkerDied"
  BY <1>1
<1> QED
  BY <1>1, <1>3, <1>4, <1>5, <1>6, <1>7, <1>8, <1>9 DEF s, t

LEMMA VerdictFacts ==
  ASSUME NEW j \in Jobs, NEW v, FirstVerdict(j, v)
  PROVE  /\ Decided(j) /\ v \in Verdicts
         /\ told[j] # <<>>
BY DEF FirstVerdict, Decided

LEMMA Undecided ==
  ASSUME NEW j \in Jobs, told[j] = <<>>
  PROVE  ~Decided(j) /\ ~Streaming(j)
BY DEF Decided, Streaming

(* Nothing is known of a request that is still queued.                     *)
LEMMA QueuedIsFresh ==
  ASSUME RepliesInv, NEW j \in Jobs, told[j] = <<>>
  PROVE  /\ ~Owned(j) /\ ~Closing(j) /\ Awaited(j)
         /\ \A i \in 1 .. Len(events) : ~About(events[i], j)
<1>1. ~Decided(j) /\ \A v : ~FirstVerdict(j, v)
  BY Undecided, VerdictFacts
<1>2. ~Owned(j) /\ ~Closing(j) /\ Awaited(j)
  BY <1>1 DEF RepliesInv, RequestInv, EventsInv, ReplyInv, Awaited
<1>3. \A i \in 1 .. Len(events) : ~About(events[i], j)
  BY <1>1, <1>2 DEF RepliesInv, RequestInv, EventsInv, About, Owned
<1> QED
  BY <1>2, <1>3

-------------------------------------------------------------------------------
(* What the operators of the model are built from.                         *)

(* The sequence of a finite set holds each of its elements once.           *)
LEMMA SequenceOfSet ==
  ASSUME NEW S, IsFiniteSet(S), S # {}
  PROVE  /\ SetToSeq(S) \in Seq(S) /\ SetToSeq(S) # <<>>
         /\ Len(SetToSeq(S)) = Cardinality(S)
         /\ \A x \in S : \E i \in 1 .. Len(SetToSeq(S)) : SetToSeq(S)[i] = x
         /\ \A i, k \in 1 .. Len(SetToSeq(S)) : SetToSeq(S)[i] = SetToSeq(S)[k] => i = k
<1> DEFINE n == Cardinality(S)
           f == SetToSeq(S)
           R == {f[i] : i \in 1 .. n}
<1>1. n \in Nat /\ n # 0 /\ Bijection(1 .. n, S) # {}
  BY FS_CardinalityType, FS_EmptySet DEF ExistsBijection
<1>2. \E b : b \in Bijection(1 .. n, S)
  BY <1>1
<1>3. f \in [1 .. n -> S] /\ IsInjective(f)
  BY <1>2 DEF Bijection, Injection, SetToSeq
<1> HIDE DEF n, f
<1>4. f \in Seq(S) /\ Len(f) = n
  BY <1>1, <1>3
<1>5. f \in Bijection(1 .. n, R)
  BY <1>1, <1>3 DEF Bijection, Injection, Surjection, IsInjective
<1>6. IsFiniteSet(1 .. n) /\ Cardinality(1 .. n) = n
  BY <1>1, FS_Interval
<1>7. Cardinality(R) = n
  BY <1>5, <1>6, FS_Bijection DEF ExistsBijection
<1>8. R = S
  <2>1. R \in SUBSET S
    BY <1>3
  <2> QED
    BY <1>7, <2>1, FS_Subset DEF n
<1>9. \A x \in S : \E i \in 1 .. n : f[i] = x
  BY <1>8
<1>10. \A i, k \in 1 .. n : f[i] = f[k] => i = k
  BY <1>3 DEF IsInjective
<1> QED
  BY <1>1, <1>4, <1>9, <1>10 DEF n, f

LEMMA EventsAppended ==
  ASSUME events \in Seq(EmissionEvents), NEW e \in EmissionEvents, events' = Append(events, e)
  PROVE  /\ events' \in Seq(EmissionEvents) /\ Len(events') = Len(events) + 1 /\ Len(events) \in Nat
         /\ \A i \in 1 .. Len(events) : events'[i] = events[i]
         /\ events'[Len(events) + 1] = e
OBVIOUS

LEMMA EventsTaken ==
  ASSUME events \in Seq(EmissionEvents), events # <<>>, events' = Tail(events)
  PROVE  /\ events' \in Seq(EmissionEvents) /\ Len(events') = Len(events) - 1
         /\ Len(events) \in Nat /\ Len(events) >= 1 /\ Head(events) = events[1]
         /\ \A i \in 1 .. Len(events') : events'[i] = events[i + 1]
OBVIOUS

LEMMA TailOfMany ==
  ASSUME NEW S, NEW s \in Seq(S), Len(s) >= 1, Len(s) # 1
  PROVE  Tail(s) \in Seq(S) /\ Tail(s) # <<>> /\ Len(Tail(s)) = Len(s) - 1
         /\ \A i \in 1 .. Len(s) - 1 : Tail(s)[i] = s[i + 1]
<1>1. Len(Tail(s)) = Len(s) - 1 /\ Len(s) \in Nat /\ Tail(s) \in Seq(S)
  OBVIOUS
<1>2. PICK t : t = Tail(s)
  OBVIOUS
<1>3. t # <<>>
  BY <1>1, <1>2
<1> QED
  BY <1>1, <1>2, <1>3

(* The first entry of a round is taken, and with the last the round.       *)
LEMMA EntryTaken ==
  ASSUME events \in Seq(EmissionEvents), Receives("Tokens"), NextEntry
  PROVE  /\ Len(events) \in Nat /\ Len(events) >= 1 /\ Head(events) = events[1]
         /\ events[1] \in TokenEvents /\ Len(events[1].batch) >= 1
         /\ Entry \in Entries /\ Entry = events[1].batch[1]
         /\ \/ /\ Len(events[1].batch) = 1
               /\ events' = Tail(events)
            \/ /\ Len(events[1].batch) > 1
               /\ events' \in Seq(EmissionEvents) /\ Len(events') = Len(events)
               /\ \A i \in 2 .. Len(events) : events'[i] = events[i]
               /\ events'[1] = [kind |-> "Tokens", batch |-> Tail(events[1].batch)]
<1>1. /\ Len(events) \in Nat /\ Len(events) >= 1 /\ Head(events) = events[1]
      /\ events[1] \in EmissionEvents /\ events[1].kind = "Tokens"
  BY DEF Receives
<1>2. events[1] \in TokenEvents
  BY <1>1 DEF EmissionEvents, AdmitEvents, RetireEvents
<1> DEFINE b == events[1].batch
<1>3. b \in Seq(Entries) /\ b # <<>> /\ events[1] = [kind |-> "Tokens", batch |-> b]
  BY <1>2 DEF TokenEvents
<1>4. Entry \in Entries /\ Entry = b[1] /\ Len(b) >= 1 /\ Len(b) \in Nat
  BY <1>1, <1>3 DEF Entry
<1>5. Len(b) = 1 => events' = Tail(events)
  BY <1>1 DEF NextEntry
<1>6. ASSUME Len(b) # 1
      PROVE  /\ events' \in Seq(EmissionEvents) /\ Len(events') = Len(events)
             /\ \A i \in 2 .. Len(events) : events'[i] = events[i]
             /\ events'[1] = [kind |-> "Tokens", batch |-> Tail(b)]
  <2>1. Tail(b) \in Seq(Entries) /\ Tail(b) # <<>>
    BY <1>3, <1>4, <1>6, TailOfMany
  <2>2. [kind |-> "Tokens", batch |-> Tail(b)] \in EmissionEvents
    BY <2>1 DEF EmissionEvents, TokenEvents
  <2>3. events' = [events EXCEPT ![1] = [kind |-> "Tokens", batch |-> Tail(b)]]
    BY <1>1, <1>6 DEF NextEntry
  <2> HIDE DEF b
  <2>4. /\ events' \in Seq(EmissionEvents) /\ Len(events') = Len(events)
        /\ \A i \in 2 .. Len(events) : events'[i] = events[i]
        /\ events'[1] = [kind |-> "Tokens", batch |-> Tail(b)]
    BY <1>1, <2>2, <2>3
  <2> QED
    BY <2>4 DEF b
<1>7. Len(b) # 1 => Len(b) > 1
  <2>1. \A n \in Nat : n >= 1 /\ n # 1 => n > 1
    OBVIOUS
  <2> QED
    BY <1>4, <2>1
<1> QED
  BY <1>1, <1>2, <1>4, <1>5, <1>6, <1>7

-------------------------------------------------------------------------------
(* A request a step does not concern: at most the first event is gone, and *)
(* the events after the others do not name it.                             *)

Follows(f, e, j) ==
  /\ Admits(f, j) <=> Admits(e, j)
  /\ Retires(f, j) <=> Retires(e, j)
  /\ Retires(e, j) => f.reply = e.reply
  /\ Carries(f, j) => Carries(e, j)

EventsFollow(d, j) ==
  /\ d \in {0, 1} /\ d <= Len(events) /\ Len(events') \in Nat /\ Len(events') >= Len(events) - d
  /\ d = 1 => ~Admits(events[1], j) /\ ~Retires(events[1], j)
  /\ \A i \in 1 .. Len(events) - d : Follows(events'[i], events[i + d], j)
  /\ \A i \in Len(events) - d + 1 .. Len(events') : ~About(events'[i], j)

LEMMA Unconcerned ==
  ASSUME RepliesInv, NEW j \in Jobs, NEW d, EventsFollow(d, j),
         worker' = worker \/ (worker' = "Gone" /\ told[j] # <<>> /\ ~Streaming(j)),
         told'[j] = told[j], completion'[j] = completion[j], answer'[j] = answer[j],
         caller'[j] = "Waiting" <=> caller[j] = "Waiting",
         j \in live' <=> j \in live, Closing(j)' <=> Closing(j),
         Closing(j) => Head(finishing').reply = Head(finishing).reply
  PROVE  RequestInv(j)'
<1> DEFINE n == Len(events)
           m == Len(events')
<1>1. n \in Nat /\ m \in Nat /\ d \in {0, 1} /\ d <= n /\ m >= n - d
  BY DEF EventsFollow, RepliesInv, DeliveryTypes
<1>2. PortInv(j) /\ EventsInv(j) /\ ReplyInv(j)
  BY DEF RepliesInv, RequestInv
<1>3. \A i \in 1 .. m : i \in 1 .. n - d \/ ~About(events'[i], j)
  BY <1>1 DEF EventsFollow
<1>4. \A i \in 1 .. n - d : i \in 1 .. m /\ i + d \in 1 .. n /\ Follows(events'[i], events[i + d], j)
  BY <1>1 DEF EventsFollow
<1>5. \A i \in 1 .. n : (Admits(events[i], j) \/ Retires(events[i], j))
        => i - d \in 1 .. n - d /\ (i - d) + d = i
  BY <1>1 DEF EventsFollow
<1>6. Owned(j)' <=> Owned(j)
  <2>1. ASSUME NEW i \in 1 .. m, Admits(events'[i], j) PROVE \E k \in 1 .. n : Admits(events[k], j)
    BY <2>1, <1>3, <1>4 DEF About, Follows
  <2>2. ASSUME NEW i \in 1 .. n, Admits(events[i], j) PROVE \E k \in 1 .. m : Admits(events'[k], j)
    BY <2>2, <1>4, <1>5 DEF Follows
  <2> QED
    BY <2>1, <2>2 DEF Owned
<1>7. /\ Decided(j)' <=> Decided(j)
      /\ Streaming(j)' <=> Streaming(j)
      /\ \A v : FirstVerdict(j, v)' <=> FirstVerdict(j, v)
  BY DEF Decided, Streaming, FirstVerdict, Verdicts
<1>8. Awaited(j)' <=> Awaited(j)
  BY DEF Awaited
<1>9. PortInv(j)'
  BY <1>2, <1>6, <1>7 DEF PortInv
<1>10. ReplyInv(j)'
  BY <1>2, <1>6, <1>7, <1>8 DEF ReplyInv
<1>11. EventsInv(j)'
  <2>1. ASSUME NEW i \in 1 .. m, Admits(events'[i], j)
        PROVE  j \notin live' /\ \A k \in 1 .. i - 1 : ~About(events'[k], j)
    <3>1. i \in 1 .. n - d /\ i + d \in 1 .. n /\ Admits(events[i + d], j)
      BY <2>1, <1>3, <1>4 DEF About, Follows
    <3>2. j \notin live /\ \A k \in 1 .. (i + d) - 1 : ~About(events[k], j)
      BY <3>1, <1>2 DEF EventsInv
    <3>3. \A k \in 1 .. i - 1 : k \in 1 .. n - d /\ k + d \in 1 .. (i + d) - 1
      BY <3>1, <1>1
    <3> QED
      BY <3>2, <3>3, <1>4 DEF About, Follows
  <2>2. ASSUME NEW i \in 1 .. m, Carries(events'[i], j) PROVE Owned(j)
    <3>1. i \in 1 .. n - d /\ i + d \in 1 .. n /\ Carries(events[i + d], j)
      BY <2>2, <1>3, <1>4 DEF About, Follows
    <3> QED
      BY <3>1, <1>2 DEF EventsInv
  <2>3. ASSUME NEW i \in 1 .. m, Retires(events'[i], j)
        PROVE  /\ Decided(j)
               /\ \A k \in i + 1 .. m : ~Carries(events'[k], j)
               /\ Owned(j) /\ (\A k \in 1 .. i - 1 : ~Retires(events'[k], j))
                    => FirstVerdict(j, events'[i].reply)
    <3>1. i \in 1 .. n - d /\ i + d \in 1 .. n /\ Retires(events[i + d], j) /\ events'[i].reply = events[i + d].reply
      BY <2>3, <1>3, <1>4 DEF About, Follows
    <3>2. /\ Decided(j)
          /\ \A k \in (i + d) + 1 .. n : ~Carries(events[k], j)
          /\ Owned(j) /\ (\A k \in 1 .. (i + d) - 1 : ~Retires(events[k], j))
               => FirstVerdict(j, events[i + d].reply)
      BY <3>1, <1>2 DEF EventsInv
    <3>3. \A k \in i + 1 .. m : ~Carries(events'[k], j)
      <4>1. SUFFICES ASSUME NEW k \in i + 1 .. m, Carries(events'[k], j) PROVE FALSE
        OBVIOUS
      <4>2. k \in 1 .. m
        BY <1>1, <3>1
      <4>3. k \in 1 .. n - d /\ Carries(events[k + d], j)
        BY <4>1, <4>2, <1>3, <1>4 DEF About, Follows
      <4>4. k + d \in (i + d) + 1 .. n
        BY <1>1, <3>1, <4>3
      <4> QED
        BY <3>2, <4>3, <4>4
    <3>4. ASSUME \A k \in 1 .. i - 1 : ~Retires(events'[k], j), NEW k \in 1 .. (i + d) - 1
          PROVE  ~Retires(events[k], j)
      <4>1. SUFFICES ASSUME Retires(events[k], j) PROVE FALSE
        OBVIOUS
      <4>2. k \in 1 .. n
        BY <1>1, <3>1
      <4>3. k - d \in 1 .. n - d /\ (k - d) + d = k
        BY <4>1, <4>2, <1>5
      <4>4. Retires(events'[k - d], j)
        BY <4>1, <4>3, <1>4 DEF Follows
      <4>5. k - d \in 1 .. i - 1
        BY <1>1, <3>1, <4>3
      <4> QED
        BY <3>4, <4>4, <4>5
    <3> QED
      BY <3>1, <3>2, <3>3, <3>4
  <2>4. ASSUME NEW i \in 1 .. n, Retires(events[i], j) PROVE \E k \in 1 .. m : Retires(events'[k], j)
    BY <2>4, <1>4, <1>5 DEF Follows
  <2> QED
    BY <2>1, <2>2, <2>3, <2>4, <1>2, <1>6, <1>7 DEF EventsInv
<1> QED
  BY <1>9, <1>10, <1>11 DEF RequestInv

(* The events stay as they are, or only the newest names others alone.     *)
LEMMA EventsStill ==
  ASSUME events' = events, events \in Seq(EmissionEvents), NEW j \in Jobs
  PROVE  EventsFollow(0, j)
<1>1. Len(events) \in Nat /\ \A i \in 1 .. Len(events) : i + 0 = i
  OBVIOUS
<1>2. Len(events) - 0 = Len(events) /\ Len(events) + 1 .. Len(events) = {}
  BY <1>1
<1> QED
  BY <1>1, <1>2 DEF EventsFollow, Follows

LEMMA EventsOfOthers ==
  ASSUME events \in Seq(EmissionEvents), NEW e \in EmissionEvents, events' = Append(events, e),
         NEW j \in Jobs, ~About(e, j)
  PROVE  EventsFollow(0, j)
<1>1. /\ Len(events') = Len(events) + 1 /\ Len(events) \in Nat
      /\ \A i \in 1 .. Len(events) : events'[i] = events[i]
      /\ events'[Len(events) + 1] = e
  BY EventsAppended
<1>2. /\ Len(events) - 0 = Len(events)
      /\ \A i \in 1 .. Len(events) : i + 0 = i
      /\ Len(events) - 0 + 1 .. Len(events') = {Len(events) + 1}
  BY <1>1
<1> QED
  BY <1>1, <1>2 DEF EventsFollow, Follows

LEMMA EventsShift ==
  ASSUME events \in Seq(EmissionEvents), events # <<>>, events' = Tail(events),
         NEW j \in Jobs, ~Admits(events[1], j), ~Retires(events[1], j)
  PROVE  EventsFollow(1, j)
<1>1. /\ Len(events') = Len(events) - 1 /\ Len(events) \in Nat /\ Len(events) >= 1
      /\ \A i \in 1 .. Len(events') : events'[i] = events[i + 1]
  BY EventsTaken
<1>2. Len(events) - 1 + 1 .. Len(events') = {}
  BY <1>1
<1> QED
  BY <1>1, <1>2 DEF EventsFollow, Follows

LEMMA EventsTrimmed ==
  ASSUME events \in Seq(EmissionEvents), Receives("Tokens"), NextEntry, NEW j \in Jobs
  PROVE  EventsFollow(0, j) \/ EventsFollow(1, j)
<1>1. /\ Len(events) \in Nat /\ Len(events) >= 1 /\ events[1] \in TokenEvents
      /\ \/ events' = Tail(events)
         \/ /\ events' \in Seq(EmissionEvents) /\ Len(events') = Len(events)
            /\ Len(events[1].batch) > 1
            /\ \A i \in 2 .. Len(events) : events'[i] = events[i]
            /\ events'[1] = [kind |-> "Tokens", batch |-> Tail(events[1].batch)]
  BY EntryTaken
<1>2. events[1].kind = "Tokens" /\ events[1].batch \in Seq(Entries)
  BY <1>1 DEF TokenEvents
<1>3. ~Admits(events[1], j) /\ ~Retires(events[1], j)
  BY <1>2 DEF Admits, Retires
<1>4. CASE events' = Tail(events)
  <2>1. events # <<>>
    BY DEF Receives
  <2> QED
    BY <1>3, <1>4, <2>1, EventsShift
<1>5. CASE events' # Tail(events)
  <2>1. Len(events') = Len(events) /\ Len(events[1].batch) > 1
        /\ (\A i \in 2 .. Len(events) : events'[i] = events[i])
        /\ events'[1] = [kind |-> "Tokens", batch |-> Tail(events[1].batch)]
    BY <1>1, <1>5
  <2>2. events'[1].kind = "Tokens" /\ events'[1].batch = Tail(events[1].batch)
    BY <2>1
  <2>3. Follows(events'[1], events[1], j)
    <3>1. ASSUME Carries(events'[1], j) PROVE Carries(events[1], j)
      <4>1. PICK k \in 1 .. Len(Tail(events[1].batch)) : Tail(events[1].batch)[k].job = j
        BY <2>2, <3>1 DEF Carries, Places
      <4>2. k + 1 \in 1 .. Len(events[1].batch) /\ events[1].batch[k + 1].job = j
        <5>1. \A b \in Seq(Entries) : Len(b) > 1 => \A k_1 \in 1 .. Len(Tail(b)) :
                 k_1 + 1 \in 1 .. Len(b) /\ Tail(b)[k_1] = b[k_1 + 1]
          OBVIOUS
        <5> QED
          BY <4>1, <5>1, <1>2, <2>1
      <4> QED
        BY <1>2, <4>2 DEF Carries, Places
    <3>2. ~Admits(events'[1], j) /\ ~Retires(events'[1], j)
      BY <2>2 DEF Admits, Retires
    <3> QED
      BY <1>3, <3>1, <3>2 DEF Follows
  <2>4. \A i \in 1 .. Len(events) : Follows(events'[i], events[i], j)
    <3>1. \A i \in 1 .. Len(events) : i = 1 \/ i \in 2 .. Len(events)
      BY <1>1
    <3> QED
      BY <2>1, <2>3, <3>1 DEF Follows
  <2>5. /\ \A i \in 1 .. Len(events) : i + 0 = i
        /\ Len(events) - 0 = Len(events) /\ Len(events) + 1 .. Len(events) = {}
        /\ Len(events) >= Len(events) - 0 /\ 0 <= Len(events)
    BY <1>1
  <2> QED
    BY <1>1, <2>1, <2>4, <2>5 DEF EventsFollow
<1> QED
  BY <1>4, <1>5

-------------------------------------------------------------------------------
(* Types.                                                                  *)

LEMMA TellTypes ==
  ASSUME DeliveryTypes, NEW js \in SUBSET Jobs, NEW e, Tell(js, e)
  PROVE  /\ told' \in [Jobs -> Seq(PortEvents)]
         /\ js # {} => e \in PortEvents
         /\ \A j \in js : told'[j] = Append(told[j], e)
         /\ \A j \in Jobs \ js : told'[j] = told[j]
<1>1. /\ \A j \in js : e \in Sayable(j)
      /\ told' = [j \in Jobs |-> IF j \in js THEN Append(told[j], e) ELSE told[j]]
  BY DEF Tell
<1>2. \A j \in js : e \in PortEvents
  BY <1>1 DEF Sayable
<1>3. \A j \in Jobs : told[j] \in Seq(PortEvents)
  BY DEF DeliveryTypes
<1>4. \A j \in Jobs : told'[j] \in Seq(PortEvents)
  <2>1. SUFFICES ASSUME NEW j \in Jobs PROVE told'[j] \in Seq(PortEvents)
    OBVIOUS
  <2>2. CASE j \in js
    <3>1. told'[j] = Append(told[j], e)
      BY <1>1, <2>2
    <3> QED
      BY <1>2, <1>3, <2>2, <3>1
  <2>3. CASE j \notin js
    BY <1>1, <1>3, <2>3
  <2> QED
    BY <2>2, <2>3
<1>5. told' \in [Jobs -> Seq(PortEvents)]
  BY <1>1, <1>4
<1> QED
  BY <1>1, <1>2, <1>5

LEMMA ShipmentTypes ==
  ASSUME DeliveryTypes, NEW js \in SUBSET Jobs, ShipTokens(js)
  PROVE  \E e \in TokenEvents :
           /\ events' = Append(events, e)
           /\ Len(e.batch) = Cardinality(js)
           /\ \A i \in 1 .. Len(e.batch) :
                e.batch[i].job \in js /\ e.batch[i].token = Produced(e.batch[i].job) + 1
           /\ \A j \in js : \E i \in 1 .. Len(e.batch) : e.batch[i].job = j
           /\ \A i, k \in 1 .. Len(e.batch) : e.batch[i].job = e.batch[k].job => i = k
<1> DEFINE order == SetToSeq(js)
           entry(j) == [job |-> j, token |-> Produced(j) + 1]
           e == [kind |-> "Tokens", batch |-> [i \in DOMAIN order |-> entry(order[i])]]
<1>1. IsFiniteSet(js) /\ js # {}
  BY FS_Subset, DeliveryAssumption DEF ShipTokens
<1>2. /\ order \in Seq(js) /\ order # <<>> /\ Len(order) = Cardinality(js)
      /\ \A j \in js : \E i \in 1 .. Len(order) : order[i] = j
      /\ \A i, k \in 1 .. Len(order) : order[i] = order[k] => i = k
  BY <1>1, SequenceOfSet
<1>3. events' = Append(events, e)
  BY DEF ShipTokens
<1>4. \A j \in js : Produced(j) \in Nat
  <2>1. SUFFICES ASSUME NEW j \in js PROVE Produced(j) \in Nat
    OBVIOUS
  <2>2. told[j] \in Seq(PortEvents)
    BY DEF DeliveryTypes
  <2>3. Len(told[j]) \in Nat /\ DOMAIN told[j] = 1 .. Len(told[j])
    BY <2>2
  <2>4. IsFiniteSet(1 .. Len(told[j]))
    BY <2>3, FS_Interval
  <2>5. {i \in DOMAIN told[j] : told[j][i] = "Token"} \in SUBSET (1 .. Len(told[j]))
    BY <2>3
  <2>6. IsFiniteSet({i \in DOMAIN told[j] : told[j][i] = "Token"})
    BY <2>4, <2>5, FS_Subset
  <2> QED
    BY <2>6, FS_CardinalityType DEF Produced
<1> HIDE DEF order
<1>5. \A j \in js : entry(j) \in Entries
  BY <1>4 DEF Entries
<1>6. /\ e.batch \in Seq(Entries) /\ Len(e.batch) = Len(order) /\ Len(order) \in Nat /\ Len(order) # 0
      /\ \A i \in 1 .. Len(order) : e.batch[i] = entry(order[i]) /\ order[i] \in js
  BY <1>2, <1>5
<1>7. e.batch # <<>>
  BY <1>6
<1>8. e \in TokenEvents
  BY <1>6, <1>7 DEF TokenEvents
<1>9. \A i \in 1 .. Len(e.batch) : e.batch[i].job = order[i]
                                   /\ e.batch[i].token = Produced(order[i]) + 1
  BY <1>6
<1> HIDE DEF e
<1> QED
  BY <1>2, <1>3, <1>6, <1>8, <1>9

LEMMA PostTypes ==
  ASSUME DeliveryTypes, NEW j \in Jobs, NEW s \in Seq(Nat), Post(j, s)
  PROVE  items' \in [Jobs -> Seq(Seq(Nat))] /\ done' \in [Jobs -> BOOLEAN]
<1>1. items \in [Jobs -> Seq(Seq(Nat))] /\ done \in [Jobs -> BOOLEAN]
  BY DEF DeliveryTypes
<1>2. Append(items[j], s) \in Seq(Seq(Nat))
  BY <1>1
<1> QED
  BY <1>1, <1>2 DEF Post

LEMMA FinishTypes ==
  ASSUME DeliveryTypes, NEW j \in Jobs, NEW r \in Verdicts, Finish(j, r),
         events' \in Seq(EmissionEvents)
  PROVE  DeliveryTypes'
<1>1. held[j] \in Seq(Nat) /\ <<>> \in Seq(Nat)
  BY DEF DeliveryTypes
<1>2. held' \in [Jobs -> Seq(Nat)]
  BY <1>1 DEF Finish, Flush, DeliveryTypes
<1>3. items' \in [Jobs -> Seq(Seq(Nat))] /\ done' \in [Jobs -> BOOLEAN]
  BY <1>1, PostTypes DEF Finish, Flush, DeliveryTypes
<1>4. finishing' \in Seq([job : Jobs, reply : Verdicts]) /\ Len(finishing') <= 1
  BY DEF Finish
<1>5. live' \subseteq Jobs
  BY DEF Finish, NoLonger, DeliveryTypes
<1> QED
  BY <1>2, <1>3, <1>4, <1>5 DEF Finish, DeliveryTypes, workerVars, callerVars

LEMMA WorkerTypes ==
  ASSUME DeliveryTypes, Worker
  PROVE  DeliveryTypes'
<1>1. ASSUME NEW j \in Jobs, Refuse(j) PROVE DeliveryTypes'
  <2>1. told' \in [Jobs -> Seq(PortEvents)]
    BY <1>1, TellTypes DEF Refuse
  <2> QED
    BY <1>1, <2>1 DEF Refuse, Tell, DeliveryTypes, Verdicts, callerVars
<1>2. ASSUME NEW j \in Jobs, Admit(j) PROVE DeliveryTypes'
  <2>1. told' \in [Jobs -> Seq(PortEvents)]
    BY <1>2, TellTypes DEF Admit
  <2>2. [kind |-> "Admitted", job |-> j] \in EmissionEvents
    BY DEF EmissionEvents, AdmitEvents
  <2>3. events' \in Seq(EmissionEvents)
    BY <1>2, <2>2, EventsAppended DEF Admit, DeliveryTypes
  <2> QED
    BY <1>2, <2>1, <2>3 DEF Admit, Tell, DeliveryTypes, callerVars
<1>3. ASSUME NEW js \in SUBSET Jobs, ShipTokens(js) PROVE DeliveryTypes'
  <2>1. told' \in [Jobs -> Seq(PortEvents)]
    BY <1>3, TellTypes DEF ShipTokens
  <2>2. PICK e \in TokenEvents : events' = Append(events, e)
    BY <1>3, ShipmentTypes
  <2>3. events' \in Seq(EmissionEvents)
    BY <2>2, EventsAppended DEF EmissionEvents, DeliveryTypes
  <2> QED
    BY <1>3, <2>1, <2>3 DEF ShipTokens, Tell, DeliveryTypes, callerVars
<1>4. ASSUME NEW j \in Jobs, NEW r \in {"Done", "Error"}, Retire(j, r) PROVE DeliveryTypes'
  <2>1. told' \in [Jobs -> Seq(PortEvents)]
    BY <1>4, TellTypes DEF Retire
  <2>2. [kind |-> "Retire", job |-> j, reply |-> r] \in EmissionEvents
    BY DEF EmissionEvents, RetireEvents
  <2>3. events' \in Seq(EmissionEvents)
    BY <1>4, <2>2, EventsAppended DEF Retire, DeliveryTypes
  <2> QED
    BY <1>4, <2>1, <2>3 DEF Retire, Tell, DeliveryTypes, callerVars
<1>5. ASSUME Exit PROVE DeliveryTypes'
  <2>1. \A j \in Jobs : told[j] \in Seq(PortEvents) /\ Append(told[j], "WorkerDied") \in Seq(PortEvents)
    BY DEF DeliveryTypes, PortEvents
  <2>2. told' \in [Jobs -> Seq(PortEvents)]
    BY <1>5, <2>1 DEF Exit
  <2>3. completion' \in [Jobs -> Verdicts \cup {None}]
    BY <1>5 DEF Exit, DeliveryTypes, Verdicts
  <2> QED
    BY <1>5, <2>2, <2>3 DEF Exit, DeliveryTypes, emissionVars, callerVars
<1> QED
  BY <1>1, <1>2, <1>3, <1>4, <1>5 DEF Worker

LEMMA EmissionTypes ==
  ASSUME DeliveryTypes, Emission
  PROVE  DeliveryTypes'
<1>1. events \in Seq(EmissionEvents)
  BY DEF DeliveryTypes
<1>2. events # <<>> => Head(events) \in EmissionEvents /\ Tail(events) \in Seq(EmissionEvents)
  BY <1>1
<1>3. ASSUME TakeAdmitted PROVE DeliveryTypes'
  <2>1. Head(events).job \in Jobs
    BY <1>2, <1>3 DEF TakeAdmitted, Receives, EmissionEvents, AdmitEvents, TokenEvents, RetireEvents
  <2>2. live' \subseteq Jobs
    BY <1>3, <2>1 DEF TakeAdmitted, DeliveryTypes
  <2> QED
    BY <1>2, <1>3, <2>2 DEF TakeAdmitted, Receives, DeliveryTypes, workerVars, callerVars
<1>4. ASSUME DeliverToken PROVE DeliveryTypes'
  <2>1. Entry \in Entries /\ events' \in Seq(EmissionEvents)
    BY <1>1, <1>2, <1>4, EntryTaken DEF DeliverToken, Receives
  <2>2. Entry.job \in Jobs /\ Entry.token \in Nat
    BY <2>1 DEF Entries
  <2>3. held[Entry.job] \in Seq(Nat)
    BY <2>2 DEF DeliveryTypes
  <2>4. Append(held[Entry.job], Entry.token) \in Seq(Nat) /\ <<>> \in Seq(Nat)
    BY <2>2, <2>3
  <2>5. held' \in [Jobs -> Seq(Nat)]
    BY <1>4, <2>2, <2>4 DEF DeliverToken, Push, DeliveryTypes
  <2>6. items' \in [Jobs -> Seq(Seq(Nat))] /\ done' \in [Jobs -> BOOLEAN]
    <3>1. CASE UNCHANGED <<items, done>>
      BY <3>1 DEF DeliveryTypes
    <3>2. CASE Post(Entry.job, Append(held[Entry.job], Entry.token))
      BY <2>2, <2>4, <3>2, PostTypes
    <3> QED
      BY <1>4, <3>1, <3>2 DEF DeliverToken, Push
  <2> QED
    BY <1>4, <2>1, <2>5, <2>6 DEF DeliverToken, DeliveryTypes, workerVars, callerVars
<1>5. ASSUME FinishRetired PROVE DeliveryTypes'
  <2>1. Head(events).job \in Jobs /\ Head(events).reply \in Verdicts
    BY <1>2, <1>5 DEF FinishRetired, Receives, EmissionEvents, AdmitEvents, TokenEvents, RetireEvents,
                      Verdicts
  <2>2. events' \in Seq(EmissionEvents)
    BY <1>2, <1>5 DEF FinishRetired, Receives
  <2> QED
    BY <1>5, <2>1, <2>2, FinishTypes DEF FinishRetired
<1>6. ASSUME IgnoreRetire PROVE DeliveryTypes'
  BY <1>2, <1>6 DEF IgnoreRetire, Receives, DeliveryTypes, workerVars, callerVars
<1>7. ASSUME NEW j \in Jobs, FinishOrphan(j) PROVE DeliveryTypes'
  BY <1>1, <1>7, FinishTypes DEF FinishOrphan, Verdicts
<1>8. ASSUME Reply PROVE DeliveryTypes'
  <2>1. Head(finishing) \in [job : Jobs, reply : Verdicts]
    <3>1. finishing # <<>> /\ finishing \in Seq([job : Jobs, reply : Verdicts])
      BY <1>8 DEF Reply, DeliveryTypes
    <3>2. \A S : \A s \in Seq(S) : s # <<>> => Head(s) \in S
      OBVIOUS
    <3> QED
      BY <3>1, <3>2, Zenon
  <2>2. Head(finishing).job \in Jobs /\ Head(finishing).reply \in Verdicts
    BY <2>1
  <2>3. completion' \in [Jobs -> Verdicts \cup {None}]
    BY <1>8, <2>2 DEF Reply, DeliveryTypes
  <2>4. finishing' \in Seq([job : Jobs, reply : Verdicts]) /\ Len(finishing') <= 1
    BY <1>8 DEF Reply
  <2> QED
    BY <1>8, <2>3, <2>4 DEF Reply, DeliveryTypes, workerVars, callerVars
<1> QED
  BY <1>3, <1>4, <1>5, <1>6, <1>7, <1>8 DEF Emission

LEMMA CallerTypes ==
  ASSUME DeliveryTypes, NEW j \in Jobs, Listener(j) \/ Caller(j)
  PROVE  DeliveryTypes'
<1>1. /\ items[j] \in Seq(Seq(Nat)) /\ heard[j] \in Seq(Nat) /\ Finished \in Seq(Nat)
      /\ items[j] # <<>> => Head(items[j]) \in Seq(Nat) /\ Tail(items[j]) \in Seq(Seq(Nat))
  BY DEF DeliveryTypes, Finished
<1>2. <<>> \in Seq(Seq(Nat)) /\ Append(items[j], Finished) \in Seq(Seq(Nat))
  BY <1>1
<1>3. CASE HearText(j)
  <2>1. heard[j] \o Head(items[j]) \in Seq(Nat)
    BY <1>1, <1>3 DEF HearText
  <2>2. heard' \in [Jobs -> Seq(Nat)] /\ items' \in [Jobs -> Seq(Seq(Nat))]
    BY <1>1, <1>3, <2>1 DEF HearText, DeliveryTypes
  <2> QED
    BY <1>3, <2>2 DEF HearText, DeliveryTypes, workerVars, emissionVars, callerVars
<1>4. CASE HearFinished(j)
  BY <1>2, <1>4 DEF HearFinished, DeliveryTypes, workerVars, emissionVars
<1>5. CASE ListenerDies(j)
  BY <1>2, <1>5 DEF ListenerDies, DeliveryTypes, workerVars, emissionVars
<1>6. CASE Join(j)
  BY <1>2, <1>6 DEF Join, Took, DeliveryTypes, workerVars, emissionVars
<1>7. CASE JoinFails(j)
  BY <1>7 DEF JoinFails, Took, DeliveryTypes, workerVars, emissionVars
<1>8. CASE Leave(j)
  BY <1>8 DEF Leave, Took, DeliveryTypes, workerVars, emissionVars
<1> QED
  BY <1>3, <1>4, <1>5, <1>6, <1>7, <1>8 DEF Listener, Caller

-------------------------------------------------------------------------------
(* The steps of the worker, for the requests they concern.                 *)

LEMMA RefuseReplies ==
  ASSUME RepliesInv, NEW j \in Jobs, Refuse(j)
  PROVE  RequestInv(j)'
<1>1. told[j] = <<>> /\ worker = "Up" /\ worker' = "Up" /\ events' = events /\ live' = live
      /\ finishing' = finishing /\ answer' = answer /\ caller' = caller /\ completion'[j] = "Error"
  BY DEF Refuse, Queued, Tell, callerVars, RepliesInv, DeliveryTypes
<1>2. told[j] \in Seq(PortEvents) /\ told'[j] = Append(told[j], "Error")
  BY TellTypes DEF Refuse, RepliesInv, DeliveryTypes
<1>3. /\ told'[j] # <<>> /\ Decided(j)' /\ ~Streaming(j)'
      /\ FirstVerdict(j, "Error")'
      /\ \A i \in 1 .. Len(told'[j]) : told'[j][i] # "WorkerDied"
  <2>1. ~Decided(j)
    BY <1>1, Undecided
  <2>2. "Error" \in PortEvents /\ "Error" \in Verdicts
    BY DEF PortEvents, Verdicts
  <2>3. \A i \in 1 .. Len(told[j]) : told[j][i] # "WorkerDied"
    BY <1>1
  <2> QED
    BY <1>2, <2>1, <2>2, <2>3, ToldGrows
<1>4. ~Owned(j) /\ ~Closing(j) /\ Awaited(j) /\ \A i \in 1 .. Len(events) : ~About(events[i], j)
  BY <1>1, QueuedIsFresh
<1>5. ~Owned(j)' /\ ~Closing(j)'
  BY <1>1, <1>4 DEF Owned, Closing
<1>6. PortInv(j)'
  BY <1>1, <1>3 DEF PortInv
<1>7. EventsInv(j)'
  BY <1>1, <1>4, <1>5 DEF EventsInv, About
<1>8. ReplyInv(j)'
  BY <1>1, <1>3, <1>4, <1>5 DEF ReplyInv, Awaited
<1> QED
  BY <1>6, <1>7, <1>8 DEF RequestInv

LEMMA AdmitReplies ==
  ASSUME RepliesInv, NEW j \in Jobs, Admit(j)
  PROVE  RequestInv(j)'
<1> DEFINE e == [kind |-> "Admitted", job |-> j]
           n == Len(events)
<1>1. worker = "Up" /\ worker' = "Up" /\ events' = Append(events, e) /\ live' = live
      /\ finishing' = finishing /\ answer' = answer /\ caller' = caller /\ completion' = completion
  BY DEF Admit, Tell, callerVars
<1>2. told[j] \in Seq(PortEvents) /\ told'[j] = Append(told[j], "Admitted")
  BY TellTypes DEF Admit, RepliesInv, DeliveryTypes
<1>3. told[j] = <<>>
  BY DEF Admit, Tell, Sayable, Queued
<1>4. /\ told'[j] # <<>> /\ ~Decided(j)'
      /\ \A i \in 1 .. Len(told'[j]) : told'[j][i] # "WorkerDied"
  <2>1. ~Decided(j)
    BY <1>3, Undecided
  <2>2. "Admitted" \in PortEvents /\ "Admitted" \notin Verdicts
    BY DEF PortEvents, Verdicts
  <2>3. \A i \in 1 .. Len(told[j]) : told[j][i] # "WorkerDied"
    BY <1>3
  <2> QED
    BY <1>2, <2>1, <2>2, <2>3, ToldGrows
<1>5. ~Owned(j) /\ ~Closing(j) /\ Awaited(j) /\ \A i \in 1 .. n : ~About(events[i], j)
  BY <1>3, QueuedIsFresh
<1>6. Admits(e, j) /\ ~Retires(e, j) /\ ~Carries(e, j)
  BY DEF Admits, Retires, Carries, Places
<1>7. Len(events') = n + 1 /\ n \in Nat /\ events'[n + 1] = e /\ \A i \in 1 .. n : events'[i] = events[i]
  <2>1. e \in EmissionEvents
    BY DEF EmissionEvents, AdmitEvents
  <2> QED
    BY <1>1, <2>1, EventsAppended DEF RepliesInv, DeliveryTypes
<1> HIDE DEF e, n
<1>8. n + 1 \in 1 .. n + 1 /\ \A i \in 1 .. n + 1 : i = n + 1 \/ i \in 1 .. n
  BY <1>7
<1>9. Owned(j)' /\ ~Closing(j)' /\ Awaited(j)' /\ j \notin live'
  BY <1>1, <1>5, <1>6, <1>7, <1>8 DEF Owned, Closing, Awaited
<1>10. \A i \in 1 .. n : ~About(events'[i], j)
  BY <1>5, <1>7
<1>11. PortInv(j)'
  BY <1>1, <1>4, <1>9 DEF PortInv
<1>12. EventsInv(j)'
  <2>1. \A i \in 1 .. n + 1 : ~Retires(events'[i], j) /\ ~Carries(events'[i], j)
    BY <1>6, <1>7, <1>8, <1>10 DEF About
  <2>2. \A i \in 1 .. n + 1 : Admits(events'[i], j) => \A k \in 1 .. i - 1 : ~About(events'[k], j)
    <3>1. \A i \in 1 .. n + 1 : Admits(events'[i], j) => i = n + 1
      BY <1>8, <1>10 DEF About
    <3>2. (n + 1) - 1 = n
      BY <1>7
    <3> QED
      BY <1>10, <3>1, <3>2
  <2> QED
    BY <1>4, <1>7, <1>9, <2>1, <2>2 DEF EventsInv
<1>13. ReplyInv(j)'
  BY <1>9 DEF ReplyInv, Awaited
<1> QED
  BY <1>11, <1>12, <1>13 DEF RequestInv

LEMMA ShipReplies ==
  ASSUME RepliesInv, NEW js \in SUBSET Jobs, ShipTokens(js), NEW j \in js
  PROVE  RequestInv(j)'
<1> DEFINE n == Len(events)
<1>1. worker = "Up" /\ worker' = "Up" /\ live' = live
      /\ finishing' = finishing /\ answer' = answer /\ caller' = caller /\ completion' = completion
  BY DEF ShipTokens, Tell, callerVars
<1>2. PortInv(j) /\ EventsInv(j) /\ ReplyInv(j) /\ j \in Jobs
  BY DEF RepliesInv, RequestInv
<1>3. told[j] \in Seq(PortEvents) /\ told'[j] = Append(told[j], "Token")
  BY TellTypes DEF ShipTokens, RepliesInv, DeliveryTypes
<1>4. Streaming(j)
  BY DEF ShipTokens, Tell, Sayable, FailedOnce
<1>5. ~Decided(j) /\ Owned(j) /\ Awaited(j) /\ ~Closing(j)
  BY <1>2, <1>4 DEF PortInv, ReplyInv
<1>6. /\ told'[j] # <<>> /\ ~Decided(j)'
      /\ \A i \in 1 .. Len(told'[j]) : told'[j][i] # "WorkerDied"
  <2>1. "Token" \in PortEvents /\ "Token" \notin Verdicts
    BY DEF PortEvents, Verdicts
  <2>2. \A i \in 1 .. Len(told[j]) : told[j][i] # "WorkerDied"
    BY <1>1, <1>2 DEF PortInv
  <2> QED
    BY <1>2, <1>3, <1>5, <2>1, <2>2, ToldGrows
<1>7. PICK e \in TokenEvents : events' = Append(events, e)
  BY ShipmentTypes DEF RepliesInv
<1>8. Len(events') = n + 1 /\ n \in Nat /\ events'[n + 1] = e /\ \A i \in 1 .. n : events'[i] = events[i]
  BY <1>7, EventsAppended DEF RepliesInv, DeliveryTypes, EmissionEvents
<1>9. ~Admits(e, j) /\ ~Retires(e, j)
  BY <1>7 DEF TokenEvents, Admits, Retires
<1> HIDE DEF n
<1>10. (\A i \in 1 .. n + 1 : i = n + 1 \/ i \in 1 .. n) /\ \A i \in 1 .. n : i \in 1 .. n + 1
  BY <1>8
<1>11. Owned(j)' /\ ~Closing(j)' /\ Awaited(j)'
  <2>1. Owned(j)'
    BY <1>1, <1>5, <1>8, <1>10 DEF Owned, n
  <2> QED
    BY <1>1, <1>5, <2>1 DEF Closing, Awaited
<1>12. PortInv(j)'
  BY <1>1, <1>6, <1>11 DEF PortInv
<1>13. EventsInv(j)'
  <2>1. \A i \in 1 .. n + 1 : ~Retires(events'[i], j)
    <3>1. \A i \in 1 .. n : ~Retires(events[i], j)
      BY <1>2, <1>5 DEF EventsInv, n
    <3> QED
      BY <3>1, <1>8, <1>9, <1>10
  <2>2. ASSUME NEW i \in 1 .. n + 1, Admits(events'[i], j)
        PROVE  j \notin live' /\ \A k \in 1 .. i - 1 : ~About(events'[k], j)
    <3>1. i \in 1 .. n /\ Admits(events[i], j)
      BY <2>2, <1>8, <1>9, <1>10
    <3>2. j \notin live /\ \A k \in 1 .. i - 1 : ~About(events[k], j)
      BY <3>1, <1>2 DEF EventsInv, n
    <3>3. \A k \in 1 .. i - 1 : k \in 1 .. n
      BY <3>1, <1>8
    <3> QED
      BY <1>1, <1>8, <3>2, <3>3
  <2> QED
    BY <1>6, <1>8, <1>11, <2>1, <2>2 DEF EventsInv
<1>14. ReplyInv(j)'
  BY <1>11 DEF ReplyInv, Awaited
<1> QED
  BY <1>12, <1>13, <1>14 DEF RequestInv

(* The second word on a failed request finds its retirement under way.     *)
LEMMA RetireReplies ==
  ASSUME RepliesInv, NEW j \in Jobs, NEW r \in {"Done", "Error"}, Retire(j, r)
  PROVE  RequestInv(j)'
<1> DEFINE e == [kind |-> "Retire", job |-> j, reply |-> r]
           n == Len(events)
<1>1. worker = "Up" /\ worker' = "Up" /\ events' = Append(events, e) /\ live' = live
      /\ finishing' = finishing /\ answer' = answer /\ caller' = caller /\ completion' = completion
  BY DEF Retire, Tell, callerVars
<1>2. PortInv(j) /\ EventsInv(j) /\ ReplyInv(j)
  BY DEF RepliesInv, RequestInv
<1>3. told[j] \in Seq(PortEvents) /\ told'[j] = Append(told[j], r) /\ told[j] # <<>>
  BY TellTypes DEF Retire, Queued, RepliesInv, DeliveryTypes
<1>4. r \in PortEvents /\ r \in Verdicts /\ r # "WorkerDied"
  BY DEF PortEvents, Verdicts
<1>5. \A i \in 1 .. Len(told[j]) : told[j][i] # "WorkerDied"
  BY <1>1, <1>2 DEF PortInv
<1>6. /\ told'[j] # <<>> /\ Decided(j)' /\ ~Streaming(j)'
      /\ \A i \in 1 .. Len(told'[j]) : told'[j][i] # "WorkerDied"
      /\ \A v : FirstVerdict(j, v) => FirstVerdict(j, v)'
      /\ ~Decided(j) => FirstVerdict(j, r)'
  BY <1>3, <1>4, <1>5, ToldGrows
<1>7. ~FirstVerdict(j, "WorkerDied")
  BY <1>3, <1>5 DEF FirstVerdict
<1>8. ~Admits(e, j) /\ ~Carries(e, j) /\ Retires(e, j) /\ e.reply = r
  BY DEF Admits, Retires, Carries, Places
<1>9. Len(events') = n + 1 /\ n \in Nat /\ events'[n + 1] = e /\ \A i \in 1 .. n : events'[i] = events[i]
  <2>1. e \in EmissionEvents
    BY DEF EmissionEvents, RetireEvents
  <2> QED
    BY <1>1, <2>1, EventsAppended DEF RepliesInv, DeliveryTypes
<1> HIDE DEF e, n
<1>10. /\ n + 1 \in 1 .. n + 1 /\ \A i \in 1 .. n + 1 : i = n + 1 \/ i \in 1 .. n
       /\ \A i \in 1 .. n : i \in 1 .. n + 1 /\ \A k \in 1 .. i - 1 : k \in 1 .. n
  BY <1>9
<1>11. Owned(j)' <=> Owned(j)
  BY <1>1, <1>8, <1>9, <1>10 DEF Owned, n
<1>12. (Awaited(j)' <=> Awaited(j)) /\ (Closing(j)' <=> Closing(j))
  BY <1>1 DEF Awaited, Closing
<1>13. PortInv(j)'
  BY <1>1, <1>6 DEF PortInv
<1>14. EventsInv(j)'
  <2>1. \A i \in 1 .. n + 1 : Admits(events'[i], j) =>
           j \notin live' /\ \A k \in 1 .. i - 1 : ~About(events'[k], j)
    <3>1. \A i \in 1 .. n : Admits(events[i], j) =>
             j \notin live /\ \A k \in 1 .. i - 1 : ~About(events[k], j)
      BY <1>2 DEF EventsInv, n
    <3> QED
      BY <3>1, <1>1, <1>8, <1>9, <1>10
  <2>2. \A i \in 1 .. n + 1 : Carries(events'[i], j) => Owned(j)'
    <3>1. \A i \in 1 .. n : Carries(events[i], j) => Owned(j)
      BY <1>2 DEF EventsInv, n
    <3> QED
      BY <3>1, <1>8, <1>9, <1>10, <1>11
  <2>3. ASSUME NEW i \in 1 .. n + 1, Retires(events'[i], j)
        PROVE  /\ \A k \in i + 1 .. n + 1 : ~Carries(events'[k], j)
               /\ Owned(j) /\ (\A k \in 1 .. i - 1 : ~Retires(events'[k], j))
                    => \A v : v = events'[i].reply => FirstVerdict(j, v)'
    <3>1. CASE i \in 1 .. n
      <4>1. Retires(events[i], j)
        BY <3>1, <2>3, <1>9
      <4>2. /\ \A k \in i + 1 .. n : ~Carries(events[k], j)
            /\ Owned(j) /\ (\A k \in 1 .. i - 1 : ~Retires(events[k], j))
                 => FirstVerdict(j, events[i].reply)
        BY <3>1, <4>1, <1>2 DEF EventsInv, n
      <4>3. \A k \in i + 1 .. n + 1 : k = n + 1 \/ (k \in i + 1 .. n /\ k \in 1 .. n)
        BY <3>1, <1>9
      <4>4. \A k \in i + 1 .. n + 1 : ~Carries(events'[k], j)
        BY <4>2, <4>3, <1>8, <1>9
      <4> QED
        BY <3>1, <4>2, <4>4, <1>6, <1>9, <1>10
    <3>2. CASE i = n + 1
      <4>1. (n + 1) + 1 .. n + 1 = {} /\ 1 .. (n + 1) - 1 = 1 .. n
        BY <1>9
      <4>2. Owned(j) /\ (\A k \in 1 .. n : ~Retires(events'[k], j)) => ~Decided(j)
        <5>1. Owned(j) /\ Decided(j) =>
                FirstVerdict(j, "WorkerDied") \/ \E k \in 1 .. n : Retires(events[k], j)
          BY <1>2 DEF EventsInv, n
        <5> QED
          BY <5>1, <1>7, <1>9
      <4> QED
        BY <3>2, <4>1, <4>2, <1>6, <1>8, <1>9
    <3> QED
      BY <3>1, <3>2, <1>10
  <2>4. \E i \in 1 .. n + 1 : Retires(events'[i], j)
    BY <1>8, <1>9, <1>10
  <2> QED
    BY <2>1, <2>2, <2>3, <2>4, <1>6, <1>9, <1>11 DEF EventsInv
<1>15. ReplyInv(j)'
  BY <1>1, <1>2, <1>6, <1>11, <1>12 DEF ReplyInv
<1> QED
  BY <1>13, <1>14, <1>15 DEF RequestInv

(* The worker goes: its queue is answered, what streams is left behind.    *)
LEMMA ExitReplies ==
  ASSUME RepliesInv, NEW j \in Jobs, Exit
  PROVE  RequestInv(j)'
<1>1. worker = "Up" /\ worker' = "Gone" /\ events' = events /\ live' = live
      /\ finishing' = finishing /\ answer' = answer /\ caller' = caller
      /\ told'[j] = (IF "WorkerDied" \in Sayable(j) THEN Append(told[j], "WorkerDied") ELSE told[j])
      /\ completion'[j] = (IF Queued(j) THEN "WorkerDied" ELSE completion[j])
  BY DEF Exit, emissionVars, callerVars
<1>2. PortInv(j) /\ EventsInv(j) /\ ReplyInv(j) /\ told[j] \in Seq(PortEvents)
  BY DEF RepliesInv, RequestInv, DeliveryTypes
<1>3. "WorkerDied" \in Sayable(j) <=> Queued(j) \/ Streaming(j)
  BY DEF Sayable, PortEvents
<1>4. CASE Queued(j) \/ Streaming(j)
  <2>1. told'[j] = Append(told[j], "WorkerDied") /\ ~Decided(j)
    BY <1>1, <1>2, <1>3, <1>4, Undecided DEF PortInv, Queued
  <2>2. told'[j] # <<>> /\ Decided(j)' /\ ~Streaming(j)' /\ FirstVerdict(j, "WorkerDied")'
    BY <1>2, <2>1, ToldGrows DEF PortEvents, Verdicts
  <2>3. \A v : ~FirstVerdict(j, v)
    BY <2>1, VerdictFacts
  <2>4. \A i \in 1 .. Len(events) : ~Retires(events[i], j)
    BY <2>1, <1>2 DEF EventsInv
  <2>5. (Owned(j)' <=> Owned(j)) /\ (Closing(j)' <=> Closing(j))
    BY <1>1 DEF Owned, Closing
  <2>6. EventsInv(j)'
    BY <1>1, <1>2, <2>2, <2>4, <2>5 DEF EventsInv
  <2>7. PortInv(j)'
    BY <1>1, <2>2 DEF PortInv
  <2>8. CASE Queued(j)
    <3>1. ~Owned(j) /\ ~Closing(j) /\ Awaited(j)
      BY <2>8, QueuedIsFresh DEF Queued
    <3> QED
      BY <1>1, <2>2, <2>5, <2>6, <2>7, <2>8, <3>1 DEF RequestInv, ReplyInv, Awaited
  <2>9. CASE ~Queued(j)
    <3>1. ReplyInv(j)'
      BY <1>1, <1>2, <2>3, <2>5, <2>9 DEF ReplyInv, Awaited
    <3> QED
      BY <2>6, <2>7, <3>1 DEF RequestInv
  <2> QED
    BY <2>8, <2>9
<1>5. CASE ~(Queued(j) \/ Streaming(j))
  <2>1. told'[j] = told[j] /\ told[j] # <<>> /\ ~Streaming(j) /\ completion'[j] = completion[j]
    BY <1>1, <1>3, <1>5 DEF Queued
  <2>2. EventsFollow(0, j)
    BY <1>1, EventsStill DEF RepliesInv, DeliveryTypes
  <2>3. Closing(j)' <=> Closing(j)
    BY <1>1 DEF Closing
  <2> QED
    BY <1>1, <2>1, <2>2, <2>3, Unconcerned
<1> QED
  BY <1>4, <1>5

-------------------------------------------------------------------------------
(* The steps of the emission thread.                                       *)

LEMMA HeadOfEvents ==
  ASSUME DeliveryTypes, NEW kind, Receives(kind)
  PROVE  /\ events \in Seq(EmissionEvents) /\ events # <<>> /\ finishing = <<>>
         /\ Head(events) = events[1] /\ 1 \in 1 .. Len(events)
         /\ events[1] \in EmissionEvents /\ events[1].kind = kind
BY DEF Receives, DeliveryTypes

LEMMA TakeReplies ==
  ASSUME RepliesInv, NEW j \in Jobs, TakeAdmitted
  PROVE  RequestInv(j)'
<1> DEFINE e == events[1]
           n == Len(events)
           m == Len(events')
<1>1. /\ events \in Seq(EmissionEvents) /\ events # <<>> /\ Head(events) = e /\ 1 \in 1 .. n
      /\ e.kind = "Admitted"
  BY HeadOfEvents DEF RepliesInv, TakeAdmitted
<1>2. /\ worker' = worker /\ told' = told /\ finishing' = finishing /\ answer' = answer
      /\ caller' = caller /\ completion' = completion
      /\ events' = Tail(events) /\ live' = live \cup {e.job}
  BY <1>1 DEF TakeAdmitted, workerVars, callerVars
<1>3. n \in Nat /\ m = n - 1 /\ \A i \in 1 .. m : events'[i] = events[i + 1]
  BY <1>1, <1>2, EventsTaken
<1>4. Closing(j)' <=> Closing(j)
  BY <1>2 DEF Closing
<1>5. CASE e.job # j
  <2>1. ~Admits(e, j) /\ ~Retires(e, j)
    BY <1>1, <1>5 DEF Admits, Retires
  <2>2. EventsFollow(1, j)
    BY <1>1, <1>2, <2>1, EventsShift
  <2>3. j \in live' <=> j \in live
    BY <1>2, <1>5
  <2> QED
    BY <1>2, <1>4, <2>2, <2>3, Unconcerned
<1>6. CASE e.job = j
  <2>1. PortInv(j) /\ EventsInv(j) /\ ReplyInv(j)
    BY DEF RepliesInv, RequestInv
  <2>2. Admits(e, j) /\ ~Retires(e, j)
    BY <1>1, <1>6 DEF Admits, Retires
  <2>3. Owned(j) /\ Owned(j)' /\ j \in live'
    BY <1>1, <1>2, <1>6, <2>2 DEF Owned
  <2>4. /\ Decided(j)' <=> Decided(j)
        /\ Streaming(j)' <=> Streaming(j)
        /\ \A v : FirstVerdict(j, v)' <=> FirstVerdict(j, v)
        /\ Awaited(j)' <=> Awaited(j)
    BY <1>2 DEF Decided, Streaming, FirstVerdict, Awaited
  <2> HIDE DEF n, m, e
  <2>5. /\ \A i \in 1 .. m : i + 1 \in 1 .. n /\ (i + 1) - 1 = i /\ 1 \in 1 .. (i + 1) - 1
        /\ \A i \in 1 .. n : i = 1 \/ (i - 1 \in 1 .. m /\ (i - 1) + 1 = i)
        /\ \A i \in 1 .. m : \A k \in i + 1 .. m : k + 1 \in (i + 1) + 1 .. n /\ k + 1 \in 1 .. n
        /\ \A i \in 1 .. m : \A k \in 1 .. (i + 1) - 1 :
             k = 1 \/ (k - 1 \in 1 .. i - 1 /\ (k - 1) + 1 = k /\ k - 1 \in 1 .. m)
    BY <1>3
  <2>6. \A i \in 1 .. m : ~Admits(events'[i], j)
    <3>1. SUFFICES ASSUME NEW i \in 1 .. m, Admits(events[i + 1], j) PROVE FALSE
      BY <1>3
    <3>2. ~About(e, j)
      BY <2>1, <2>5, <3>1 DEF EventsInv, n, e
    <3> QED
      BY <2>2, <3>2 DEF About
  <2>7. ASSUME NEW i \in 1 .. m, Retires(events'[i], j)
        PROVE  /\ Decided(j)
               /\ \A k \in i + 1 .. m : ~Carries(events'[k], j)
               /\ (\A k \in 1 .. i - 1 : ~Retires(events'[k], j)) => FirstVerdict(j, events[i + 1].reply)
    <3>1. Retires(events[i + 1], j) /\ i + 1 \in 1 .. n
      BY <1>3, <2>5, <2>7
    <3>2. /\ Decided(j)
          /\ \A k \in (i + 1) + 1 .. n : ~Carries(events[k], j)
          /\ (\A k \in 1 .. (i + 1) - 1 : ~Retires(events[k], j)) => FirstVerdict(j, events[i + 1].reply)
      BY <2>1, <2>3, <3>1 DEF EventsInv, n
    <3>3. \A k \in i + 1 .. m : ~Carries(events'[k], j)
      <4>1. \A k \in i + 1 .. m : k \in 1 .. m
        BY <1>3, <3>1
      <4> QED
        BY <4>1, <3>2, <1>3, <2>5
    <3>4. (\A k \in 1 .. i - 1 : ~Retires(events'[k], j)) => \A k \in 1 .. (i + 1) - 1 : ~Retires(events[k], j)
      BY <1>3, <2>2, <2>5 DEF e
    <3> QED
      BY <3>2, <3>3, <3>4
  <2>8. (\E i \in 1 .. n : Retires(events[i], j)) => \E i \in 1 .. m : Retires(events'[i], j)
    BY <1>3, <2>2, <2>5 DEF e
  <2>9. EventsInv(j)'
    BY <1>3, <2>1, <2>3, <2>4, <2>5, <2>6, <2>7, <2>8, <1>2 DEF EventsInv, n, m
  <2>10. PortInv(j)'
    BY <1>2, <2>1, <2>3, <2>4 DEF PortInv
  <2>11. ReplyInv(j)'
    BY <1>2, <1>4, <2>1, <2>3, <2>4 DEF ReplyInv
  <2> QED
    BY <2>9, <2>10, <2>11 DEF RequestInv
<1> QED
  BY <1>5, <1>6

LEMMA DeliverReplies ==
  ASSUME RepliesInv, NEW j \in Jobs, DeliverToken
  PROVE  RequestInv(j)'
<1>1. /\ worker' = worker /\ told' = told /\ finishing' = finishing /\ answer' = answer
      /\ caller' = caller /\ completion' = completion /\ live' = live
      /\ events \in Seq(EmissionEvents)
  BY DEF DeliverToken, workerVars, callerVars, RepliesInv, DeliveryTypes
<1>2. EventsFollow(0, j) \/ EventsFollow(1, j)
  BY <1>1, EventsTrimmed DEF DeliverToken
<1>3. Closing(j)' <=> Closing(j)
  BY <1>1 DEF Closing
<1> QED
  BY <1>1, <1>2, <1>3, Unconcerned

(* Once retired, a request is in nobody's hands: what the events still say *)
(* of it is a second retirement.                                           *)
LEMMA RetirementTaken ==
  ASSUME RepliesInv, NEW j \in Jobs, Receives("Retire"), Head(events).job = j,
         events' = Tail(events), told' = told, j \notin live'
  PROVE  /\ ~Owned(j)' /\ EventsInv(j)' /\ Decided(j)
         /\ j \notin live => ~Owned(j)
         /\ Owned(j) => FirstVerdict(j, Head(events).reply)
<1> DEFINE e == events[1]
           n == Len(events)
           m == Len(events')
<1>1. /\ events \in Seq(EmissionEvents) /\ events # <<>> /\ Head(events) = e /\ 1 \in 1 .. n
      /\ e.kind = "Retire"
  BY HeadOfEvents DEF RepliesInv
<1>2. n \in Nat /\ m = n - 1 /\ \A i \in 1 .. m : events'[i] = events[i + 1]
  BY <1>1, EventsTaken
<1>3. EventsInv(j)
  BY DEF RepliesInv, RequestInv
<1>4. Retires(e, j) /\ ~Admits(e, j)
  BY <1>1 DEF Admits, Retires
<1> HIDE DEF n, m, e
<1>5. /\ \A i \in 1 .. m : i + 1 \in 1 .. n /\ 1 \in 1 .. (i + 1) - 1
      /\ \A i \in 1 .. m : i + 1 \in 1 + 1 .. n
      /\ \A i \in 1 .. n : i = 1 \/ 1 \in 1 .. i - 1
      /\ 1 .. 1 - 1 = {}
  BY <1>2
<1>6. \A i \in 1 .. n : ~Admits(events[i], j)
  <2>1. SUFFICES ASSUME NEW i \in 1 .. n, Admits(events[i], j) PROVE FALSE
    OBVIOUS
  <2>2. \A k \in 1 .. i - 1 : ~About(events[k], j)
    BY <1>3, <2>1 DEF EventsInv, n
  <2> QED
    BY <1>4, <1>5, <2>1, <2>2 DEF About, e
<1>7. ~Owned(j)' /\ (j \notin live => ~Owned(j))
  BY <1>2, <1>5, <1>6 DEF Owned, n, m
<1>8. /\ Decided(j)
      /\ \A k \in 1 + 1 .. n : ~Carries(events[k], j)
      /\ Owned(j) => FirstVerdict(j, e.reply)
  BY <1>1, <1>3, <1>4, <1>5 DEF EventsInv, n, e
<1>9. Decided(j)'
  BY <1>8 DEF Decided
<1>10. EventsInv(j)'
  <2>1. \A i \in 1 .. m : ~Carries(events'[i], j) /\ ~Admits(events'[i], j)
    BY <1>2, <1>5, <1>6, <1>8
  <2>2. \A i \in 1 .. m : \A k \in i + 1 .. m : k \in 1 .. m
    BY <1>2
  <2> QED
    BY <1>7, <1>9, <2>1, <2>2 DEF EventsInv, m
<1> QED
  BY <1>1, <1>7, <1>8, <1>10

LEMMA FinishReplies ==
  ASSUME RepliesInv, NEW j \in Jobs, FinishRetired
  PROVE  RequestInv(j)'
<1> DEFINE e == events[1]
<1>1. /\ events \in Seq(EmissionEvents) /\ events # <<>> /\ Head(events) = e
      /\ e.kind = "Retire" /\ finishing = <<>>
  BY HeadOfEvents DEF RepliesInv, FinishRetired
<1>2. /\ worker' = worker /\ told' = told /\ answer' = answer /\ caller' = caller
      /\ completion' = completion /\ events' = Tail(events) /\ live' = live \ {e.job}
      /\ finishing' = <<[job |-> e.job, reply |-> e.reply]>> /\ e.job \in live
  BY <1>1 DEF FinishRetired, Finish, NoLonger, workerVars, callerVars
<1>3. /\ ~Closing(j) /\ (Closing(j)' <=> e.job = j)
      /\ Closing(j)' => Head(finishing').reply = e.reply
  BY <1>1, <1>2 DEF Closing
<1>4. CASE e.job # j
  <2>1. ~Admits(e, j) /\ ~Retires(e, j)
    BY <1>1, <1>4 DEF Admits, Retires
  <2>2. EventsFollow(1, j)
    BY <1>1, <1>2, <2>1, EventsShift
  <2>3. j \in live' <=> j \in live
    BY <1>2, <1>4
  <2> QED
    BY <1>2, <1>3, <1>4, <2>2, <2>3, Unconcerned
<1>5. CASE e.job = j
  <2>1. PortInv(j) /\ ReplyInv(j)
    BY DEF RepliesInv, RequestInv
  <2>2. Owned(j)
    BY <1>2, <1>5 DEF Owned
  <2>3. /\ ~Owned(j)' /\ EventsInv(j)' /\ Decided(j)
        /\ FirstVerdict(j, e.reply)
    BY <1>1, <1>2, <1>5, <2>2, RetirementTaken DEF FinishRetired
  <2>4. FirstVerdict(j, e.reply) => \A v : v = e.reply => FirstVerdict(j, v)'
    BY <1>2 DEF FirstVerdict
  <2>5. (Streaming(j)' <=> Streaming(j)) /\ (Awaited(j)' <=> Awaited(j))
    BY <1>2 DEF Streaming, Awaited
  <2>6. PortInv(j)'
    BY <1>2, <2>1, <2>3, <2>5 DEF PortInv
  <2>7. ReplyInv(j)'
    BY <1>2, <1>3, <2>1, <2>2, <2>3, <2>4, <2>5 DEF ReplyInv, Awaited
  <2> QED
    BY <2>3, <2>6, <2>7 DEF RequestInv
<1> QED
  BY <1>4, <1>5

LEMMA IgnoreReplies ==
  ASSUME RepliesInv, NEW j \in Jobs, IgnoreRetire
  PROVE  RequestInv(j)'
<1> DEFINE e == events[1]
<1>1. /\ events \in Seq(EmissionEvents) /\ events # <<>> /\ Head(events) = e
      /\ e.kind = "Retire" /\ finishing = <<>>
  BY HeadOfEvents DEF RepliesInv, IgnoreRetire
<1>2. /\ worker' = worker /\ told' = told /\ answer' = answer /\ caller' = caller
      /\ completion' = completion /\ events' = Tail(events) /\ live' = live
      /\ finishing' = finishing /\ e.job \notin live
  BY <1>1 DEF IgnoreRetire, workerVars, callerVars
<1>3. Closing(j)' <=> Closing(j)
  BY <1>2 DEF Closing
<1>4. CASE e.job # j
  <2>1. ~Admits(e, j) /\ ~Retires(e, j)
    BY <1>1, <1>4 DEF Admits, Retires
  <2>2. EventsFollow(1, j)
    BY <1>1, <1>2, <2>1, EventsShift
  <2> QED
    BY <1>2, <1>3, <2>2, Unconcerned
<1>5. CASE e.job = j
  <2>1. PortInv(j) /\ ReplyInv(j)
    BY DEF RepliesInv, RequestInv
  <2>2. ~Owned(j)' /\ EventsInv(j)' /\ Decided(j) /\ ~Owned(j)
    BY <1>1, <1>2, <1>5, RetirementTaken DEF IgnoreRetire
  <2>3. /\ Streaming(j)' <=> Streaming(j)
        /\ Awaited(j)' <=> Awaited(j)
        /\ \A v : FirstVerdict(j, v)' <=> FirstVerdict(j, v)
    BY <1>2 DEF Streaming, Awaited, FirstVerdict
  <2>4. PortInv(j)'
    BY <1>2, <2>1, <2>2, <2>3 DEF PortInv
  <2>5. ReplyInv(j)'
    BY <1>2, <1>3, <2>1, <2>2, <2>3 DEF ReplyInv
  <2> QED
    BY <2>2, <2>4, <2>5 DEF RequestInv
<1> QED
  BY <1>4, <1>5

(* A request that was left behind without a verdict has been given one.    *)
LEMMA OrphanReplies ==
  ASSUME RepliesInv, NEW k \in Jobs, FinishOrphan(k), NEW j \in Jobs
  PROVE  RequestInv(j)'
<1>1. /\ worker = "Gone" /\ events = <<>> /\ finishing = <<>> /\ k \in live
      /\ worker' = worker /\ told' = told /\ answer' = answer /\ caller' = caller
      /\ completion' = completion /\ events' = events /\ live' = live \ {k}
      /\ finishing' = <<[job |-> k, reply |-> "WorkerDied"]>>
  BY DEF FinishOrphan, Disconnected, Finish, NoLonger, workerVars, callerVars
<1>2. /\ ~Closing(j) /\ (Closing(j)' <=> j = k)
      /\ Closing(j)' => Head(finishing').reply = "WorkerDied"
  BY <1>1 DEF Closing
<1>3. CASE j # k
  <2>1. EventsFollow(0, j)
    BY <1>1, EventsStill DEF RepliesInv, DeliveryTypes
  <2> QED
    BY <1>1, <1>2, <1>3, <2>1, Unconcerned
<1>4. CASE j = k
  <2>1. PortInv(j) /\ EventsInv(j) /\ ReplyInv(j) /\ told[j] \in Seq(PortEvents)
    BY DEF RepliesInv, RequestInv, DeliveryTypes
  <2>2. Owned(j) /\ told[j] # <<>> /\ ~Streaming(j)
    BY <1>1, <1>4, <2>1 DEF Owned, PortInv
  <2>3. Decided(j)
    <3>1. Len(told[j]) \in DOMAIN told[j] /\ told[j][Len(told[j])] \in PortEvents
      BY <2>1, <2>2
    <3> QED
      BY <2>2, <3>1 DEF Streaming, Decided, Last, PortEvents, Verdicts
  <2>4. Len(events) = 0 /\ 1 .. 0 = {}
    BY <1>1
  <2>5. FirstVerdict(j, "WorkerDied")
    BY <2>1, <2>2, <2>3, <2>4 DEF EventsInv
  <2>6. ~Owned(j)' /\ \A i \in 1 .. Len(events') : FALSE
    BY <1>1, <1>4, <2>4 DEF Owned
  <2>7. /\ Decided(j)' /\ FirstVerdict(j, "WorkerDied")'
        /\ Streaming(j)' <=> Streaming(j)
        /\ Awaited(j)' <=> Awaited(j)
    BY <1>1, <2>3, <2>5 DEF Decided, FirstVerdict, Streaming, Awaited
  <2>8. PortInv(j)'
    BY <1>1, <2>2, <2>7 DEF PortInv
  <2>9. EventsInv(j)'
    BY <2>6 DEF EventsInv
  <2>10. ReplyInv(j)'
    BY <1>1, <1>2, <2>1, <2>2, <2>6, <2>7 DEF ReplyInv, Awaited
  <2> QED
    BY <2>8, <2>9, <2>10 DEF RequestInv
<1> QED
  BY <1>3, <1>4

LEMMA ReplyReplies ==
  ASSUME RepliesInv, Reply, NEW j \in Jobs
  PROVE  RequestInv(j)'
<1> DEFINE f == Head(finishing)
<1>1. /\ worker' = worker /\ told' = told /\ answer' = answer /\ caller' = caller
      /\ events' = events /\ live' = live /\ finishing # <<>> /\ finishing' = <<>>
      /\ completion' = [completion EXCEPT ![f.job] = f.reply]
      /\ completion \in [Jobs -> Verdicts \cup {None}]
  BY DEF Reply, workerVars, callerVars, RepliesInv, DeliveryTypes
<1>2. ~Closing(j)' /\ (Closing(j) <=> f.job = j)
  BY <1>1 DEF Closing
<1>3. PortInv(j) /\ EventsInv(j) /\ ReplyInv(j)
  BY DEF RepliesInv, RequestInv
<1>4. EventsFollow(0, j)
  BY <1>1, EventsStill DEF RepliesInv, DeliveryTypes
<1> HIDE DEF f
<1>5. CASE f.job # j
  BY <1>1, <1>2, <1>4, <1>5, Unconcerned
<1>6. CASE f.job = j
  <2>1. Awaited(j) /\ FirstVerdict(j, f.reply) /\ ~Owned(j) /\ completion'[j] = f.reply
    BY <1>1, <1>2, <1>3, <1>6 DEF ReplyInv, f
  <2>2. (Owned(j)' <=> Owned(j)) /\ (Streaming(j)' <=> Streaming(j)) /\ (Decided(j)' <=> Decided(j))
        /\ \A v : FirstVerdict(j, v)' <=> FirstVerdict(j, v)
    BY <1>1 DEF Owned, Streaming, Decided, FirstVerdict
  <2>3. PortInv(j)'
    BY <1>1, <1>3, <2>2 DEF PortInv
  <2>4. EventsInv(j)'
    BY <1>1, <1>3, <2>2 DEF EventsInv
  <2>5. ReplyInv(j)'
    BY <1>1, <1>2, <2>1, <2>2 DEF ReplyInv, Awaited
  <2> QED
    BY <2>3, <2>4, <2>5 DEF RequestInv
<1> QED
  BY <1>5, <1>6

-------------------------------------------------------------------------------
(* The steps of the listeners and of the callers.                          *)

LEMMA ListenerReplies ==
  ASSUME RepliesInv, NEW k \in Jobs, Listener(k), NEW j \in Jobs
  PROVE  RequestInv(j)'
<1>1. /\ worker' = worker /\ told' = told /\ answer' = answer /\ completion' = completion
      /\ events' = events /\ live' = live /\ finishing' = finishing
  BY DEF Listener, HearText, HearFinished, ListenerDies, workerVars, emissionVars, callerVars
<1>2. caller \in [Jobs -> {"Waiting", "Joining", "Returned", "Broken", "Left"}]
      /\ items[k] \in Seq(Seq(Nat))
  BY DEF RepliesInv, DeliveryTypes
<1>3. caller'[j] = "Waiting" <=> caller[j] = "Waiting"
  <2>1. CASE HearText(k)
    BY <2>1 DEF HearText, callerVars
  <2>2. CASE HearFinished(k)
    <3>1. items[k] # <<>> /\ items[k][1] = Finished /\ caller' = [caller EXCEPT ![k] = "Returned"]
      BY <1>2, <2>2 DEF HearFinished
    <3>2. 1 \in 1 .. Len(items[k])
      BY <1>2, <3>1
    <3>3. caller[k] = "Joining"
      BY <3>1, <3>2 DEF RepliesInv, FinishedInv
    <3> QED
      BY <1>2, <3>1, <3>3
  <2>3. CASE ListenerDies(k)
    BY <1>2, <2>3 DEF ListenerDies
  <2> QED
    BY <2>1, <2>2, <2>3 DEF Listener
<1>4. EventsFollow(0, j)
  BY <1>1, EventsStill DEF RepliesInv, DeliveryTypes
<1>5. Closing(j)' <=> Closing(j)
  BY <1>1 DEF Closing
<1> QED
  BY <1>1, <1>3, <1>4, <1>5, Unconcerned

LEMMA CallerReplies ==
  ASSUME RepliesInv, NEW k \in Jobs, Caller(k), NEW j \in Jobs
  PROVE  RequestInv(j)'
<1>1. /\ worker' = worker /\ told' = told /\ events' = events /\ live' = live /\ finishing' = finishing
      /\ caller[k] = "Waiting" /\ completion[k] # None
      /\ answer' = [answer EXCEPT ![k] = completion[k]]
      /\ completion' = [completion EXCEPT ![k] = None]
  BY DEF Caller, Join, JoinFails, Leave, Took, workerVars, emissionVars
<1>2. /\ completion \in [Jobs -> Verdicts \cup {None}] /\ answer \in [Jobs -> Verdicts \cup {None}]
      /\ caller \in [Jobs -> {"Waiting", "Joining", "Returned", "Broken", "Left"}]
  BY DEF RepliesInv, DeliveryTypes
<1>3. caller' \in {[caller EXCEPT ![k] = c] : c \in {"Joining", "Broken", "Left"}}
  BY DEF Caller, Join, JoinFails, Leave
<1>4. Closing(j)' <=> Closing(j)
  BY <1>1 DEF Closing
<1>5. CASE j # k
  <2>1. EventsFollow(0, j)
    BY <1>1, EventsStill DEF RepliesInv, DeliveryTypes
  <2>2. completion'[j] = completion[j] /\ answer'[j] = answer[j] /\ caller'[j] = caller[j]
    BY <1>1, <1>2, <1>3, <1>5
  <2> QED
    BY <1>1, <1>4, <2>1, <2>2, Unconcerned
<1>6. CASE j = k
  <2>1. PortInv(j) /\ EventsInv(j) /\ ReplyInv(j)
    BY DEF RepliesInv, RequestInv
  <2>2. ~Owned(j) /\ ~Closing(j) /\ FirstVerdict(j, completion[j])
    BY <1>1, <1>6, <2>1 DEF ReplyInv, Awaited
  <2>3. completion'[j] = None /\ answer'[j] = completion[j] /\ answer'[j] # None /\ caller'[j] # "Waiting"
    BY <1>1, <1>2, <1>3, <1>6
  <2>4. (Owned(j)' <=> Owned(j)) /\ (Streaming(j)' <=> Streaming(j)) /\ (Decided(j)' <=> Decided(j))
        /\ \A v : FirstVerdict(j, v)' <=> FirstVerdict(j, v)
    BY <1>1 DEF Owned, Streaming, Decided, FirstVerdict
  <2>5. PortInv(j)'
    BY <1>1, <2>1, <2>4 DEF PortInv
  <2>6. EventsInv(j)'
    BY <1>1, <2>1, <2>4 DEF EventsInv
  <2>7. ReplyInv(j)'
    BY <1>4, <2>2, <2>3, <2>4 DEF ReplyInv
  <2> QED
    BY <2>5, <2>6, <2>7 DEF RequestInv
<1> QED
  BY <1>5, <1>6

-------------------------------------------------------------------------------
(* Finished is the last item of a listener's channel.                      *)

LEMMA ItemsKept ==
  ASSUME NEW j \in Jobs, FinishedInv(j), items'[j] = items[j], caller'[j] = caller[j]
  PROVE  FinishedInv(j)'
BY DEF FinishedInv

LEMMA PostKeepsFinished ==
  ASSUME RepliesInv, NEW k \in Jobs, k \in live, NEW s \in Seq(Nat), s # <<>>,
         Post(k, s), caller' = caller, NEW j \in Jobs
  PROVE  FinishedInv(j)'
<1>1. FinishedInv(j) /\ items \in [Jobs -> Seq(Seq(Nat))] /\ caller[k] = "Waiting"
  BY DEF RepliesInv, RequestInv, DeliveryTypes, ReplyInv, Owned, Awaited
<1>2. CASE items'[j] = items[j]
  BY <1>1, <1>2, ItemsKept
<1>3. CASE items'[j] # items[j]
  <2>1. j = k /\ items'[j] = Append(items[j], s)
    BY <1>1, <1>3 DEF Post
  <2>2. \A i \in 1 .. Len(items'[j]) : items'[j][i] = s \/ (i \in 1 .. Len(items[j]) /\ items'[j][i] = items[j][i])
    <3>1. \A q \in Seq(Seq(Nat)) : \A i \in 1 .. Len(Append(q, s)) :
             Append(q, s)[i] = s \/ (i \in 1 .. Len(q) /\ Append(q, s)[i] = q[i])
      OBVIOUS
    <3> QED
      BY <1>1, <2>1, <3>1
  <2> QED
    BY <1>1, <2>1, <2>2 DEF FinishedInv, Finished
<1> QED
  BY <1>2, <1>3

LEMMA EmissionFinished ==
  ASSUME RepliesInv, Emission, NEW j \in Jobs
  PROVE  FinishedInv(j)'
<1>1. caller' = caller /\ FinishedInv(j) /\ DeliveryTypes
  BY DEF Emission, TakeAdmitted, DeliverToken, FinishRetired, IgnoreRetire, FinishOrphan, Finish,
         Reply, callerVars, RepliesInv
<1>2. CASE items' = items
  BY <1>1, <1>2, ItemsKept
<1>3. CASE DeliverToken /\ items' # items
  <2>1. Entry \in Entries /\ Entry.job \in live
    BY <1>1, <1>3, EntryTaken DEF DeliverToken, DeliveryTypes
  <2>2. Post(Entry.job, Append(held[Entry.job], Entry.token))
    BY <1>3, <2>1 DEF DeliverToken, Push
  <2>3. Entry.job \in Jobs /\ Entry.token \in Nat /\ held[Entry.job] \in Seq(Nat)
    BY <1>1, <2>1 DEF Entries, DeliveryTypes
  <2>4. /\ Append(held[Entry.job], Entry.token) \in Seq(Nat)
        /\ Append(held[Entry.job], Entry.token) # <<>>
    BY <2>3
  <2> QED
    BY <1>1, <2>1, <2>2, <2>3, <2>4, PostKeepsFinished
<1>4. ASSUME NEW k \in Jobs, k \in live, Flush(k), items' # items
      PROVE  FinishedInv(j)'
  <2>1. held[k] # <<>> /\ held[k] \in Seq(Nat) /\ Post(k, held[k])
    BY <1>1, <1>4 DEF Flush, DeliveryTypes
  <2> QED
    BY <1>1, <1>4, <2>1, PostKeepsFinished
<1>5. CASE FinishRetired
  <2>1. Head(events).job \in live /\ Flush(Head(events).job)
    BY <1>5 DEF FinishRetired, Finish
  <2>2. Head(events).job \in Jobs
    BY <1>1, <2>1 DEF DeliveryTypes
  <2> QED
    BY <1>2, <1>4, <2>1, <2>2
<1>6. CASE \E k \in Jobs : FinishOrphan(k)
  BY <1>2, <1>4, <1>6 DEF FinishOrphan, Finish
<1> QED
  BY <1>2, <1>3, <1>5, <1>6 DEF Emission, TakeAdmitted, IgnoreRetire, Reply

LEMMA CallerFinished ==
  ASSUME RepliesInv, NEW k \in Jobs, Listener(k) \/ Caller(k), NEW j \in Jobs
  PROVE  FinishedInv(j)'
<1>1. /\ FinishedInv(j) /\ items \in [Jobs -> Seq(Seq(Nat))]
      /\ caller \in [Jobs -> {"Waiting", "Joining", "Returned", "Broken", "Left"}]
  BY DEF RepliesInv, DeliveryTypes
<1>2. CASE j # k
  <2>1. items'[j] = items[j] /\ caller'[j] = caller[j]
    BY <1>1, <1>2 DEF Listener, HearText, HearFinished, ListenerDies, Caller, Join, JoinFails, Leave,
                      callerVars
  <2> QED
    BY <1>1, <2>1, ItemsKept
<1>3. CASE j = k /\ HearText(k)
  <2>1. items[j] # <<>> /\ items'[j] = Tail(items[j]) /\ caller' = caller
    BY <1>1, <1>3 DEF HearText, callerVars
  <2>2. /\ Len(items'[j]) = Len(items[j]) - 1 /\ Len(items[j]) \in Nat
        /\ \A i \in 1 .. Len(items'[j]) : i + 1 \in 1 .. Len(items[j]) /\ items'[j][i] = items[j][i + 1]
    <3>1. \A q \in Seq(Seq(Nat)) : q # <<>> =>
            /\ Len(Tail(q)) = Len(q) - 1 /\ Len(q) \in Nat
            /\ \A i \in 1 .. Len(Tail(q)) : i + 1 \in 1 .. Len(q) /\ Tail(q)[i] = q[i + 1]
      OBVIOUS
    <3> QED
      BY <1>1, <2>1, <3>1
  <2>3. \A i \in 1 .. Len(items'[j]) : i + 1 = Len(items[j]) => i = Len(items'[j])
    BY <2>2
  <2> QED
    BY <1>1, <2>1, <2>2, <2>3 DEF FinishedInv
<1>4. CASE j = k /\ (HearFinished(k) \/ ListenerDies(k))
  <2>1. items'[j] = <<>>
    BY <1>1, <1>4 DEF HearFinished, ListenerDies
  <2>2. 1 .. Len(items'[j]) = {}
    BY <2>1
  <2> QED
    BY <2>2 DEF FinishedInv
<1>5. CASE j = k /\ Caller(k)
  <2>1. caller[j] = "Waiting"
    BY <1>5 DEF Caller, Join, JoinFails, Leave, Took
  <2>2. \A i \in 1 .. Len(items[j]) : items[j][i] # Finished
    BY <1>1, <2>1 DEF FinishedInv
  <2>3. CASE Join(k)
    <3>1. items'[j] = Append(items[j], Finished) /\ caller'[j] = "Joining"
      BY <1>1, <1>5, <2>3 DEF Join
    <3>2. \A i \in 1 .. Len(items'[j]) : i = Len(items'[j]) \/ items'[j][i] # Finished
      <4>1. \A q \in Seq(Seq(Nat)) : \A s : \A i \in 1 .. Len(Append(q, s)) :
               i = Len(Append(q, s)) \/ (i \in 1 .. Len(q) /\ Append(q, s)[i] = q[i])
        OBVIOUS
      <4> QED
        BY <1>1, <2>2, <3>1, <4>1
    <3> QED
      BY <3>1, <3>2 DEF FinishedInv
  <2>4. CASE JoinFails(k) \/ Leave(k)
    <3>1. items'[j] = items[j]
      BY <2>4 DEF JoinFails, Leave
    <3> QED
      BY <2>2, <3>1 DEF FinishedInv, Finished
  <2> QED
    BY <1>5, <2>3, <2>4 DEF Caller
<1> QED
  BY <1>2, <1>3, <1>4, <1>5 DEF Listener

-------------------------------------------------------------------------------
(* The invariant of the replies.                                           *)

LEMMA RepliesInit == Init => RepliesInv
<1>1. SUFFICES ASSUME Init PROVE RepliesInv
  OBVIOUS
<1>2. DeliveryTypes
  BY <1>1 DEF Init, PortInit, DeliveryTypes
<1>3. ASSUME NEW j \in Jobs PROVE RequestInv(j) /\ FinishedInv(j)
  <2>1. /\ told[j] = <<>> /\ worker = "Up" /\ events = <<>> /\ live = {} /\ finishing = <<>>
        /\ completion[j] = None /\ answer[j] = None /\ caller[j] = "Waiting" /\ items[j] = <<>>
    BY <1>1 DEF Init, PortInit
  <2>2. 1 .. Len(events) = {} /\ 1 .. Len(told[j]) = {} /\ 1 .. Len(items[j]) = {}
    BY <2>1
  <2>3. ~Owned(j) /\ ~Closing(j) /\ ~Streaming(j) /\ ~Decided(j)
    BY <2>1, <2>2, Undecided DEF Owned, Closing
  <2> QED
    BY <2>1, <2>2, <2>3 DEF RequestInv, PortInv, EventsInv, ReplyInv, FinishedInv
<1> QED
  BY <1>2, <1>3 DEF RepliesInv

LEMMA RepliesStep == RepliesInv /\ [Next]_vars => RepliesInv'
<1> SUFFICES ASSUME RepliesInv, [Next]_vars PROVE RepliesInv'
  OBVIOUS
<1>1. DeliveryTypes
  BY DEF RepliesInv
<1>2. CASE Worker
  <2>1. DeliveryTypes'
    BY <1>1, <1>2, WorkerTypes
  <2>2. ASSUME NEW j \in Jobs PROVE RequestInv(j)'
    <3>1. ASSUME NEW js \in SUBSET Jobs, j \notin js, NEW e, Tell(js, e), worker' = worker,
                 completion'[j] = completion[j], EventsFollow(0, j)
          PROVE  RequestInv(j)'
      <4>1. told'[j] = told[j] /\ answer' = answer /\ caller' = caller /\ live' = live
            /\ finishing' = finishing
        BY <3>1 DEF Tell, callerVars
      <4>2. Closing(j)' <=> Closing(j)
        BY <4>1 DEF Closing
      <4> QED
        BY <3>1, <4>1, <4>2, Unconcerned
    <3>2. ASSUME NEW k \in Jobs, k # j, Refuse(k) PROVE RequestInv(j)'
      <4>1. EventsFollow(0, j)
        BY <1>1, <3>2, EventsStill DEF Refuse, DeliveryTypes
      <4>2. completion'[j] = completion[j] /\ worker' = worker
        BY <1>1, <3>2 DEF Refuse, DeliveryTypes
      <4> QED
        BY <3>1, <3>2, <4>1, <4>2 DEF Refuse
    <3>3. ASSUME NEW k \in Jobs, k # j, Admit(k) PROVE RequestInv(j)'
      <4> DEFINE e == [kind |-> "Admitted", job |-> k]
      <4>1. e \in EmissionEvents /\ ~About(e, j)
        BY <3>3 DEF EmissionEvents, AdmitEvents, About, Admits, Retires, Carries, Places
      <4>2. EventsFollow(0, j)
        BY <1>1, <3>3, <4>1, EventsOfOthers DEF Admit, DeliveryTypes
      <4> QED
        BY <3>1, <3>3, <4>2 DEF Admit
    <3>4. ASSUME NEW js \in SUBSET Jobs, j \notin js, ShipTokens(js) PROVE RequestInv(j)'
      <4>1. PICK e \in TokenEvents :
               /\ events' = Append(events, e)
               /\ \A i \in 1 .. Len(e.batch) : e.batch[i].job \in js
        BY <1>1, <3>4, ShipmentTypes
      <4>2. e \in EmissionEvents /\ ~About(e, j)
        BY <3>4, <4>1 DEF EmissionEvents, TokenEvents, About, Admits, Retires, Carries, Places
      <4>3. EventsFollow(0, j)
        BY <1>1, <4>1, <4>2, EventsOfOthers DEF DeliveryTypes
      <4> QED
        BY <3>1, <3>4, <4>3 DEF ShipTokens
    <3>5. ASSUME NEW k \in Jobs, k # j, NEW r \in {"Done", "Error"}, Retire(k, r) PROVE RequestInv(j)'
      <4> DEFINE e == [kind |-> "Retire", job |-> k, reply |-> r]
      <4>1. e \in EmissionEvents /\ ~About(e, j)
        BY <3>5 DEF EmissionEvents, RetireEvents, About, Admits, Retires, Carries, Places
      <4>2. EventsFollow(0, j)
        BY <1>1, <3>5, <4>1, EventsOfOthers DEF Retire, DeliveryTypes
      <4> QED
        BY <3>1, <3>5, <4>2 DEF Retire
    <3> QED
      BY <1>2, <3>2, <3>3, <3>4, <3>5, RefuseReplies, AdmitReplies, ShipReplies, RetireReplies,
         ExitReplies DEF Worker
  <2>3. ASSUME NEW j \in Jobs PROVE FinishedInv(j)'
    <3>1. items' = items /\ caller' = caller
      BY <1>2 DEF Worker, Refuse, Admit, ShipTokens, Retire, Exit, Tell, callerVars
    <3> QED
      BY <3>1, ItemsKept DEF RepliesInv
  <2> QED
    BY <2>1, <2>2, <2>3 DEF RepliesInv
<1>3. CASE Emission
  BY <1>1, <1>3, EmissionTypes, TakeReplies, DeliverReplies, FinishReplies, IgnoreReplies,
     OrphanReplies, ReplyReplies, EmissionFinished DEF Emission, RepliesInv
<1>4. CASE \E k \in Jobs : Listener(k) \/ Caller(k)
  BY <1>1, <1>4, CallerTypes, ListenerReplies, CallerReplies, CallerFinished DEF RepliesInv
<1>5. CASE UNCHANGED vars
  <2>1. /\ told' = told /\ worker' = worker /\ events' = events /\ live' = live /\ held' = held
        /\ finishing' = finishing /\ items' = items /\ done' = done /\ listener' = listener
        /\ heard' = heard /\ completion' = completion /\ caller' = caller /\ answer' = answer
    BY <1>5 DEF vars, workerVars, emissionVars, callerVars
  <2>2. DeliveryTypes'
    BY <1>1, <2>1 DEF DeliveryTypes
  <2>3. ASSUME NEW j \in Jobs PROVE RequestInv(j)' /\ FinishedInv(j)'
    <3>1. EventsFollow(0, j) /\ (Closing(j)' <=> Closing(j))
      BY <1>1, <2>1, EventsStill DEF DeliveryTypes, Closing
    <3> QED
      BY <2>1, <3>1, Unconcerned, ItemsKept DEF RepliesInv
  <2> QED
    BY <2>2, <2>3 DEF RepliesInv
<1> QED
  BY <1>2, <1>3, <1>4, <1>5 DEF Next

LEMMA RepliesAlways == Spec => []RepliesInv
BY RepliesInit, RepliesStep, PTL DEF Spec

LEMMA RepliesSafe == RepliesInv => ReplyOnceAndAwaited
<1>1. SUFFICES ASSUME RepliesInv PROVE ReplyOnceAndAwaited
  OBVIOUS
<1>2. ASSUME NEW f \in Range(finishing) PROVE completion[f.job] = None /\ caller[f.job] = "Waiting"
  <2>1. finishing \in Seq([job : Jobs, reply : Verdicts]) /\ Len(finishing) <= 1
    BY <1>1 DEF RepliesInv, DeliveryTypes
  <2>2. PICK i \in DOMAIN finishing : f = finishing[i]
    BY <1>2 DEF Range
  <2>3. finishing # <<>> /\ f = Head(finishing) /\ f \in [job : Jobs, reply : Verdicts]
    <3>1. \A S : \A s \in Seq(S) : Len(s) <= 1 =>
             \A k \in DOMAIN s : s # <<>> /\ s[k] = Head(s) /\ s[k] \in S
      OBVIOUS
    <3> QED
      BY <2>1, <2>2, <3>1, Zenon
  <2>4. Closing(f.job) /\ f.job \in Jobs
    BY <2>3 DEF Closing
  <2> QED
    BY <1>1, <2>4 DEF RepliesInv, RequestInv, ReplyInv, Awaited
<1>3. ASSUME NEW j \in Jobs, answer[j] # None PROVE FirstVerdict(j, answer[j])
  BY <1>1, <1>3 DEF RepliesInv, RequestInv, ReplyInv
<1> QED
  BY <1>2, <1>3 DEF ReplyOnceAndAwaited

(* Whatever the worker, the listeners and the callers do, a reply is sent  *)
(* only into an empty channel its caller waits on, and a caller gets the   *)
(* worker's first word on its request (emission.rs, Retire and the orphans *)
(* left when the channel closes).                                          *)
THEOREM RepliesOnceAlways == Spec => []ReplyOnceAndAwaited
BY RepliesAlways, RepliesSafe, PTL

-------------------------------------------------------------------------------
(* Texts in their places: what a push, a flush, a join and a reading keep. *)

LEMMA NoFinished ==
  ASSUME NEW its \in Seq(Seq(Nat)), \A k \in 1 .. Len(its) : its[k] # Finished
  PROVE  Texts(its) = Len(its) /\ Len(its) \in Nat
<1>1. its # <<>> => Len(its) \in 1 .. Len(its)
  OBVIOUS
<1> QED
  BY <1>1 DEF Texts

LEMMA EndType ==
  ASSUME NEW h \in Seq(Nat), NEW its \in Seq(Seq(Nat)), NEW hl \in Seq(Nat), InPlace(h, its, hl)
  PROVE  /\ Texts(its) \in Nat /\ Texts(its) <= Len(its)
         /\ \A k \in 0 .. Texts(its) : End(h, its, k) \in Nat
         /\ Reached(h, its, hl) \in Nat
<1>1. Len(its) \in Nat /\ (its # <<>> => Len(its) >= 1)
  OBVIOUS
<1>2. Texts(its) \in Nat /\ Texts(its) <= Len(its)
  BY <1>1 DEF Texts
<1>3. ASSUME NEW k \in 0 .. Texts(its) PROVE End(h, its, k) \in Nat
  <2>1. CASE k = 0
    BY <2>1 DEF End
  <2>2. CASE k # 0
    <3>1. k \in 1 .. Texts(its) /\ k \in 1 .. Len(its)
      BY <1>1, <1>2, <2>2
    <3>2. its[k] \in Seq(Nat) /\ its[k] # <<>>
      BY <3>1 DEF InPlace
    <3>3. \A q \in Seq(Nat) : q # <<>> => q[Len(q)] \in Nat
      OBVIOUS
    <3> QED
      BY <2>2, <3>2, <3>3 DEF End
  <2> QED
    BY <2>1, <2>2
<1>4. Texts(its) \in 0 .. Texts(its) /\ Len(hl) \in Nat
  BY <1>2
<1> QED
  BY <1>2, <1>3, <1>4 DEF Reached

LEMMA HoldsBack ==
  ASSUME NEW h \in Seq(Nat), NEW its \in Seq(Seq(Nat)), NEW hl \in Seq(Nat), InPlace(h, its, hl),
         NEW t, t = Reached(h, its, hl) + 1
  PROVE  InPlace(h, its, Append(hl, t)) /\ Reached(h, its, Append(hl, t)) = t
<1> DEFINE e == End(h, its, Texts(its))
           g == Append(hl, t)
<1>1. e \in Nat /\ Len(hl) \in Nat /\ t = e + Len(hl) + 1 /\ t \in Nat
  BY EndType DEF Reached
<1>2. Len(g) = Len(hl) + 1 /\ g[Len(hl) + 1] = t /\ \A i \in 1 .. Len(hl) : g[i] = hl[i]
  BY <1>1
<1>3. \A i \in 1 .. Len(hl) : hl[i] = e + i
  BY DEF InPlace
<1> HIDE DEF e, g
<1>4. \A i \in 1 .. Len(g) : i \in 1 .. Len(hl) \/ i = Len(hl) + 1
  BY <1>1, <1>2
<1>5. \A i \in 1 .. Len(g) : g[i] = e + i
  <2>1. SUFFICES ASSUME NEW i \in 1 .. Len(g) PROVE g[i] = e + i
    OBVIOUS
  <2>2. CASE i \in 1 .. Len(hl)
    BY <1>2, <1>3, <2>2
  <2>3. CASE i = Len(hl) + 1
    BY <1>1, <1>2, <2>3
  <2> QED
    BY <1>4, <2>2, <2>3
<1>6. e + Len(g) = t
  BY <1>1, <1>2
<1> QED
  BY <1>5, <1>6 DEF InPlace, Reached, e, g

(* A text that starts where the last one ended is appended, and nothing is *)
(* held back any more.                                                     *)
LEMMA HandsOver ==
  ASSUME NEW h \in Seq(Nat), NEW its \in Seq(Seq(Nat)), NEW hl \in Seq(Nat), InPlace(h, its, hl),
         \A k \in 1 .. Len(its) : its[k] # Finished,
         NEW s \in Seq(Nat), s # <<>>, InPlace(h, its, s)
  PROVE  InPlace(h, Append(its, s), <<>>) /\ Reached(h, Append(its, s), <<>>) = Reached(h, its, s)
<1>1. PICK n \in Nat : n = Len(its)
  OBVIOUS
<1>2. PICK e \in Nat : e = End(h, its, n)
  <2>1. Texts(its) = n /\ n \in 0 .. n
    BY <1>1, NoFinished
  <2> QED
    BY <2>1, EndType
<1>3. PICK w \in Seq(Seq(Nat)) : w = Append(its, s)
  BY AppendProperties
<1>4. Texts(its) = n
  BY <1>1, NoFinished
<1>5. /\ Len(w) = n + 1 /\ w[n + 1] = s
      /\ \A k \in 1 .. n : w[k] = its[k]
  BY <1>1, <1>3, AppendProperties
<1>6. PICK l \in Nat : l = Len(s) /\ l >= 1
  OBVIOUS
<1>7. /\ \A i \in 1 .. Len(h) : h[i] = i
      /\ \A k \in 1 .. n :
           its[k] # <<>> /\ \A i \in 1 .. Len(its[k]) : its[k][i] = End(h, its, k - 1) + i
      /\ \A i \in 1 .. l : s[i] = e + i
  BY <1>2, <1>4, <1>6 DEF InPlace
<1>8. \A k \in 1 .. n + 1 : k \in 1 .. n \/ k = n + 1
  OBVIOUS
<1>9. Texts(w) = n + 1
  <2>1. \A k \in 1 .. n + 1 : w[k] # Finished
    BY <1>1, <1>5, <1>8 DEF Finished
  <2> QED
    BY <1>5, <2>1, NoFinished
<1>10. \A k \in 0 .. n : End(h, w, k) = End(h, its, k)
  <2>1. \A k \in 0 .. n : k = 0 \/ k \in 1 .. n
    OBVIOUS
  <2> QED
    BY <1>5, <2>1 DEF End
<1>11. End(h, w, n + 1) = e + l
  <2>1. n + 1 # 0 /\ l \in 1 .. l
    BY <1>6
  <2>2. w[n + 1][Len(w[n + 1])] = e + l
    BY <1>5, <1>6, <1>7, <2>1
  <2> QED
    BY <2>1, <2>2 DEF End
<1>12. \A k \in 1 .. n + 1 : w[k] # <<>> /\ \A i \in 1 .. Len(w[k]) : w[k][i] = End(h, w, k - 1) + i
  <2>1. SUFFICES ASSUME NEW k \in 1 .. n + 1
                 PROVE  w[k] # <<>> /\ \A i \in 1 .. Len(w[k]) : w[k][i] = End(h, w, k - 1) + i
    OBVIOUS
  <2>2. End(h, w, k - 1) = End(h, its, k - 1)
    <3>1. k - 1 \in 0 .. n
      OBVIOUS
    <3> QED
      BY <3>1, <1>10
  <2>3. CASE k \in 1 .. n
    <3>1. w[k] = its[k] /\ its[k] # <<>> /\ \A i \in 1 .. Len(its[k]) : its[k][i] = End(h, its, k - 1) + i
      BY <1>5, <1>7, <2>3
    <3> QED
      BY <2>2, <3>1
  <2>4. CASE k = n + 1
    <3>1. End(h, w, k - 1) = e
      <4>1. k - 1 = n
        BY <2>4
      <4> QED
        BY <1>2, <2>2, <4>1
    <3> QED
      BY <1>5, <1>6, <1>7, <2>4, <3>1
  <2> QED
    BY <1>8, <2>3, <2>4
<1>13. InPlace(h, w, <<>>)
  <2>1. 1 .. Len(<<>>) = {}
    OBVIOUS
  <2> QED
    BY <1>7, <1>9, <1>12, <2>1 DEF InPlace
<1>14. Reached(h, w, <<>>) = e + l /\ Reached(h, its, s) = e + l
  <2>1. Len(<<>>) = 0 /\ e + l + 0 = e + l
    OBVIOUS
  <2> QED
    BY <1>2, <1>4, <1>6, <1>9, <1>11, <2>1 DEF Reached
<1> QED
  BY <1>3, <1>13, <1>14

LEMMA SaysFinished ==
  ASSUME NEW h \in Seq(Nat), NEW its \in Seq(Seq(Nat)), NEW hl \in Seq(Nat), InPlace(h, its, hl),
         \A k \in 1 .. Len(its) : its[k] # Finished
  PROVE  /\ InPlace(h, Append(its, Finished), hl)
         /\ Reached(h, Append(its, Finished), hl) = Reached(h, its, hl)
<1>1. PICK n \in Nat : n = Len(its)
  OBVIOUS
<1>2. PICK s \in Seq(Nat) : s = Finished
  <2>1. Finished \in Seq(Nat)
    BY DEF Finished
  <2> QED
    BY <2>1
<1>3. PICK w \in Seq(Seq(Nat)) : w = Append(its, s)
  <2>1. Append(its, s) \in Seq(Seq(Nat))
    BY AppendProperties
  <2> QED
    BY <2>1
<1>4. Texts(its) = n
  BY <1>1, NoFinished
<1>5. /\ Len(w) = n + 1 /\ w[n + 1] = Finished /\ w # <<>>
      /\ \A k \in 1 .. n : w[k] = its[k]
  <2>1. w # <<>>
    BY <1>3, AppendProperties
  <2>2. Len(w) = Len(its) + 1 /\ w[Len(its) + 1] = s /\ \A k \in 1 .. Len(its) : w[k] = its[k]
    BY <1>3, AppendProperties
  <2> QED
    BY <1>1, <1>2, <2>1, <2>2
<1>6. Texts(w) = n
  BY <1>5 DEF Texts
<1>7. \A k \in 0 .. n : End(h, w, k) = End(h, its, k)
  <2>1. \A k \in 0 .. n : k = 0 \/ k \in 1 .. n
    OBVIOUS
  <2> QED
    BY <1>5, <2>1 DEF End
<1>8. n \in 0 .. n /\ \A k \in 1 .. n : k - 1 \in 0 .. n
  OBVIOUS
<1>9. InPlace(h, w, hl)
  <2>1. \A k \in 1 .. n : w[k] # <<>> /\ \A i \in 1 .. Len(w[k]) : w[k][i] = End(h, w, k - 1) + i
    <3>1. \A k \in 1 .. n : its[k] # <<>> /\ \A i \in 1 .. Len(its[k]) : its[k][i] = End(h, its, k - 1) + i
      BY <1>4 DEF InPlace
    <3> QED
      BY <3>1, <1>5, <1>7, <1>8, ZenonT(60)
  <2>2. \A i \in 1 .. Len(hl) : hl[i] = End(h, w, n) + i
    BY <1>4, <1>7, <1>8 DEF InPlace
  <2> QED
    BY <1>6, <2>1, <2>2 DEF InPlace
<1>10. Reached(h, w, hl) = Reached(h, its, hl)
  BY <1>4, <1>6, <1>7, <1>8 DEF Reached
<1> QED
  BY <1>2, <1>3, <1>9, <1>10

LEMMA Hears ==
  ASSUME NEW h \in Seq(Nat), NEW its \in Seq(Seq(Nat)), NEW hl \in Seq(Nat), InPlace(h, its, hl),
         its # <<>>, Head(its) # Finished
  PROVE  /\ InPlace(h \o Head(its), Tail(its), hl)
         /\ Reached(h \o Head(its), Tail(its), hl) = Reached(h, its, hl)
<1>1. PICK n \in Nat : n = Len(its) /\ n >= 1
  OBVIOUS
<1>2. PICK s \in Seq(Nat) : s = Head(its) /\ s = its[1]
  BY HeadTailProperties
<1>3. PICK a \in Nat : a = Len(h)
  OBVIOUS
<1>4. PICK l \in Nat : l = Len(s)
  OBVIOUS
<1>5. PICK g \in Seq(Nat) : g = h \o s
  BY ConcatProperties
<1>6. PICK w \in Seq(Seq(Nat)) : w = Tail(its)
  BY HeadTailProperties
<1>7. PICK x : x = Texts(its)
  OBVIOUS
<1>8. /\ Len(g) = a + l
      /\ \A i \in 1 .. a + l : g[i] = IF i <= a THEN h[i] ELSE s[i - a]
  BY <1>3, <1>4, <1>5, ConcatProperties
<1>9. Len(w) = n - 1 /\ \A k \in 1 .. n - 1 : w[k] = its[k + 1]
  BY <1>1, <1>6, HeadTailProperties
<1>10. /\ x \in Nat /\ x >= 1 /\ x <= n
       /\ x = (IF its[n] = Finished THEN n - 1 ELSE n)
  <2>1. x = (IF its[n] = Finished THEN n - 1 ELSE n)
    BY <1>1, <1>7 DEF Texts
  <2>2. its[n] = Finished => n # 1
    BY <1>2
  <2> QED
    BY <1>1, <2>1, <2>2
<1>11. /\ \A i \in 1 .. a : h[i] = i
       /\ \A k \in 1 .. x : its[k] # <<>> /\ \A i \in 1 .. Len(its[k]) : its[k][i] = End(h, its, k - 1) + i
       /\ \A i \in 1 .. Len(hl) : hl[i] = End(h, its, x) + i
  BY <1>3, <1>7 DEF InPlace
<1>12. Texts(w) = x - 1
  <2>1. CASE n = 1
    <3>1. w = <<>> /\ its[n] # Finished
      BY <1>2, <1>9, <2>1
    <3> QED
      BY <1>9, <1>10, <2>1, <3>1 DEF Texts
  <2>2. CASE n # 1
    <3>1. n - 1 \in 1 .. n - 1 /\ (n - 1) + 1 = n /\ n - 1 # 0
      BY <1>1, <2>2
    <3>2. w # <<>> /\ w[Len(w)] = its[n]
      BY <1>9, <3>1
    <3> QED
      BY <1>1, <1>9, <1>10, <3>2 DEF Texts
  <2> QED
    BY <2>1, <2>2
<1>13. l >= 1 /\ \A i \in 1 .. l : s[i] = a + i
  <2>1. 1 \in 1 .. x /\ 1 - 1 = 0 /\ End(h, its, 0) = a
    BY <1>3, <1>10 DEF End
  <2>2. its[1] # <<>> /\ \A i \in 1 .. Len(its[1]) : its[1][i] = a + i
    BY <1>11, <2>1
  <2> QED
    BY <1>2, <1>4, <2>2
<1>14. End(h, its, 1) = a + l /\ End(g, w, 0) = a + l
  <2>1. l \in 1 .. l /\ its[1][Len(its[1])] = s[l]
    BY <1>2, <1>4, <1>13
  <2> QED
    BY <1>8, <1>13, <2>1 DEF End
<1>15. \A k \in 0 .. x - 1 : End(g, w, k) = End(h, its, k + 1)
  <2>1. SUFFICES ASSUME NEW k \in 0 .. x - 1 PROVE End(g, w, k) = End(h, its, k + 1)
    OBVIOUS
  <2>2. CASE k = 0
    BY <1>14, <2>2
  <2>3. CASE k # 0
    <3>1. k \in 1 .. n - 1 /\ k + 1 # 0
      BY <1>1, <1>10, <2>3
    <3> QED
      BY <1>9, <2>3, <3>1 DEF End
  <2> QED
    BY <2>2, <2>3
<1>16. \A i \in 1 .. Len(g) : g[i] = i
  <2>1. SUFFICES ASSUME NEW i \in 1 .. a + l PROVE g[i] = i
    BY <1>8
  <2>2. CASE i <= a
    <3>1. i \in 1 .. a
      BY <2>2
    <3> QED
      BY <1>8, <1>11, <2>2, <3>1
  <2>3. CASE i > a
    <3>1. i - a \in 1 .. l /\ a + (i - a) = i /\ ~(i <= a)
      BY <2>3
    <3> QED
      BY <1>8, <1>13, <3>1
  <2> QED
    BY <2>2, <2>3
<1>17. \A k \in 1 .. x - 1 : w[k] # <<>> /\ \A i \in 1 .. Len(w[k]) : w[k][i] = End(g, w, k - 1) + i
  <2>1. SUFFICES ASSUME NEW k \in 1 .. x - 1
                 PROVE  w[k] # <<>> /\ \A i \in 1 .. Len(w[k]) : w[k][i] = End(g, w, k - 1) + i
    OBVIOUS
  <2>2. k + 1 \in 1 .. x /\ (k + 1) - 1 = k /\ k - 1 \in 0 .. x - 1 /\ (k - 1) + 1 = k /\ k \in 1 .. n - 1
    BY <1>1, <1>10
  <2>3. w[k] = its[k + 1] /\ End(g, w, k - 1) = End(h, its, k)
    BY <1>9, <1>15, <2>2
  <2>4. its[k + 1] # <<>> /\ \A i \in 1 .. Len(its[k + 1]) : its[k + 1][i] = End(h, its, k) + i
    BY <1>11, <2>2
  <2> QED
    BY <2>3, <2>4
<1>18. x - 1 \in 0 .. x - 1 /\ (x - 1) + 1 = x
  BY <1>10
<1>19. InPlace(g, w, hl)
  BY <1>11, <1>12, <1>15, <1>16, <1>17, <1>18 DEF InPlace
<1>20. Reached(g, w, hl) = Reached(h, its, hl)
  BY <1>7, <1>12, <1>15, <1>18 DEF Reached
<1> QED
  BY <1>2, <1>5, <1>6, <1>19, <1>20

-------------------------------------------------------------------------------
(* Tokens among the events.                                                *)

LEMMA ProducedSame ==
  ASSUME NEW j \in Jobs, told'[j] = told[j]
  PROVE  Produced(j)' = Produced(j)
BY DEF Produced

LEMMA ProducedGrows ==
  ASSUME NEW j \in Jobs, told[j] \in Seq(PortEvents), NEW e \in PortEvents,
         told'[j] = Append(told[j], e)
  PROVE  /\ Produced(j) \in Nat
         /\ Produced(j)' = (IF e = "Token" THEN Produced(j) + 1 ELSE Produced(j))
<1> DEFINE P == {i \in DOMAIN told[j] : told[j][i] = "Token"}
           Q == {i \in DOMAIN told'[j] : told'[j][i] = "Token"}
<1>1. PICK n \in Nat : n = Len(told[j])
  OBVIOUS
<1>2. /\ DOMAIN told[j] = 1 .. n /\ DOMAIN told'[j] = 1 .. n + 1
      /\ \A i \in 1 .. n : told'[j][i] = told[j][i]
      /\ told'[j][n + 1] = e
  <2>1. told'[j] \in Seq(PortEvents) /\ Len(told'[j]) = n + 1
    BY <1>1, AppendProperties
  <2> QED
    BY <1>1, <2>1, AppendProperties
<1>3. IsFiniteSet(P)
  <2>1. P \in SUBSET (1 .. n) /\ IsFiniteSet(1 .. n)
    BY <1>2, FS_Interval
  <2> QED
    BY <2>1, FS_Subset
<1>4. Q = IF e = "Token" THEN P \cup {n + 1} ELSE P
  <2>1. \A i : i \in 1 .. n + 1 <=> i \in 1 .. n \/ i = n + 1
    BY <1>1
  <2> QED
    BY <1>2, <2>1
<1>5. n + 1 \notin P
  BY <1>2
<1> HIDE DEF P, Q
<1>6. Cardinality(P) \in Nat
  BY <1>3, FS_CardinalityType
<1>7. e = "Token" => Cardinality(Q) = Cardinality(P) + 1
  BY <1>3, <1>4, <1>5, FS_AddElement
<1>8. e # "Token" => Cardinality(Q) = Cardinality(P)
  BY <1>4
<1>9. Produced(j) = Cardinality(P) /\ Produced(j)' = Cardinality(Q)
  BY DEF Produced, P, Q
<1> QED
  BY <1>6, <1>7, <1>8, <1>9

LEMMA ProducedType ==
  ASSUME NEW j \in Jobs, told[j] \in Seq(PortEvents)
  PROVE  Produced(j) \in Nat
<1> DEFINE P == {i \in DOMAIN told[j] : told[j][i] = "Token"}
<1>1. P \in SUBSET (1 .. Len(told[j])) /\ IsFiniteSet(1 .. Len(told[j]))
  BY FS_Interval
<1>2. IsFiniteSet(P)
  BY <1>1, FS_Subset
<1> QED
  BY <1>2, FS_CardinalityType DEF Produced

(* No token of the request comes or goes.                                  *)
LEMMA EventsKeepTokens ==
  ASSUME NEW j \in Jobs, events \in Seq(EmissionEvents),
         \/ events' = events
         \/ \E e \in EmissionEvents : events' = Append(events, e) /\ ~Carries(e, j)
         \/ events # <<>> /\ events' = Tail(events) /\ ~Carries(events[1], j)
  PROVE  (\A t : Sent(j, t)' <=> Sent(j, t)) /\ (InOrder(j) => InOrder(j)')
<1>1. CASE events' = events
  BY <1>1 DEF Sent, InOrder
<1>2. CASE \E e \in EmissionEvents : events' = Append(events, e) /\ ~Carries(e, j)
  <2>1. PICK e \in EmissionEvents : events' = Append(events, e) /\ ~Carries(e, j)
    BY <1>2
  <2>2. PICK n \in Nat : n = Len(events)
    OBVIOUS
  <2>3. Len(events') = n + 1 /\ events'[n + 1] = e /\ \A i \in 1 .. n : events'[i] = events[i]
    BY <2>1, <2>2, EventsAppended
  <2>4. \A i : i \in 1 .. n + 1 <=> i \in 1 .. n \/ i = n + 1
    OBVIOUS
  <2>5. \A k \in Places(e) : e.batch[k].job # j
    BY <2>1 DEF Carries
  <2>6. \A t : Sent(j, t)' <=> Sent(j, t)
    BY <2>2, <2>3, <2>4, <2>5 DEF Sent, Sends
  <2>7. InOrder(j) => InOrder(j)'
    <3>1. \A i \in 1 .. n + 1 : \A k \in Places(events'[i]) : events'[i].batch[k].job = j =>
             i \in 1 .. n /\ events'[i] = events[i]
      BY <2>3, <2>4, <2>5
    <3> QED
      BY <2>2, <2>3, <3>1 DEF InOrder
  <2> QED
    BY <2>6, <2>7
<1>3. CASE events # <<>> /\ events' = Tail(events) /\ ~Carries(events[1], j)
  <2>1. PICK n \in Nat : n = Len(events')
    <3>1. Len(events) \in Nat /\ Len(events) >= 1 /\ Len(events') = Len(events) - 1
      BY <1>3, EventsTaken
    <3>2. \A k \in Nat : k >= 1 => k - 1 \in Nat
      OBVIOUS
    <3>3. Len(events) - 1 \in Nat
      BY <3>1, <3>2
    <3>4. Len(events') \in Nat
      BY <3>1, <3>3
    <3> QED
      BY <3>4, Zenon
  <2>2. Len(events) = n + 1 /\ \A i \in 1 .. n : events'[i] = events[i + 1]
    BY <1>3, <2>1, EventsTaken
  <2>3. /\ \A i \in 1 .. n : i + 1 \in 1 .. n + 1
        /\ \A i \in 1 .. n + 1 : i = 1 \/ (i - 1 \in 1 .. n /\ (i - 1) + 1 = i)
        /\ \A i, h \in 1 .. n : (i < h => i + 1 < h + 1) /\ (i = h => i + 1 = h + 1)
    OBVIOUS
  <2>4. \A k \in Places(events[1]) : events[1].batch[k].job # j
    BY <1>3 DEF Carries
  <2>5. \A t : Sent(j, t)' => Sent(j, t)
    BY <2>1, <2>2, <2>3 DEF Sent, Sends
  <2>6. \A t : Sent(j, t) => Sent(j, t)'
    <3>1. SUFFICES ASSUME NEW t, Sent(j, t) PROVE Sent(j, t)'
      OBVIOUS
    <3>2. PICK i \in 1 .. n + 1 : Sends(events[i], j, t)
      BY <2>2, <3>1 DEF Sent
    <3>3. i - 1 \in 1 .. n /\ (i - 1) + 1 = i
      BY <2>3, <2>4, <3>2 DEF Sends
    <3>4. Sends(events'[i - 1], j, t)
      BY <2>2, <3>2, <3>3
    <3> QED
      BY <2>1, <3>3, <3>4 DEF Sent, Sends
  <2>7. InOrder(j) => InOrder(j)'
    BY <2>1, <2>2, <2>3 DEF InOrder
  <2> QED
    BY <2>5, <2>6, <2>7
<1> QED
  BY <1>1, <1>2, <1>3

(* A round with a later token of the request than any sent before.         *)
LEMMA EventsGainToken ==
  ASSUME NEW j \in Jobs, events \in Seq(EmissionEvents), NEW e \in EmissionEvents,
         events' = Append(events, e), NEW p, Sends(e, j, p),
         \A k, l \in Places(e) : e.batch[k].job = j /\ e.batch[l].job = j => k = l,
         \A i \in 1 .. Len(events) : \A k \in Places(events[i]) :
           events[i].batch[k].job = j => events[i].batch[k].token < p
  PROVE  (\A t : Sent(j, t)' <=> Sent(j, t) \/ t = p) /\ (InOrder(j) => InOrder(j)')
<1>1. PICK n \in Nat : n = Len(events)
  OBVIOUS
<1>2. Len(events') = n + 1 /\ events'[n + 1] = e /\ \A i \in 1 .. n : events'[i] = events[i]
  BY <1>1, EventsAppended
<1>3. \A i : i \in 1 .. n + 1 <=> i \in 1 .. n \/ i = n + 1
  OBVIOUS
<1>4. \A k \in Places(e) : e.batch[k].job = j => e.batch[k].token = p
  BY DEF Sends
<1>5. \A t : Sends(e, j, t) <=> t = p
  BY <1>4 DEF Sends
<1>6. \A t : Sent(j, t)' <=> Sent(j, t) \/ t = p
  BY <1>1, <1>2, <1>3, <1>5 DEF Sent, Sends
<1>7. InOrder(j) => InOrder(j)'
  <2>1. SUFFICES ASSUME InOrder(j), NEW i \in 1 .. n + 1, NEW h \in 1 .. n + 1,
                        NEW k \in Places(events'[i]), NEW l \in Places(events'[h]),
                        events'[i].batch[k].job = j, events'[h].batch[l].job = j
                 PROVE  /\ i < h => events'[i].batch[k].token < events'[h].batch[l].token
                        /\ i = h => k = l
    BY <1>2 DEF InOrder
  <2>2. CASE i \in 1 .. n /\ h \in 1 .. n
    BY <1>1, <1>2, <2>1, <2>2 DEF InOrder
  <2>3. CASE i \in 1 .. n /\ h = n + 1
    BY <1>1, <1>2, <1>4, <2>1, <2>3
  <2>4. CASE i = n + 1 /\ h \in 1 .. n
    <3>1. ~(i < h) /\ i # h
      BY <2>4
    <3> QED
      BY <3>1
  <2>5. CASE i = n + 1 /\ h = n + 1
    BY <1>2, <2>1, <2>5
  <2> QED
    BY <1>3, <2>2, <2>3, <2>4, <2>5
<1> QED
  BY <1>6, <1>7

(* The entry at the head is taken; a request's own is the least of its own *)
(* tokens.                                                                 *)
LEMMA EventsLoseToken ==
  ASSUME NEW j \in Jobs, events \in Seq(EmissionEvents), Receives("Tokens"), NextEntry, InOrder(j)
  PROVE  /\ \A t : Sent(j, t)' <=> Sent(j, t) /\ ~(Entry.job = j /\ Entry.token = t)
         /\ InOrder(j)'
         /\ Entry.job = j => \A t : Sent(j, t) => t = Entry.token \/ Entry.token < t
<1>1. /\ Len(events) \in Nat /\ Len(events) >= 1 /\ events[1] \in TokenEvents
      /\ Entry \in Entries /\ Entry = events[1].batch[1]
      /\ \/ /\ Len(events[1].batch) = 1
            /\ events' = Tail(events)
         \/ /\ Len(events[1].batch) > 1
            /\ events' \in Seq(EmissionEvents) /\ Len(events') = Len(events)
            /\ \A i \in 2 .. Len(events) : events'[i] = events[i]
            /\ events'[1] = [kind |-> "Tokens", batch |-> Tail(events[1].batch)]
  BY EntryTaken
<1>2. PICK n \in Nat : n = Len(events) /\ n >= 1
  BY <1>1
<1>3. PICK b \in Seq(Entries) : b = events[1].batch /\ b # <<>>
  BY <1>1 DEF TokenEvents
<1>4. PICK m \in Nat : m = Len(b) /\ m >= 1
  BY <1>3
<1>5. Places(events[1]) = 1 .. m /\ events[1].batch = b /\ Entry = b[1]
  BY <1>1, <1>3, <1>4 DEF Places, TokenEvents
<1>6. \A i \in 1 .. n : i = 1 \/ (1 < i /\ i \in 2 .. n)
  OBVIOUS
<1>7. ASSUME Entry.job = j, NEW i \in 1 .. n, NEW k \in Places(events[i]), events[i].batch[k].job = j
      PROVE  (i = 1 /\ k = 1) \/ Entry.token < events[i].batch[k].token
  <2>1. 1 \in 1 .. n /\ 1 \in 1 .. m
    BY <1>2, <1>4
  <2> QED
    BY <1>2, <1>5, <1>6, <1>7, <2>1 DEF InOrder
<1>8. ASSUME NEW t, Sent(j, t), Entry.job = j
      PROVE  t = Entry.token \/ Entry.token < t
  <2>1. PICK i \in 1 .. n : \E k \in Places(events[i]) :
                events[i].batch[k].job = j /\ events[i].batch[k].token = t
    BY <1>2, <1>8 DEF Sent, Sends
  <2>2. PICK k \in Places(events[i]) : events[i].batch[k].job = j /\ events[i].batch[k].token = t
    BY <2>1
  <2> QED
    BY <1>5, <1>7, <1>8, <2>2
<1>9. Entry.token \in Nat /\ ~(Entry.token < Entry.token)
  BY <1>1 DEF Entries
<1>10. CASE events' = Tail(events) /\ m = 1
  <2>1. n - 1 \in Nat /\ Len(events') = n - 1 /\ \A i \in 1 .. n - 1 : events'[i] = events[i + 1]
    <3>1. events # <<>>
      BY <1>2
    <3> QED
      BY <1>2, <1>10, <3>1, EventsTaken
  <2>2. /\ \A i \in 1 .. n - 1 : i + 1 \in 1 .. n /\ i + 1 # 1
        /\ \A i \in 1 .. n : i = 1 \/ (i - 1 \in 1 .. n - 1 /\ (i - 1) + 1 = i)
        /\ \A i, h \in 1 .. n - 1 : (i < h => i + 1 < h + 1) /\ (i = h => i + 1 = h + 1)
    BY <1>2
  <2>3. InOrder(j)'
    <3>1. SUFFICES ASSUME NEW i \in 1 .. n - 1, NEW h \in 1 .. n - 1,
                          NEW k \in Places(events'[i]), NEW l \in Places(events'[h]),
                          events'[i].batch[k].job = j, events'[h].batch[l].job = j
                   PROVE  /\ i < h => events'[i].batch[k].token < events'[h].batch[l].token
                          /\ i = h => k = l
      BY <2>1, SMTT(30) DEF InOrder
    <3>2. events'[i] = events[i + 1] /\ events'[h] = events[h + 1]
          /\ i + 1 \in 1 .. n /\ h + 1 \in 1 .. n
      BY <2>1, <2>2
    <3>3. /\ i + 1 < h + 1 => events'[i].batch[k].token < events'[h].batch[l].token
          /\ i + 1 = h + 1 => k = l
      BY <1>2, <3>1, <3>2 DEF InOrder
    <3> QED
      BY <2>2, <3>3
  <2>4. ASSUME NEW t, Sent(j, t)' PROVE Sent(j, t) /\ ~(Entry.job = j /\ Entry.token = t)
    <3>1. PICK i \in 1 .. n - 1 : Sends(events'[i], j, t)
      BY <2>1, <2>4 DEF Sent, Sends
    <3>2. i + 1 \in 1 .. n /\ i + 1 # 1 /\ Sends(events[i + 1], j, t)
      BY <2>1, <2>2, <3>1
    <3>3. Sent(j, t)
      BY <1>2, <3>2 DEF Sent
    <3> QED
      BY <3>2, <3>3, <1>7, <1>9 DEF Sends
  <2>5. ASSUME NEW t, Sent(j, t), ~(Entry.job = j /\ Entry.token = t) PROVE Sent(j, t)'
    <3>1. PICK i \in 1 .. n : Sends(events[i], j, t)
      BY <1>2, <2>5 DEF Sent
    <3>2. i # 1
      <4>1. ~Sends(events[1], j, t)
        <5>1. 1 .. m = {1}
          BY <1>10
        <5> QED
          BY <1>5, <2>5, <5>1 DEF Sends
      <4> QED
        BY <3>1, <4>1
    <3>3. i - 1 \in 1 .. n - 1 /\ (i - 1) + 1 = i
      BY <2>2, <3>2
    <3>4. Sends(events'[i - 1], j, t)
      BY <2>1, <3>1, <3>3
    <3> QED
      BY <2>1, <3>3, <3>4 DEF Sent, Sends
  <2> QED
    BY <1>8, <2>3, <2>4, <2>5
<1>11. CASE m > 1
  <2>1. PICK c \in Seq(Entries) : c = Tail(b)
    BY <1>3, HeadTailProperties
  <2>2. m - 1 \in Nat /\ Len(c) = m - 1 /\ \A k \in 1 .. m - 1 : c[k] = b[k + 1]
    BY <1>3, <1>4, <2>1, HeadTailProperties
  <2>3. /\ Len(events') = n /\ \A i \in 2 .. n : events'[i] = events[i]
        /\ events'[1] = [kind |-> "Tokens", batch |-> c]
    BY <1>1, <1>2, <1>3, <1>4, <1>11, <2>1
  <2>4. Places(events'[1]) = 1 .. m - 1 /\ events'[1].batch = c
    BY <2>2, <2>3 DEF Places
  <2>5. /\ \A k \in 1 .. m - 1 : k + 1 \in 1 .. m /\ k + 1 # 1
        /\ \A k \in 1 .. m : k = 1 \/ (k - 1 \in 1 .. m - 1 /\ (k - 1) + 1 = k)
        /\ \A k, l \in 1 .. m - 1 : k + 1 = l + 1 => k = l
        /\ 1 \in 1 .. n
    BY <1>2, <1>4
  <2>6. \A i \in 1 .. n : \A k \in Places(events'[i]) :
           \/ /\ i = 1 /\ k + 1 \in Places(events[i]) /\ k + 1 # 1 /\ k \in 1 .. m - 1
              /\ events'[i].batch[k] = events[i].batch[k + 1]
           \/ i # 1 /\ events'[i] = events[i]
    <3>1. ASSUME NEW k \in 1 .. m - 1
          PROVE  k + 1 \in Places(events[1]) /\ events'[1].batch[k] = events[1].batch[k + 1]
      BY <1>5, <2>2, <2>4, <2>5
    <3> QED
      BY <1>6, <2>3, <2>4, <2>5, <3>1
  <2>7. InOrder(j)'
    <3>1. SUFFICES ASSUME NEW i \in 1 .. n, NEW h \in 1 .. n,
                          NEW k \in Places(events'[i]), NEW l \in Places(events'[h]),
                          events'[i].batch[k].job = j, events'[h].batch[l].job = j
                   PROVE  /\ i < h => events'[i].batch[k].token < events'[h].batch[l].token
                          /\ i = h => k = l
      BY <2>3 DEF InOrder
    <3>2. PICK x \in Places(events[i]) : events'[i].batch[k] = events[i].batch[x]
                                          /\ x = IF i = 1 THEN k + 1 ELSE k
      BY <2>6
    <3>3. PICK y \in Places(events[h]) : events'[h].batch[l] = events[h].batch[y]
                                          /\ y = IF h = 1 THEN l + 1 ELSE l
      BY <2>6
    <3>4. (i < h => events[i].batch[x].token < events[h].batch[y].token) /\ (i = h => x = y)
      BY <1>2, <3>1, <3>2, <3>3 DEF InOrder
    <3>5. i = h => k = l
      BY <2>5, <2>6, <3>2, <3>3, <3>4
    <3> QED
      BY <3>2, <3>3, <3>4, <3>5
  <2>8. ASSUME NEW t, Sent(j, t)' PROVE Sent(j, t) /\ ~(Entry.job = j /\ Entry.token = t)
    <3>1. PICK i \in 1 .. n : Sends(events'[i], j, t)
      BY <2>3, <2>8 DEF Sent, Sends
    <3>2. PICK k \in Places(events'[i]) : events'[i].batch[k].job = j /\ events'[i].batch[k].token = t
      BY <3>1 DEF Sends
    <3>3. PICK x \in Places(events[i]) : events'[i].batch[k] = events[i].batch[x] /\ ~(i = 1 /\ x = 1)
      BY <2>6
    <3>4. Sent(j, t)
      BY <1>2, <3>2, <3>3 DEF Sent, Sends
    <3> QED
      BY <1>7, <1>9, <3>2, <3>3, <3>4
  <2>9. ASSUME NEW t, Sent(j, t), ~(Entry.job = j /\ Entry.token = t) PROVE Sent(j, t)'
    <3>1. PICK i \in 1 .. n : Sends(events[i], j, t)
      BY <1>2, <2>9 DEF Sent
    <3>2. Sends(events'[i], j, t)
      <4>1. CASE i # 1
        BY <1>6, <2>3, <3>1, <4>1
      <4>2. CASE i = 1
        <5>1. PICK k \in 1 .. m : b[k].job = j /\ b[k].token = t
          BY <1>5, <3>1, <4>2 DEF Sends
        <5>2. k # 1
          BY <1>5, <2>9, <5>1
        <5>3. k - 1 \in 1 .. m - 1 /\ (k - 1) + 1 = k
          BY <2>5, <5>2
        <5>4. c[k - 1] = b[k]
          BY <2>2, <5>3
        <5> QED
          BY <2>4, <4>2, <5>1, <5>3, <5>4 DEF Sends
      <4> QED
        BY <4>1, <4>2
    <3> QED
      BY <2>3, <3>2 DEF Sent, Sends
  <2> QED
    BY <1>8, <2>7, <2>8, <2>9
<1>12. (events' = Tail(events) /\ m = 1) \/ m > 1
  BY <1>1, <1>3, <1>4
<1> QED
  BY <1>10, <1>11, <1>12

-------------------------------------------------------------------------------
(* What a step that leaves a request's texts alone keeps.                  *)

LEMMA SentExactly ==
  ASSUME NEW j
  PROVE  /\ SentInv(j) <=> /\ Cursor(j) <= Produced(j)
                           /\ \A t : Sent(j, t) <=> t \in Cursor(j) + 1 .. Produced(j)
         /\ SentInv(j)' <=> /\ Cursor(j)' <= Produced(j)'
                            /\ \A t : Sent(j, t)' <=> t \in Cursor(j)' + 1 .. Produced(j)'
<1>1. (\A i \in 1 .. Len(events) : \A k \in Places(events[i]) :
         events[i].batch[k].job = j => events[i].batch[k].token \in Cursor(j) + 1 .. Produced(j))
      <=> \A t : Sent(j, t) => t \in Cursor(j) + 1 .. Produced(j)
  BY DEF Sent, Sends
<1>2. (\A i \in 1 .. Len(events') : \A k \in Places(events'[i]) :
         events'[i].batch[k].job = j => events'[i].batch[k].token \in Cursor(j)' + 1 .. Produced(j)')
      <=> \A t : Sent(j, t)' => t \in Cursor(j)' + 1 .. Produced(j)'
  BY DEF Sent, Sends
<1> QED
  BY <1>1, <1>2 DEF SentInv

LEMMA TextKept ==
  ASSUME NEW j \in Jobs, TextInv(j), Produced(j)' = Produced(j),
         heard'[j] = heard[j], items'[j] = items[j], held'[j] = held[j], done'[j] = done[j],
         listener'[j] = listener[j], caller'[j] = "Returned" <=> caller[j] = "Returned",
         j \in live => j \in live',
         listener[j] = "Up" => (\A t : Sent(j, t)' <=> Sent(j, t)) /\ InOrder(j)'
  PROVE  TextInv(j)'
<1>1. Cursor(j)' = Cursor(j)
  BY DEF Cursor, Reached
<1>2. listener[j] = "Up" => SentInv(j)'
  <2>1. SUFFICES ASSUME listener[j] = "Up" PROVE SentInv(j)'
    OBVIOUS
  <2>2. Cursor(j) <= Produced(j) /\ \A t : Sent(j, t) <=> t \in Cursor(j) + 1 .. Produced(j)
    BY <2>1, SentExactly DEF TextInv
  <2>3. Cursor(j)' <= Produced(j)' /\ \A t : Sent(j, t)' <=> t \in Cursor(j)' + 1 .. Produced(j)'
    BY <1>1, <2>1, <2>2
  <2> QED
    BY <2>3, SentExactly
<1>3. InPlace(heard[j], items[j], held[j]) => InPlace(heard'[j], items'[j], held'[j])
  OBVIOUS
<1> QED
  BY <1>2, <1>3 DEF TextInv

-------------------------------------------------------------------------------
(* The texts of a request, step by step.                                   *)

LEMMA EntryIsLive ==
  ASSUME RepliesInv, Receives("Tokens"), NextEntry
  PROVE  Entry \in Entries /\ Entry.job \in live
<1>1. /\ Len(events) \in Nat /\ Len(events) >= 1 /\ events[1] \in TokenEvents
      /\ Len(events[1].batch) >= 1 /\ Entry \in Entries /\ Entry = events[1].batch[1]
  BY EntryTaken DEF RepliesInv, DeliveryTypes
<1>2. Entry.job \in Jobs
  BY <1>1 DEF Entries
<1>3. Carries(events[1], Entry.job)
  <2>1. 1 \in Places(events[1])
    BY <1>1 DEF Places, TokenEvents
  <2> QED
    BY <1>1, <2>1 DEF Carries
<1>4. EventsInv(Entry.job)
  BY <1>2 DEF RepliesInv, RequestInv
<1>5. Owned(Entry.job)
  BY <1>1, <1>3, <1>4 DEF EventsInv
<1>6. ASSUME NEW i \in 1 .. Len(events), Admits(events[i], Entry.job) PROVE FALSE
  <2>1. \A k \in 1 .. i - 1 : ~About(events[k], Entry.job)
    BY <1>4, <1>6 DEF EventsInv
  <2>2. i = 1 \/ 1 \in 1 .. i - 1
    BY <1>1
  <2>3. i # 1
    BY <1>1, <1>6 DEF Admits, TokenEvents
  <2> QED
    BY <1>3, <2>1, <2>2, <2>3 DEF About
<1> QED
  BY <1>1, <1>5, <1>6 DEF Owned

LEMMA ShipTexts ==
  ASSUME RepliesInv, NEW j \in Jobs, TextInv(j), NEW js \in SUBSET Jobs, ShipTokens(js)
  PROVE  TextInv(j)'
<1>1. /\ live' = live /\ held' = held /\ items' = items /\ done' = done /\ listener' = listener
      /\ heard' = heard /\ caller' = caller
  BY DEF ShipTokens, Tell, callerVars
<1>2. /\ told[j] \in Seq(PortEvents) /\ events \in Seq(EmissionEvents)
      /\ heard[j] \in Seq(Nat) /\ items[j] \in Seq(Seq(Nat)) /\ held[j] \in Seq(Nat)
  BY DEF RepliesInv, DeliveryTypes
<1>3. PICK e \in TokenEvents :
        /\ events' = Append(events, e)
        /\ \A i \in 1 .. Len(e.batch) :
             e.batch[i].job \in js /\ e.batch[i].token = Produced(e.batch[i].job) + 1
        /\ \A k \in js : \E i \in 1 .. Len(e.batch) : e.batch[i].job = k
        /\ \A i, k \in 1 .. Len(e.batch) : e.batch[i].job = e.batch[k].job => i = k
  BY ShipmentTypes DEF RepliesInv
<1>4. e \in EmissionEvents /\ Places(e) = 1 .. Len(e.batch)
  BY DEF EmissionEvents, TokenEvents, Places
<1>5. CASE j \notin js
  <2>1. told'[j] = told[j]
    BY <1>5, TellTypes DEF ShipTokens, RepliesInv
  <2>2. ~Carries(e, j)
    BY <1>3, <1>4, <1>5 DEF Carries
  <2>3. (\A t : Sent(j, t)' <=> Sent(j, t)) /\ (InOrder(j) => InOrder(j)')
    BY <1>2, <1>3, <1>4, <2>2, EventsKeepTokens
  <2> QED
    BY <1>1, <2>1, <2>3, ProducedSame, TextKept DEF TextInv
<1>6. CASE j \in js
  <2>1. told'[j] = Append(told[j], "Token")
    BY <1>6, TellTypes DEF ShipTokens, RepliesInv
  <2>2. PICK p \in Nat : p = Produced(j)
    BY <1>2, ProducedType
  <2>3. Produced(j)' = p + 1
    BY <1>2, <2>1, <2>2, ProducedGrows DEF PortEvents
  <2>4. caller[j] = "Waiting"
    <3>1. Streaming(j)
      BY <1>6 DEF ShipTokens, Tell, Sayable, FailedOnce
    <3> QED
      BY <3>1 DEF RepliesInv, RequestInv, PortInv, ReplyInv, Awaited
  <2>5. ASSUME listener[j] = "Up" PROVE SentInv(j)' /\ InOrder(j)'
    <3>1. InPlace(heard[j], items[j], held[j]) /\ SentInv(j) /\ InOrder(j)
      BY <2>5 DEF TextInv
    <3>2. PICK c \in Nat : c = Cursor(j) /\ c = Cursor(j)'
      <4>1. Cursor(j) \in Nat
        BY <1>2, <3>1, EndType DEF Cursor
      <4>2. Cursor(j)' = Cursor(j)
        BY <1>1 DEF Cursor
      <4> QED
        BY <4>1, <4>2
    <3>3. c <= p /\ \A t : Sent(j, t) <=> t \in c + 1 .. p
      BY <2>2, <3>1, <3>2, SentExactly
    <3>4. Sends(e, j, p + 1)
      BY <1>3, <1>4, <1>6, <2>2 DEF Sends
    <3>5. \A k, l \in Places(e) : e.batch[k].job = j /\ e.batch[l].job = j => k = l
      BY <1>3, <1>4
    <3>6. \A i \in 1 .. Len(events) : \A k \in Places(events[i]) :
            events[i].batch[k].job = j => events[i].batch[k].token < p + 1
      <4>1. \A i \in 1 .. Len(events) : \A k \in Places(events[i]) :
              events[i].batch[k].job = j => events[i].batch[k].token \in c + 1 .. p
        BY <3>3 DEF Sent, Sends
      <4>2. \A t : t \in c + 1 .. p => t < p + 1
        OBVIOUS
      <4> QED
        BY <4>1, <4>2
    <3>7. (\A t : Sent(j, t)' <=> Sent(j, t) \/ t = p + 1) /\ InOrder(j)'
      BY <1>2, <1>3, <1>4, <3>1, <3>4, <3>5, <3>6, EventsGainToken
    <3>8. c <= p + 1 /\ \A t : t \in c + 1 .. p \/ t = p + 1 <=> t \in c + 1 .. p + 1
      BY <3>3
    <3>9. SentInv(j)'
      BY <2>3, <3>2, <3>3, <3>7, <3>8, SentExactly
    <3> QED
      BY <3>7, <3>9
  <2> QED
    BY <1>1, <2>4, <2>5 DEF TextInv
<1> QED
  BY <1>5, <1>6

LEMMA WorkerTexts ==
  ASSUME RepliesInv, NEW j \in Jobs, TextInv(j), Worker
  PROVE  TextInv(j)'
<1>1. /\ told[j] \in Seq(PortEvents) /\ events \in Seq(EmissionEvents) /\ DeliveryTypes
  BY DEF RepliesInv, DeliveryTypes
<1>2. ASSUME told'[j] = told[j] \/ \E e \in PortEvents \ {"Token"} : told'[j] = Append(told[j], e),
             \/ events' = events
             \/ \E e \in EmissionEvents : events' = Append(events, e) /\ ~Carries(e, j),
             live' = live, held' = held, items' = items, done' = done, listener' = listener,
             heard' = heard, caller' = caller
      PROVE  TextInv(j)'
  <2>1. Produced(j)' = Produced(j)
    BY <1>1, <1>2, ProducedSame, ProducedGrows
  <2>2. (\A t : Sent(j, t)' <=> Sent(j, t)) /\ (InOrder(j) => InOrder(j)')
    BY <1>1, <1>2, EventsKeepTokens
  <2>3. listener[j] = "Up" => InOrder(j)
    BY DEF TextInv
  <2> QED
    BY <1>2, <2>1, <2>2, <2>3, TextKept
<1>3. ASSUME NEW k \in Jobs, NEW e \in PortEvents \ {"Token"}, Tell({k}, e)
      PROVE  /\ told'[j] = told[j] \/ \E x \in PortEvents \ {"Token"} : told'[j] = Append(told[j], x)
             /\ live' = live /\ held' = held /\ items' = items /\ done' = done
             /\ listener' = listener /\ heard' = heard /\ caller' = caller
  <2>1. told'[j] = told[j] \/ told'[j] = Append(told[j], e)
    BY <1>1, <1>3, TellTypes
  <2> QED
    BY <1>3, <2>1 DEF Tell, callerVars
<1>4. ASSUME NEW e \in AdmitEvents \cup RetireEvents
      PROVE  e \in EmissionEvents /\ ~Carries(e, j)
  BY DEF EmissionEvents, AdmitEvents, RetireEvents, Carries, Places
<1>5. ASSUME NEW k \in Jobs, Refuse(k) PROVE TextInv(j)'
  BY <1>2, <1>3, <1>5 DEF Refuse, PortEvents
<1>6. ASSUME NEW k \in Jobs, Admit(k) PROVE TextInv(j)'
  <2>1. PICK e : e = [kind |-> "Admitted", job |-> k]
    OBVIOUS
  <2>2. e \in AdmitEvents /\ events' = Append(events, e)
    BY <1>6, <2>1 DEF Admit, AdmitEvents
  <2> QED
    BY <1>2, <1>3, <1>4, <1>6, <2>2 DEF Admit, PortEvents
<1>7. ASSUME NEW k \in Jobs, NEW r \in {"Done", "Error"}, Retire(k, r) PROVE TextInv(j)'
  <2>1. PICK e : e = [kind |-> "Retire", job |-> k, reply |-> r]
    OBVIOUS
  <2>2. e \in RetireEvents /\ events' = Append(events, e)
    BY <1>7, <2>1 DEF Retire, RetireEvents
  <2> QED
    BY <1>2, <1>3, <1>4, <1>7, <2>2 DEF Retire, PortEvents
<1>8. ASSUME Exit PROVE TextInv(j)'
  <2>1. told'[j] = told[j] \/ told'[j] = Append(told[j], "WorkerDied")
    BY <1>8 DEF Exit
  <2>2. "WorkerDied" \in PortEvents \ {"Token"}
    BY DEF PortEvents
  <2>3. /\ events' = events /\ live' = live /\ held' = held /\ items' = items /\ done' = done
        /\ listener' = listener /\ heard' = heard /\ caller' = caller
    BY <1>8 DEF Exit, emissionVars, callerVars
  <2> QED
    BY <1>2, <2>1, <2>2, <2>3
<1> QED
  BY <1>5, <1>6, <1>7, <1>8, ShipTexts DEF Worker

(* Nothing about a request changes but, perhaps, its events and its place. *)
LEMMA TextLeftAlone ==
  ASSUME RepliesInv, NEW j \in Jobs, TextInv(j), told' = told,
         \/ events' = events
         \/ events # <<>> /\ events' = Tail(events) /\ ~Carries(events[1], j),
         heard'[j] = heard[j], items'[j] = items[j], held'[j] = held[j], done'[j] = done[j],
         listener'[j] = listener[j], caller'[j] = "Returned" <=> caller[j] = "Returned",
         j \in live => j \in live'
  PROVE  TextInv(j)'
<1>1. events \in Seq(EmissionEvents)
  BY DEF RepliesInv, DeliveryTypes
<1>2. (\A t : Sent(j, t)' <=> Sent(j, t)) /\ (InOrder(j) => InOrder(j)')
  BY <1>1, EventsKeepTokens
<1>3. listener[j] = "Up" => InOrder(j)
  BY DEF TextInv
<1> QED
  BY <1>2, <1>3, ProducedSame, TextKept

(* A listener that is gone hears no more.                                  *)
LEMMA TextGone ==
  ASSUME NEW j \in Jobs, TextInv(j), told'[j] = told[j], listener[j] # "Up",
         listener'[j] = listener[j], heard'[j] = heard[j], caller'[j] = caller[j],
         held'[j] # <<>> => j \in live'
  PROVE  TextInv(j)'
BY ProducedSame DEF TextInv

(* A live request's caller waits, and has not asked for an end.            *)
LEMMA LiveWaits ==
  ASSUME RepliesInv, NEW j \in live
  PROVE  /\ j \in Jobs /\ caller[j] = "Waiting"
         /\ \A k \in 1 .. Len(items[j]) : items[j][k] # Finished
<1>1. j \in Jobs /\ Owned(j)
  BY DEF RepliesInv, DeliveryTypes, Owned
<1>2. caller[j] = "Waiting"
  BY <1>1 DEF RepliesInv, RequestInv, ReplyInv, Awaited
<1> QED
  BY <1>1, <1>2 DEF RepliesInv, FinishedInv

(* The text handed over takes the place of what was held back.             *)
LEMMA PostedText ==
  ASSUME RepliesInv, NEW j \in live, TextInv(j), listener[j] = "Up",
         NEW s \in Seq(Nat), s # <<>>, InPlace(heard[j], items[j], s), Post(j, s),
         heard' = heard, held'[j] = <<>>
  PROVE  /\ InPlace(heard'[j], items'[j], held'[j]) /\ done'[j] = done[j]
         /\ Cursor(j)' = Reached(heard[j], items[j], s)
<1>1. /\ j \in Jobs /\ heard[j] \in Seq(Nat) /\ items[j] \in Seq(Seq(Nat)) /\ held[j] \in Seq(Nat)
      /\ \A k \in 1 .. Len(items[j]) : items[j][k] # Finished
      /\ items \in [Jobs -> Seq(Seq(Nat))]
  BY LiveWaits DEF RepliesInv, DeliveryTypes
<1>2. ~done[j] /\ InPlace(heard[j], items[j], held[j])
  BY DEF TextInv
<1>3. items'[j] = Append(items[j], s) /\ done' = done
  BY <1>1, <1>2 DEF Post
<1>4. /\ InPlace(heard[j], Append(items[j], s), <<>>)
      /\ Reached(heard[j], Append(items[j], s), <<>>) = Reached(heard[j], items[j], s)
  BY <1>1, <1>2, HandsOver
<1>5. Cursor(j)' = Reached(heard'[j], items'[j], held'[j])
  BY DEF Cursor, Reached
<1> QED
  BY <1>3, <1>4, <1>5

LEMMA DeliverTexts ==
  ASSUME RepliesInv, NEW j \in Jobs, TextInv(j), DeliverToken
  PROVE  TextInv(j)'
<1>1. /\ Entry \in Entries /\ Entry.job \in live /\ events \in Seq(EmissionEvents)
      /\ Receives("Tokens") /\ NextEntry
  BY EntryIsLive DEF DeliverToken, RepliesInv, DeliveryTypes
<1>2. /\ told' = told /\ live' = live /\ listener' = listener /\ heard' = heard /\ caller' = caller
      /\ Push(Entry.job, Entry.token)
  BY <1>1 DEF DeliverToken, workerVars, callerVars
<1>3. /\ heard[j] \in Seq(Nat) /\ items[j] \in Seq(Seq(Nat)) /\ held[j] \in Seq(Nat)
      /\ items \in [Jobs -> Seq(Seq(Nat))] /\ held \in [Jobs -> Seq(Nat)] /\ done \in [Jobs -> BOOLEAN]
      /\ told[j] \in Seq(PortEvents) /\ Entry.job \in Jobs /\ Entry.token \in Nat
  BY <1>1 DEF RepliesInv, DeliveryTypes, Entries
<1>4. InOrder(j) =>
        /\ \A t : Sent(j, t)' <=> Sent(j, t) /\ ~(Entry.job = j /\ Entry.token = t)
        /\ InOrder(j)'
        /\ Entry.job = j => \A t : Sent(j, t) => t = Entry.token \/ Entry.token < t
  BY <1>1, EventsLoseToken
<1>5. CASE Entry.job # j
  <2>1. items'[j] = items[j] /\ held'[j] = held[j] /\ done'[j] = done[j]
    BY <1>2, <1>3, <1>5 DEF Push, Post
  <2>2. listener[j] = "Up" => (\A t : Sent(j, t)' <=> Sent(j, t)) /\ InOrder(j)'
    BY <1>4, <1>5 DEF TextInv
  <2> QED
    BY <1>2, <2>1, <2>2, ProducedSame, TextKept
<1>6. CASE Entry.job = j /\ listener[j] # "Up"
  BY <1>1, <1>2, <1>6, TextGone
<1>7. CASE Entry.job = j /\ listener[j] = "Up"
  <2>1. InPlace(heard[j], items[j], held[j]) /\ SentInv(j) /\ InOrder(j) /\ ~done[j]
    BY <1>7 DEF TextInv
  <2>2. PICK c \in Nat : c = Cursor(j)
    BY <1>3, <2>1, EndType DEF Cursor
  <2>3. PICK p \in Nat : p = Produced(j) /\ p = Produced(j)'
    BY <1>2, <1>3, ProducedType, ProducedSame
  <2>4. c <= p /\ \A t : Sent(j, t) <=> t \in c + 1 .. p
    BY <2>1, <2>2, <2>3, SentExactly
  <2>5. Sent(j, Entry.token)
    <3>1. 1 \in 1 .. Len(events) /\ 1 \in Places(events[1]) /\ Entry = events[1].batch[1]
      BY <1>1, EntryTaken DEF Places, TokenEvents
    <3> QED
      BY <1>7, <3>1 DEF Sent, Sends
  <2>6. Entry.token = c + 1 /\ c + 1 <= p
    <3>1. Entry.token \in c + 1 .. p
      BY <2>4, <2>5
    <3>2. Sent(j, c + 1)
      <4>1. c + 1 \in c + 1 .. p
        BY <3>1
      <4> QED
        BY <2>4, <4>1
    <3>3. c + 1 = Entry.token \/ Entry.token < c + 1
      BY <1>4, <1>7, <2>1, <3>2
    <3> QED
      BY <1>3, <3>1, <3>3
  <2>7. InOrder(j)' /\ \A t : Sent(j, t)' <=> t \in (c + 1) + 1 .. p
    <3>1. \A t : t \in (c + 1) + 1 .. p <=> t \in c + 1 .. p /\ t # c + 1
      BY <2>6
    <3>2. \A t : Sent(j, t)' <=> Sent(j, t) /\ t # c + 1
      BY <1>4, <1>7, <2>1, <2>6
    <3>3. \A t : Sent(j, t)' <=> t \in (c + 1) + 1 .. p
      BY <2>4, <3>1, <3>2
    <3> QED
      BY <1>4, <2>1, <3>3
  <2>8. PICK s \in Seq(Nat) : s = Append(held[j], c + 1) /\ s # <<>>
    <3>1. Append(held[j], c + 1) \in Seq(Nat) /\ Append(held[j], c + 1) # <<>>
      <4>1. held[j] \in Seq(Nat) /\ c + 1 \in Nat
        BY <1>3
      <4> QED
        BY <4>1, AppendProperties
    <3> QED
      BY <3>1
  <2>9. InPlace(heard[j], items[j], s) /\ Reached(heard[j], items[j], s) = c + 1
    <3>1. c + 1 = Reached(heard[j], items[j], held[j]) + 1
      BY <2>2 DEF Cursor
    <3> QED
      BY <1>3, <2>1, <2>8, <3>1, HoldsBack
  <2>10. InPlace(heard'[j], items'[j], held'[j]) /\ done'[j] = done[j] /\ Cursor(j)' = c + 1
    <3>1. CASE held' = [held EXCEPT ![j] = Append(@, c + 1)] /\ UNCHANGED <<items, done>>
      <4>1. held'[j] = s /\ items'[j] = items[j] /\ done'[j] = done[j] /\ heard'[j] = heard[j]
        BY <1>2, <1>3, <2>8, <3>1
      <4>2. Cursor(j)' = Reached(heard'[j], items'[j], held'[j])
        BY DEF Cursor, Reached
      <4> QED
        BY <2>9, <4>1, <4>2
    <3>2. CASE held' = [held EXCEPT ![j] = <<>>] /\ Post(j, s)
      <4>1. held'[j] = <<>> /\ heard' = heard /\ j \in live
        BY <1>1, <1>2, <1>3, <1>7, <3>2
      <4> QED
        BY <1>7, <2>8, <2>9, <3>2, <4>1, PostedText
    <3> QED
      BY <1>2, <1>7, <2>6, <2>8, <3>1, <3>2 DEF Push
  <2>11. SentInv(j)'
    BY <2>3, <2>6, <2>7, <2>10, SentExactly
  <2>12. j \in live' /\ caller'[j] # "Returned"
    BY <1>1, <1>2, <1>7, LiveWaits
  <2>13. ~done'[j] /\ (held'[j] # <<>> => j \in live')
    BY <2>1, <2>10, <2>12
  <2> QED
    BY <2>7, <2>10, <2>11, <2>12, <2>13 DEF TextInv
<1> QED
  BY <1>5, <1>6, <1>7

LEMMA FinishTexts ==
  ASSUME RepliesInv, NEW j \in Jobs, TextInv(j), NEW k \in live, NEW r, Finish(k, r),
         \/ events' = events
         \/ events # <<>> /\ events' = Tail(events) /\ ~Carries(events[1], j)
  PROVE  TextInv(j)'
<1>1. /\ told' = told /\ live' = live \ {k} /\ listener' = listener /\ heard' = heard
      /\ caller' = caller /\ Flush(k)
  BY DEF Finish, NoLonger, workerVars, callerVars
<1>2. /\ heard[j] \in Seq(Nat) /\ items[j] \in Seq(Seq(Nat)) /\ held[j] \in Seq(Nat)
      /\ items \in [Jobs -> Seq(Seq(Nat))] /\ held \in [Jobs -> Seq(Nat)] /\ done \in [Jobs -> BOOLEAN]
      /\ told[j] \in Seq(PortEvents) /\ events \in Seq(EmissionEvents)
  BY DEF RepliesInv, DeliveryTypes
<1>3. CASE j # k
  <2>1. items'[j] = items[j] /\ held'[j] = held[j] /\ done'[j] = done[j] /\ (j \in live => j \in live')
    BY <1>1, <1>2, <1>3 DEF Flush, Post
  <2> QED
    BY <1>1, <2>1, TextLeftAlone
<1>4. held'[k] = <<>>
  BY <1>1, <1>2 DEF Flush, RepliesInv, DeliveryTypes
<1>5. CASE j = k /\ listener[j] # "Up"
  BY <1>1, <1>4, <1>5, TextGone
<1>6. CASE j = k /\ listener[j] = "Up"
  <2>1. InPlace(heard[j], items[j], held[j]) /\ SentInv(j) /\ InOrder(j) /\ ~done[j]
    BY <1>6 DEF TextInv
  <2>2. Produced(j)' = Produced(j)
    BY <1>1, ProducedSame
  <2>3. (\A t : Sent(j, t)' <=> Sent(j, t)) /\ InOrder(j)'
    BY <1>2, <2>1, EventsKeepTokens
  <2>4. InPlace(heard'[j], items'[j], held'[j]) /\ done'[j] = done[j] /\ Cursor(j)' = Cursor(j)
    <3>1. CASE held[j] = <<>>
      <4>1. items' = items /\ done' = done /\ held'[j] = held[j]
        BY <1>1, <1>4, <1>6, <3>1 DEF Flush
      <4>2. Cursor(j)' = Cursor(j)
        BY <1>1, <4>1 DEF Cursor, Reached
      <4> QED
        BY <1>1, <2>1, <4>1, <4>2
    <3>2. CASE held[j] # <<>>
      <4>1. Post(j, held[j])
        BY <1>1, <1>6, <3>2 DEF Flush
      <4> QED
        BY <1>1, <1>2, <1>4, <1>6, <2>1, <3>2, <4>1, PostedText DEF Cursor
    <3> QED
      BY <3>1, <3>2
  <2>5. SentInv(j)'
    <3>1. Cursor(j) <= Produced(j) /\ \A t : Sent(j, t) <=> t \in Cursor(j) + 1 .. Produced(j)
      BY <2>1, SentExactly
    <3>2. Cursor(j)' <= Produced(j)' /\ \A t : Sent(j, t)' <=> t \in Cursor(j)' + 1 .. Produced(j)'
      BY <2>2, <2>3, <2>4, <3>1
    <3> QED
      BY <3>2, SentExactly
  <2>6. held'[j] = <<>> /\ caller'[j] # "Returned"
    BY <1>1, <1>4, <1>6, LiveWaits
  <2> QED
    BY <2>1, <2>3, <2>4, <2>5, <2>6 DEF TextInv
<1> QED
  BY <1>3, <1>5, <1>6

LEMMA EmissionTexts ==
  ASSUME RepliesInv, NEW j \in Jobs, TextInv(j), Emission
  PROVE  TextInv(j)'
<1>1. DeliveryTypes
  BY DEF RepliesInv
<1>2. ASSUME NEW kind, kind # "Tokens", Receives(kind), events' = Tail(events)
      PROVE  events # <<>> /\ events' = Tail(events) /\ ~Carries(events[1], j)
  BY <1>1, <1>2, HeadOfEvents DEF Carries, Places
<1>3. CASE TakeAdmitted
  <2>1. /\ told' = told /\ heard' = heard /\ items' = items /\ held' = held /\ done' = done
        /\ listener' = listener /\ caller' = caller /\ (j \in live => j \in live')
        /\ Receives("Admitted") /\ events' = Tail(events)
    BY <1>3 DEF TakeAdmitted, workerVars, callerVars
  <2> QED
    BY <1>2, <2>1, TextLeftAlone
<1>4. CASE FinishRetired
  <2>1. /\ Receives("Retire") /\ events' = Tail(events) /\ Head(events).job \in live
        /\ Finish(Head(events).job, Head(events).reply)
    BY <1>4 DEF FinishRetired
  <2> QED
    BY <1>2, <2>1, FinishTexts
<1>5. CASE IgnoreRetire
  <2>1. /\ told' = told /\ heard' = heard /\ items' = items /\ held' = held /\ done' = done
        /\ listener' = listener /\ caller' = caller /\ live' = live
        /\ Receives("Retire") /\ events' = Tail(events)
    BY <1>5 DEF IgnoreRetire, workerVars, callerVars
  <2> QED
    BY <1>2, <2>1, TextLeftAlone
<1>6. ASSUME NEW k \in Jobs, FinishOrphan(k) PROVE TextInv(j)'
  BY <1>6, FinishTexts DEF FinishOrphan
<1>7. CASE Reply
  <2>1. /\ told' = told /\ heard' = heard /\ items' = items /\ held' = held /\ done' = done
        /\ listener' = listener /\ caller' = caller /\ live' = live /\ events' = events
    BY <1>7 DEF Reply, workerVars, callerVars
  <2> QED
    BY <2>1, TextLeftAlone
<1> QED
  BY <1>3, <1>4, <1>5, <1>6, <1>7, DeliverTexts DEF Emission

(* The end is heard only when nothing is held back or on its way.          *)
LEMMA EndOfText ==
  ASSUME RepliesInv, NEW j \in Jobs, TextInv(j), listener[j] = "Up", items[j] # <<>>,
         Head(items[j]) = Finished
  PROVE  heard[j] = [i \in 1 .. Produced(j) |-> i] /\ held[j] = <<>>
<1>1. /\ heard[j] \in Seq(Nat) /\ items[j] \in Seq(Seq(Nat)) /\ held[j] \in Seq(Nat)
      /\ told[j] \in Seq(PortEvents)
  BY DEF RepliesInv, DeliveryTypes
<1>2. Len(items[j]) = 1 /\ items[j][1] = Finished /\ caller[j] = "Joining"
  <2>1. 1 \in 1 .. Len(items[j]) /\ items[j][1] = Finished
    BY <1>1
  <2> QED
    BY <2>1 DEF RepliesInv, FinishedInv
<1>3. ~Owned(j) /\ held[j] = <<>>
  <2>1. ~Owned(j)
    BY <1>2 DEF RepliesInv, RequestInv, ReplyInv, Awaited
  <2> QED
    BY <2>1 DEF TextInv, Owned
<1>4. \A t : ~Sent(j, t)
  BY <1>3 DEF Sent, Sends, Carries, RepliesInv, RequestInv, EventsInv
<1>5. Cursor(j) = Len(heard[j])
  <2>1. Texts(items[j]) = 0
    BY <1>1, <1>2 DEF Texts
  <2>2. Len(<<>>) = 0 /\ Len(heard[j]) + 0 = Len(heard[j])
    BY <1>1
  <2> QED
    BY <1>3, <2>1, <2>2 DEF Cursor, Reached, End
<1>6. PICK n \in Nat : n = Len(heard[j])
  BY <1>1
<1>7. PICK p \in Nat : p = Produced(j)
  BY <1>1, ProducedType
<1>8. n = p
  <2>1. n <= p /\ \A t : ~(t \in n + 1 .. p)
    BY <1>4, <1>5, <1>6, <1>7, SentExactly DEF TextInv
  <2>2. ~(p \in n + 1 .. p)
    BY <2>1
  <2> QED
    BY <2>1, <2>2
<1>9. \A i \in 1 .. n : heard[j][i] = i
  BY <1>6 DEF TextInv, InPlace
<1>10. \A h \in Seq(Nat) : Len(h) = n /\ (\A i \in 1 .. n : h[i] = i) => h = [i \in 1 .. n |-> i]
  OBVIOUS
<1> QED
  BY <1>1, <1>3, <1>6, <1>7, <1>8, <1>9, <1>10

LEMMA ListenerTexts ==
  ASSUME RepliesInv, NEW j \in Jobs, TextInv(j), NEW k \in Jobs, Listener(k)
  PROVE  TextInv(j)'
<1>1. /\ told' = told /\ events' = events /\ live' = live /\ held' = held
  BY DEF Listener, HearText, HearFinished, ListenerDies, workerVars, emissionVars
<1>2. /\ heard[j] \in Seq(Nat) /\ items[j] \in Seq(Seq(Nat)) /\ held[j] \in Seq(Nat)
      /\ items \in [Jobs -> Seq(Seq(Nat))] /\ heard \in [Jobs -> Seq(Nat)]
      /\ done \in [Jobs -> BOOLEAN] /\ events \in Seq(EmissionEvents)
      /\ listener \in [Jobs -> {"Up", "Gone"}]
      /\ caller \in [Jobs -> {"Waiting", "Joining", "Returned", "Broken", "Left"}]
  BY DEF RepliesInv, DeliveryTypes
<1>3. CASE j # k
  <2>1. /\ heard'[j] = heard[j] /\ items'[j] = items[j] /\ done'[j] = done[j]
        /\ listener'[j] = listener[j] /\ caller'[j] = caller[j]
    BY <1>2, <1>3 DEF Listener, HearText, HearFinished, ListenerDies, callerVars
  <2> QED
    BY <1>1, <2>1, TextLeftAlone
<1>4. CASE j = k /\ HearText(k)
  <2>1. /\ items[j] # <<>> /\ Head(items[j]) # Finished /\ listener[j] = "Up"
        /\ heard'[j] = heard[j] \o Head(items[j]) /\ items'[j] = Tail(items[j])
        /\ done' = done /\ listener' = listener /\ caller' = caller
    BY <1>2, <1>4 DEF HearText, callerVars
  <2>2. InPlace(heard[j], items[j], held[j]) /\ SentInv(j) /\ InOrder(j)
    BY <2>1 DEF TextInv
  <2>3. InPlace(heard'[j], items'[j], held'[j]) /\ Cursor(j)' = Cursor(j)
    <3>1. /\ InPlace(heard[j] \o Head(items[j]), Tail(items[j]), held[j])
          /\ Reached(heard[j] \o Head(items[j]), Tail(items[j]), held[j])
               = Reached(heard[j], items[j], held[j])
      BY <1>2, <2>1, <2>2, Hears
    <3>2. Cursor(j)' = Reached(heard'[j], items'[j], held'[j])
      BY DEF Cursor, Reached
    <3> QED
      BY <1>1, <2>1, <3>1, <3>2 DEF Cursor
  <2>4. SentInv(j)' /\ InOrder(j)'
    <3>1. Produced(j)' = Produced(j)
      BY <1>1, ProducedSame
    <3>2. (\A t : Sent(j, t)' <=> Sent(j, t)) /\ InOrder(j)'
      BY <1>1, <1>2, <2>2, EventsKeepTokens
    <3>3. Cursor(j) <= Produced(j) /\ \A t : Sent(j, t) <=> t \in Cursor(j) + 1 .. Produced(j)
      BY <2>2, SentExactly
    <3>4. Cursor(j)' <= Produced(j)' /\ \A t : Sent(j, t)' <=> t \in Cursor(j)' + 1 .. Produced(j)'
      BY <2>3, <3>1, <3>2, <3>3
    <3> QED
      BY <3>2, <3>4, SentExactly
  <2>5. ~done'[j] /\ caller'[j] # "Returned" /\ (held'[j] # <<>> => j \in live')
    BY <1>1, <2>1 DEF TextInv
  <2> QED
    BY <2>3, <2>4, <2>5 DEF TextInv
<1>5. CASE j = k /\ HearFinished(k)
  <2>1. /\ items[j] # <<>> /\ Head(items[j]) = Finished /\ listener[j] = "Up"
        /\ heard' = heard /\ listener'[j] = "Gone"
    BY <1>2, <1>5 DEF HearFinished
  <2>2. heard[j] = [i \in 1 .. Produced(j) |-> i] /\ held[j] = <<>>
    BY <2>1, EndOfText
  <2>3. Produced(j)' = Produced(j)
    BY <1>1, ProducedSame
  <2>4. heard'[j] = [i \in 1 .. Produced(j)' |-> i] /\ held'[j] = <<>> /\ listener'[j] # "Up"
    BY <1>1, <2>1, <2>2, <2>3
  <2> QED
    BY <2>4 DEF TextInv
<1>6. CASE j = k /\ ListenerDies(k)
  <2>1. listener[j] = "Up" /\ listener'[j] = "Gone" /\ (caller'[j] = caller[j] \/ caller'[j] = "Broken")
    BY <1>2, <1>6 DEF ListenerDies
  <2>2. listener'[j] # "Up" /\ caller'[j] # "Returned" /\ (held'[j] # <<>> => j \in live')
    BY <1>1, <2>1 DEF TextInv
  <2> QED
    BY <2>2 DEF TextInv
<1> QED
  BY <1>3, <1>4, <1>5, <1>6 DEF Listener

LEMMA CallerTexts ==
  ASSUME RepliesInv, NEW j \in Jobs, TextInv(j), NEW k \in Jobs, Caller(k)
  PROVE  TextInv(j)'
<1>1. /\ told' = told /\ events' = events /\ live' = live /\ held' = held /\ heard' = heard
      /\ done' = done /\ listener' = listener
  BY DEF Caller, Join, JoinFails, Leave, Took, workerVars, emissionVars
<1>2. /\ heard[j] \in Seq(Nat) /\ items[j] \in Seq(Seq(Nat)) /\ held[j] \in Seq(Nat)
      /\ items \in [Jobs -> Seq(Seq(Nat))] /\ events \in Seq(EmissionEvents)
      /\ caller \in [Jobs -> {"Waiting", "Joining", "Returned", "Broken", "Left"}]
  BY DEF RepliesInv, DeliveryTypes
<1>3. caller'[j] = "Returned" <=> caller[j] = "Returned"
  BY <1>2 DEF Caller, Join, JoinFails, Leave, Took
<1>4. CASE items'[j] = items[j]
  BY <1>1, <1>3, <1>4, TextLeftAlone
<1>5. CASE items'[j] # items[j]
  <2>1. j = k /\ items'[j] = Append(items[j], Finished) /\ caller[j] = "Waiting" /\ listener[j] = "Up"
    BY <1>2, <1>5 DEF Caller, Join, JoinFails, Leave, Took
  <2>2. \A i \in 1 .. Len(items[j]) : items[j][i] # Finished
    BY <2>1 DEF RepliesInv, FinishedInv
  <2>3. InPlace(heard[j], items[j], held[j]) /\ SentInv(j) /\ InOrder(j)
    BY <2>1 DEF TextInv
  <2>4. InPlace(heard'[j], items'[j], held'[j]) /\ Cursor(j)' = Cursor(j)
    <3>1. /\ InPlace(heard[j], Append(items[j], Finished), held[j])
          /\ Reached(heard[j], Append(items[j], Finished), held[j])
               = Reached(heard[j], items[j], held[j])
      BY <1>2, <2>2, <2>3, SaysFinished
    <3>2. Cursor(j)' = Reached(heard'[j], items'[j], held'[j])
      BY DEF Cursor, Reached
    <3> QED
      BY <1>1, <2>1, <3>1, <3>2 DEF Cursor
  <2>5. SentInv(j)' /\ InOrder(j)'
    <3>1. Produced(j)' = Produced(j)
      BY <1>1, ProducedSame
    <3>2. (\A t : Sent(j, t)' <=> Sent(j, t)) /\ InOrder(j)'
      BY <1>1, <1>2, <2>3, EventsKeepTokens
    <3>3. Cursor(j) <= Produced(j) /\ \A t : Sent(j, t) <=> t \in Cursor(j) + 1 .. Produced(j)
      BY <2>3, SentExactly
    <3>4. Cursor(j)' <= Produced(j)' /\ \A t : Sent(j, t)' <=> t \in Cursor(j)' + 1 .. Produced(j)'
      BY <2>4, <3>1, <3>2, <3>3
    <3> QED
      BY <3>2, <3>4, SentExactly
  <2>6. ~done'[j] /\ caller'[j] # "Returned" /\ (held'[j] # <<>> => j \in live')
    BY <1>1, <1>3, <2>1 DEF TextInv
  <2> QED
    BY <2>4, <2>5, <2>6 DEF TextInv
<1> QED
  BY <1>4, <1>5

-------------------------------------------------------------------------------
(* The invariant of the texts.                                             *)

LEMMA TextsInit == Init => TextsInv
<1>1. SUFFICES ASSUME Init, NEW j \in Jobs PROVE TextInv(j)
  BY DEF TextsInv
<1>2. /\ told[j] = <<>> /\ events = <<>> /\ held[j] = <<>> /\ items[j] = <<>> /\ heard[j] = <<>>
      /\ done[j] = FALSE /\ caller[j] = "Waiting"
  BY <1>1 DEF Init, PortInit
<1>3. 1 .. Len(events) = {} /\ Len(heard[j]) = 0 /\ 1 .. Len(heard[j]) = {} /\ 1 .. Len(held[j]) = {}
  BY <1>2
<1>4. Texts(items[j]) = 0 /\ 1 .. Texts(items[j]) = {}
  BY <1>2 DEF Texts
<1>5. InPlace(heard[j], items[j], held[j]) /\ InOrder(j)
  BY <1>3, <1>4 DEF InPlace, InOrder
<1>6. Cursor(j) = 0
  <2>1. Len(held[j]) = 0 /\ 0 + 0 = 0
    BY <1>2
  <2> QED
    BY <1>3, <1>4, <2>1 DEF Cursor, Reached, End
<1>7. Produced(j) = 0
  <2>1. {i \in DOMAIN told[j] : told[j][i] = "Token"} = {}
    BY <1>2
  <2> QED
    BY <2>1, FS_EmptySet DEF Produced
<1>8. SentInv(j)
  <2>1. 0 + 1 .. 0 = {} /\ 0 <= 0
    OBVIOUS
  <2> QED
    BY <1>3, <1>6, <1>7, <2>1 DEF SentInv
<1> QED
  BY <1>2, <1>5, <1>8 DEF TextInv

LEMMA TextsStep == RepliesInv /\ TextsInv /\ [Next]_vars => TextsInv'
<1>1. SUFFICES ASSUME RepliesInv, TextsInv, [Next]_vars, NEW j \in Jobs PROVE TextInv(j)'
  BY DEF TextsInv
<1>2. TextInv(j)
  BY <1>1 DEF TextsInv
<1>3. CASE UNCHANGED vars
  <2>1. /\ told' = told /\ events' = events /\ live' = live /\ held' = held /\ items' = items
        /\ done' = done /\ listener' = listener /\ heard' = heard /\ caller' = caller
    BY <1>3 DEF vars, workerVars, emissionVars, callerVars
  <2> QED
    BY <1>1, <1>2, <2>1, TextLeftAlone
<1> QED
  BY <1>1, <1>2, <1>3, WorkerTexts, EmissionTexts, ListenerTexts, CallerTexts DEF Next

(* Whatever the lengths of the texts, who holds bytes back and who panics, *)
(* a join that returns gives all the text the worker streamed, in order    *)
(* (emission.rs, finish; job.rs, JobHandle::join).                         *)
THEOREM JoinAlwaysReturnsEverything == Spec => []JoinReturnsEverything
<1>1. TextsInv => JoinReturnsEverything
  BY DEF TextsInv, TextInv, JoinReturnsEverything
<1> QED
  BY <1>1, TextsInit, TextsStep, RepliesAlways, PTL DEF Spec
===============================================================================
