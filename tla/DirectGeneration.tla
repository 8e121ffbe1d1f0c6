---------------------------- MODULE DirectGeneration ----------------------------
(***************************************************************************)
(* Generation without a batching worker: generate_batch drives the rounds  *)
(* of a fixed batch itself and sends each new token to the decode thread   *)
(* of its sequence, which turns tokens into text and hands it to the       *)
(* listener. A token is one byte, by class, or a whole ASCII character.    *)
(***************************************************************************)
EXTENDS Utf8Buffer, FiniteSets

CONSTANTS Contexts,     \* the streaming context sizes of the tokenizers
          MaxBatch,     \* bound on the prompts of a batch
          Lanes,        \* the decoder's lanes
          SampleLen,    \* the tokens a sequence may generate
          Vocabulary    \* the tokens the model may produce

ASSUME DirectAssumption ==
  /\ Contexts \subseteq Nat /\ Lanes \in Nat /\ MaxBatch \in Nat /\ SampleLen \in Nat
  /\ Vocabulary \subseteq ByteClasses

VARIABLES
  context,      \* the tokenizer's streaming context size
  seqs,         \* the sequences of the batch
  phase,        \* what the driver is doing
  generated,    \* per sequence, its tokens, a stop token left out
  rounds,       \* per sequence, the tokens it has generated, a stop token included
  finished,     \* the sequences that have finished
  lanes,        \* the lanes that hold a history
  outcomes,     \* the outcomes of the round still to be looked at
  channel,      \* per sequence, the tokens on their way to its decode thread
  closed,       \* the sequences whose sender has been dropped
  thread,       \* per sequence, its decode thread
  buffer,       \* per sequence, the tokens its decoder has seen
  shownUpTo,    \* per sequence, emitted_tokens
  shown,        \* per sequence, the text emitted
  result        \* what generate_batch returned

driverVars == <<seqs, phase, generated, rounds, finished, lanes, outcomes, closed, result>>
threadVars == <<thread, buffer, shownUpTo, shown>>
directVars == <<context, driverVars, channel, threadVars>>

DirectInit ==
  /\ context \in Contexts
  /\ \E n \in 1 .. MaxBatch :
       /\ seqs = 1 .. n
       /\ generated = [i \in 1 .. n |-> <<>>] /\ rounds = [i \in 1 .. n |-> 0]
       /\ channel = [i \in 1 .. n |-> <<>>] /\ thread = [i \in 1 .. n |-> "Up"]
       /\ buffer = [i \in 1 .. n |-> <<>>] /\ shownUpTo = [i \in 1 .. n |-> 0]
       /\ shown = [i \in 1 .. n |-> <<>>]
  /\ phase = "Start" /\ finished = {} /\ lanes = {} /\ outcomes = <<>> /\ closed = {}
  /\ result = "None"

-------------------------------------------------------------------------------
(* The streaming decoder.                                                  *)

Overlap == 2
Replacement == <<"Replacement">>

(* SentencePiece: a run of byte tokens is text if all of it is, else every *)
(* byte of it is replaced. The text of a run is put at its start.          *)
Piece(tokens, i) ==
  LET start == CHOOSE k \in 1 .. i : /\ \A l \in k .. i : tokens[l] # "Ascii"
                                     /\ k = 1 \/ tokens[k - 1] = "Ascii"
      end == CHOOSE k \in i .. Len(tokens) : /\ \A l \in i .. k : tokens[l] # "Ascii"
                                             /\ k = Len(tokens) \/ tokens[k + 1] = "Ascii"
      run == Assembled[SubSeq(tokens, start, end)]
      sound == run.rest = <<>> /\ \A k \in DOMAIN run.text : run.text[k].ok
  IN IF tokens[i] = "Ascii" THEN <<<<"Ascii">>>>
     ELSE IF ~sound THEN <<Replacement>>
     ELSE IF i = start THEN [k \in DOMAIN run.text |-> run.text[k].bytes]
     ELSE <<>>

Decode(tokens) == FlattenSeq([i \in DOMAIN tokens |-> Piece(tokens, i)])

Width(char) == IF char = Replacement THEN 3 ELSE Len(char)
Size(t) == FoldLeft(LAMBDA n, char : n + Width(char), 0, t)

(* get(n..): the text from byte n on, or nothing if n is inside a          *)
(* character or beyond the end.                                            *)
From(t, n) ==
  IF \E k \in 0 .. Len(t) : Size(SubSeq(t, 1, k)) = n
  THEN SubSeq(t, 1 + (CHOOSE k \in 0 .. Len(t) : Size(SubSeq(t, 1, k)) = n), Len(t))
  ELSE <<>>

NewText(tokens, upTo) ==
  LET start == IF upTo > Overlap THEN upTo - Overlap ELSE 0 IN
  From(Decode(SubSeq(tokens, start + 1, Len(tokens))), Size(Decode(SubSeq(tokens, start + 1, upTo))))

(* push_tokens, with a context: nothing before it is full, or unless there *)
(* is something new.                                                       *)
Decoded(i, tokens) ==
  IF Len(tokens) - shownUpTo[i] < context THEN <<>> ELSE NewText(tokens, shownUpTo[i])

Process(i) ==
  /\ thread[i] = "Up" /\ channel[i] # <<>> /\ context > 0
  /\ LET tokens == Append(buffer[i], Head(channel[i]))
         new == Decoded(i, tokens) IN
       /\ buffer' = [buffer EXCEPT ![i] = tokens]
       /\ shown' = [shown EXCEPT ![i] = @ \o new]
       /\ shownUpTo' = [shownUpTo EXCEPT ![i] = IF new = <<>> THEN @ ELSE Len(tokens)]
  /\ channel' = [channel EXCEPT ![i] = Tail(@)]
  /\ UNCHANGED <<context, driverVars, thread>>

(* push_tokens, without: every token on its own.                           *)
ProcessAlone(i) ==
  /\ thread[i] = "Up" /\ channel[i] # <<>> /\ context = 0
  /\ Head(channel[i]) = "Ascii"
  /\ buffer' = [buffer EXCEPT ![i] = Append(@, "Ascii")]
  /\ shown' = [shown EXCEPT ![i] = Append(@, <<"Ascii">>)]
  /\ channel' = [channel EXCEPT ![i] = Tail(@)]
  /\ UNCHANGED <<context, driverVars, thread, shownUpTo>>

(* Tiktoken cannot decode a part of a character: the thread panics.        *)
ThreadPanics(i) ==
  /\ thread[i] = "Up" /\ channel[i] # <<>> /\ context = 0
  /\ Head(channel[i]) # "Ascii"
  /\ thread' = [thread EXCEPT ![i] = "Died"]
  /\ channel' = [channel EXCEPT ![i] = <<>>]
  /\ UNCHANGED <<context, driverVars, buffer, shownUpTo, shown>>

ThreadEnds(i) ==
  /\ thread[i] = "Up" /\ channel[i] = <<>> /\ i \in closed
  /\ thread' = [thread EXCEPT ![i] = "Ended"]
  /\ UNCHANGED <<context, driverVars, channel, buffer, shownUpTo, shown>>

-------------------------------------------------------------------------------
(* The driver.                                                             *)

Return(r) == result' = r /\ phase' = "Returned"

(* A panic drops everything: no lane is released.                          *)
Panics ==
  /\ Return("Panicked")
  /\ closed' = seqs
  /\ UNCHANGED <<generated, rounds, finished, lanes, outcomes, channel>>

TooMany ==
  /\ phase = "Start" /\ Cardinality(seqs) > Lanes
  /\ Panics
  /\ UNCHANGED <<context, seqs, threadVars>>

(* reset; the contexts and their threads are there from here on.           *)
Begin ==
  /\ phase = "Start" /\ Cardinality(seqs) <= Lanes
  /\ lanes' = {}
  /\ phase' = "Rounds"
  /\ UNCHANGED <<context, seqs, generated, rounds, finished, outcomes, closed, result, channel,
                 threadVars>>

(* step_round: every sequence that has not finished steps or fails.        *)
Round ==
  /\ phase = "Rounds" /\ finished # seqs
  /\ \E o \in [seqs \ finished -> Vocabulary \cup {"Stop", "Failed"}] :
       /\ outcomes' = [i \in seqs |-> IF i \in finished THEN "Skipped" ELSE o[i]]
       /\ rounds' = [i \in seqs |-> IF i \in finished \/ o[i] = "Failed" THEN rounds[i]
                                    ELSE rounds[i] + 1]
       /\ generated' = [i \in seqs |-> IF i \in finished \/ o[i] \notin Vocabulary THEN generated[i]
                                       ELSE Append(generated[i], o[i])]
       /\ finished' = {i \in seqs : i \in finished \/ o[i] \in {"Stop", "Failed"}
                                      \/ rounds'[i] = SampleLen}
  /\ lanes' = seqs
  /\ phase' = "Updating"
  /\ UNCHANGED <<context, seqs, closed, result, channel, threadVars>>

(* The loop over the outcomes, one at a time: a failure ends the batch, a  *)
(* token goes to its thread.                                               *)
Here == Cardinality(seqs) - Len(outcomes) + 1
Next1 == outcomes' = Tail(outcomes)

Update ==
  /\ phase = "Updating" /\ outcomes # <<>> /\ Head(outcomes) \in Vocabulary
  /\ thread[Here] = "Up"
  /\ channel' = [channel EXCEPT ![Here] = Append(@, Head(outcomes))]
  /\ Next1
  /\ UNCHANGED <<context, seqs, phase, generated, rounds, finished, lanes, closed, result, threadVars>>

UpdatePanics ==
  /\ phase = "Updating" /\ outcomes # <<>> /\ Head(outcomes) \in Vocabulary
  /\ thread[Here] = "Died"
  /\ Panics
  /\ UNCHANGED <<context, seqs, threadVars>>

PassOver ==
  /\ phase = "Updating" /\ outcomes # <<>> /\ Head(outcomes) \in {"Skipped", "Stop"}
  /\ Next1
  /\ UNCHANGED <<context, seqs, phase, generated, rounds, finished, lanes, closed, result, channel,
                 threadVars>>

EndRound ==
  /\ phase = "Updating" /\ outcomes = <<>>
  /\ phase' = "Rounds"
  /\ UNCHANGED <<context, seqs, generated, rounds, finished, lanes, outcomes, closed, result, channel,
                 threadVars>>

(* Mutant: an early return on a failure.                                   *)
LanesKept == lanes

LanesReleased == lanes \ seqs

(* Failure: the slots are released, the contexts dropped, nobody waits for *)
(* the decode threads.                                                     *)
Fail ==
  /\ phase = "Updating" /\ outcomes # <<>> /\ Head(outcomes) = "Failed"
  /\ lanes' = LanesReleased
  /\ closed' = seqs
  /\ Return("Err")
  /\ UNCHANGED <<context, seqs, generated, rounds, finished, outcomes, channel, threadVars>>

Complete ==
  /\ phase = "Rounds" /\ finished = seqs
  /\ lanes' = LanesReleased
  /\ phase' = "Finishing"
  /\ UNCHANGED <<context, seqs, generated, rounds, finished, outcomes, closed, result, channel,
                 threadVars>>

(* finish, sequence by sequence: drop the sender, join the thread.         *)
Finishing == IF closed = {} THEN 1 ELSE Cardinality(closed)

CloseChannel ==
  /\ phase = "Finishing"
  /\ closed = {} \/ (thread[Finishing] = "Ended" /\ closed # seqs)
  /\ closed' = closed \cup {Cardinality(closed) + 1}
  /\ UNCHANGED <<context, seqs, phase, generated, rounds, finished, lanes, outcomes, result, channel,
                 threadVars>>

(* Mutant: a context is dropped instead of finished.                       *)
NotJoined(i) == TRUE

Joined(i) == thread[i] = "Ended"

JoinPanics ==
  /\ phase = "Finishing" /\ closed # {} /\ thread[Finishing] = "Died"
  /\ Panics
  /\ UNCHANGED <<context, seqs, threadVars>>

Succeed ==
  /\ phase = "Finishing" /\ closed = seqs /\ Joined(Finishing)
  /\ Return("Ok")
  /\ UNCHANGED <<context, seqs, generated, rounds, finished, lanes, outcomes, closed, channel,
                 threadVars>>

-------------------------------------------------------------------------------
DecodeThread(i) == Process(i) \/ ProcessAlone(i) \/ ThreadPanics(i) \/ ThreadEnds(i)

Driver ==
  \/ TooMany \/ Begin \/ Round \/ Update \/ UpdatePanics \/ PassOver \/ EndRound \/ Fail
  \/ Complete \/ CloseChannel \/ JoinPanics \/ Succeed

DirectNext == Driver \/ \E i \in seqs : DecodeThread(i)

DirectSpec == DirectInit /\ [][DirectNext]_directVars

-------------------------------------------------------------------------------
AllWhole == \A i \in seqs : \A k \in DOMAIN generated[i] : generated[i][k] = "Ascii"

(* The caller's thread is only taken down by too large a batch, or by a    *)
(* tokenizer without context that got a part of a character: a decode      *)
(* thread that has died is noticed by the next token or by the join, never *)
(* missed.                                                                 *)
PanicsForACause ==
  /\ result = "Panicked" => Cardinality(seqs) > Lanes \/ (context = 0 /\ ~AllWhole)
  /\ result = "Ok" => \A i \in seqs : thread[i] # "Died"

(* When the batch returns, its slots are free, also after a failure; a     *)
(* success means that every token, stop tokens left out, has been through  *)
(* its decode thread, in order, and with a tokenizer that keeps no context *)
(* all of the text has been emitted, with one that does, all but what the  *)
(* last tokens, fewer than the context, decode to (generate.rs:162-187). A *)
(* panic reaches the caller for a cause (PanicsForACause).                 *)
ReturnsComplete ==
  /\ PanicsForACause
  /\ result \in {"Ok", "Err"} => lanes = {}
  /\ result = "Ok" => \A i \in seqs : buffer[i] = generated[i]
  /\ result = "Ok" /\ AllWhole => \A i \in seqs :
       /\ IsPrefix(shown[i], Decode(generated[i]))
       /\ Len(generated[i]) - Len(shown[i]) < (IF context = 0 THEN 1 ELSE context)

(* With a tokenizer that keeps a context, what has been emitted is a       *)
(* beginning of the text generated, where that is well-formed: a short     *)
(* token buffer is enough "for correct incremental decoding", of spacing   *)
(* and of UTF-8 (sentence_piece.rs:55-59).                                 *)
StreamFaithful ==
  result = "Ok" /\ context > 0 => \A i \in seqs :
    LET whole == Decode(generated[i]) IN
      Contains(whole, Replacement) \/ IsPrefix(shown[i], whole)
===============================================================================
