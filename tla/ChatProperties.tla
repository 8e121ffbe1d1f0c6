----------------------------- MODULE ChatProperties -----------------------------
(***************************************************************************)
(* What the HTTP server promises its clients.                              *)
(***************************************************************************)
EXTENDS ChatServer

JobStates ==
  {"None", "Called", "Queued", "Loading", "Running", "Evicted", "Resuming", "Over", "Joined"}
Frames == <<"Unloaded", "Loading", "Loaded", "Marker", "Text", "Stats", "Finish", "Error", "Done">>
FrameSet == {Frames[i] : i \in DOMAIN Frames}

(* The types, and who holds what: the store's lock is with exactly the     *)
(* request that switches or lists, also after a panic under it, and a      *)
(* model's server is busy exactly for a load or, under a mutex, a job.     *)
LocksHeld ==
  /\ current \in Models \cup {Nobody} /\ store \in Requests \cup {Nobody}
  /\ poisoned \subseteq Models /\ cancelled \subseteq Requests /\ watcher \subseteq Streams
  /\ \A r \in Requests :
       /\ job[r] \in JobStates
       /\ unsent[r] \in 0 .. spoken[r] /\ spoken[r] \in 0 .. MaxText
       /\ Len(pipe[r]) <= PipeSize
       /\ pc[r] \in {"Switching", "Asking"} <=> store = r
       /\ pc[r] = "Loading" \/ job[r] \in {"Loading", "Resuming"} => holder[wanted[r]] = r
       /\ job[r] = "Running" /\ wanted[r] \notin Batched => holder[wanted[r]] = r
  /\ \A m \in Models : holder[m] # Nobody =>
       LET r == holder[m] IN
         /\ wanted[r] = m
         /\ \/ pc[r] = "Loading" \/ job[r] \in {"Loading", "Resuming"}
            \/ m \notin Batched /\ job[r] = "Running"

(* Everything sent to a client so far, in order.                           *)
Sent(r) == got[r] \o pipe[r]
Rank(f) == CHOOSE i \in DOMAIN Frames : Frames[i] = f
Times(f, s) == Cardinality({i \in DOMAIN s : s[i] = f})

(* A stream reads preamble, text, statistics, finish, done: but for the    *)
(* comments, the frames come in that order and only text is repeated; the  *)
(* statistics follow all of the text that was generated; an error text     *)
(* means the job was shed; and a stream that ends ends with done. The      *)
(* frames are sent by two parties, the task and the listener thread. A job *)
(* that panics under its mutex is left out: its text and the end of the    *)
(* stream race.                                                            *)
SseWellFormed ==
  \A r \in Streams : result[r] # "Panicked" =>
    LET s == Sent(r) IN
      /\ \A i, j \in DOMAIN s : i < j /\ {s[i], s[j]} \subseteq FrameSet =>
           Rank(s[i]) < Rank(s[j]) \/ (s[i] = "Text" /\ s[j] = "Text")
      /\ Times("Stats", s) > 0 => Times("Text", s) = spoken[r]
      /\ Times("Loaded", s) > 0 => Times("Loading", s) > 0
      /\ Times("Error", s) > 0 => result[r] = "Overloaded"
      /\ Times("Finish", s) > 0 => result[r] = "Done"
      /\ client[r] = "Ended" => pc[r] = "Aborted" \/ s[Len(s)] = "Done"

(* A panic stays with the model it happened in, unless that model is       *)
(* served under a mutex: while no mutex is poisoned, the only handlers cut *)
(* short in front of a client are those whose own batched load failed.     *)
PanicsContained ==
  poisoned \ Batched = {} =>
    \A r \in Requests : pc[r] = "Aborted" /\ client[r] # "Gone" =>
      r \in Streams /\ wanted[r] \in Batched \cap Fragile

(* Whatever switches, loads and panics come between, no job is decoded     *)
(* without the weights of its model: an unload does not take them from     *)
(* under a job in the batch, and a job that lost them while it was evicted *)
(* - the unload does not look at those - has them back when it goes on.    *)
WeightsStay == \A r \in Requests : job[r] = "Running" => loaded[wanted[r]]

Served(r) ==
  \/ wanted[r] = Absent
  \/ pc[r] = "Answered" \/ client[r] \in {"Gone", "Ended"}
  \/ pc[r] = "Aborted" /\ status[r] = 0

(* Evicted next to a generation that does not end: the wait is as long.    *)
Displaced(r) == job[r] = "Evicted" /\ Active(wanted[r]) \cap Endless # {}

(* Every request whose generation ends and whose client reads is answered, *)
(* or sees its stream end, even on a single runtime thread and next to a   *)
(* client that has stopped reading, another that generates for ever, model *)
(* switches, evictions and panics, unless it keeps being evicted by a      *)
(* generation without end.                                                 *)
EveryoneServed ==
  \A r \in Requests \ (Dozers \cup Endless) : <>Served(r) \/ []<>Displaced(r)

(* A client that goes away does not leave a batched generation running.    *)
DisconnectStops ==
  \A r \in Streams : wanted[r] \in Batched =>
    (client[r] = "Gone" ~> [](job[r] \in {"None", "Over", "Joined"}))
===============================================================================
