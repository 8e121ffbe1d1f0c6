------------------------------- MODULE RepoFetch -------------------------------
(***************************************************************************)
(* Fetching one file of a Hugging Face repository: the bytes stream into a *)
(* partial file that is renamed into place once it has the length the      *)
(* server announced, and that a later attempt, of this process or the next *)
(* one, carries on from. The server may refuse, be out of reach, honour a  *)
(* range or ignore it; a process may die anywhere.                         *)
(*                                                                         *)
(* A file is an inode, its content the sequence of the published file's    *)
(* blocks in it (0: a hole).                                               *)
(***************************************************************************)
EXTENDS Naturals, Sequences, SequencesExt, FiniteSetsExt

CONSTANTS Fetchers,     \* processes
          FileSize,     \* blocks of the published file
          Attempts,     \* ATTEMPTS
          MaxFetches    \* bound on the calls begun

ASSUME FetchAssumption == FileSize \in Nat \ {0} /\ Attempts \in Nat \ {0} /\ MaxFetches \in Nat

VARIABLES
  content,      \* content of each inode made
  partial,      \* the inode `<name>.part` names (0: no file)
  target,       \* the inode the file itself names
  fetcher,      \* per process: where it is, its attempt, the length it found,
                \* the status it was answered, the length announced (0: none),
                \* the inode it has open and the blocks it was sent
  answer,       \* what each process's last call returned
  calls         \* calls begun, bounded by MaxFetches

fetchVars == <<content, partial, target, fetcher, answer, calls>>

Published == [i \in 1 .. FileSize |-> i]
Length(inode) == IF inode = 0 THEN 0 ELSE Len(content[inode])

AtRest == [at |-> "Idle", attempt |-> 0, have |-> 0, status |-> "None",
           expected |-> 0, open |-> 0, sent |-> 0]

FetchInit ==
  /\ content = <<>> /\ partial = 0 /\ target = 0
  /\ fetcher = [p \in Fetchers |-> AtRest]
  /\ answer = [p \in Fetchers |-> "None"]
  /\ calls = 0

Returns(p, r) ==
  /\ fetcher' = [fetcher EXCEPT ![p] = AtRest]
  /\ answer' = [answer EXCEPT ![p] = r]
Continues(p, f) == fetcher' = [fetcher EXCEPT ![p] = f] /\ UNCHANGED answer

(* The next attempt, or the last error.                                    *)
Retries(p) ==
  IF fetcher[p].attempt = Attempts THEN Returns(p, "Err")
  ELSE Continues(p, [AtRest EXCEPT !.at = "Send", !.attempt = fetcher[p].attempt + 1])

(* A file already in place is the answer.                                  *)
Call(p) ==
  /\ fetcher[p].at = "Idle" /\ calls < MaxFetches
  /\ calls' = calls + 1
  /\ IF target # 0 THEN Returns(p, "Found")
     ELSE /\ fetcher' = [fetcher EXCEPT ![p] = [AtRest EXCEPT !.at = "Send", !.attempt = 1]]
          /\ answer' = [answer EXCEPT ![p] = "None"]
  /\ UNCHANGED <<content, partial, target>>

(* What the server may answer to a request from `have` on: a range beyond  *)
(* the end cannot be satisfied, one within it may be ignored.              *)
Statuses(have) ==
  {"Unreachable", "NotFound", "Gated", "Failed"} \cup
    (IF have >= FileSize THEN {"RangeNotSatisfiable", "Ok"}
     ELSE IF have > 0 THEN {"PartialContent", "Ok"} ELSE {"Ok"})

Send(p) ==
  /\ fetcher[p].at = "Send"
  /\ LET have == Length(partial) IN \E s \in Statuses(have) :
       Continues(p, [fetcher[p] EXCEPT !.at = "Answered", !.have = have, !.status = s])
  /\ UNCHANGED <<content, partial, target, calls>>

(* No such file; not without a token; a range the file does not have: the  *)
(* partial file is not of this file, start over at once; or a failure to   *)
(* try again after.                                                        *)
Refused(p) ==
  LET status == fetcher[p].status IN
  /\ fetcher[p].at = "Answered" /\ status \notin {"Ok", "PartialContent"}
  /\ partial' = IF status \in {"NotFound", "RangeNotSatisfiable"} THEN 0 ELSE partial
  /\ CASE status = "NotFound" -> Returns(p, "Missing")
       [] status = "Gated" -> Returns(p, "Err")
       [] OTHER -> Retries(p)
  /\ UNCHANGED <<content, target, calls>>

(* Mutant: a resume whatever the server made of the range.                 *)
AlwaysResuming(f) == f.have > 0
(* A server that honoured the range appends, one that ignored it starts    *)
(* the file again.                                                         *)
Resuming(f) == f.have > 0 /\ f.status = "PartialContent"

(* What the body holds: the rest of the file, or all of it.                *)
Body(f) == IF f.status = "PartialContent" THEN SubSeq(Published, f.have + 1, FileSize) ELSE Published

(* The length may go unannounced.                                          *)
Open(p) ==
  LET f == fetcher[p]
      inode == IF partial = 0 THEN Len(content) + 1 ELSE partial
      length == Len(Body(f)) + (IF Resuming(f) THEN f.have ELSE 0) IN
  /\ f.at = "Answered" /\ f.status \in {"Ok", "PartialContent"}
  /\ content' = IF partial = 0 THEN Append(content, <<>>)
                ELSE IF Resuming(f) THEN content
                ELSE [content EXCEPT ![partial] = <<>>]
  /\ partial' = inode
  /\ \E expected \in {0, length} :
       Continues(p, [f EXCEPT !.at = "Copy", !.expected = expected, !.open = inode])
  /\ UNCHANGED <<target, calls>>

(* A block written at the end of the file, or where this handle is in it.  *)
Placed(s, at, b) ==
  [i \in 1 .. Max({Len(s), at}) |-> IF i = at THEN b ELSE IF i <= Len(s) THEN s[i] ELSE 0]

Copy(p) ==
  LET f == fetcher[p]
      at == IF Resuming(f) THEN Length(f.open) + 1 ELSE f.sent + 1 IN
  /\ f.at = "Copy" /\ f.sent < Len(Body(f))
  /\ content' = [content EXCEPT ![f.open] = Placed(@, at, Body(f)[f.sent + 1])]
  /\ Continues(p, [f EXCEPT !.sent = @ + 1])
  /\ UNCHANGED <<partial, target, calls>>

(* The copy is over: with the body, or before it where the announced       *)
(* length will tell. A body of no announced length marks its end.          *)
Copied(p) ==
  LET f == fetcher[p] IN
  /\ f.at = "Copy" /\ (f.sent = Len(Body(f)) \/ f.expected # 0)
  /\ Continues(p, [f EXCEPT !.at = "Measure"])
  /\ UNCHANGED <<content, partial, target, calls>>

(* What has arrived stays for the next attempt.                            *)
Interrupted(p) ==
  /\ fetcher[p].at = "Copy" /\ Retries(p)
  /\ UNCHANGED <<content, partial, target, calls>>

Measure(p) ==
  LET f == fetcher[p] IN
  /\ f.at = "Measure"
  /\ IF partial = 0 THEN Returns(p, "Err")
     ELSE IF f.expected \notin {0, Length(partial)} THEN Retries(p)
     ELSE Continues(p, [f EXCEPT !.at = "Move"])
  /\ UNCHANGED <<content, partial, target, calls>>

Move(p) ==
  /\ fetcher[p].at = "Move"
  /\ IF partial = 0 THEN Returns(p, "Err") /\ UNCHANGED <<partial, target>>
     ELSE Returns(p, "Found") /\ target' = partial /\ partial' = 0
  /\ UNCHANGED <<content, calls>>

Killed(p) ==
  /\ fetcher[p].at # "Idle" /\ Returns(p, "Killed")
  /\ UNCHANGED <<content, partial, target, calls>>

FetchNext == \E p \in Fetchers :
  \/ Call(p) \/ Send(p) \/ Refused(p) \/ Open(p) \/ Copy(p) \/ Copied(p)
  \/ Interrupted(p) \/ Measure(p) \/ Move(p) \/ Killed(p)

FetchAtEnd == calls = MaxFetches /\ \A p \in Fetchers : fetcher[p].at = "Idle"

FetchSpec == FetchInit /\ [][FetchNext]_fetchVars

-------------------------------------------------------------------------------
(* "A cut-off download can never be picked up as a complete file"          *)
(* (repo.rs, fetch), through interruptions, ignored ranges, retries and    *)
(* restarts: what is in place under the file's own name is the published   *)
(* file, and a call that returns it finds it there.                        *)
TargetWhole ==
  /\ target # 0 => content[target] = Published
  /\ \A p \in Fetchers : answer[p] = "Found" => target # 0
===============================================================================
