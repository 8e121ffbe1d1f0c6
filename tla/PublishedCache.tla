----------------------------- MODULE PublishedCache -----------------------------
(***************************************************************************)
(* The cache directory of a published model: the downloaded checkpoint     *)
(* (mpk) and tokenizer (tok), the burnpack copy of the weights (bpk) that  *)
(* the first load leaves, and the temporary file each process writes that  *)
(* copy under. Processes (the shell's supervised children, the server, a   *)
(* second command) run downloads, loads and deletes over it, and may die   *)
(* anywhere.                                                               *)
(*                                                                         *)
(* A file is an inode and the blocks written to it, so that a write to a   *)
(* file removed meanwhile is lost, and two writers of a file share it.     *)
(***************************************************************************)
EXTENDS Naturals, FiniteSets

CONSTANTS Procs,        \* process ids
          MaxCommands   \* bound on the commands begun

Downloads == {"mpk", "tok"}
Names == Downloads \cup {"bpk"} \cup Procs
Blocks == {1, 2}

ASSUME CacheAssumption ==
  Procs \cap {"mpk", "tok", "bpk"} = {} /\ MaxCommands \in Nat

VARIABLES
  file,         \* what each name is: an inode (0: no file) and its blocks
  proc,         \* per process: its command, where it is, on which file, the
                \* inode it has open, the blocks it still has to write, and the
                \* file the weights are read from
  outcome,      \* how each process's last command ended
  commands,     \* commands begun, bounded by MaxCommands
  inodes,       \* inodes made
  torn          \* downloads whose writer died or failed in the middle

cacheVars == <<file, proc, outcome, commands, inodes, torn>>

NoFile == [inode |-> 0, blocks |-> {}]
Exists(f) == file[f].inode # 0
Whole(f) == file[f].blocks = Blocks

Idle == [command |-> "None", at |-> "Idle", on |-> "mpk", open |-> 0, left |-> {}, from |-> "mpk"]

CacheInit ==
  /\ file = [f \in Names |-> NoFile]
  /\ proc = [p \in Procs |-> Idle]
  /\ outcome = [p \in Procs |-> "None"]
  /\ commands = 0 /\ inodes = 0 /\ torn = {}

(* Mutant: the copy is written under a name all processes share.           *)
SharedTemp(p) == CHOOSE q \in Procs : TRUE
(* The pid keeps two processes from writing to one another's file.         *)
TempOf(p) == p

At(p, where) == proc[p].at = where
Goes(p, where) == proc' = [proc EXCEPT ![p].at = where]
GoesTo(p, where, f) == proc' = [proc EXCEPT ![p].at = where, ![p].on = f]
Ends(p, how) ==
  /\ proc' = [proc EXCEPT ![p] = Idle]
  /\ outcome' = [outcome EXCEPT ![p] = how]

Run(p, command) ==
  /\ At(p, "Idle") /\ commands < MaxCommands
  /\ commands' = commands + 1
  /\ outcome' = [outcome EXCEPT ![p] = "None"]
  /\ proc' = [proc EXCEPT ![p] = [Idle EXCEPT
                !.command = command, !.at = IF command = "Delete" THEN "Look" ELSE "Check"]]
  /\ UNCHANGED <<file, inodes, torn>>

(* Where a command goes once it has a downloaded file.                     *)
Got(p) ==
  CASE proc[p].on = "mpk" /\ proc[p].command = "Load" -> Goes(p, "Choose") /\ UNCHANGED outcome
    [] proc[p].on = "mpk" /\ proc[p].command = "Download" ->
         GoesTo(p, "Check", "tok") /\ UNCHANGED outcome
    [] proc[p].on = "tok" /\ proc[p].command = "Load" -> Goes(p, "Read") /\ UNCHANGED outcome
    [] OTHER -> Ends(p, "Downloaded")

(* download: a file that is there is taken for the download.               *)
Present(p) ==
  /\ At(p, "Check")
  /\ IF Exists(proc[p].on) THEN Got(p) ELSE Goes(p, "Fetch") /\ UNCHANGED outcome
  /\ UNCHANGED <<file, commands, inodes, torn>>

(* All the bytes are in memory before the file is made; the downloader     *)
(* panics when it cannot have them.                                        *)
Fetch(p) ==
  /\ At(p, "Fetch")
  /\ \/ Goes(p, "Create") /\ UNCHANGED outcome
     \/ Ends(p, "Panicked")
  /\ UNCHANGED <<file, commands, inodes, torn>>

(* File::create, of a download or of the copy: a new file, or the one      *)
(* there, emptied.                                                         *)
Create(p) ==
  LET f == proc[p].on
      inode == IF Exists(f) THEN file[f].inode ELSE inodes + 1 IN
  /\ At(p, "Create")
  /\ file' = [file EXCEPT ![f] = [inode |-> inode, blocks |-> {}]]
  /\ inodes' = IF Exists(f) THEN inodes ELSE inodes + 1
  /\ proc' = [proc EXCEPT ![p].at = "Write", ![p].open = inode, ![p].left = Blocks]
  /\ UNCHANGED <<outcome, commands, torn>>

Write(p) ==
  /\ At(p, "Write") /\ proc[p].left # {}
  /\ LET b == CHOOSE b \in proc[p].left : \A c \in proc[p].left : b <= c IN
       /\ file' = [f \in Names |-> IF file[f].inode = proc[p].open
                                   THEN [file[f] EXCEPT !.blocks = @ \cup {b}] ELSE file[f]]
       /\ proc' = [proc EXCEPT ![p].left = @ \ {b}]
  /\ UNCHANGED <<outcome, commands, inodes, torn>>

Torn(p) == IF At(p, "Write") /\ proc[p].on \in Downloads THEN torn \cup {proc[p].on} ELSE torn

Written(p) ==
  /\ At(p, "Write") /\ proc[p].left = {}
  /\ IF proc[p].on \in Downloads THEN Got(p) ELSE Goes(p, "Rename") /\ UNCHANGED outcome
  /\ UNCHANGED <<file, commands, inodes, torn>>

(* A full disk, or a directory that cannot be written: a download is left  *)
(* as it is and the command fails, a load panicking on the error it is     *)
(* given; the copy is removed and the load has succeeded.                  *)
WriteFails(p) ==
  /\ At(p, "Create") \/ (At(p, "Write") /\ proc[p].left # {})
  /\ IF proc[p].on \in Downloads
     THEN Ends(p, "Failed") /\ UNCHANGED file
     ELSE Ends(p, "Loaded") /\ file' = [file EXCEPT ![proc[p].on] = NoFile]
  /\ torn' = Torn(p)
  /\ UNCHANGED <<commands, inodes>>

(* checkpoint: the copy is preferred to the download.                      *)
Choose(p) ==
  /\ At(p, "Choose")
  /\ proc' = [proc EXCEPT ![p].from = IF Exists("bpk") THEN "bpk" ELSE "mpk",
                          ![p].at = "Check", ![p].on = "tok"]
  /\ UNCHANGED <<file, outcome, commands, inodes, torn>>

(* A load of files that are not whole, or gone by now, fails, and load     *)
(* unwraps. One from the download leaves a copy.                           *)
Read(p) ==
  /\ At(p, "Read")
  /\ IF ~(Whole("tok") /\ Whole(proc[p].from)) THEN Ends(p, "Panicked")
     ELSE IF proc[p].from = "bpk" THEN Ends(p, "Loaded")
     ELSE GoesTo(p, "Create", TempOf(p)) /\ UNCHANGED outcome
  /\ UNCHANGED <<file, commands, inodes, torn>>

Rename(p) ==
  /\ At(p, "Rename")
  /\ file' = IF Exists(proc[p].on)
             THEN [file EXCEPT !["bpk"] = file[proc[p].on], ![proc[p].on] = NoFile]
             ELSE file
  /\ Ends(p, "Loaded")
  /\ UNCHANGED <<commands, inodes, torn>>

(* delete, of the download and then of the tokenizer.                      *)
Look(p) ==
  /\ At(p, "Look")
  /\ IF Exists(proc[p].on) THEN Goes(p, "Remove") /\ UNCHANGED outcome
     ELSE IF proc[p].on = "mpk" THEN GoesTo(p, "Look", "tok") /\ UNCHANGED outcome
     ELSE Ends(p, "Deleted")
  /\ UNCHANGED <<file, commands, inodes, torn>>

Unlink(p) ==
  /\ At(p, "Remove")
  /\ file' = [file EXCEPT ![proc[p].on] = NoFile]
  /\ torn' = torn \ {proc[p].on}
  /\ IF ~Exists(proc[p].on) THEN Ends(p, "Panicked")
     ELSE IF proc[p].on = "mpk" THEN GoesTo(p, "Look", "tok") /\ UNCHANGED outcome
     ELSE Ends(p, "Deleted")
  /\ UNCHANGED <<commands, inodes>>

Dies(p) ==
  /\ ~At(p, "Idle") /\ Ends(p, "Died")
  /\ torn' = Torn(p)
  /\ UNCHANGED <<file, commands, inodes>>

CacheNext == \E p \in Procs :
  \/ \E command \in {"Download", "Load", "Delete"} : Run(p, command)
  \/ Present(p) \/ Fetch(p) \/ Create(p) \/ Write(p) \/ Written(p) \/ WriteFails(p)
  \/ Choose(p) \/ Read(p) \/ Rename(p) \/ Look(p) \/ Unlink(p) \/ Dies(p)

CacheAtEnd == commands = MaxCommands /\ \A p \in Procs : At(p, "Idle")

CacheSpec == CacheInit /\ [][CacheNext]_cacheVars

-------------------------------------------------------------------------------
(* Whatever runs beside it and wherever a process dies, the copy that      *)
(* every load prefers is whole (write_burnpack: "a half-written `.bpk` is  *)
(* worse than no `.bpk` at all"); and a download that is not whole is      *)
(* being written, or its writer did not get to its end: a download that    *)
(* fails before it leaves nothing a load would take for the model.         *)
CopyWhole ==
  /\ Exists("bpk") => Whole("bpk")
  /\ \A f \in Downloads : Exists(f) /\ ~Whole(f) =>
       f \in torn \/ \E p \in Procs : At(p, "Write") /\ proc[p].open = file[f].inode

(* "Delete the pre-trained model weights from the local cache directory."  *)
(* (pretrained.rs, delete_weights): with nobody else about, no file of     *)
(* weights is left by a delete.                                            *)
DeletedIsGone ==
  \A p \in Procs : outcome[p] = "Deleted" /\ (\A q \in Procs : At(q, "Idle")) =>
    ~Exists("mpk") /\ ~Exists("bpk")
===============================================================================
