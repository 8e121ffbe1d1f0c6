------------------------------ MODULE Supervisor -------------------------------
(***************************************************************************)
(* The burn-lm command and the shell it supervises. The supervisor builds  *)
(* the command line with the backend and dtype of a configuration file, or *)
(* of its own arguments, runs it, and does so again as long as it ends by  *)
(* asking for a restart. Several may run in one directory: they share the  *)
(* file and the source tree that `new` adds a model crate to.              *)
(***************************************************************************)
EXTENDS Integers, FiniteSets, SequencesExt

CONSTANTS Shells,         \* the supervisors, each with its shell
          Backends,       \* the backend features the build knows
          NameOf,         \* what a build with each of them calls its backend
          HalfBackends,   \* those of them that compute in half precision
          DefaultFeatures,\* what load falls back to
          ArgLists,       \* the argument lists a supervisor may be started with
          Crates          \* names for new crates

Dtypes == {"f32", "f16", "bf16"}
Features == [backend : Backends, dtype : Dtypes]

(* An argument: what it would be as a value, the settings whose short or   *)
(* long name it contains, and the setting it is the flag of, if any.       *)
Word(x) == [value |-> x, names |-> <<>>, flag |-> {}]
Flag(setting) == [value |-> "-", names |-> <<setting>>, flag |-> {setting}]
Lookalike(setting) == [value |-> "-", names |-> <<setting>>, flag |-> {}]

ASSUME SupervisorAssumption ==
  /\ NameOf \in [Backends -> Backends] /\ HalfBackends \subseteq Backends
  /\ DefaultFeatures \in Features

VARIABLES
  configFile,   \* burnlm.config: its two lines, as a set that may be empty
  tree,         \* the source tree: crates, those still named as the template,
                \* registered servers, dependencies
  shell,        \* the supervisors
  claim         \* per supervisor, what its shell last asked for and nobody undid

supervisorVars == <<configFile, tree, shell, claim>>

NoClaim == [features |-> {}, crates |-> {}]
Unset == [backend |-> {}, dtype |-> {}]

Gone ==
  [at |-> "Ended", forced |-> Unset, said |-> Unset, config |-> DefaultFeatures,
   compiled |-> DefaultFeatures, known |-> {}, crate |-> {}, draft |-> {}]

SupervisorInit ==
  /\ configFile = {}
  /\ tree = [crates |-> {}, unnamed |-> {}, registered |-> {},
             dependencies |-> [c \in Crates |-> 0]]
  /\ shell = [p \in Shells |-> [Gone EXCEPT !.at = "Scan"]]
  /\ claim = [p \in Shells |-> NoClaim]

At_(p, where) == shell[p].at = where
Becomes(p, s) == shell' = [shell EXCEPT ![p] = s]
Moves(p, where) == Becomes(p, [shell[p] EXCEPT !.at = where])
Stops(p) == Becomes(p, Gone)

-------------------------------------------------------------------------------
(* The supervisor.                                                         *)

(* main scans every argument, its own path first, for the names of the     *)
(* settings, and takes the argument that follows. `wants` are the settings *)
(* whose value comes next; none may be left without one. The scan stops    *)
(* when both are set.                                                      *)
ScanStep(scan, arg) ==
  IF scan.wants # <<>>
  THEN [scan EXCEPT !.wants = Tail(@), !.set[Head(scan.wants)] = {arg.value}]
  ELSE IF scan.set.backend # {} /\ scan.set.dtype # {} THEN scan
  ELSE [scan EXCEPT !.wants = arg.names]

ScanArgs(args) == FoldLeft(ScanStep, [wants |-> <<>>, set |-> Unset], args)

(* What the command line itself understands: a flag is the whole argument. *)
Understood(args) ==
  [s \in {"backend", "dtype"} |->
     {args[i].value : i \in {j \in 2 .. Len(args) : s \in args[j - 1].flag}}]

Scan(p) ==
  /\ At_(p, "Scan")
  /\ \E args \in ArgLists :
       LET scan == ScanArgs(args) IN
       IF scan.wants # <<>> THEN Stops(p)
       ELSE Becomes(p, [shell[p] EXCEPT !.at = "Read", !.forced = scan.set,
                                        !.said = Understood(args)])
  /\ UNCHANGED <<configFile, tree, claim>>

(* A missing file, or one without two lines, stands for the defaults.      *)
LoadConfig == IF configFile = {} THEN DefaultFeatures ELSE CHOOSE f \in configFile : TRUE

OnceRead(p) == shell[p].config

Reloaded(p) == LoadConfig

Reload(p) ==
  /\ At_(p, "Read")
  /\ Becomes(p, [shell[p] EXCEPT !.at = "Build", !.config = Reloaded(p)])
  /\ UNCHANGED <<configFile, tree, claim>>

(* Force feature flags over config.                                        *)
Forced(p, f) ==
  [s \in {"backend", "dtype"} |->
     IF shell[p].forced[s] # {} THEN CHOOSE v \in shell[p].forced[s] : TRUE ELSE f[s]]

(* The workspace, which every directory of crates/ is a member of, builds  *)
(* with features it knows, when no two members have one name, what is      *)
(* registered is a dependency and none is listed twice.                    *)
Builds(f) ==
  /\ f \in Features
  /\ tree.unnamed = {}
  /\ \A c \in Crates : tree.dependencies[c] <= 1
  /\ \A c \in tree.registered : tree.dependencies[c] = 1

(* What a build says it is: a variant of a backend bears its plain name,   *)
(* half precision is for some, and the features of the command line turn   *)
(* bf16 into f16, which comes first.                                       *)
Compiled(f) ==
  [backend |-> NameOf[f.backend],
   dtype |-> IF f.backend \in HalfBackends /\ f.dtype \in {"f16", "bf16"} THEN "f16" ELSE "f32"]

BuildCli(p) ==
  /\ At_(p, "Build")
  /\ IF Builds(Forced(p, shell[p].config)) THEN Moves(p, "Run") ELSE Stops(p)
  /\ UNCHANGED <<configFile, tree, claim>>

(* `cargo run` builds again what has changed since. The command line then  *)
(* parses its arguments, and asserts that it was built for them.           *)
RunCli(p) ==
  /\ At_(p, "Run")
  /\ LET f == Forced(p, shell[p].config)
         built == Compiled(f)
     IN IF Builds(f) /\ \A s \in {"backend", "dtype"} : shell[p].said[s] \subseteq {built[s]}
        THEN Becomes(p, [shell[p] EXCEPT !.at = "Up", !.compiled = built,
                                         !.known = tree.registered])
        ELSE Stops(p)
  /\ UNCHANGED <<configFile, tree, claim>>

-------------------------------------------------------------------------------
(* The shell.                                                              *)

(* The exit code that asks for a restart.                                  *)
Restarts(p) ==
  Becomes(p, [shell[p] EXCEPT !.at = "Read", !.compiled = DefaultFeatures,
                              !.known = {}, !.crate = {}, !.draft = {}])

(* File::create empties the file before the new lines are written. What    *)
(* others asked for is overwritten with it.                                *)
Save(p, pick) ==
  /\ Becomes(p, [shell[p] EXCEPT !.at = "Save", !.compiled = pick])
  /\ configFile' = {}
  /\ claim' = [q \in Shells |-> [claim[q] EXCEPT !.features = {}]]

(* `backend b [dtype]`; a dtype that is not one of the valid ones is taken *)
(* as not given.                                                           *)
ChangeBackend(p) ==
  /\ At_(p, "Up")
  /\ \E b \in Backends, d \in Dtypes :
       LET pick == [backend |-> b, dtype |-> d] IN
       pick # shell[p].compiled /\ Save(p, pick)
  /\ UNCHANGED tree

ChangeDtype(p) ==
  /\ At_(p, "Up")
  /\ \E d \in Dtypes \ {shell[p].compiled.dtype} :
       Save(p, [backend |-> shell[p].compiled.backend, dtype |-> d])
  /\ UNCHANGED tree

(* One write of both lines from the start of the file: over the longer     *)
(* lines of another shell it leaves their end.                             *)
WriteConfig(p) ==
  /\ At_(p, "Save")
  /\ LET pick == shell[p].compiled IN
     \E written \in {pick} \cup
       (IF configFile = {} THEN {} ELSE {[pick EXCEPT !.dtype = "garbled"]}) :
       /\ configFile' = {written}
       /\ claim' = [q \in Shells |->
            [claim[q] EXCEPT !.features = IF q = p /\ configFile = {} THEN {written} ELSE {}]]
  /\ Restarts(p)
  /\ UNCHANGED tree

(* `new`: refuses a crate that is there, copies the template, names the    *)
(* copy, adds the server to the registry's source and the crate to its     *)
(* dependencies, then asks for a restart.                                  *)
NewCrate(p) ==
  /\ At_(p, "Up")
  /\ \E c \in Crates \ tree.crates :
       Becomes(p, [shell[p] EXCEPT !.at = "Copy", !.crate = {c}])
  /\ UNCHANGED <<configFile, tree, claim>>

(* The copy's Cargo.toml still has the template's name, even where another *)
(* shell had named it.                                                     *)
CopyDirectory(p) ==
  /\ At_(p, "Copy")
  /\ tree' = [tree EXCEPT !.crates = @ \cup shell[p].crate,
                          !.unnamed = @ \cup shell[p].crate]
  /\ Moves(p, "Rename")
  /\ UNCHANGED <<configFile, claim>>

RenameCrate(p) ==
  /\ At_(p, "Rename")
  /\ tree' = [tree EXCEPT !.unnamed = @ \ shell[p].crate]
  /\ Moves(p, "Register")
  /\ UNCHANGED <<configFile, claim>>

(* The registry's source is read as a whole; an entry already there is an  *)
(* error, and the shell goes on.                                           *)
ReadRegistry(p) ==
  /\ At_(p, "Register")
  /\ IF shell[p].crate \subseteq tree.registered
     THEN Becomes(p, [shell[p] EXCEPT !.at = "Up", !.crate = {}])
     ELSE Becomes(p, [shell[p] EXCEPT !.at = "Edit", !.draft = tree.registered])
  /\ UNCHANGED <<configFile, tree, claim>>

(* ... and written as a whole: an edit made on an older reading undoes     *)
(* what was registered in between.                                         *)
WriteRegistry(p) ==
  /\ At_(p, "Edit")
  /\ LET registered == shell[p].draft \cup shell[p].crate IN
     /\ tree' = [tree EXCEPT !.registered = registered]
     /\ claim' = [q \in Shells |-> [claim[q] EXCEPT !.crates = @ \cap registered]]
  /\ Moves(p, "Append")
  /\ UNCHANGED configFile

AppendDependency(p) ==
  /\ At_(p, "Append")
  /\ \E c \in shell[p].crate :
       /\ tree' = [tree EXCEPT !.dependencies[c] = @ + 1]
       /\ claim' = [claim EXCEPT ![p].crates = @ \cup ({c} \cap tree.registered)]
  /\ Restarts(p)
  /\ UNCHANGED configFile

(* The shell ends without asking for a restart, or is killed; the server   *)
(* and web commands end it with the status of what they ran.               *)
Ends_(p) ==
  /\ ~At_(p, "Ended") /\ ~At_(p, "Scan")
  /\ Stops(p)
  /\ UNCHANGED <<configFile, tree, claim>>

SupervisorNext == \E p \in Shells :
  \/ Scan(p) \/ Reload(p) \/ BuildCli(p) \/ RunCli(p)
  \/ ChangeBackend(p) \/ ChangeDtype(p) \/ WriteConfig(p)
  \/ NewCrate(p) \/ CopyDirectory(p) \/ RenameCrate(p) \/ ReadRegistry(p)
  \/ WriteRegistry(p) \/ AppendDependency(p) \/ Ends_(p)

SupervisorAtEnd == \A p \in Shells : At_(p, "Ended")

SupervisorSpec == SupervisorInit /\ [][SupervisorNext]_supervisorVars

-------------------------------------------------------------------------------
(* A shell that is up was built with what it last asked for: the backend   *)
(* and dtype it saved, unless another shell has saved since or its         *)
(* arguments force others, and every crate it added and nobody's edit      *)
(* undid. It comes up as that backend, a variant of one under the plain    *)
(* name, and with that dtype but in two cases: bf16 comes up as f16, and   *)
(* either as f32 where there is no half precision.                         *)
RestartShows ==
  \A p \in Shells : At_(p, "Up") =>
    /\ \A f \in claim[p].features :
         LET asked == Forced(p, f)
             built == shell[p].compiled
         IN /\ built.backend = NameOf[asked.backend]
            /\ \/ built.dtype = asked.dtype
               \/ asked.dtype = "bf16" /\ built.dtype = "f16"
               \/ asked.backend \notin HalfBackends /\ built.dtype = "f32"
    /\ claim[p].crates \subseteq shell[p].known
===============================================================================
