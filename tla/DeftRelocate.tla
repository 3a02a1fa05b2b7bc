---------------------------- MODULE DeftRelocate ----------------------------
(***************************************************************************)
(* The relocator of Deft: scripts/relocate.py, which takes a snapshot of   *)
(* the tracked paths of a project, wipes its framework directories and     *)
(* deposits a fresh framework in .deft/core, and its rollback.             *)
(*                                                                         *)
(* One command runs at a time, and the user edits files meanwhile.  A      *)
(* command may end between any two of its steps and inside one: it is      *)
(* killed, a call of it raises, or the operator declines the wipe.  The    *)
(* copy or removal of a directory and the writing of a file are one step,  *)
(* of which Stop leaves any part.  The framework is a set of files of      *)
(* which only the content is compared; some of them are never deposited,   *)
(* and some are left out of the copy that a relocator makes of itself.     *)
(***************************************************************************)
EXTENDS Naturals, Sequences

CONSTANTS
  Files,      \* the files of a framework directory
  Script,     \* scripts/relocate.py, one of them
  Deposits,   \* the files that _deposit_filter lets pass: not PRD.md,
              \* PROJECT.md, SPECIFICATION.md, the lifecycle folders of vbrief/
  Travels,    \* the files that _bootstrap_copy_ignore lets pass: nothing of
              \* .github, __pycache__, build and the like, at any depth
  BegunFiles, \* BOUND: the contents the files may have to begin with
  Marks,      \* BOUND: the markers AGENTS.md may have to begin with
  MaxStamp,   \* BOUND: the seconds that pass
  MaxRuns,    \* BOUND: the commands that are started
  MaxEdits    \* BOUND: the edits of the user

ASSUME RelocateAssumption ==
  /\ Deposits \subseteq Files /\ Travels \subseteq Files /\ Script \in Deposits \cap Travels
  /\ BegunFiles \subseteq {"none", "stock", "own"}
  /\ Marks \subseteq {"v1", "known", "v3"}
  /\ MaxStamp \in Nat /\ MaxRuns \in Nat /\ MaxEdits \in Nat

VARIABLES
  tree,       \* the tracked paths
  swarm,      \* a vBRIEF of vbrief/active is running
  snaps,      \* .deft-cache: the snapshot of each second
  job,        \* the command: running, or the last one
  now,        \* the second
  runs,       \* commands started
  edits,      \* edits made; it numbers the texts of the user
  wiped       \* history: what each relocate found when it began to wipe

relocateVars == <<tree, swarm, snaps, job, now, runs, edits, wiped>>

-----------------------------------------------------------------------------
(* A file that was being written when its command stopped is torn.         *)
Contents == {"none", "stock", "own", "torn"}

Dir == [there: BOOLEAN, file: [Files -> Contents]]

(* text is the user's own, 0 for none.  The managed sections of AGENTS.md  *)
(* have the literal marker of the template, one that is only recognised    *)
(* (v2, or v3 with the attributes of a refresh), or an older one.          *)
Markers == {"v1", "known", "v3"}

Agents == [there: BOOLEAN, text: Nat, blocks: Seq(Markers)]

(* lines: those the relocator wants; blanket: the one it strips.           *)
Ignore == [there: BOOLEAN, text: Nat, lines: BOOLEAN, blanket: BOOLEAN]

Tree == [legacy: Dir, core: Dir, agents: Agents, ignore: Ignore]

NoDir == [there |-> FALSE, file |-> [f \in Files |-> "none"]]

NoAgents == [there |-> FALSE, text |-> 0, blocks |-> <<>>]

NoIgnore == [there |-> FALSE, text |-> 0, lines |-> FALSE, blanket |-> FALSE]

NoTree == [legacy |-> NoDir, core |-> NoDir, agents |-> NoAgents, ignore |-> NoIgnore]

(* ROLLBACK_TRACKED_PATHS                                                  *)
Paths == <<"legacy", "core", "agents", "ignore">>

Dirs == {"legacy", "core"}

Fresh == [there |-> TRUE, file |-> [f \in Files |-> "stock"]]

(* A tarball cut off by a kill cannot be read; one left by an exception is *)
(* well-formed, with what was added before.  was: the tree when it was     *)
(* opened; stirred: the user has edited meanwhile.                         *)
Snapshot == [ends: {"none", "cut", "short", "whole"}, kept: Tree, was: Tree,
             stirred: BOOLEAN]

NoSnapshot == [ends |-> "none", kept |-> NoTree, was |-> NoTree, stirred |-> FALSE]

Stamps == 0..MaxStamp

Written == {s \in Stamps : snaps[s].ends # "none"}

Job == [pc: {"idle", "prompt", "snapshot", "capture", "wipe", "fill", "read", "rewrite"},
        cmd: {"relocate", "rollback"}, result: {"none", "ok", "failed"},
        force: BOOLEAN, skip: BOOLEAN, source: Dir, stamp: Stamps, at: 1..5,
        page: Tree, acted: BOOLEAN,
        \* what the user has done since the command began
        touched: BOOLEAN, launched: BOOLEAN, edited: SUBSET (Dirs \X Files)]

NoJob == [pc |-> "idle", cmd |-> "relocate", result |-> "none", force |-> FALSE,
          skip |-> FALSE, source |-> NoDir, stamp |-> 0, at |-> 1, page |-> NoTree,
          acted |-> FALSE, touched |-> FALSE, launched |-> FALSE, edited |-> {}]

Doing(stage) == job.pc = stage

Path == Paths[job.at]

Ends(o, result) == [o EXCEPT !.pc = "idle", !.result = result, !.page = NoTree]

(* The definitions named Fault_ are seeded faults, kept to show that the   *)
(* properties notice them.                                                 *)

-----------------------------------------------------------------------------
(* customization_paths: a file that the source lacks or has otherwise; one *)
(* that is missing does not count.                                         *)
Customized(dir, source) ==
  \E f \in Files : dir.file[f] \notin {"none", source.file[f]}

(* _has_managed_markers                                                    *)
Marked(agents) == \E k \in DOMAIN agents.blocks : agents.blocks[k] \in {"known", "v3"}

(* detect_install_state: the other states only differ in what is printed.  *)
Canonical(source) ==
  /\ ~swarm
  /\ ~Customized(tree.legacy, source) /\ ~Customized(tree.core, source)
  /\ ~tree.legacy.there /\ tree.core.there
  /\ Marked(tree.agents)

Fault_SwarmOnly(source) == swarm

NeedsForce(source) ==
  swarm \/ Customized(tree.legacy, source) \/ Customized(tree.core, source)

Only(dir, files) ==
  [dir EXCEPT !.file = [f \in Files |-> IF f \in files THEN dir.file[f] ELSE "none"]]

(* A relocator run from inside a directory it would wipe runs from a copy  *)
(* of it, and deposits that copy.                                          *)
Sources == {Fresh} \cup
  {Only(tree[d], Travels) : d \in {e \in Dirs : tree[e].file[Script] # "none"}}

(* build_relocate_plan and the gate.  The snapshot is named by the second. *)
Plan ==
  /\ Doing("idle") /\ runs < MaxRuns /\ runs' = runs + 1
  /\ \E source \in Sources, force, skip \in BOOLEAN :
       LET o == [NoJob EXCEPT !.force = force, !.skip = skip, !.source = source,
                             !.stamp = now]
       IN /\ force => NeedsForce(source)
          /\ job' = CASE Canonical(source) -> Ends(o, "ok")
                     [] ~Canonical(source) /\ NeedsForce(source) /\ ~force -> Ends(o, "failed")
                     [] OTHER -> [o EXCEPT !.pc = "prompt"]
  /\ UNCHANGED <<tree, swarm, snaps, now, edits, wiped>>

BeginWipe(o) == [o EXCEPT !.pc = "wipe", !.at = 1, !.acted = TRUE]

Confirm ==
  /\ Doing("prompt")
  /\ job' = IF job.skip THEN BeginWipe(job) ELSE [job EXCEPT !.pc = "snapshot"]
  /\ UNCHANGED <<tree, swarm, snaps, now, runs, edits, wiped>>

-----------------------------------------------------------------------------
(* create_snapshot: a snapshot of the same second is overwritten.          *)
OpenSnapshot ==
  /\ Doing("snapshot")
  /\ snaps' = [snaps EXCEPT ![job.stamp] = [NoSnapshot EXCEPT !.ends = "cut", !.was = tree]]
  /\ wiped' = {w \in wiped : w.stamp # job.stamp}
  /\ job' = [job EXCEPT !.pc = "capture", !.at = 1]
  /\ UNCHANGED <<tree, swarm, now, runs, edits>>

Fault_IgnoreNotTracked(path) == snaps[job.stamp].was[path].there /\ path # "ignore"

(* The paths that are added are those that were there at the start.        *)
Captured(path) == snaps[job.stamp].was[path].there

Capture ==
  /\ Doing("capture") /\ job.at <= 4
  /\ snaps' = IF Captured(Path)
              THEN [snaps EXCEPT ![job.stamp].kept[Path] = tree[Path]] ELSE snaps
  /\ job' = [job EXCEPT !.at = @ + 1]
  /\ UNCHANGED <<tree, swarm, now, runs, edits, wiped>>

CloseSnapshot ==
  /\ Doing("capture") /\ job.at = 5
  /\ snaps' = [snaps EXCEPT ![job.stamp].ends = "whole"]
  /\ wiped' = IF snaps[job.stamp].stirred THEN wiped
              ELSE wiped \cup {[stamp |-> job.stamp, was |-> tree]}
  /\ job' = BeginWipe(job)
  /\ UNCHANGED <<tree, swarm, now, runs, edits>>

(* Some of the files of a directory.                                       *)
Parts(dir) ==
  IF dir.there
  THEN {Only(dir, some) : some \in SUBSET Files}
  ELSE {NoDir}

(* A file that cannot be read: the members added so far are kept.          *)
CaptureFails ==
  /\ Doing("capture") /\ job.at <= 4 /\ Captured(Path)
  /\ \/ snaps' = [snaps EXCEPT ![job.stamp].ends = "short"]
     \/ /\ Path \in Dirs
        /\ \E part \in Parts(tree[Path]) :
             snaps' = [snaps EXCEPT ![job.stamp].ends = "short",
                                    ![job.stamp].kept[Path] = part]
  /\ job' = Ends(job, "failed")
  /\ UNCHANGED <<tree, swarm, now, runs, edits, wiped>>

-----------------------------------------------------------------------------
Fault_WipeCaptured(path) == job.cmd = "relocate" \/ snaps[job.stamp].kept[path].there

Fault_LegacyKept(path) == path # "legacy"

(* The rollback removes every tracked path, captured or not.               *)
Removes(path) == TRUE

(* rmtree of the two directories; the rollback removes the files too, and  *)
(* only then opens the tarball.                                            *)
Wipe ==
  LET last == IF job.cmd = "relocate" THEN 2 ELSE 4
  IN /\ Doing("wipe")
     /\ tree' = IF Removes(Path) THEN [tree EXCEPT ![Path] = NoTree[Path]] ELSE tree
     /\ job' = CASE job.at < last -> [job EXCEPT !.at = @ + 1]
                [] job.at = last /\ job.cmd = "relocate" -> [job EXCEPT !.pc = "fill"]
                [] job.at = last /\ job.cmd = "rollback" ->
                     IF snaps[job.stamp].ends = "cut" THEN Ends(job, "failed")
                     ELSE [job EXCEPT !.pc = "fill", !.at = 1]
     /\ UNCHANGED <<swarm, snaps, now, runs, edits, wiped>>

(* What _deposit_framework takes of the source.                            *)
Filtered(source) == Only(source, Deposits)

(* What is copied to the path: the framework, or what the snapshot holds.  *)
Goal == IF job.cmd = "relocate" THEN Filtered(job.source) ELSE snaps[job.stamp].kept[Path]

(* Over what is there.                                                     *)
Filled(dir, goal) ==
  [there |-> dir.there \/ goal.there,
   file |-> [f \in Files |-> IF goal.file[f] = "none" THEN dir.file[f] ELSE goal.file[f]]]

Deposited(goal) ==
  [tree EXCEPT ![Path] = CASE Path \in Dirs -> Filled(tree[Path], goal)
                           [] Path \notin Dirs /\ goal.there -> goal
                           [] OTHER -> tree[Path]]

(* _deposit_framework, or the extraction of one path.                      *)
Fill ==
  /\ Doing("fill")
  /\ tree' = Deposited(Goal)
  /\ job' = CASE job.cmd = "relocate" -> [job EXCEPT !.pc = "read", !.at = 3]
             [] job.cmd = "rollback" /\ job.at < 4 -> [job EXCEPT !.at = @ + 1]
             [] OTHER -> Ends(job, "ok")
  /\ UNCHANGED <<swarm, snaps, now, runs, edits, wiped>>

-----------------------------------------------------------------------------
(* regenerate_agents_md: the first literal marker is looked for, and the   *)
(* first closing one; unless they are in order a section is appended.      *)
Regenerated(agents) ==
  [there |-> TRUE, text |-> agents.text,
   blocks |-> IF agents.blocks # <<>> /\ agents.blocks[1] = "v3" THEN agents.blocks
              ELSE Append(agents.blocks, "v3")]

(* _ensure_gitignore_lines                                                 *)
Healed(ignore) == [ignore EXCEPT !.there = TRUE, !.lines = TRUE, !.blanket = FALSE]

(* AGENTS.md is always written again, .gitignore when something is amiss.  *)
IsWritten(path) ==
  path = "ignore" => ~job.page.ignore.lines \/ job.page.ignore.blanket

ReadPage ==
  /\ Doing("read")
  /\ job' = [job EXCEPT !.pc = "rewrite", !.page = tree]
  /\ UNCHANGED <<tree, swarm, snaps, now, runs, edits, wiped>>

RewritePage ==
  /\ Doing("rewrite")
  /\ \/ /\ Path = "agents"
        /\ tree' = [tree EXCEPT !.agents = Regenerated(job.page.agents)]
        /\ job' = [job EXCEPT !.pc = "read", !.at = 4]
     \/ /\ Path = "ignore"
        /\ tree' = IF IsWritten(Path)
                   THEN [tree EXCEPT !.ignore = Healed(job.page.ignore)] ELSE tree
        /\ job' = Ends(job, "ok")
  /\ UNCHANGED <<swarm, snaps, now, runs, edits, wiped>>

-----------------------------------------------------------------------------
(* A directory that was being filled: some files, and perhaps a torn one.  *)
PartlyFilled(dir, goal) ==
  {Filled(dir, part) : part \in Parts(goal)}
  \cup {[Filled(dir, part) EXCEPT !.file[f] = "torn"] :
          part \in Parts(goal), f \in {g \in Files : goal.file[g] # "none"}}

(* What a step that was interrupted leaves of its path.  A file is emptied *)
(* before it is written.                                                   *)
Remains ==
  CASE Doing("wipe") /\ Path \in Dirs -> Parts(tree[Path]) \cup {tree[Path]}
    [] Doing("fill") /\ Path \in Dirs -> PartlyFilled(tree[Path], Goal) \cup {tree[Path]}
    [] \/ Doing("fill") /\ Path \notin Dirs /\ Goal.there
       \/ Doing("rewrite") /\ IsWritten(Path) ->
         {tree[Path], [NoTree[Path] EXCEPT !.there = TRUE]}
    [] OTHER -> {tree[Path]}

(* The command is killed or raises, or is declined at the prompt.          *)
Stop ==
  /\ ~Doing("idle")
  /\ \/ tree' = tree
     \/ /\ job.pc \in {"wipe", "fill", "rewrite"}
        /\ \E left \in Remains : tree' = [tree EXCEPT ![Path] = left]
  /\ job' = Ends(job, "failed")
  /\ UNCHANGED <<swarm, snaps, now, runs, edits, wiped>>

(* extract_snapshot: of the latest snapshot, or of one that is named.      *)
StartRestore ==
  /\ Doing("idle") /\ runs < MaxRuns /\ runs' = runs + 1
  /\ \E s \in Written :
       job' = BeginWipe([NoJob EXCEPT !.cmd = "rollback", !.stamp = s])
  /\ UNCHANGED <<tree, swarm, snaps, now, edits, wiped>>

-----------------------------------------------------------------------------
(* The user's edits, from the start of the last command on.                *)
Edited(files, launched) ==
  /\ edits < MaxEdits /\ edits' = edits + 1
  /\ job' = [job EXCEPT !.touched = TRUE, !.launched = @ \/ launched,
                        !.edited = @ \cup files]
  /\ snaps' = IF Doing("capture") THEN [snaps EXCEPT ![job.stamp].stirred = TRUE] ELSE snaps
  /\ UNCHANGED <<now, runs, wiped>>

EditFile ==
  /\ \E d \in Dirs, f \in Files :
       /\ tree[d].file[f] = "stock"
       /\ tree' = [tree EXCEPT ![d].file[f] = "own"]
       /\ Edited({<<d, f>>}, FALSE)
  /\ UNCHANGED swarm

EditText ==
  /\ \E p \in {"agents", "ignore"} :
       tree' = [tree EXCEPT ![p].there = TRUE, ![p].text = edits + 2]
  /\ Edited({}, FALSE) /\ UNCHANGED swarm

Launch == swarm' = ~swarm /\ Edited({}, TRUE) /\ UNCHANGED tree

Tick ==
  /\ now < MaxStamp /\ now' = now + 1
  /\ UNCHANGED <<tree, swarm, snaps, job, runs, edits, wiped>>

-----------------------------------------------------------------------------
BegunDirs == {NoDir} \cup {[there |-> TRUE, file |-> g] : g \in [Files -> BegunFiles]}

BegunAgents == {NoAgents} \cup {[there |-> TRUE, text |-> 1, blocks |-> b] :
                                  b \in {<<>>} \cup {<<m>> : m \in Marks}}

(* Any layout that releases of the installer have left, with texts.        *)
RelocateInit ==
  /\ tree \in [legacy: BegunDirs, core: BegunDirs, agents: BegunAgents,
               ignore: {NoIgnore, [there |-> TRUE, text |-> 1, lines |-> FALSE, blanket |-> TRUE]}]
  /\ swarm = FALSE
  /\ snaps = [s \in Stamps |-> NoSnapshot]
  /\ job = NoJob /\ now = 0 /\ runs = 0 /\ edits = 0 /\ wiped = {}

Relocating ==
  \/ Plan \/ Confirm \/ OpenSnapshot \/ Capture \/ CloseSnapshot \/ CaptureFails
  \/ Wipe \/ Fill \/ ReadPage \/ RewritePage \/ Stop \/ StartRestore

RelocateNext == Relocating \/ EditFile \/ EditText \/ Launch \/ Tick

RelocateSpec == RelocateInit /\ [][RelocateNext]_relocateVars

-----------------------------------------------------------------------------
RelocateTypeOK ==
  /\ tree \in Tree /\ swarm \in BOOLEAN
  /\ snaps \in [Stamps -> Snapshot] /\ job \in Job
  /\ now \in Stamps /\ runs \in 0..MaxRuns /\ edits \in 0..MaxEdits
  /\ wiped \subseteq [stamp: Stamps, was: Tree]

(* What a relocate with a snapshot found when it began to wipe is in a     *)
(* tarball that can be read and that holds all of it, whatever was killed, *)
(* repeated or rolled back since: unless a snapshot of the same second has *)
(* taken its place.                                                        *)
WipedIsKept ==
  \A w \in wiped : snaps[w.stamp].ends = "whole" /\ snaps[w.stamp].kept = w.was

(* A rollback that succeeds, of a snapshot that was finished, leaves the   *)
(* tracked paths as they were: what the relocator created is gone, from    *)
(* whatever tree earlier commands have left.                               *)
RollbackRestores ==
  LET snap == snaps[job.stamp]
  IN job.cmd = "rollback" /\ job.result = "ok" /\ ~job.touched
     /\ snap.ends = "whole" /\ ~snap.stirred => tree = snap.was

(* A relocate that has acted and succeeds leaves a layout of which the     *)
(* next one says that nothing is to be done, from whatever tree an         *)
(* earlier one has left.                                                   *)
SuccessIsCanonical ==
  job.cmd = "relocate" /\ job.result = "ok" /\ job.acted /\ ~job.touched /\ ~swarm
    => Canonical(job.source)

(* Without --force a relocate wipes a file only if the source has it the   *)
(* same, or the user has edited it since the plan, and wipes under a swarm *)
(* only if the user has launched it since: the gate is not asked again     *)
(* after the prompt.  One that succeeds has put back every file of the     *)
(* source that is ever deposited, however often it was tried before.  The  *)
(* others, PRD.md say, it has wiped for good: only a snapshot has them.    *)
WipesOnlyStock ==
  [][/\ job.cmd = "relocate" /\ Doing("wipe") /\ ~job.force /\ tree' # tree =>
          /\ swarm => job.launched
          /\ \A d \in Dirs, f \in Files :
               \/ tree[d].file[f] \in {"none", job.source.file[f]}
               \/ <<d, f>> \in job.edited
     /\ job.cmd = "relocate" /\ Doing("rewrite") /\ job'.result = "ok" /\ ~job.touched =>
          \A f \in Deposits : tree'.core.file[f] = job.source.file[f]]_relocateVars

=============================================================================
