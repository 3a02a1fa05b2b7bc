------------------------- MODULE DeftRelocateProofs -------------------------
(***************************************************************************)
(* Proofs about DeftRelocate, for any framework, any number of commands,   *)
(* seconds and edits.                                                      *)
(*                                                                         *)
(* A command is a walk over the tracked paths.  The invariant says, for    *)
(* each stage of the walk, what the paths behind it hold (NoTree after the *)
(* wipe, what is restored or deposited after the fill) and what those      *)
(* ahead of it hold, as long as the user has not edited; a command that    *)
(* stops leaves any part of a path, of which nothing is said, and the next *)
(* command makes its claim again from the wipe on.                         *)
(***************************************************************************)
EXTENDS DeftRelocate, TLAPS

Names == {"legacy", "core", "agents", "ignore"}

Kind(p) == IF p \in Dirs THEN Dir ELSE IF p = "agents" THEN Agents ELSE Ignore

(* A path that is not there holds nothing.                                 *)
Emptied(p, v) == ~v.there => v = NoTree[p]

ProperTree(t) == \A p \in Names : Emptied(p, t[p])

WellFormed ==
  /\ ProperTree(tree)
  /\ \A s \in Stamps : ProperTree(snaps[s].kept) /\ ProperTree(snaps[s].was)

(* Where a command can be.                                                 *)
Staged ==
  /\ job.pc # "idle" => job.result = "none"
  /\ job.cmd = "rollback" => job.pc \in {"idle", "wipe", "fill"}
  /\ job.pc \in {"wipe", "fill"} => job.at <= 4
  /\ job.pc \in {"wipe", "fill"} /\ job.cmd = "relocate" => job.at <= 2
  /\ job.pc = "fill" /\ job.cmd = "relocate" => job.at = 2
  /\ job.pc \in {"read", "rewrite"} => job.at \in {3, 4}
  /\ job.pc \in {"wipe", "fill", "read", "rewrite"} => job.acted
  /\ job.cmd = "relocate" /\ (job.pc # "idle" \/ job.acted) => job.source.there

(* The snapshot being taken: the paths behind hold what the tree holds,    *)
(* those ahead nothing.                                                    *)
Capturing ==
  LET snap == snaps[job.stamp]
  IN job.pc = "capture" =>
       /\ snap.ends = "cut"
       /\ \A w \in wiped : w.stamp # job.stamp
       /\ \A k \in 1..4 : k >= job.at => snap.kept[Paths[k]] = NoTree[Paths[k]]
       /\ ~snap.stirred =>
            /\ snap.was = tree
            /\ \A k \in 1..4 : k < job.at => snap.kept[Paths[k]] = tree[Paths[k]]

(* A finished snapshot that nobody disturbed is the tree it was taken of.  *)
Undisturbed ==
  \A s \in Stamps :
    snaps[s].ends = "whole" /\ ~snaps[s].stirred => snaps[s].kept = snaps[s].was

Restoring ==
  LET kept == snaps[job.stamp].kept
  IN job.cmd = "rollback" /\ ~job.touched =>
       /\ job.pc = "wipe" =>
            \A k \in 1..4 : k < job.at => tree[Paths[k]] = NoTree[Paths[k]]
       /\ job.pc = "fill" =>
            \A k \in 1..4 : tree[Paths[k]] = IF k < job.at THEN kept[Paths[k]]
                                             ELSE NoTree[Paths[k]]
       /\ job.result = "ok" => tree = kept

Depositing ==
  job.cmd = "relocate" /\ job.acted /\ ~job.touched =>
    /\ job.pc = "wipe" /\ job.at = 2 => tree.legacy = NoDir
    /\ job.pc = "fill" => tree.legacy = NoDir /\ tree.core = NoDir
    /\ (job.pc \in {"read", "rewrite"} \/ job.result = "ok") =>
         tree.legacy = NoDir /\ tree.core = Filtered(job.source)
    /\ ((job.pc \in {"read", "rewrite"} /\ job.at = 4) \/ job.result = "ok") =>
         Marked(tree.agents)

Stocked(t, o) ==
  \A d \in Dirs, f \in Files :
    t[d].file[f] \in {"none", o.source.file[f]} \/ <<d, f>> \in o.edited

(* What the gate has found still holds until the wipe has passed, but for  *)
(* what the user has done since.                                           *)
Gated ==
  job.cmd = "relocate" /\ ~job.force
  /\ job.pc \in {"prompt", "snapshot", "capture", "wipe"} =>
    (swarm => job.launched) /\ Stocked(tree, job)

RelocateInv ==
  /\ RelocateTypeOK /\ WellFormed /\ Staged /\ Capturing /\ Undisturbed
  /\ Restoring /\ Depositing /\ Gated /\ WipedIsKept

-----------------------------------------------------------------------------
(* Paths and the trees made of them.                                       *)
LEMMA PathFacts ==
  /\ Dirs \subseteq Names
  /\ \A k \in 1..4 : Paths[k] \in Names
  /\ \A j, k \in 1..4 : j # k => Paths[j] # Paths[k]
  /\ \A p \in Names : \E k \in 1..4 : Paths[k] = p
  /\ Paths[1] = "legacy" /\ Paths[2] = "core" /\ Paths[3] = "agents" /\ Paths[4] = "ignore"
BY DEF Paths, Names, Dirs

LEMMA NoTreeFacts ==
  /\ NoTree \in Tree /\ NoDir \in Dir /\ ProperTree(NoTree)
  /\ \A p \in Names : NoTree[p] \in Kind(p) /\ NoTree[p].there = FALSE
  /\ \A p \in Dirs : NoTree[p] = NoDir
  /\ NoTree.legacy = NoDir /\ NoTree.core = NoDir
<1>1. NoDir \in Dir
  BY DEF NoDir, Dir, Contents
<1>2. NoAgents \in Agents /\ NoAgents.there = FALSE
  BY DEF NoAgents, Agents
<1>3. NoIgnore \in Ignore /\ NoIgnore.there = FALSE
  BY DEF NoIgnore, Ignore
<1>4. NoDir.there = FALSE
  BY DEF NoDir
<1> QED
  BY <1>1, <1>2, <1>3, <1>4 DEF NoTree, Tree, ProperTree, Emptied, Names, Kind, Dirs

LEMMA Same ==
  ASSUME NEW t \in Tree, NEW u \in Tree, \A k \in 1..4 : t[Paths[k]] = u[Paths[k]]
  PROVE  t = u
<1>1. \A p \in Names : t[p] = u[p]
  BY PathFacts
<1> QED
  BY <1>1 DEF Tree, Names

LEMMA Branch ==
  ASSUME NEW t \in Tree, NEW p \in Names
  PROVE  t[p] \in Kind(p)
BY DEF Tree, Names, Kind, Dirs

PutAt(t, p, v) == [t EXCEPT ![p] = v]

LEMMA Updated ==
  ASSUME NEW t \in Tree, NEW p \in Names, NEW v \in Kind(p)
  PROVE  /\ PutAt(t, p, v) \in Tree
         /\ PutAt(t, p, v)[p] = v
         /\ \A q \in Names : q # p => PutAt(t, p, v)[q] = t[q]
         /\ ProperTree(t) /\ Emptied(p, v) => ProperTree(PutAt(t, p, v))
<1>1. PutAt(t, p, v) \in Tree
  BY DEF PutAt, Tree, Names, Kind, Dirs
<1>2. PutAt(t, p, v)[p] = v
  BY DEF PutAt, Tree, Names
<1>3. \A q \in Names : q # p => PutAt(t, p, v)[q] = t[q]
  BY DEF PutAt, Tree, Names
<1> QED
  BY <1>1, <1>2, <1>3 DEF ProperTree

LEMMA OnlyFacts ==
  ASSUME NEW dir \in Dir, NEW files
  PROVE  /\ Only(dir, files) \in Dir /\ Only(dir, files).there = dir.there
         /\ \A f \in Files :
              Only(dir, files).file[f] = IF f \in files THEN dir.file[f] ELSE "none"
<1> PICK some : some = [f \in Files |-> IF f \in files THEN dir.file[f] ELSE "none"]
  OBVIOUS
<1>1. \A f \in Files : dir.file[f] \in Contents
  BY DEF Dir
<1>2. some \in [Files -> Contents]
  BY <1>1 DEF Contents
<1>3. Only(dir, files) = [dir EXCEPT !.file = some]
  BY DEF Only
<1> QED
  BY <1>2, <1>3 DEF Dir

LEMMA PartFacts ==
  ASSUME NEW dir \in Dir, dir.there \/ dir = NoDir, NEW part \in Parts(dir)
  PROVE  part \in Dir /\ part.there = dir.there /\ (part.there \/ part = NoDir)
<1>1. CASE dir.there
  <2>1. PICK some \in SUBSET Files : part = Only(dir, some)
    BY <1>1 DEF Parts
  <2> QED
    BY <1>1, <2>1, OnlyFacts
<1>2. CASE ~dir.there
  BY <1>2, NoTreeFacts DEF Parts
<1> QED
  BY <1>1, <1>2

LEMMA FilledFacts ==
  ASSUME NEW dir \in Dir, dir.there \/ dir = NoDir, NEW goal \in Dir, goal.there \/ goal = NoDir
  PROVE  /\ Filled(dir, goal) \in Dir
         /\ Filled(dir, goal).there \/ Filled(dir, goal) = NoDir
         /\ goal.there => Filled(dir, goal).there
         /\ dir = NoDir => Filled(dir, goal) = goal
<1>1. \A f \in Files : dir.file[f] \in Contents /\ goal.file[f] \in Contents
  BY DEF Dir
<1>2. /\ Filled(dir, goal) = [there |-> dir.there \/ goal.there, file |-> Filled(dir, goal).file]
      /\ Filled(dir, goal).file
           = [f \in Files |-> IF goal.file[f] = "none" THEN dir.file[f] ELSE goal.file[f]]
  BY DEF Filled
<1>3. Filled(dir, goal).file \in [Files -> Contents]
  BY <1>1, <1>2
<1>4. Filled(dir, goal) \in Dir
  BY <1>2, <1>3 DEF Dir
<1>5. \A f \in Files : NoDir.file[f] = "none"
  BY DEF NoDir
<1>6. ASSUME dir = NoDir PROVE Filled(dir, goal) = goal
  <2>1. Filled(dir, goal).file = goal.file
    BY <1>2, <1>5, <1>6 DEF Dir
  <2>2. NoDir.there = FALSE /\ goal.there \in BOOLEAN
    BY DEF NoDir, Dir
  <2> QED
    BY <1>2, <1>6, <2>1, <2>2 DEF Dir
<1>7. ASSUME ~dir.there, ~goal.there PROVE Filled(dir, goal) = NoDir
  BY <1>6, <1>7
<1>8. Filled(dir, goal).there <=> dir.there \/ goal.there
  <2>1. dir.there \in BOOLEAN /\ goal.there \in BOOLEAN
    BY DEF Dir
  <2>2. CASE dir.there
    <3>1. (dir.there \/ goal.there) = dir.there
      BY <2>1, <2>2
    <3>2. Filled(dir, goal).there = dir.there
      BY <3>1, <1>2
    <3> QED
      BY <2>2, <3>2
  <2>3. CASE ~dir.there
    <3>1. (dir.there \/ goal.there) = goal.there
      BY <2>1, <2>3
    <3> QED
      BY <2>3, <3>1, <1>2
  <2> QED
    BY <2>2, <2>3
<1>9. Filled(dir, goal).there \/ Filled(dir, goal) = NoDir
  BY <1>7, <1>8
<1>10. goal.there => Filled(dir, goal).there
  BY <1>8
<1> QED
  BY <1>4, <1>6, <1>9, <1>10

LEMMA PartlyFilledFacts ==
  ASSUME NEW dir \in Dir, dir.there \/ dir = NoDir, NEW goal \in Dir, goal.there \/ goal = NoDir,
         NEW left \in PartlyFilled(dir, goal)
  PROVE  left \in Dir /\ (left.there \/ left = NoDir)
<1>1. PICK part \in Parts(goal) :
        \/ left = Filled(dir, part)
        \/ \E f \in Files : goal.file[f] # "none" /\ left = [Filled(dir, part) EXCEPT !.file[f] = "torn"]
  BY DEF PartlyFilled
<1>2. part \in Dir /\ part.there = goal.there /\ (part.there \/ part = NoDir)
  BY PartFacts
<1>3. /\ Filled(dir, part) \in Dir
      /\ Filled(dir, part).there \/ Filled(dir, part) = NoDir
      /\ part.there => Filled(dir, part).there
  BY <1>2, FilledFacts
<1>4. CASE left = Filled(dir, part)
  BY <1>3, <1>4
<1>5. CASE left # Filled(dir, part)
  <2>1. PICK f \in Files : goal.file[f] # "none"
                           /\ left = [Filled(dir, part) EXCEPT !.file[f] = "torn"]
    BY <1>1, <1>5
  <2>2. goal.there
    BY <2>1 DEF NoDir
  <2> QED
    BY <1>2, <1>3, <2>1, <2>2 DEF Dir, Contents
<1> QED
  BY <1>4, <1>5

-----------------------------------------------------------------------------
LEMMA Typed ==
  ASSUME RelocateInv
  PROVE  /\ tree \in Tree /\ swarm \in BOOLEAN /\ snaps \in [Stamps -> Snapshot]
         /\ job \in Job /\ job.stamp \in Stamps /\ job.source \in Dir /\ job.page \in Tree
         /\ now \in Stamps /\ runs \in 0..MaxRuns /\ edits \in 0..MaxEdits
         /\ wiped \subseteq [stamp: Stamps, was: Tree]
         /\ \A s \in Stamps : snaps[s] \in Snapshot /\ snaps[s].kept \in Tree
                              /\ snaps[s].was \in Tree /\ snaps[s].stirred \in BOOLEAN
         /\ job.at \in 1..5 /\ job.cmd \in {"relocate", "rollback"}
         /\ \A d \in Dirs : tree[d] \in Dir /\ (tree[d].there \/ tree[d] = NoDir)
<1>1. \A d \in Dirs : tree[d] \in Dir /\ (tree[d].there \/ tree[d] = NoDir)
  BY PathFacts, NoTreeFacts, Branch DEF RelocateInv, RelocateTypeOK, WellFormed, ProperTree, Emptied, Kind
<1> QED
  BY <1>1 DEF RelocateInv, RelocateTypeOK, Job, Snapshot

LEMMA JobBegins ==
  /\ NoJob \in Job /\ NoJob.pc = "idle" /\ NoJob.acted = FALSE /\ NoJob.touched = FALSE
  /\ NoJob.launched = FALSE /\ NoJob.edited = {}
  /\ NoJob.result = "none" /\ NoJob.at = 1 /\ NoJob.cmd = "relocate" /\ NoJob.stamp \in Stamps
BY NoTreeFacts, RelocateAssumption DEF NoJob, Job, Stamps

(* How a command moves on: n does the same as o, elsewhere.                *)
Likewise(n, o) ==
  /\ n \in Job /\ n.cmd = o.cmd /\ n.force = o.force /\ n.acted = o.acted
  /\ n.source = o.source /\ n.stamp = o.stamp /\ n.touched = o.touched
  /\ n.launched = o.launched /\ n.edited = o.edited

LEMMA Wiping ==
  ASSUME NEW o \in Job
  PROVE  LET n == BeginWipe(o)
         IN /\ n \in Job /\ n.pc = "wipe" /\ n.at = 1 /\ n.acted = TRUE
            /\ n.cmd = o.cmd /\ n.result = o.result /\ n.force = o.force
            /\ n.source = o.source /\ n.stamp = o.stamp /\ n.touched = o.touched
            /\ n.launched = o.launched /\ n.edited = o.edited
<1> DEFINE n == BeginWipe(o)
<1>1. n.pc = "wipe" /\ n.at = 1 /\ n.acted = TRUE
  BY DEF Job, BeginWipe
<1>2. /\ n.cmd = o.cmd /\ n.result = o.result /\ n.force = o.force
      /\ n.source = o.source /\ n.stamp = o.stamp /\ n.touched = o.touched
      /\ n.launched = o.launched /\ n.edited = o.edited
  BY DEF Job, BeginWipe
<1>3. n \in Job
  <2> DEFINE a == [o EXCEPT !.pc = "wipe"]
             b == [a EXCEPT !.at = 1]
  <2>1. a \in Job
    BY DEF Job
  <2>2. b \in Job
    <3>1. 1 \in 1..5
      OBVIOUS
    <3> HIDE DEF a
    <3> QED
      BY <2>1, <3>1 DEF Job
  <2>3. n = [b EXCEPT !.acted = TRUE]
    BY DEF BeginWipe
  <2> HIDE DEF a, b, n
  <2> QED
    BY <2>2, <2>3 DEF Job
<1> QED
  BY <1>1, <1>2, <1>3

LEMMA Ending ==
  ASSUME NEW o \in Job, NEW r \in {"ok", "failed"},
         NEW n, n = Ends(o, r)
  PROVE  Likewise(n, o) /\ n.pc = "idle" /\ n.result = r
BY NoTreeFacts DEF Job, Ends, Likewise

LEMMA Advancing ==
  ASSUME NEW o \in Job, o.at <= 4,
         NEW n, n = [o EXCEPT !.at = @ + 1]
  PROVE  Likewise(n, o) /\ n.pc = o.pc /\ n.result = o.result /\ n.at = o.at + 1
BY DEF Job, Likewise

LEMMA Staging ==
  ASSUME NEW o \in Job,
         NEW stage \in {"idle", "prompt", "snapshot", "capture", "wipe", "fill", "read", "rewrite"},
         NEW n, n = [o EXCEPT !.pc = stage]
  PROVE  Likewise(n, o) /\ n.pc = stage /\ n.result = o.result /\ n.at = o.at
BY DEF Job, Likewise

MovedTo(o, stage, k) == [o EXCEPT !.pc = stage, !.at = k]

LEMMA Moving ==
  ASSUME NEW o \in Job, NEW k \in 1..5,
         NEW stage \in {"idle", "prompt", "snapshot", "capture", "wipe", "fill", "read", "rewrite"}
  PROVE  /\ Likewise(MovedTo(o, stage, k), o) /\ MovedTo(o, stage, k).pc = stage
         /\ MovedTo(o, stage, k).result = o.result /\ MovedTo(o, stage, k).at = k
<1> DEFINE a == [o EXCEPT !.pc = stage]
           n == MovedTo(o, stage, k)
<1>1. Likewise(a, o) /\ a.pc = stage /\ a.result = o.result
  BY Staging
<1>2. n = [a EXCEPT !.at = k]
  BY DEF MovedTo
<1> HIDE DEF a, n
<1>3. a \in Job
  BY <1>1 DEF Likewise
<1>4. Likewise(n, a) /\ n.pc = a.pc /\ n.result = a.result /\ n.at = k
  BY <1>2, <1>3 DEF Job, Likewise
<1>5. Likewise(n, o) /\ n.pc = stage /\ n.result = o.result /\ n.at = k
  BY <1>1, <1>4 DEF Likewise
<1> QED
  BY <1>5 DEF n

LEMMA SourceFacts ==
  ASSUME RelocateInv, NEW source \in Sources
  PROVE  source \in Dir /\ source.there
<1>1. CASE source = Fresh
  BY <1>1 DEF Fresh, Dir, Contents
<1>2. CASE source # Fresh
  <2>1. PICK d \in Dirs : source = Only(tree[d], Travels) /\ tree[d].file[Script] # "none"
    BY <1>2 DEF Sources
  <2>2. NoDir.file[Script] = "none"
    BY RelocateAssumption DEF NoDir
  <2>3. tree[d] \in Dir /\ tree[d].there
    BY <2>1, <2>2, Typed
  <2> QED
    BY <2>1, <2>3, OnlyFacts
<1> QED
  BY <1>1, <1>2

(* Tick changes nothing that matters here.                                 *)
LEMMA TickStep ==
  ASSUME RelocateInv, Tick
  PROVE  RelocateInv'
<1>1. RelocateTypeOK'
  BY Typed, RelocateAssumption DEF Tick, RelocateTypeOK, Stamps
<1>2. UNCHANGED <<tree, swarm, snaps, job, wiped>>
  BY DEF Tick
<1> QED
  BY <1>1, <1>2 DEF RelocateInv, WellFormed, Staged, Capturing, Undisturbed, Restoring,
                    Depositing, Gated, WipedIsKept, Stamps, ProperTree, Emptied, Marked, Stocked

LEMMA PlanStep ==
  ASSUME RelocateInv, Plan
  PROVE  RelocateInv'
<1>1. PICK source \in Sources, force \in BOOLEAN, skip \in BOOLEAN :
        LET o == [NoJob EXCEPT !.force = force, !.skip = skip, !.source = source,
                               !.stamp = now]
        IN job' = CASE Canonical(source) -> Ends(o, "ok")
                    [] ~Canonical(source) /\ NeedsForce(source) /\ ~force -> Ends(o, "failed")
                    [] OTHER -> [o EXCEPT !.pc = "prompt"]
  BY DEF Plan
<1> DEFINE o == [NoJob EXCEPT !.force = force, !.skip = skip, !.source = source, !.stamp = now]
<1>2. source \in Dir /\ source.there
  BY SourceFacts
<1>3. /\ o \in Job /\ o.cmd = "relocate" /\ o.acted = FALSE /\ o.result = "none" /\ o.touched = FALSE
      /\ o.source = source /\ o.force = force /\ o.launched = FALSE /\ o.edited = {}
  BY <1>2, JobBegins, Typed DEF Job
<1>4. \/ job' = Ends(o, "ok") \/ job' = Ends(o, "failed")
      \/ job' = [o EXCEPT !.pc = "prompt"] /\ (force \/ ~NeedsForce(source))
  BY <1>1
<1>5. /\ job' \in Job /\ job'.cmd = "relocate" /\ job'.acted = FALSE /\ job'.touched = FALSE
      /\ job'.source = source
      /\ \/ job'.pc = "idle"
         \/ job'.pc = "prompt" /\ job'.result = "none" /\ (job'.force \/ ~NeedsForce(source))
  <2>1. ASSUME NEW r \in {"ok", "failed"}, job' = Ends(o, r)
        PROVE  /\ job' \in Job /\ job'.cmd = "relocate" /\ job'.acted = FALSE
               /\ job'.touched = FALSE /\ job'.source = source /\ job'.pc = "idle"
    <3>1. Likewise(job', o) /\ job'.pc = "idle"
      BY <1>3, <2>1, Ending
    <3> QED
      BY <1>3, <3>1 DEF Likewise
  <2>2. ASSUME job' = [o EXCEPT !.pc = "prompt"]
        PROVE  /\ job' \in Job /\ job'.cmd = "relocate" /\ job'.acted = FALSE
               /\ job'.touched = FALSE /\ job'.source = source /\ job'.pc = "prompt"
               /\ job'.result = "none" /\ job'.force = force
    BY <1>3, <2>2 DEF Job
  <2> QED
    BY <1>4, <2>1, <2>2
<1>6. /\ UNCHANGED <<tree, swarm, snaps, now, edits, wiped>>
      /\ runs < MaxRuns /\ runs' = runs + 1
  BY DEF Plan
<1>7. RelocateTypeOK'
  BY <1>5, <1>6, Typed, RelocateAssumption DEF RelocateTypeOK
<1>8. WellFormed' /\ Undisturbed' /\ WipedIsKept'
  BY <1>6 DEF RelocateInv, WellFormed, ProperTree, Emptied, Undisturbed, WipedIsKept
<1>9. Staged' /\ Capturing' /\ Restoring' /\ Depositing'
  BY <1>2, <1>5 DEF Staged, Capturing, Restoring, Depositing
<1>10. Gated'
  BY <1>5, <1>6 DEF Gated, Stocked, NeedsForce, Customized, Dirs
<1> QED
  BY <1>7, <1>8, <1>9, <1>10 DEF RelocateInv

LEMMA ConfirmStep ==
  ASSUME RelocateInv, Confirm
  PROVE  RelocateInv'
<1>1. /\ job.pc = "prompt" /\ job.cmd = "relocate" /\ job.result = "none" /\ job.source.there
      /\ UNCHANGED <<tree, swarm, snaps, now, runs, edits, wiped>>
  BY Typed DEF Confirm, Doing, RelocateInv, Staged
<1>2. job' = BeginWipe(job) \/ job' = [job EXCEPT !.pc = "snapshot"]
  BY DEF Confirm
<1>3. /\ job' \in Job /\ job'.cmd = "relocate" /\ job'.result = "none"
      /\ job'.source = job.source /\ job'.force = job.force /\ job'.touched = job.touched
      /\ job'.launched = job.launched /\ job'.edited = job.edited
      /\ \/ job'.pc = "wipe" /\ job'.at = 1 /\ job'.acted
         \/ job'.pc = "snapshot"
  <2>1. ASSUME job' = BeginWipe(job)
        PROVE  /\ job' \in Job /\ job'.cmd = "relocate" /\ job'.result = "none"
               /\ job'.source = job.source /\ job'.force = job.force
               /\ job'.touched = job.touched
               /\ job'.launched = job.launched /\ job'.edited = job.edited
               /\ job'.pc = "wipe" /\ job'.at = 1 /\ job'.acted = TRUE
    BY <1>1, <2>1, Typed, Wiping
  <2>2. ASSUME job' = [job EXCEPT !.pc = "snapshot"]
        PROVE  /\ job' \in Job /\ job'.cmd = "relocate" /\ job'.result = "none"
               /\ job'.source = job.source /\ job'.force = job.force
               /\ job'.touched = job.touched /\ job'.pc = "snapshot"
               /\ job'.launched = job.launched /\ job'.edited = job.edited
    BY <1>1, <2>2, Typed DEF Job
  <2> QED
    BY <1>2, <2>1, <2>2
<1>4. RelocateTypeOK'
  BY <1>1, <1>3, Typed DEF RelocateTypeOK
<1>5. WellFormed' /\ Undisturbed' /\ WipedIsKept'
  BY <1>1 DEF RelocateInv, WellFormed, ProperTree, Emptied, Undisturbed, WipedIsKept
<1>6. Staged' /\ Capturing' /\ Restoring' /\ Depositing'
  BY <1>1, <1>3 DEF Staged, Capturing, Restoring, Depositing
<1>7. Gated'
  BY <1>1, <1>3 DEF RelocateInv, Gated, Stocked
<1> QED
  BY <1>4, <1>5, <1>6, <1>7 DEF RelocateInv

LEMMA StartRestoreStep ==
  ASSUME RelocateInv, StartRestore
  PROVE  RelocateInv'
<1>1. PICK s \in Written :
        job' = BeginWipe([NoJob EXCEPT !.cmd = "rollback", !.stamp = s])
  BY DEF StartRestore
<1>2. s \in Stamps
  BY DEF Written
<1>3. /\ job' \in Job /\ job'.cmd = "rollback" /\ job'.pc = "wipe" /\ job'.at = 1
      /\ job'.result = "none" /\ job'.acted = TRUE
  BY <1>1, <1>2, JobBegins DEF Job, BeginWipe
<1>4. /\ UNCHANGED <<tree, swarm, snaps, now, edits, wiped>>
      /\ runs < MaxRuns /\ runs' = runs + 1
  BY DEF StartRestore
<1>5. RelocateTypeOK'
  BY <1>3, <1>4, Typed, RelocateAssumption DEF RelocateTypeOK
<1>6. WellFormed' /\ Undisturbed' /\ WipedIsKept'
  BY <1>4 DEF RelocateInv, WellFormed, ProperTree, Emptied, Undisturbed, WipedIsKept
<1>7. Staged' /\ Capturing' /\ Restoring' /\ Depositing' /\ Gated'
  BY <1>3 DEF Staged, Capturing, Restoring, Depositing, Gated
<1> QED
  BY <1>5, <1>6, <1>7 DEF RelocateInv

-----------------------------------------------------------------------------
(* The snapshot.                                                           *)
LEMMA OpenStep ==
  ASSUME RelocateInv, OpenSnapshot
  PROVE  RelocateInv'
<1> DEFINE i == job.stamp
           new == [NoSnapshot EXCEPT !.ends = "cut", !.was = tree]
<1>1. /\ job.pc = "snapshot" /\ job.cmd = "relocate" /\ job.result = "none" /\ job.source.there
      /\ UNCHANGED <<tree, swarm, now, runs, edits>> /\ i \in Stamps
      /\ wiped' = {w \in wiped : w.stamp # i}
  BY Typed DEF OpenSnapshot, Doing, RelocateInv, Staged
<1>2. /\ new \in Snapshot /\ new.ends = "cut" /\ new.was = tree /\ new.kept = NoTree
      /\ new.stirred = FALSE
  BY Typed, NoTreeFacts DEF NoSnapshot, Snapshot
<1>3. /\ snaps' \in [Stamps -> Snapshot] /\ snaps'[i] = new
      /\ \A s \in Stamps : s # i => snaps'[s] = snaps[s]
  <2>1. snaps' = [snaps EXCEPT ![i] = new]
    BY DEF OpenSnapshot
  <2> HIDE DEF new
  <2> QED
    BY <1>1, <1>2, <2>1, Typed
<1>4. /\ job' \in Job /\ job'.pc = "capture" /\ job'.at = 1 /\ job'.cmd = "relocate"
      /\ job'.result = "none" /\ job'.source = job.source /\ job'.stamp = i
      /\ job'.force = job.force /\ job'.touched = job.touched /\ job'.acted = job.acted
      /\ job'.launched = job.launched /\ job'.edited = job.edited
  <2>1. job \in Job /\ 1 \in 1..5
    BY Typed
  <2>2. job' = MovedTo(job, "capture", 1)
    BY DEF OpenSnapshot, MovedTo
  <2>3. /\ Likewise(job', job) /\ job'.pc = "capture" /\ job'.result = job.result
        /\ job'.at = 1
    BY <2>1, <2>2, Moving
  <2> QED
    BY <1>1, <2>3 DEF Likewise
<1> HIDE DEF new
<1>5. RelocateTypeOK'
  BY <1>1, <1>3, <1>4, Typed DEF RelocateTypeOK
<1>6. WellFormed'
  <2>1. \A s \in Stamps : ProperTree(snaps'[s].kept) /\ ProperTree(snaps'[s].was)
    BY <1>2, <1>3, NoTreeFacts DEF RelocateInv, WellFormed
  <2> QED
    BY <1>1, <2>1 DEF RelocateInv, WellFormed, ProperTree, Emptied
<1>7. Undisturbed'
  BY <1>2, <1>3 DEF RelocateInv, Undisturbed
<1>8. WipedIsKept'
  BY <1>1, <1>3, Typed DEF RelocateInv, WipedIsKept
<1>9. Staged' /\ Restoring' /\ Depositing'
  BY <1>1, <1>4 DEF Staged, Restoring, Depositing
<1>10. Capturing'
  BY <1>1, <1>2, <1>3, <1>4 DEF Capturing
<1>11. Gated'
  BY <1>1, <1>4 DEF RelocateInv, Gated, Stocked
<1> QED
  BY <1>5, <1>6, <1>7, <1>8, <1>9, <1>10, <1>11 DEF RelocateInv

LEMMA CaptureStep ==
  ASSUME RelocateInv, Capture
  PROVE  RelocateInv'
<1> DEFINE i == job.stamp
           p == Path
           snap == snaps[i]
<1>1. /\ job.pc = "capture" /\ job.at \in 1..4 /\ job.cmd = "relocate" /\ job.result = "none"
      /\ job.source.there /\ i \in Stamps /\ p \in Names /\ p = Paths[job.at]
      /\ UNCHANGED <<tree, swarm, now, runs, edits, wiped>>
  BY Typed, PathFacts DEF Capture, Doing, RelocateInv, Staged, Path
<1>2. /\ job' \in Job /\ job'.pc = "capture" /\ job'.at = job.at + 1 /\ job'.cmd = "relocate"
      /\ job'.result = "none" /\ job'.source = job.source /\ job'.stamp = i
      /\ job'.force = job.force /\ job'.touched = job.touched /\ job'.acted = job.acted
      /\ job'.launched = job.launched /\ job'.edited = job.edited
  <2>1. job \in Job /\ job' = [job EXCEPT !.at = @ + 1]
    BY Typed DEF Capture
  <2>2. /\ Likewise(job', job) /\ job'.pc = job.pc /\ job'.result = job.result
        /\ job'.at = job.at + 1
    BY <1>1, <2>1, Advancing
  <2> QED
    BY <1>1, <2>2 DEF Likewise
<1>3. /\ snap.ends = "cut"
      /\ \A w \in wiped : w.stamp # i
      /\ \A k \in 1..4 : k >= job.at => snap.kept[Paths[k]] = NoTree[Paths[k]]
      /\ ~snap.stirred => /\ snap.was = tree
                          /\ \A k \in 1..4 : k < job.at => snap.kept[Paths[k]] = tree[Paths[k]]
  BY <1>1 DEF RelocateInv, Capturing
<1>4. /\ tree[p] \in Kind(p) /\ Emptied(p, tree[p]) /\ Emptied(p, snap.was[p]) /\ ProperTree(snap.kept)
      /\ snap.kept \in Tree /\ snap \in Snapshot
  BY <1>1, Typed, Branch DEF RelocateInv, WellFormed, ProperTree
<1>5. /\ snaps' \in [Stamps -> Snapshot]
      /\ \A s \in Stamps : s # i => snaps'[s] = snaps[s]
      /\ snaps'[i].ends = "cut" /\ snaps'[i].was = snap.was /\ snaps'[i].stirred = snap.stirred
      /\ ProperTree(snaps'[i].kept)
      /\ snaps'[i].kept[p] = IF Captured(p) THEN tree[p] ELSE snap.kept[p]
      /\ \A q \in Names : q # p => snaps'[i].kept[q] = snap.kept[q]
  <2>1. CASE Captured(p)
    <3> DEFINE kept == PutAt(snap.kept, p, tree[p])
    <3>1. /\ kept \in Tree /\ ProperTree(kept) /\ kept[p] = tree[p]
          /\ \A q \in Names : q # p => kept[q] = snap.kept[q]
      BY <1>1, <1>4, Updated
    <3>2. snaps' = [snaps EXCEPT ![i] = [snap EXCEPT !.kept = kept]]
      BY <2>1 DEF Capture, PutAt
    <3> HIDE DEF kept
    <3>3. /\ [snap EXCEPT !.kept = kept] \in Snapshot
          /\ [snap EXCEPT !.kept = kept].kept = kept
          /\ [snap EXCEPT !.kept = kept].ends = snap.ends
          /\ [snap EXCEPT !.kept = kept].was = snap.was
          /\ [snap EXCEPT !.kept = kept].stirred = snap.stirred
      BY <1>4, <3>1 DEF Snapshot
    <3>4. /\ snaps' \in [Stamps -> Snapshot] /\ snaps'[i] = [snap EXCEPT !.kept = kept]
          /\ \A s \in Stamps : s # i => snaps'[s] = snaps[s]
      BY <1>1, <3>2, <3>3, Typed
    <3> QED
      BY <1>3, <2>1, <3>1, <3>3, <3>4
  <2>2. CASE ~Captured(p)
    <3>1. snaps' = snaps
      BY <2>2 DEF Capture
    <3> QED
      BY <1>1, <1>3, <1>4, <2>2, <3>1, Typed
  <2> QED
    BY <2>1, <2>2
<1>6. RelocateTypeOK'
  BY <1>1, <1>2, <1>5, Typed DEF RelocateTypeOK
<1>7. WellFormed'
  <2>1. \A s \in Stamps : ProperTree(snaps'[s].kept) /\ ProperTree(snaps'[s].was)
    BY <1>5 DEF RelocateInv, WellFormed
  <2> QED
    BY <1>1, <2>1 DEF RelocateInv, WellFormed, ProperTree, Emptied
<1>8. Undisturbed'
  BY <1>1, <1>5 DEF RelocateInv, Undisturbed
<1>9. WipedIsKept'
  BY <1>1, <1>3, <1>5, Typed DEF RelocateInv, WipedIsKept
<1>10. Staged' /\ Restoring' /\ Depositing'
  BY <1>1, <1>2 DEF Staged, Restoring, Depositing
<1>11. Capturing'
  <2>1. ASSUME NEW k \in 1..4, k >= job.at + 1
        PROVE  snaps'[i].kept[Paths[k]] = NoTree[Paths[k]]
    BY <1>1, <1>3, <1>5, <2>1, PathFacts
  <2>2. ASSUME ~snap.stirred, NEW k \in 1..4, k < job.at + 1
        PROVE  snaps'[i].kept[Paths[k]] = tree[Paths[k]]
    <3>1. CASE k < job.at
      BY <1>1, <1>3, <1>5, <2>2, <3>1, PathFacts
    <3>2. CASE k = job.at /\ Captured(p)
      BY <1>1, <1>5, <3>2
    <3>3. CASE k = job.at /\ ~Captured(p)
      <4>1. snap.was = tree /\ ~snap.was[p].there
        BY <1>3, <2>2, <3>3 DEF Captured
      <4>2. tree[p] = NoTree[p]
        BY <1>4, <4>1 DEF Emptied
      <4>3. snap.kept[p] = NoTree[p]
        BY <1>1, <1>3
      <4> QED
        BY <1>1, <1>5, <3>3, <4>2, <4>3
    <3> QED
      BY <1>1, <2>2, <3>1, <3>2, <3>3
  <2> QED
    BY <1>1, <1>2, <1>3, <1>5, <2>1, <2>2 DEF Capturing
<1>12. Gated'
  BY <1>1, <1>2 DEF RelocateInv, Gated, Stocked
<1> QED
  BY <1>6, <1>7, <1>8, <1>9, <1>10, <1>11, <1>12 DEF RelocateInv

LEMMA CloseStep ==
  ASSUME RelocateInv, CloseSnapshot
  PROVE  RelocateInv'
<1> DEFINE i == job.stamp
           snap == snaps[i]
<1>1. /\ job.pc = "capture" /\ job.at = 5 /\ job.cmd = "relocate" /\ job.result = "none"
      /\ job.source.there /\ i \in Stamps
      /\ UNCHANGED <<tree, swarm, now, runs, edits>>
  BY Typed DEF CloseSnapshot, Doing, RelocateInv, Staged
<1>2. /\ job' \in Job /\ job'.pc = "wipe" /\ job'.at = 1 /\ job'.cmd = "relocate"
      /\ job'.result = "none" /\ job'.source = job.source /\ job'.stamp = i
      /\ job'.force = job.force /\ job'.touched = job.touched /\ job'.acted = TRUE
      /\ job'.launched = job.launched /\ job'.edited = job.edited
  BY <1>1, Typed, Wiping DEF CloseSnapshot
<1>3. /\ \A w \in wiped : w.stamp # i
      /\ ~snap.stirred => snap.was = tree /\ snap.kept = tree
  <2>1. ~snap.stirred => snap.was = tree /\ \A k \in 1..4 : snap.kept[Paths[k]] = tree[Paths[k]]
    BY <1>1 DEF RelocateInv, Capturing
  <2>2. snap.kept \in Tree /\ tree \in Tree
    BY <1>1, Typed
  <2>3. \A w \in wiped : w.stamp # i
    BY <1>1 DEF RelocateInv, Capturing
  <2> QED
    BY <2>1, <2>2, <2>3, Same
<1>4. /\ snaps' \in [Stamps -> Snapshot]
      /\ \A s \in Stamps : s # i => snaps'[s] = snaps[s]
      /\ snaps'[i].ends = "whole" /\ snaps'[i].was = snap.was /\ snaps'[i].kept = snap.kept
      /\ snaps'[i].stirred = snap.stirred
  <2>1. snaps' = [snaps EXCEPT ![i] = [snap EXCEPT !.ends = "whole"]]
    BY DEF CloseSnapshot
  <2>2. /\ [snap EXCEPT !.ends = "whole"] \in Snapshot
        /\ [snap EXCEPT !.ends = "whole"].ends = "whole"
        /\ [snap EXCEPT !.ends = "whole"].kept = snap.kept
        /\ [snap EXCEPT !.ends = "whole"].was = snap.was
        /\ [snap EXCEPT !.ends = "whole"].stirred = snap.stirred
    BY <1>1, Typed DEF Snapshot
  <2> QED
    BY <1>1, <2>1, <2>2, Typed
<1>5. /\ wiped' \subseteq [stamp: Stamps, was: Tree]
      /\ \A w \in wiped' : w \in wiped \/ (~snap.stirred /\ w.stamp = i /\ w.was = tree)
  BY <1>1, Typed DEF CloseSnapshot
<1>6. RelocateTypeOK'
  BY <1>1, <1>2, <1>4, <1>5, Typed DEF RelocateTypeOK
<1>7. WellFormed'
  <2>1. \A s \in Stamps : ProperTree(snaps'[s].kept) /\ ProperTree(snaps'[s].was)
    BY <1>4 DEF RelocateInv, WellFormed
  <2> QED
    BY <1>1, <2>1 DEF RelocateInv, WellFormed, ProperTree, Emptied
<1>8. Undisturbed'
  BY <1>1, <1>3, <1>4 DEF RelocateInv, Undisturbed
<1>9. WipedIsKept'
  <2>1. ASSUME NEW w \in wiped'
        PROVE  snaps'[w.stamp].ends = "whole" /\ snaps'[w.stamp].kept = w.was
    <3>1. CASE w \in wiped
      BY <1>3, <1>4, <3>1, Typed DEF RelocateInv, WipedIsKept
    <3>2. CASE w \notin wiped
      BY <1>3, <1>4, <1>5, <2>1, <3>2
    <3> QED
      BY <3>1, <3>2
  <2> QED
    BY <2>1 DEF WipedIsKept
<1>10. Staged' /\ Capturing' /\ Restoring' /\ Depositing'
  BY <1>1, <1>2 DEF Staged, Capturing, Restoring, Depositing
<1>11. Gated'
  BY <1>1, <1>2 DEF RelocateInv, Gated, Stocked
<1> QED
  BY <1>6, <1>7, <1>8, <1>9, <1>10, <1>11 DEF RelocateInv

LEMMA CaptureFailsStep ==
  ASSUME RelocateInv, CaptureFails
  PROVE  RelocateInv'
<1> DEFINE i == job.stamp
           p == Path
           snap == snaps[i]
<1>1. /\ job.pc = "capture" /\ job.at \in 1..4 /\ job.cmd = "relocate" /\ job.source.there
      /\ i \in Stamps /\ p \in Names
      /\ UNCHANGED <<tree, swarm, now, runs, edits, wiped>>
  BY Typed, PathFacts DEF CaptureFails, Doing, RelocateInv, Staged, Path
<1>2. /\ job' \in Job /\ job'.pc = "idle" /\ job'.cmd = "relocate" /\ job'.result = "failed"
      /\ job'.source = job.source
  <2>1. job \in Job /\ job' = Ends(job, "failed")
    BY Typed DEF CaptureFails
  <2>2. Likewise(job', job) /\ job'.pc = "idle" /\ job'.result = "failed"
    BY <2>1, Ending
  <2> QED
    BY <1>1, <2>2 DEF Likewise
<1>3. /\ snaps' \in [Stamps -> Snapshot]
      /\ \A s \in Stamps : s # i => snaps'[s] = snaps[s]
      /\ snaps'[i].ends = "short" /\ snaps'[i].was = snap.was /\ ProperTree(snaps'[i].kept)
  <2>1. \E kept \in Tree : /\ ProperTree(kept)
                           /\ snaps' = [snaps EXCEPT ![i] = [snap EXCEPT !.ends = "short", !.kept = kept]]
    <3>1. CASE snaps' = [snaps EXCEPT ![i].ends = "short"]
      <4>1. snap = [snap EXCEPT !.kept = snap.kept] /\ snap.kept \in Tree /\ ProperTree(snap.kept)
        BY <1>1, Typed DEF Snapshot, RelocateInv, WellFormed
      <4>2. snap \in Snapshot
        BY <1>1, Typed
      <4>3. [snap EXCEPT !.ends = "short", !.kept = snap.kept] = [snap EXCEPT !.ends = "short"]
        BY <4>2 DEF Snapshot
      <4> QED
        BY <3>1, <4>1, <4>3
    <3>2. ASSUME p \in Dirs, NEW part \in Parts(tree[p]),
                 snaps' = [snaps EXCEPT ![i].ends = "short", ![i].kept[p] = part]
          PROVE  \E kept \in Tree :
                   /\ ProperTree(kept)
                   /\ snaps' = [snaps EXCEPT ![i] = [snap EXCEPT !.ends = "short", !.kept = kept]]
      <4> DEFINE kept == PutAt(snap.kept, p, part)
      <4>1. part \in Dir /\ (part.there \/ part = NoDir)
        BY <3>2, Typed, PartFacts
      <4>2. part \in Kind(p) /\ Emptied(p, part)
        BY <3>2, <4>1, NoTreeFacts DEF Kind, Emptied
      <4>3. kept \in Tree /\ ProperTree(kept)
        BY <1>1, <4>2, Typed, Updated DEF RelocateInv, WellFormed
      <4>4. snaps' = [snaps EXCEPT ![i] = [snap EXCEPT !.ends = "short", !.kept = kept]]
        BY <1>1, <3>2, Typed DEF Snapshot, PutAt
      <4> QED
        BY <4>3, <4>4
    <3> QED
      BY <3>1, <3>2 DEF CaptureFails
  <2>2. PICK kept \in Tree : /\ ProperTree(kept)
                             /\ snaps' = [snaps EXCEPT ![i] = [snap EXCEPT !.ends = "short", !.kept = kept]]
    BY <2>1
  <2>3. /\ [snap EXCEPT !.ends = "short", !.kept = kept] \in Snapshot
        /\ [snap EXCEPT !.ends = "short", !.kept = kept].ends = "short"
        /\ [snap EXCEPT !.ends = "short", !.kept = kept].kept = kept
        /\ [snap EXCEPT !.ends = "short", !.kept = kept].was = snap.was
    BY <1>1, Typed DEF Snapshot
  <2> QED
    BY <1>1, <2>2, <2>3, Typed
<1>4. RelocateTypeOK'
  BY <1>1, <1>2, <1>3, Typed DEF RelocateTypeOK
<1>5. WellFormed'
  <2>1. \A s \in Stamps : ProperTree(snaps'[s].kept) /\ ProperTree(snaps'[s].was)
    BY <1>3 DEF RelocateInv, WellFormed
  <2> QED
    BY <1>1, <2>1 DEF RelocateInv, WellFormed, ProperTree, Emptied
<1>6. Undisturbed'
  BY <1>3 DEF RelocateInv, Undisturbed
<1>7. WipedIsKept'
  <2>1. \A w \in wiped : w.stamp # i
    BY <1>1 DEF RelocateInv, Capturing
  <2> QED
    BY <1>1, <1>3, <2>1, Typed DEF RelocateInv, WipedIsKept
<1>8. Staged' /\ Capturing' /\ Restoring' /\ Depositing' /\ Gated'
  BY <1>1, <1>2 DEF Staged, Capturing, Restoring, Depositing, Gated
<1> QED
  BY <1>4, <1>5, <1>6, <1>7, <1>8 DEF RelocateInv

-----------------------------------------------------------------------------
(* The wipe and what follows it.                                           *)
LEMMA WipeStep ==
  ASSUME RelocateInv, Wipe
  PROVE  RelocateInv'
<1> DEFINE p == Path
<1>1. /\ job.pc = "wipe" /\ job.at \in 1..4 /\ (job.cmd = "relocate" => job.at \in {1, 2})
      /\ job.acted /\ job.result = "none" /\ (job.cmd = "relocate" => job.source.there)
      /\ p \in Names /\ p = Paths[job.at]
      /\ UNCHANGED <<swarm, snaps, now, runs, edits, wiped>>
  BY Typed, PathFacts DEF Wipe, Doing, RelocateInv, Staged, Path
<1>2. /\ tree' \in Tree /\ ProperTree(tree') /\ tree'[p] = NoTree[p]
      /\ \A q \in Names : q # p => tree'[q] = tree[q]
  <2>1. tree' = PutAt(tree, p, NoTree[p])
    BY DEF Wipe, Removes, PutAt
  <2>2. NoTree[p] \in Kind(p) /\ Emptied(p, NoTree[p])
    BY <1>1, NoTreeFacts DEF Emptied
  <2> QED
    <3>1. tree \in Tree /\ ProperTree(tree)
      BY Typed DEF RelocateInv, WellFormed
    <3> HIDE DEF p
    <3> QED
      BY <1>1, <2>1, <2>2, <3>1, Updated
<1>3. /\ Likewise(job', job)
      /\ \/ /\ job'.pc = "wipe" /\ job'.at = job.at + 1 /\ job'.result = "none"
            /\ job'.at <= 4 /\ (job.cmd = "relocate" => job'.at <= 2)
         \/ /\ job.cmd = "relocate" /\ job.at = 2 /\ job'.pc = "fill" /\ job'.at = 2
            /\ job'.result = "none"
         \/ /\ job.cmd = "rollback" /\ job.at = 4 /\ job'.pc = "fill" /\ job'.at = 1
            /\ job'.result = "none"
         \/ job.cmd = "rollback" /\ job'.pc = "idle" /\ job'.result = "failed"
  <2>1. job \in Job /\ 1 \in 1..5 /\ job.cmd \in {"relocate", "rollback"}
    BY Typed
  <2>2. CASE job.cmd = "relocate"
    <3>1. CASE job.at = 1
      <4>1. job' = [job EXCEPT !.at = @ + 1]
        BY <2>2, <3>1 DEF Wipe
      <4>2. Likewise(job', job) /\ job'.pc = job.pc /\ job'.result = job.result /\ job'.at = job.at + 1
        BY <1>1, <2>1, <4>1, Advancing
      <4> QED
        BY <1>1, <2>2, <3>1, <4>2
    <3>2. CASE job.at = 2
      <4>1. job' = [job EXCEPT !.pc = "fill"]
        BY <2>2, <3>2 DEF Wipe
      <4>2. Likewise(job', job) /\ job'.pc = "fill" /\ job'.result = job.result /\ job'.at = job.at
        BY <2>1, <4>1, Staging
      <4> QED
        BY <1>1, <2>2, <3>2, <4>2
    <3> QED
      BY <1>1, <2>2, <3>1, <3>2
  <2>3. CASE job.cmd = "rollback"
    <3>1. CASE job.at < 4
      <4>1. job' = [job EXCEPT !.at = @ + 1]
        BY <1>1, <2>3, <3>1 DEF Wipe
      <4>2. Likewise(job', job) /\ job'.pc = job.pc /\ job'.result = job.result /\ job'.at = job.at + 1
        BY <1>1, <2>1, <4>1, Advancing
      <4> QED
        BY <1>1, <2>3, <3>1, <4>2
    <3>2. CASE job.at = 4 /\ snaps[job.stamp].ends = "cut"
      <4>1. job' = Ends(job, "failed")
        BY <2>3, <3>2 DEF Wipe
      <4>2. Likewise(job', job) /\ job'.pc = "idle" /\ job'.result = "failed"
        BY <2>1, <4>1, Ending
      <4> QED
        BY <2>3, <4>2
    <3>3. CASE job.at = 4 /\ snaps[job.stamp].ends # "cut"
      <4>1. job' = MovedTo(job, "fill", 1)
        BY <2>3, <3>3 DEF Wipe, MovedTo
      <4>2. /\ Likewise(job', job) /\ job'.pc = "fill" /\ job'.result = job.result
            /\ job'.at = 1
        BY <2>1, <4>1, Moving
      <4> QED
        BY <1>1, <2>3, <3>3, <4>2
    <3> QED
      BY <1>1, <3>1, <3>2, <3>3
  <2> QED
    BY <2>1, <2>2, <2>3
<1>a. /\ job' \in Job /\ job'.cmd = job.cmd /\ job'.force = job.force /\ job'.acted = job.acted
      /\ job'.source = job.source /\ job'.stamp = job.stamp /\ job'.touched = job.touched
      /\ job'.launched = job.launched /\ job'.edited = job.edited
  BY <1>3 DEF Likewise
<1>4. RelocateTypeOK'
  BY <1>1, <1>2, <1>3, <1>a, Typed DEF RelocateTypeOK
<1>5. WellFormed' /\ Undisturbed' /\ WipedIsKept'
  BY <1>1, <1>2 DEF RelocateInv, WellFormed, ProperTree, Emptied, Undisturbed, WipedIsKept
<1>6. Staged' /\ Capturing'
  BY <1>1, <1>3, <1>a DEF Staged, Capturing
<1>7. Restoring'
  <2> SUFFICES ASSUME job'.cmd = "rollback", ~job'.touched PROVE Restoring'
    BY DEF Restoring
  <2>1. \A k \in 1..4 : k < job.at + 1 => tree'[Paths[k]] = NoTree[Paths[k]]
    <3>1. \A k \in 1..4 : k < job.at => tree[Paths[k]] = NoTree[Paths[k]]
      BY <1>1, <1>3, <1>a DEF RelocateInv, Restoring
    <3> QED
      BY <1>1, <1>2, <3>1, PathFacts
  <2> QED
    BY <1>1, <1>3, <1>a, <2>1 DEF Restoring
<1>8. Depositing'
  <2> SUFFICES ASSUME job'.cmd = "relocate", ~job'.touched PROVE Depositing'
    BY DEF Depositing
  <2>1. CASE job.at = 1
    <3>1. tree'.legacy = NoDir
      BY <1>1, <1>2, <2>1, PathFacts, NoTreeFacts DEF Names
    <3> QED
      BY <1>3, <1>a, <2>1, <3>1 DEF Depositing
  <2>2. CASE job.at = 2
    <3>1. tree.legacy = NoDir
      BY <1>1, <1>3, <1>a, <2>2 DEF RelocateInv, Depositing
    <3>2. tree'.legacy = NoDir /\ tree'.core = NoDir
      BY <1>1, <1>2, <2>2, <3>1, PathFacts, NoTreeFacts DEF Names
    <3> QED
      BY <1>3, <1>a, <2>2, <3>2 DEF Depositing
  <2> QED
    BY <1>1, <1>3, <1>a, <2>1, <2>2
<1>9. Gated'
  <2> SUFFICES ASSUME job'.cmd = "relocate", ~job'.force, job'.pc = "wipe"
               PROVE  (swarm' => job'.launched) /\ Stocked(tree', job')
    BY <1>3, <1>a DEF Gated
  <2>1. (swarm => job.launched) /\ Stocked(tree, job)
    BY <1>1, <1>3, <1>a DEF RelocateInv, Gated
  <2>2. \A f \in Files : NoDir.file[f] = "none"
    BY DEF NoDir
  <2>3. \A d \in Dirs : tree'[d] = tree[d] \/ tree'[d] = NoDir
    BY <1>2, PathFacts, NoTreeFacts
  <2> QED
    BY <1>1, <1>3, <1>a, <2>1, <2>2, <2>3 DEF Stocked
<1> QED
  BY <1>4, <1>5, <1>6, <1>7, <1>8, <1>9 DEF RelocateInv

LEMMA GoalFacts ==
  ASSUME RelocateInv, job.pc = "fill"
  PROVE  Goal \in Kind(Path) /\ Emptied(Path, Goal)
<1> DEFINE kept == snaps[job.stamp].kept
<1>1. /\ job.at \in 1..4 /\ Path \in Names
      /\ job.cmd = "relocate" => Path = "core" /\ job.source.there
  BY Typed, PathFacts DEF RelocateInv, Staged, Path
<1>2. CASE job.cmd = "relocate"
  <2>1. Filtered(job.source) \in Dir /\ Filtered(job.source).there
    BY <1>1, <1>2, Typed, OnlyFacts DEF Filtered
  <2> QED
    BY <1>1, <1>2, <2>1 DEF Goal, Kind, Dirs, Emptied
<1>3. CASE job.cmd = "rollback"
  <2>1. Goal = kept[Path] /\ kept \in Tree /\ ProperTree(kept)
    BY <1>3, Typed DEF Goal, RelocateInv, WellFormed
  <2> QED
    BY <1>1, <2>1, Branch DEF ProperTree
<1> QED
  BY <1>2, <1>3, Typed

LEMMA FillStep ==
  ASSUME RelocateInv, Fill
  PROVE  RelocateInv'
<1> DEFINE p == Path
           kept == snaps[job.stamp].kept
           v == Deposited(Goal)[p]
<1>1. /\ job.pc = "fill" /\ job.at \in 1..4 /\ (job.cmd = "relocate" => job.at = 2)
      /\ job.acted /\ job.result = "none" /\ (job.cmd = "relocate" => job.source.there)
      /\ p \in Names /\ p = Paths[job.at] /\ (job.cmd = "relocate" => p = "core")
      /\ UNCHANGED <<swarm, snaps, now, runs, edits, wiped>>
  BY Typed, PathFacts DEF Fill, Doing, RelocateInv, Staged, Path
<1>2. Goal \in Kind(p) /\ Emptied(p, Goal)
  BY <1>1, GoalFacts
<1>3. /\ tree' \in Tree /\ ProperTree(tree')
      /\ tree[p] = NoTree[p] => tree'[p] = Goal
      /\ \A q \in Names : q # p => tree'[q] = tree[q]
  <2> DEFINE new == CASE p \in Dirs -> Filled(tree[p], Goal)
                      [] p \notin Dirs /\ Goal.there -> Goal
                      [] OTHER -> tree[p]
  <2>1. tree' = PutAt(tree, p, new)
    BY DEF Fill, Deposited, PutAt
  <2>2. new \in Kind(p) /\ Emptied(p, new) /\ (tree[p] = NoTree[p] => new = Goal)
    <3>1. CASE p \in Dirs
      <4>1. Goal \in Dir /\ (Goal.there \/ Goal = NoDir)
        BY <1>1, <1>2, <3>1, NoTreeFacts DEF Kind, Emptied
      <4>2. tree[p] \in Dir /\ (tree[p].there \/ tree[p] = NoDir)
        BY <3>1, Typed
      <4>3. /\ Filled(tree[p], Goal) \in Dir
            /\ Filled(tree[p], Goal).there \/ Filled(tree[p], Goal) = NoDir
            /\ tree[p] = NoDir => Filled(tree[p], Goal) = Goal
        BY <4>1, <4>2, FilledFacts
      <4>4. new = Filled(tree[p], Goal)
        BY <3>1
      <4> QED
        BY <3>1, <4>3, <4>4, NoTreeFacts DEF Kind, Emptied
    <3>2. CASE p \notin Dirs /\ Goal.there
      BY <1>2, <3>2
    <3>3. CASE p \notin Dirs /\ ~Goal.there
      <4>1. new = tree[p] /\ Goal = NoTree[p]
        BY <1>2, <3>3 DEF Emptied
      <4> QED
        BY <1>1, <4>1, Typed, Branch DEF RelocateInv, WellFormed, ProperTree
    <3> QED
      BY <3>1, <3>2, <3>3
  <2> HIDE DEF new
  <2> QED
    <3>1. tree \in Tree /\ ProperTree(tree)
      BY Typed DEF RelocateInv, WellFormed
    <3> HIDE DEF p
    <3> QED
      BY <1>1, <2>1, <2>2, <3>1, Updated
<1>4. /\ Likewise(job', job)
      /\ \/ job.cmd = "relocate" /\ job'.pc = "read" /\ job'.at = 3 /\ job'.result = "none"
         \/ /\ job.cmd = "rollback" /\ job.at < 4 /\ job'.pc = "fill" /\ job'.at = job.at + 1
            /\ job'.result = "none"
         \/ job.cmd = "rollback" /\ job.at = 4 /\ job'.pc = "idle" /\ job'.result = "ok"
  <2>1. job \in Job /\ 3 \in 1..5 /\ job.cmd \in {"relocate", "rollback"}
    BY Typed
  <2>2. CASE job.cmd = "relocate"
    <3>1. job' = MovedTo(job, "read", 3)
      BY <2>2 DEF Fill, MovedTo
    <3>2. /\ Likewise(job', job) /\ job'.pc = "read" /\ job'.result = job.result
          /\ job'.at = 3
      BY <2>1, <3>1, Moving
    <3> QED
      BY <1>1, <2>2, <3>2
  <2>3. CASE job.cmd = "rollback" /\ job.at < 4
    <3>1. job' = [job EXCEPT !.at = @ + 1]
      BY <2>3 DEF Fill
    <3>2. Likewise(job', job) /\ job'.pc = job.pc /\ job'.result = job.result /\ job'.at = job.at + 1
      BY <1>1, <2>1, <3>1, Advancing
    <3> QED
      BY <1>1, <2>3, <3>2
  <2>4. CASE job.cmd = "rollback" /\ job.at = 4
    <3>1. job' = Ends(job, "ok")
      BY <2>4 DEF Fill
    <3>2. Likewise(job', job) /\ job'.pc = "idle" /\ job'.result = "ok"
      BY <2>1, <3>1, Ending
    <3> QED
      BY <2>4, <3>2
  <2> QED
    BY <1>1, <2>1, <2>2, <2>3, <2>4
<1>a. /\ job' \in Job /\ job'.cmd = job.cmd /\ job'.force = job.force /\ job'.acted = job.acted
      /\ job'.source = job.source /\ job'.stamp = job.stamp /\ job'.touched = job.touched
  BY <1>4 DEF Likewise
<1>5. RelocateTypeOK'
  BY <1>1, <1>3, <1>4, <1>a, Typed DEF RelocateTypeOK
<1>6. WellFormed' /\ Undisturbed' /\ WipedIsKept'
  BY <1>1, <1>3 DEF RelocateInv, WellFormed, ProperTree, Emptied, Undisturbed, WipedIsKept
<1>7. Staged' /\ Capturing' /\ Gated'
  BY <1>1, <1>4, <1>a DEF Staged, Capturing, Gated
<1>8. Restoring'
  <2> SUFFICES ASSUME job'.cmd = "rollback", ~job'.touched PROVE Restoring'
    BY DEF Restoring
  <2>1. \A k \in 1..4 : tree[Paths[k]] = IF k < job.at THEN kept[Paths[k]] ELSE NoTree[Paths[k]]
    BY <1>1, <1>4, <1>a DEF RelocateInv, Restoring
  <2>2. Goal = kept[p]
    BY <1>4, <1>a DEF Goal
  <2>3. \A k \in 1..4 : tree'[Paths[k]] = IF k < job.at + 1 THEN kept[Paths[k]]
                                           ELSE NoTree[Paths[k]]
    BY <1>1, <1>3, <2>1, <2>2, PathFacts
  <2>4. job'.result = "ok" => tree' = kept
    <3>1. kept \in Tree
      BY Typed
    <3>2. job.at = 4 => \A k \in 1..4 : tree'[Paths[k]] = kept[Paths[k]]
      BY <2>3
    <3> HIDE DEF kept
    <3> QED
      BY <1>3, <1>4, <1>a, <3>1, <3>2, Same
  <2> QED
    BY <1>1, <1>4, <1>a, <2>3, <2>4 DEF Restoring
<1>9. Depositing'
  <2> SUFFICES ASSUME job'.cmd = "relocate", ~job'.touched PROVE Depositing'
    BY DEF Depositing
  <2>1. tree.legacy = NoDir /\ tree.core = NoDir
    BY <1>1, <1>4, <1>a DEF RelocateInv, Depositing
  <2>2. p = "core" /\ Goal = Filtered(job.source)
    BY <1>1, <1>4, <1>a DEF Goal
  <2>3. tree'.legacy = NoDir /\ tree'.core = Filtered(job.source)
    BY <1>3, <2>1, <2>2, NoTreeFacts DEF Names
  <2> QED
    BY <1>4, <1>a, <2>3 DEF Depositing
<1> QED
  BY <1>5, <1>6, <1>7, <1>8, <1>9 DEF RelocateInv

LEMMA ReadStep ==
  ASSUME RelocateInv, ReadPage
  PROVE  RelocateInv'
<1>1. /\ job.pc = "read" /\ job.at \in {3, 4} /\ job.cmd = "relocate" /\ job.acted
      /\ job.result = "none" /\ job.source.there
      /\ UNCHANGED <<tree, swarm, snaps, now, runs, edits, wiped>>
  BY Typed DEF ReadPage, Doing, RelocateInv, Staged
<1>2. /\ job' \in Job /\ job'.pc = "rewrite" /\ job'.at = job.at /\ job'.cmd = "relocate"
      /\ job'.result = "none" /\ job'.source = job.source /\ job'.stamp = job.stamp
      /\ job'.touched = job.touched /\ job'.acted = job.acted
  BY <1>1, Typed DEF ReadPage, Job
<1>3. RelocateTypeOK'
  BY <1>1, <1>2, Typed DEF RelocateTypeOK
<1>4. WellFormed' /\ Undisturbed' /\ WipedIsKept'
  BY <1>1 DEF RelocateInv, WellFormed, ProperTree, Emptied, Undisturbed, WipedIsKept
<1>5. Staged' /\ Capturing' /\ Gated' /\ Restoring'
  BY <1>1, <1>2 DEF Staged, Capturing, Gated, Restoring
<1>6. Depositing'
  BY <1>1, <1>2 DEF RelocateInv, Depositing, Marked
<1> QED
  BY <1>3, <1>4, <1>5, <1>6 DEF RelocateInv

LEMMA RegeneratedFacts ==
  ASSUME NEW agents \in Agents
  PROVE  Regenerated(agents) \in Agents /\ Regenerated(agents).there /\ Marked(Regenerated(agents))
<1> DEFINE after == Regenerated(agents).blocks
<1>1. agents.blocks \in Seq(Markers) /\ agents.text \in Nat
  BY DEF Agents
<1>2. CASE agents.blocks # <<>> /\ agents.blocks[1] = "v3"
  <2>1. after = agents.blocks
    BY <1>2 DEF Regenerated
  <2>2. 1 \in DOMAIN agents.blocks
    BY <1>1, <1>2
  <2> QED
    BY <1>1, <1>2, <2>1, <2>2 DEF Regenerated, Agents, Marked
<1>3. CASE ~(agents.blocks # <<>> /\ agents.blocks[1] = "v3")
  <2>1. after = Append(agents.blocks, "v3")
    BY <1>3 DEF Regenerated
  <2>2. after \in Seq(Markers)
    BY <1>1, <2>1 DEF Markers
  <2>3. Len(agents.blocks) + 1 \in DOMAIN after /\ after[Len(agents.blocks) + 1] = "v3"
    BY <1>1, <2>1
  <2>4. Regenerated(agents) = [there |-> TRUE, text |-> agents.text, blocks |-> after]
    BY DEF Regenerated
  <2> HIDE DEF after
  <2> QED
    BY <1>1, <2>2, <2>3, <2>4 DEF Agents, Marked
<1> QED
  BY <1>2, <1>3

LEMMA RewriteStep ==
  ASSUME RelocateInv, RewritePage
  PROVE  RelocateInv'
<1>1. /\ job.pc = "rewrite" /\ job.at \in {3, 4} /\ job.cmd = "relocate" /\ job.acted
      /\ job.result = "none" /\ job.source.there /\ job.page \in Tree
      /\ (Path = "agents" <=> job.at = 3) /\ (Path = "ignore" <=> job.at = 4)
      /\ UNCHANGED <<swarm, snaps, now, runs, edits, wiped>>
  BY Typed, PathFacts DEF RewritePage, Doing, RelocateInv, Staged, Path
<1>2. /\ tree' \in Tree /\ ProperTree(tree') /\ tree'.legacy = tree.legacy /\ tree'.core = tree.core
      /\ job.at = 3 => Marked(tree'.agents)
      /\ job.at = 4 => tree'.agents = tree.agents
  <2>1. CASE job.at = 3
    <3> DEFINE v == Regenerated(job.page.agents)
    <3>1. tree' = PutAt(tree, "agents", v)
      BY <1>1, <2>1 DEF RewritePage, PutAt
    <3>2. v \in Agents /\ v.there /\ Marked(v)
      BY <1>1, RegeneratedFacts DEF Tree
    <3>3. v \in Kind("agents") /\ Emptied("agents", v)
      BY <3>2 DEF Kind, Emptied, Dirs
    <3>4. tree \in Tree /\ ProperTree(tree) /\ "agents" \in Names
      BY Typed DEF RelocateInv, WellFormed, Names
    <3> HIDE DEF v
    <3>5. /\ tree' \in Tree /\ ProperTree(tree') /\ tree'["agents"] = v
          /\ \A q \in Names : q # "agents" => tree'[q] = tree[q]
      BY <3>1, <3>3, <3>4, Updated
    <3> QED
      BY <2>1, <3>2, <3>5 DEF Names
  <2>2. CASE job.at = 4
    <3>1. CASE IsWritten(Path)
      <4> DEFINE v == Healed(job.page.ignore)
      <4>1. tree' = PutAt(tree, "ignore", v)
        BY <1>1, <2>2, <3>1 DEF RewritePage, PutAt
      <4>2. v \in Ignore /\ v.there
        BY <1>1 DEF Tree, Healed, Ignore
      <4>3. v \in Kind("ignore") /\ Emptied("ignore", v)
        BY <4>2 DEF Kind, Emptied, Dirs
      <4>4. tree \in Tree /\ ProperTree(tree) /\ "ignore" \in Names
        BY Typed DEF RelocateInv, WellFormed, Names
      <4> HIDE DEF v
      <4>5. /\ tree' \in Tree /\ ProperTree(tree')
            /\ \A q \in Names : q # "ignore" => tree'[q] = tree[q]
        BY <4>1, <4>3, <4>4, Updated
      <4> QED
        BY <2>2, <4>5 DEF Names
    <3>2. CASE ~IsWritten(Path)
      <4>1. tree' = tree
        BY <1>1, <2>2, <3>2 DEF RewritePage
      <4> QED
        BY <2>2, <4>1, Typed DEF RelocateInv, WellFormed
    <3> QED
      BY <3>1, <3>2
  <2> QED
    BY <1>1, <2>1, <2>2
<1>3. /\ Likewise(job', job)
      /\ \/ job.at = 3 /\ job'.pc = "read" /\ job'.at = 4 /\ job'.result = "none"
         \/ job.at = 4 /\ job'.pc = "idle" /\ job'.result = "ok"
  <2>1. job \in Job /\ 4 \in 1..5
    BY Typed
  <2>2. CASE job.at = 3
    <3>1. job' = MovedTo(job, "read", 4)
      BY <1>1, <2>2 DEF RewritePage, MovedTo
    <3>2. /\ Likewise(job', job) /\ job'.pc = "read" /\ job'.result = job.result
          /\ job'.at = 4
      BY <2>1, <3>1, Moving
    <3> QED
      BY <1>1, <2>2, <3>2
  <2>3. CASE job.at = 4
    <3>1. job' = Ends(job, "ok")
      BY <1>1, <2>3 DEF RewritePage
    <3>2. Likewise(job', job) /\ job'.pc = "idle" /\ job'.result = "ok"
      BY <2>1, <3>1, Ending
    <3> QED
      BY <2>3, <3>2
  <2> QED
    BY <1>1, <2>2, <2>3
<1>a. /\ job' \in Job /\ job'.cmd = job.cmd /\ job'.force = job.force /\ job'.acted = job.acted
      /\ job'.source = job.source /\ job'.stamp = job.stamp /\ job'.touched = job.touched
  BY <1>3 DEF Likewise
<1>4. RelocateTypeOK'
  BY <1>1, <1>2, <1>3, <1>a, Typed DEF RelocateTypeOK
<1>5. WellFormed' /\ Undisturbed' /\ WipedIsKept'
  BY <1>1, <1>2 DEF RelocateInv, WellFormed, ProperTree, Emptied, Undisturbed, WipedIsKept
<1>6. Staged' /\ Capturing' /\ Gated' /\ Restoring'
  BY <1>1, <1>3, <1>a DEF Staged, Capturing, Gated, Restoring
<1>7. Depositing'
  <2>1. job.cmd = "relocate" /\ job.acted /\ ~job.touched =>
          /\ tree.legacy = NoDir /\ tree.core = Filtered(job.source)
          /\ job.at = 4 => Marked(tree.agents)
    BY <1>1 DEF RelocateInv, Depositing
  <2> QED
    BY <1>1, <1>2, <1>3, <1>a, <2>1 DEF Depositing
<1> QED
  BY <1>4, <1>5, <1>6, <1>7 DEF RelocateInv

LEMMA RemainsFacts ==
  ASSUME RelocateInv, job.pc \in {"wipe", "fill", "rewrite"}, NEW left \in Remains
  PROVE  Path \in Names /\ left \in Kind(Path) /\ Emptied(Path, left)
<1> DEFINE p == Path
<1>1. job.at \in 1..4 /\ p \in Names
  BY Typed, PathFacts DEF RelocateInv, Staged, Path
<1>2. tree[p] \in Kind(p) /\ Emptied(p, tree[p])
  BY <1>1, Typed, Branch DEF RelocateInv, WellFormed, ProperTree
<1>3. CASE job.pc = "wipe" /\ p \in Dirs
  <2>1. left \in Parts(tree[p]) \/ left = tree[p]
    BY <1>3 DEF Remains, Doing
  <2>2. tree[p] \in Dir /\ (tree[p].there \/ tree[p] = NoDir)
    BY <1>3, Typed
  <2>3. left \in Dir /\ (left.there \/ left = NoDir)
    BY <2>1, <2>2, PartFacts
  <2> QED
    BY <1>1, <1>3, <2>3, NoTreeFacts DEF Kind, Emptied
<1>4. CASE job.pc = "fill" /\ p \in Dirs
  <2>1. left \in PartlyFilled(tree[p], Goal) \/ left = tree[p]
    BY <1>4 DEF Remains, Doing
  <2>2. tree[p] \in Dir /\ (tree[p].there \/ tree[p] = NoDir)
    BY <1>4, Typed
  <2>3. Goal \in Dir /\ (Goal.there \/ Goal = NoDir)
    BY <1>1, <1>4, GoalFacts, NoTreeFacts DEF Kind, Emptied
  <2>4. left \in Dir /\ (left.there \/ left = NoDir)
    BY <2>1, <2>2, <2>3, PartlyFilledFacts
  <2> QED
    BY <1>1, <1>4, <2>4, NoTreeFacts DEF Kind, Emptied
<1>5. CASE ~(job.pc \in {"wipe", "fill"} /\ p \in Dirs)
  <2> DEFINE empty == [NoTree[p] EXCEPT !.there = TRUE]
  <2>3. job.pc = "rewrite" => p \notin Dirs
    BY PathFacts DEF RelocateInv, Staged, Path, Dirs
  <2>1. left = tree[p] \/ (p \notin Dirs /\ left = empty)
    BY <1>1, <1>5, <2>3 DEF Remains, Doing
  <2>2. p \notin Dirs => empty \in Kind(p) /\ empty.there
    <3>1. CASE p = "agents"
      <4>1. NoTree[p] = NoAgents
        BY <3>1 DEF NoTree
      <4>2. NoAgents \in Agents
        BY DEF NoAgents, Agents
      <4>3. [NoAgents EXCEPT !.there = TRUE] \in Agents
            /\ [NoAgents EXCEPT !.there = TRUE].there
        BY <4>2 DEF Agents
      <4> QED
        BY <3>1, <4>1, <4>3 DEF Kind, Dirs
    <3>2. CASE p = "ignore"
      <4>1. NoTree[p] = NoIgnore
        BY <3>2 DEF NoTree
      <4>2. NoIgnore \in Ignore
        BY DEF NoIgnore, Ignore
      <4>3. [NoIgnore EXCEPT !.there = TRUE] \in Ignore
            /\ [NoIgnore EXCEPT !.there = TRUE].there
        BY <4>2 DEF Ignore
      <4> QED
        BY <3>2, <4>1, <4>3 DEF Kind, Dirs
    <3> QED
      BY <1>1, <3>1, <3>2 DEF Names, Dirs
  <2> QED
    BY <1>1, <1>2, <2>1, <2>2 DEF Emptied
<1> QED
  BY <1>1, <1>3, <1>4, <1>5

LEMMA StopStep ==
  ASSUME RelocateInv, Stop
  PROVE  RelocateInv'
<1>1. /\ job.pc # "idle" /\ (job.cmd = "relocate" => job.source.there)
      /\ UNCHANGED <<swarm, snaps, now, runs, edits, wiped>>
  BY DEF Stop, Doing, RelocateInv, Staged
<1>2. Likewise(job', job) /\ job'.pc = "idle" /\ job'.result = "failed"
  <2>1. job \in Job /\ job' = Ends(job, "failed")
    BY Typed DEF Stop
  <2> QED
    BY <2>1, Ending
<1>3. /\ job' \in Job /\ job'.cmd = job.cmd /\ job'.source = job.source
  BY <1>2 DEF Likewise
<1>4. tree' \in Tree /\ ProperTree(tree')
  <2>1. tree \in Tree /\ ProperTree(tree)
    BY Typed DEF RelocateInv, WellFormed
  <2>2. CASE tree' = tree
    BY <2>1, <2>2
  <2>3. CASE tree' # tree
    <3>1. job.pc \in {"wipe", "fill", "rewrite"}
      BY <2>3 DEF Stop
    <3>2. PICK left \in Remains : tree' = PutAt(tree, Path, left)
      BY <2>3 DEF Stop, PutAt
    <3>3. Path \in Names /\ left \in Kind(Path) /\ Emptied(Path, left)
      BY <3>1, RemainsFacts
    <3> QED
      BY <2>1, <3>2, <3>3, Updated
  <2> QED
    BY <2>2, <2>3
<1>5. RelocateTypeOK'
  BY <1>1, <1>3, <1>4, Typed DEF RelocateTypeOK
<1>6. WellFormed' /\ Undisturbed' /\ WipedIsKept'
  BY <1>1, <1>4 DEF RelocateInv, WellFormed, ProperTree, Emptied, Undisturbed, WipedIsKept
<1>7. Staged' /\ Capturing' /\ Restoring' /\ Depositing' /\ Gated'
  BY <1>1, <1>2, <1>3 DEF Staged, Capturing, Restoring, Depositing, Gated
<1> QED
  BY <1>5, <1>6, <1>7 DEF RelocateInv

-----------------------------------------------------------------------------
(* The user.                                                               *)
LEMMA EditedKeepsInv ==
  ASSUME RelocateInv, tree' \in Tree, ProperTree(tree'), swarm' \in BOOLEAN,
         NEW files \in SUBSET (Dirs \X Files), NEW launched \in BOOLEAN,
         Edited(files, launched), swarm' => swarm \/ launched,
         \A d \in Dirs, f \in Files :
           tree'[d].file[f] = tree[d].file[f] \/ <<d, f>> \in files
  PROVE  RelocateInv'
<1>1. UNCHANGED <<now, runs, wiped>> /\ edits' \in 0..MaxEdits
  BY Typed, RelocateAssumption DEF Edited
<1>2. /\ job' \in Job /\ job'.touched = TRUE /\ job'.pc = job.pc /\ job'.at = job.at
      /\ job'.stamp = job.stamp /\ job'.cmd = job.cmd /\ job'.result = job.result
      /\ job'.acted = job.acted /\ job'.source = job.source /\ job'.force = job.force
      /\ job'.edited = job.edited \cup files /\ (launched => job'.launched)
      /\ (job.launched => job'.launched)
  BY Typed DEF Edited, Job
<1>3. /\ snaps' \in [Stamps -> Snapshot]
      /\ \A s \in Stamps : /\ snaps'[s].ends = snaps[s].ends /\ snaps'[s].kept = snaps[s].kept
                           /\ snaps'[s].was = snaps[s].was
                           /\ snaps[s].stirred => snaps'[s].stirred
      /\ job.pc = "capture" => snaps'[job.stamp].stirred
  <2>1. CASE job.pc = "capture"
    <3> DEFINE i == job.stamp
               new == [snaps[i] EXCEPT !.stirred = TRUE]
    <3>1. i \in Stamps /\ snaps[i] \in Snapshot
      BY Typed
    <3>2. snaps' = [snaps EXCEPT ![i] = new]
      BY <2>1 DEF Edited, Doing
    <3>3. /\ new \in Snapshot /\ new.ends = snaps[i].ends /\ new.kept = snaps[i].kept
          /\ new.was = snaps[i].was /\ new.stirred = TRUE
      BY <3>1 DEF Snapshot
    <3> HIDE DEF new
    <3>4. snaps' \in [Stamps -> Snapshot] /\ snaps'[i] = new
          /\ \A s \in Stamps : s # i => snaps'[s] = snaps[s]
      BY <3>1, <3>2, <3>3, Typed
    <3> QED
      BY <3>1, <3>3, <3>4
  <2>2. CASE job.pc # "capture"
    <3>1. snaps' = snaps
      BY <2>2 DEF Edited, Doing
    <3> QED
      BY <2>2, <3>1, Typed
  <2> QED
    BY <2>1, <2>2
<1>4. RelocateTypeOK'
  BY <1>1, <1>2, <1>3, Typed DEF RelocateTypeOK
<1>5. WellFormed'
  <2>1. \A s \in Stamps : ProperTree(snaps'[s].kept) /\ ProperTree(snaps'[s].was)
    BY <1>3 DEF RelocateInv, WellFormed
  <2> QED
    BY <2>1 DEF WellFormed, ProperTree, Emptied
<1>6. Undisturbed' /\ WipedIsKept'
  BY <1>1, <1>3, Typed DEF RelocateInv, Undisturbed, WipedIsKept
<1>7. Staged' /\ Restoring' /\ Depositing'
  BY <1>2 DEF RelocateInv, Staged, Restoring, Depositing
<1>9. Gated'
  <2> SUFFICES ASSUME job.cmd = "relocate", ~job.force,
                      job.pc \in {"prompt", "snapshot", "capture", "wipe"}
               PROVE  (swarm' => job'.launched) /\ Stocked(tree', job')
    BY <1>2 DEF Gated
  <2>1. (swarm => job.launched) /\ Stocked(tree, job)
    BY DEF RelocateInv, Gated
  <2>2. Stocked(tree', job')
    BY <1>2, <2>1 DEF Stocked
  <2> QED
    BY <1>2, <2>1, <2>2
<1>8. Capturing'
  BY <1>1, <1>2, <1>3, Typed DEF RelocateInv, Capturing
<1> QED
  BY <1>4, <1>5, <1>6, <1>7, <1>8, <1>9 DEF RelocateInv

LEMMA EditFileStep ==
  ASSUME RelocateInv, EditFile
  PROVE  RelocateInv'
<1>1. PICK d \in Dirs, f \in Files :
        /\ tree[d].file[f] = "stock" /\ tree' = [tree EXCEPT ![d].file[f] = "own"]
        /\ Edited({<<d, f>>}, FALSE)
  BY DEF EditFile
<1> DEFINE v == [tree[d] EXCEPT !.file[f] = "own"]
<1>2. tree[d] \in Dir /\ tree[d].there
  BY <1>1, Typed DEF NoDir
<1>3. /\ v \in Dir /\ v.there
      /\ \A g \in Files : g # f => v.file[g] = tree[d].file[g]
  BY <1>2 DEF Dir, Contents
<1>4. v \in Kind(d) /\ Emptied(d, v) /\ d \in Names
  BY <1>3, PathFacts DEF Kind, Emptied
<1>5. tree \in Tree /\ ProperTree(tree)
  BY Typed DEF RelocateInv, WellFormed
<1>6. tree' = PutAt(tree, d, v)
  BY <1>1, <1>4, <1>5 DEF PutAt, Tree, Names
<1> HIDE DEF v
<1>7. tree' \in Tree /\ ProperTree(tree')
  BY <1>4, <1>5, <1>6, Updated
<1>8. swarm' = swarm /\ swarm' \in BOOLEAN
  BY Typed DEF EditFile
<1>9. \A e \in Dirs, g \in Files :
        tree'[e].file[g] = tree[e].file[g] \/ <<e, g>> \in {<<d, f>>}
  BY <1>3, <1>4, <1>5, <1>6, Updated, PathFacts
<1>10. {<<d, f>>} \in SUBSET (Dirs \X Files)
  OBVIOUS
<1> PICK files : files = {<<d, f>>}
  OBVIOUS
<1> QED
  BY <1>1, <1>7, <1>8, <1>9, <1>10, EditedKeepsInv

LEMMA EditTextStep ==
  ASSUME RelocateInv, EditText
  PROVE  RelocateInv'
<1>1. PICK p \in {"agents", "ignore"} :
        tree' = [tree EXCEPT ![p].there = TRUE, ![p].text = edits + 2]
  BY DEF EditText
<1> DEFINE v == [tree[p] EXCEPT !.there = TRUE, !.text = edits + 2]
<1>2. p \in Names /\ tree[p] \in Kind(p) /\ edits + 2 \in Nat
  BY Typed, Branch DEF Names
<1>3. v \in Kind(p) /\ v.there
  BY <1>2 DEF Kind, Dirs, Agents, Ignore
<1>4. Emptied(p, v)
  BY <1>3 DEF Emptied
<1>5. tree \in Tree /\ ProperTree(tree)
  BY Typed DEF RelocateInv, WellFormed
<1>6. tree' = PutAt(tree, p, v)
  BY <1>1, <1>2, <1>5 DEF PutAt, Tree, Names
<1> HIDE DEF v
<1>7. tree' \in Tree /\ ProperTree(tree')
  BY <1>2, <1>3, <1>4, <1>5, <1>6, Updated
<1>8. Edited({}, FALSE) /\ swarm' = swarm /\ swarm' \in BOOLEAN
  BY Typed DEF EditText
<1>9. \A d \in Dirs : tree'[d] = tree[d]
  BY <1>2, <1>3, <1>5, <1>6, Updated, PathFacts DEF Dirs
<1> QED
  BY <1>7, <1>8, <1>9, EditedKeepsInv

LEMMA LaunchStep ==
  ASSUME RelocateInv, Launch
  PROVE  RelocateInv'
<1>1. Edited({}, TRUE) /\ swarm' \in BOOLEAN /\ tree' = tree
  BY DEF Launch
<1>2. tree' \in Tree /\ ProperTree(tree')
  BY <1>1, Typed DEF RelocateInv, WellFormed
<1> QED
  BY <1>1, <1>2, EditedKeepsInv

-----------------------------------------------------------------------------
LEMMA InitEstablishesInv == RelocateInit => RelocateInv
<1> SUFFICES ASSUME RelocateInit PROVE RelocateInv
  OBVIOUS
<1>1. BegunDirs \subseteq Dir /\ \A d \in BegunDirs : d.there \/ d = NoDir
  <2>1. ASSUME NEW g \in [Files -> BegunFiles]
        PROVE  [there |-> TRUE, file |-> g] \in Dir
    <3>1. \A f \in Files : g[f] \in Contents
      BY RelocateAssumption DEF Contents
    <3>2. g \in [Files -> Contents]
      BY <3>1
    <3> QED
      BY <3>2 DEF Dir
  <2> QED
    BY <2>1, NoTreeFacts DEF BegunDirs
<1>2. BegunAgents \subseteq Agents /\ \A a \in BegunAgents : a.there \/ a = NoAgents
  <2>1. NoAgents \in Agents
    BY DEF NoAgents, Agents
  <2>2. <<>> \in Seq(Markers) /\ \A m \in Marks : <<m>> \in Seq(Markers)
    BY RelocateAssumption DEF Markers
  <2>3. \A b \in Seq(Markers) : [there |-> TRUE, text |-> 1, blocks |-> b] \in Agents
    BY DEF Agents
  <2>4. \A b \in {<<>>} \cup {<<m>> : m \in Marks} : b \in Seq(Markers)
    BY <2>2
  <2> QED
    BY <2>1, <2>3, <2>4 DEF BegunAgents
<1>3. tree.ignore \in Ignore /\ (tree.ignore.there \/ tree.ignore = NoIgnore)
  <2>1. tree.ignore \in {NoIgnore, [there |-> TRUE, text |-> 1, lines |-> FALSE, blanket |-> TRUE]}
    BY DEF RelocateInit
  <2>2. NoIgnore \in Ignore
    BY DEF Ignore, NoIgnore
  <2>3. [there |-> TRUE, text |-> 1, lines |-> FALSE, blanket |-> TRUE] \in Ignore
    BY DEF Ignore
  <2>4. [there |-> TRUE, text |-> 1, lines |-> FALSE, blanket |-> TRUE].there
    OBVIOUS
  <2>5. CASE tree.ignore = NoIgnore
    BY <2>2, <2>5
  <2>6. CASE tree.ignore # NoIgnore
    BY <2>1, <2>3, <2>4, <2>6
  <2> QED
    BY <2>5, <2>6
<1>4. tree \in Tree /\ ProperTree(tree)
  BY <1>1, <1>2, <1>3 DEF RelocateInit, Tree, ProperTree, Emptied, Names, NoTree
<1>5. NoSnapshot \in Snapshot /\ NoSnapshot.ends = "none" /\ NoSnapshot.kept = NoTree
      /\ NoSnapshot.was = NoTree
  BY NoTreeFacts DEF NoSnapshot, Snapshot
<1>6. \A s \in Stamps : snaps[s] = NoSnapshot
  BY DEF RelocateInit
<1>7. RelocateTypeOK
  <2>1. snaps \in [Stamps -> Snapshot]
    BY <1>5 DEF RelocateInit
  <2>2. now \in Stamps /\ runs \in 0..MaxRuns /\ edits \in 0..MaxEdits /\ swarm \in BOOLEAN
    <3>1. now = 0 /\ runs = 0 /\ edits = 0 /\ swarm = FALSE
      BY DEF RelocateInit
    <3>2. 0 \in Stamps /\ 0 \in 0..MaxRuns /\ 0 \in 0..MaxEdits
      BY RelocateAssumption DEF Stamps
    <3>3. swarm \in BOOLEAN
      BY <3>1
    <3> QED
      BY <3>1, <3>2, <3>3, Zenon
  <2>3. job \in Job /\ wiped \subseteq [stamp: Stamps, was: Tree]
    BY JobBegins DEF RelocateInit
  <2> QED
    BY <1>4, <2>1, <2>2, <2>3 DEF RelocateTypeOK
<1>8. WellFormed /\ Undisturbed /\ WipedIsKept
  BY <1>4, <1>5, <1>6, NoTreeFacts DEF RelocateInit, WellFormed, Undisturbed, WipedIsKept
<1>9. Staged /\ Capturing /\ Restoring /\ Depositing /\ Gated
  BY JobBegins DEF RelocateInit, Staged, Capturing, Restoring, Depositing, Gated
<1> QED
  BY <1>7, <1>8, <1>9 DEF RelocateInv

LEMMA StepKeepsInv == RelocateInv /\ [RelocateNext]_relocateVars => RelocateInv'
<1> SUFFICES ASSUME RelocateInv, [RelocateNext]_relocateVars PROVE RelocateInv'
  OBVIOUS
<1>1. CASE Relocating
  <2>1. \/ Plan \/ Confirm \/ OpenSnapshot \/ Capture \/ CloseSnapshot \/ CaptureFails
        \/ Wipe \/ Fill \/ ReadPage \/ RewritePage \/ Stop \/ StartRestore
    BY <1>1 DEF Relocating
  <2> QED
    BY <2>1, PlanStep, ConfirmStep, OpenStep, CaptureStep, CloseStep, CaptureFailsStep,
       WipeStep, FillStep, ReadStep, RewriteStep, StopStep, StartRestoreStep
<1>2. CASE EditFile \/ EditText \/ Launch \/ Tick
  BY <1>2, EditFileStep, EditTextStep, LaunchStep, TickStep
<1>3. CASE UNCHANGED relocateVars
  BY <1>3 DEF relocateVars, RelocateInv, RelocateTypeOK, WellFormed, Staged, Capturing,
              Undisturbed, Restoring, Depositing, Gated, WipedIsKept, Stamps, ProperTree,
              Emptied, Marked, Stocked
<1> QED
  BY <1>1, <1>2, <1>3 DEF RelocateNext

(* The invariant holds in every behaviour of the relocator.                *)
THEOREM RelocateInductive == RelocateSpec => []RelocateInv
BY InitEstablishesInv, StepKeepsInv, PTL DEF RelocateSpec

(* The variables keep their types.                                         *)
THEOREM RelocateTypes == RelocateSpec => []RelocateTypeOK
<1>1. RelocateInv => RelocateTypeOK
  BY DEF RelocateInv
<1> QED
  BY <1>1, RelocateInductive, PTL

(* What a relocate found when it began to wipe (create_snapshot) stays in  *)
(* a tarball that can be read, whatever is killed or repeated.             *)
THEOREM WhatWasWipedIsKept == RelocateSpec => []WipedIsKept
<1>1. RelocateInv => WipedIsKept
  BY DEF RelocateInv
<1> QED
  BY <1>1, RelocateInductive, PTL

(* A rollback that succeeds (extract_snapshot) restores the tree that a    *)
(* finished snapshot was taken of.                                         *)
THEOREM RollbackIsFaithful == RelocateSpec => []RollbackRestores
<1>1. RelocateInv => RollbackRestores
  BY Typed DEF RelocateInv, Restoring, Undisturbed, RollbackRestores
<1> QED
  BY <1>1, RelocateInductive, PTL

(* A relocate that has acted and succeeds leaves a layout that             *)
(* detect_install_state finds canonical.                                   *)
THEOREM RelocateConverges == RelocateSpec => []SuccessIsCanonical
<1>1. RelocateInv => SuccessIsCanonical
  <2> SUFFICES ASSUME RelocateInv, job.cmd = "relocate", job.result = "ok", job.acted,
                      ~job.touched, ~swarm
               PROVE  Canonical(job.source)
    BY DEF SuccessIsCanonical
  <2>1. tree.legacy = NoDir /\ tree.core = Filtered(job.source) /\ Marked(tree.agents)
    BY DEF RelocateInv, Depositing
  <2>2. Filtered(job.source).there
    BY Typed, OnlyFacts DEF RelocateInv, Staged, Filtered
  <2>3. ~Customized(NoDir, job.source) /\ ~NoDir.there
    BY DEF Customized, NoDir
  <2>4. ~Customized(Filtered(job.source), job.source)
    BY Typed, OnlyFacts DEF Customized, Filtered
  <2> QED
    BY <2>1, <2>2, <2>3, <2>4 DEF Canonical
<1> QED
  BY <1>1, RelocateInductive, PTL

(* Without --force (the gate of relocate.main, asked before the prompt) a  *)
(* relocate wipes nothing that the source does not hold the same, and not  *)
(* under a swarm, but for what the user has done since the plan; and one   *)
(* that succeeds has put back every file that _deposit_filter lets pass.   *)
THEOREM OnlyStockIsWiped == RelocateSpec => WipesOnlyStock
<1> DEFINE Wiped ==
             job.cmd = "relocate" /\ Doing("wipe") /\ ~job.force /\ tree' # tree =>
               /\ swarm => job.launched
               /\ \A d \in Dirs, f \in Files :
                    \/ tree[d].file[f] \in {"none", job.source.file[f]}
                    \/ <<d, f>> \in job.edited
           PutBack ==
             job.cmd = "relocate" /\ Doing("rewrite") /\ job'.result = "ok" /\ ~job.touched =>
               \A f \in Deposits : tree'.core.file[f] = job.source.file[f]
<1>1. RelocateInv => Wiped
  BY DEF RelocateInv, Gated, Doing, Stocked
<1>2. RelocateInv /\ RelocateInv' /\ [RelocateNext]_relocateVars => PutBack \/ UNCHANGED relocateVars
  <2> SUFFICES ASSUME RelocateInv, RelocateInv', RelocateNext, job.cmd = "relocate",
                      job.pc = "rewrite", job'.result = "ok", ~job.touched, NEW f \in Deposits
               PROVE  tree'.core.file[f] = job.source.file[f]
    BY DEF Doing
  <2>1. job'.cmd = "relocate" /\ job'.acted /\ ~job'.touched /\ job'.source = job.source
    <3>1. RewritePage
      <4>1. job.result = "none"
        BY DEF RelocateInv, Staged
      <4>2. CASE Relocating
        <5>1. Stop => job'.result = "failed"
          BY Typed, Ending DEF Stop
        <5> QED
          BY <4>2, <5>1 DEF Relocating, Plan, Confirm, OpenSnapshot, Capture, CloseSnapshot,
                        CaptureFails, Wipe, Fill, ReadPage, StartRestore, Doing
      <4>3. CASE EditFile \/ EditText \/ Launch
        <5>1. PICK files, launched : Edited(files, launched)
          BY <4>3 DEF EditFile, EditText, Launch
        <5>2. job'.result = job.result
          BY <5>1, Typed DEF Edited, Job
        <5> QED
          BY <4>1, <5>2
      <4>4. CASE Tick
        BY <4>1, <4>4 DEF Tick
      <4> QED
        BY <4>2, <4>3, <4>4 DEF RelocateNext
    <3>2. job.acted
      BY DEF RelocateInv, Staged
    <3>3. \/ job' = [job EXCEPT !.pc = "read", !.at = 4] \/ job' = Ends(job, "ok")
      BY <3>1 DEF RewritePage
    <3>4. CASE job' = Ends(job, "ok")
      BY <3>2, <3>4, Typed, Ending DEF Likewise
    <3>5. CASE job' = [job EXCEPT !.pc = "read", !.at = 4]
      BY <3>2, <3>5, Typed DEF Job
    <3> QED
      BY <3>3, <3>4, <3>5
  <2>2. tree'.core = Filtered(job.source)
    BY <2>1 DEF RelocateInv, Depositing
  <2> QED
    BY <2>2, Typed, OnlyFacts, RelocateAssumption DEF Filtered
<1>3. RelocateInv /\ RelocateInv' /\ [RelocateNext]_relocateVars => [Wiped /\ PutBack]_relocateVars
  BY <1>1, <1>2
<1> QED
  BY <1>3, RelocateInductive, PTL DEF WipesOnlyStock, RelocateSpec
=============================================================================
