----------------------------- MODULE DeftScopes -----------------------------
(***************************************************************************)
(* The scope backlog of Deft: files that are moved between the lifecycle   *)
(* folders of vbrief/ by scripts/scope_lifecycle.py, scope_demote.py,      *)
(* scope_undo.py and swarm_complete_cohort.py.                             *)
(*                                                                         *)
(* One epic and its stories: the epic's references name the folder each    *)
(* story is in, and the planRef of a story the folder of the epic.  A      *)
(* command reads its file, writes the new status over the old file, moves  *)
(* the file, and then repairs the links of the epic or of the stories and  *)
(* the row of PROJECT-DEFINITION, each by reading and writing a file.      *)
(* Several agents do so at once, each in a process of its own, and only    *)
(* PROJECT-DEFINITION and the audit log are locked: the lock (DeftTriage   *)
(* models one of its kind) is taken to work here.  Path.write_text empties *)
(* a scope's file in one step and fills it in another.  A process may be   *)
(* killed between two steps, or be stopped there by an OSError that        *)
(* nothing catches; those of the repairs are caught, and passed over in    *)
(* silence.                                                                *)
(***************************************************************************)
EXTENDS Naturals, Sequences, FiniteSets

CONSTANTS
  Workers,    \* the processes
  Epic,       \* an epic
  Stories,    \* the stories it was decomposed into
  WipCap,     \* plan.policy.wipCap
  Verbs,      \* BOUND: the lifecycle verbs that are used
  Begun,      \* BOUND: the folders the scopes begin in
  MaxMoves    \* BOUND: the commands that are started

ASSUME ScopesAssumption ==
  /\ IsFiniteSet(Stories) /\ Epic \notin Stories
  /\ WipCap \in Nat /\ MaxMoves \in Nat
  /\ Verbs \subseteq {"promote", "activate", "complete", "fail", "cancel", "restore",
                    "block", "unblock", "demote"}
  /\ Begun \subseteq {"proposed", "pending", "active", "completed", "cancelled"}

VARIABLES
  disk,       \* the copies of each scope, by the folder they are in
  registry,   \* PROJECT-DEFINITION: the folder of each scope
  audit,      \* scope-lifecycle.jsonl
  worker,     \* what each process is doing
  moves,      \* the commands started so far; it numbers their entries
  opened,     \* the file each process has emptied and not yet filled, where
              \* renames have taken it; none if a rename has replaced it
  contested,  \* history: the scopes that two commands worked on at once
  unlinked,   \* history: the scopes moved by a demote or an undo, by a command
              \* that was killed, or by one that failed to read or open the
              \* file of a relative or to update the row
  cut         \* history: the scopes in whose writing a command was killed or
              \* failed

histVars == <<contested, unlinked, cut>>

scopeVars == <<disk, registry, audit, worker, moves, opened, histVars>>

-----------------------------------------------------------------------------
Scopes == Stories \cup {Epic}

Folders == {"proposed", "pending", "active", "completed", "cancelled"}

Finished == {"completed", "cancelled"}

Statuses == {"proposed", "pending", "running", "blocked", "completed", "failed",
             "cancelled"}

Kin(s) == IF s = Epic THEN Stories ELSE {Epic}

Links == [Stories -> Folders] \cup [{Epic} -> Folders]

(* What is left of two texts written one over the other is mixed.          *)
Content == [status: Statuses, links: Links, text: {"whole", "empty", "mixed"}]

(* Folder and status each verb asks for and leaves.                        *)
Transitions ==
  [promote  |-> [from |-> {"proposed"},  to |-> "pending",   status |-> "pending"],
   activate |-> [from |-> {"pending"},   to |-> "active",    status |-> "running"],
   complete |-> [from |-> {"active"},    to |-> "completed", status |-> "completed"],
   fail     |-> [from |-> {"active"},    to |-> "completed", status |-> "failed"],
   cancel   |-> [from |-> Folders,       to |-> "cancelled", status |-> "cancelled"],
   restore  |-> [from |-> {"cancelled"}, to |-> "proposed",  status |-> "proposed"],
   block    |-> [from |-> {"active"},    to |-> "active",    status |-> "blocked"],
   unblock  |-> [from |-> {"active"},    to |-> "active",    status |-> "running"],
   demote   |-> [from |-> {"pending"},   to |-> "proposed",  status |-> "proposed"]]

Unlinking == {"demote", "undo"}

NoPage ==
  [status |-> "proposed", links |-> [s \in {Epic} |-> "proposed"], text |-> "whole"]

(* What a process holds: its command, the copy it read of its own file     *)
(* (page) and of the file of a relative (leaf), the relatives still to be  *)
(* looked at; and of a sweep the stories and the epics it has yet to do.   *)
Free == [pc |-> "free", verb |-> "promote", scope |-> Epic, from |-> "proposed",
         to |-> "pending", force |-> FALSE, id |-> 0,
         undoes |-> {}, page |-> NoPage, leaf |-> NoPage, kin |-> {}, of |-> Epic,
         sweeping |-> FALSE, cohort |-> {}, epics |-> {}]

Worker == [pc: {"free", "read", "write", "fill", "move", "kin", "rewrite", "refill",
                "audit", "sweep"},
           verb: DOMAIN Transitions \cup {"undo"}, scope: Scopes, from: Folders,
           to: Folders, force: BOOLEAN, id: Nat, undoes: SUBSET Nat,
           page: Content, leaf: Content, kin: SUBSET Scopes, of: Scopes,
           sweeping: BOOLEAN, cohort: SUBSET (Stories \X Folders),
           epics: SUBSET Folders]

Line == [id: Nat, verb: {"promote", "demote", "undo"}, scope: Scopes, in: Folders,
         undoes: SUBSET Nat]

On(p, stage) == worker[p].pc = stage

Has(s, f) == f \in DOMAIN disk[s]

(* It is there, and is JSON.                                               *)
Readable(s, f) == Has(s, f) /\ disk[s][f].text = "whole"

(* The files after c is written for s in folder f.                         *)
Put(s, f, c) ==
  [disk EXCEPT ![s] = [g \in DOMAIN disk[s] \cup {f} |->
                         IF g = f THEN c ELSE disk[s][g]]]

(* write_text, in two steps: what another process has written meanwhile    *)
(* may be longer, and its end then stays.                                  *)
EmptyText(p, s, f, c) ==
  /\ disk' = Put(s, f, [c EXCEPT !.text = "empty"])
  /\ opened' = [opened EXCEPT ![p] = {<<s, f>>}]

FillText(p, c) ==
  /\ \/ opened[p] = {} /\ UNCHANGED disk
     \/ \E x \in opened[p], text \in {"whole", "mixed"} :
          /\ text = "mixed" => disk[x[1]][x[2]].text # "empty"
          /\ disk' = Put(x[1], x[2], [c EXCEPT !.text = text])
  /\ opened' = [opened EXCEPT ![p] = {}]

(* It ends before the second step.                                         *)
LeaveCut(p) ==
  /\ cut' = cut \cup {x[1] : x \in opened[p]}
  /\ opened' = [opened EXCEPT ![p] = {}]

(* policy.count_vbrief_wip                                                 *)
Wip == Cardinality({w \in Scopes \X {"pending", "active"} : Has(w[1], w[2])})

Become(p, w) == worker' = [worker EXCEPT ![p] = w]

(* The command has ended; a sweep goes on.                                 *)
Ended(p) == [Free EXCEPT !.pc = IF worker[p].sweeping THEN "sweep" ELSE "free",
                         !.sweeping = worker[p].sweeping,
                         !.cohort = worker[p].cohort, !.epics = worker[p].epics]

(* The scopes whose files a command may read and write again.              *)
Reach(w) ==
  IF w.pc = "free" THEN {}
  ELSE IF w.sweeping THEN Scopes
  ELSE IF w.verb \in Unlinking \cup {"block", "unblock"} THEN {w.scope}
  ELSE {w.scope} \cup Kin(w.scope)

Begin(p, w) ==
  /\ On(p, "free") /\ moves < MaxMoves
  /\ moves' = moves + 1
  /\ worker' = [worker EXCEPT ![p] = [w EXCEPT !.id = moves']]
  /\ contested' = contested \cup
       (Reach(w) \cap UNION {Reach(worker[q]) : q \in Workers \ {p}})
  /\ UNCHANGED <<disk, registry, audit, opened, unlinked, cut>>

(* The definitions named Fault_ are seeded faults, kept to show that the   *)
(* properties notice them.                                                 *)

-----------------------------------------------------------------------------
(* check_wip_cap                                                           *)
WithinCap(force) == Wip < WipCap \/ force

Command(verb, s, f) ==
  [Free EXCEPT !.pc = "read", !.verb = verb, !.scope = s, !.from = f,
               !.to = Transitions[verb].to]

(* A lifecycle command or a demote, of a file that is there; its folder    *)
(* is the one named.  Only promote asks for the cap.                       *)
StartMove(p, verb, s, force) ==
  \E f \in DOMAIN disk[s] \cap Transitions[verb].from :
    /\ verb = "promote" => WithinCap(force)
    /\ force => verb = "promote" /\ ~WithinCap(FALSE)
    /\ Begin(p, [Command(verb, s, f) EXCEPT !.force = force])

Fault_UndoneAgain(k) == audit[k].verb \in Unlinking

(* The entry is of a kind that can be undone, and no entry undoes it.      *)
CanUndo(k) ==
  /\ audit[k].verb \in Unlinking
  /\ \A j \in DOMAIN audit : audit[k].id \notin audit[j].undoes

(* _inverse_plan: the folder an undo moves to; an undo of the undo of an   *)
(* undo has none.                                                          *)
Opposite(k) ==
  IF audit[k].verb = "demote" THEN {"pending"}
  ELSE {"proposed" : j \in {i \in DOMAIN audit : /\ audit[i].id \in audit[k].undoes
                                                /\ audit[i].verb = "demote"}}

StartUndo(p) ==
  \E k \in DOMAIN audit :
    /\ CanUndo(k)
    /\ \E f \in Opposite(k) :
         Begin(p, [Free EXCEPT !.pc = "read", !.verb = "undo", !.undoes = {audit[k].id},
                     !.scope = audit[k].scope, !.from = audit[k].in, !.to = f])

-----------------------------------------------------------------------------
(* block and unblock look at the status, and repeat nothing; a scope is    *)
(* not moved into the folder it is in.                                     *)
Acts(w, status) ==
  CASE w.verb = "block" -> status = "running"
    [] w.verb = "unblock" -> status = "blocked"
    [] OTHER -> w.to # w.from

ReadScope(p) ==
  LET w == worker[p]
  IN /\ On(p, "read")
     /\ \/ /\ Readable(w.scope, w.from) /\ Acts(w, disk[w.scope][w.from].status)
           /\ worker' = [worker EXCEPT ![p] =
                [w EXCEPT !.pc = "write", !.page = disk[w.scope][w.from]]]
        \/ /\ ~(Readable(w.scope, w.from) /\ Acts(w, disk[w.scope][w.from].status))
           /\ worker' = [worker EXCEPT ![p] = Ended(p)]
     /\ UNCHANGED <<disk, registry, audit, moves, opened, histVars>>

StatusAfter(w) == IF w.verb = "undo" THEN w.to ELSE Transitions[w.verb].status

(* Over the old path, where another process may have moved the file away:  *)
(* then there are two.                                                     *)
EmptyScope(p) ==
  LET w == worker[p]
  IN /\ On(p, "write")
     /\ EmptyText(p, w.scope, w.from, w.page)
     /\ Become(p, [w EXCEPT !.pc = "fill"])
     /\ UNCHANGED <<registry, audit, moves, histVars>>

WriteScope(p) ==
  LET w == worker[p]
  IN /\ On(p, "fill")
     /\ FillText(p, [w.page EXCEPT !.status = StatusAfter(w)])
     /\ Become(p, IF w.to = w.from THEN Ended(p) ELSE [w EXCEPT !.pc = "move"])
     /\ UNCHANGED <<registry, audit, moves, histVars>>

Fault_MoveByCopy(s, f, g) == Put(s, g, disk[s][f])

(* Path.replace: onto a file that may be there.                            *)
Moved(s, f, g) ==
  [disk EXCEPT ![s] = [h \in (DOMAIN disk[s] \ {f}) \cup {g} |->
                         IF h = g THEN disk[s][f] ELSE disk[s][h]]]

(* A file that a process has open keeps open under its new name.           *)
Followed(files, s, f, g) ==
  {IF x = <<s, f>> THEN <<s, g>> ELSE x : x \in files \ {<<s, g>>}}

(* A file that is gone raises, out of a sweep too.                         *)
MoveScope(p) ==
  LET w == worker[p]
  IN /\ On(p, "move")
     /\ \/ /\ Has(w.scope, w.from)
           /\ disk' = Moved(w.scope, w.from, w.to)
           /\ opened' = [q \in Workers |-> Followed(opened[q], w.scope, w.from, w.to)]
           /\ \/ /\ w.verb \in Unlinking
                 /\ Become(p, [w EXCEPT !.pc = "audit"])
                 /\ unlinked' = unlinked \cup {w.scope}
              \/ /\ w.verb \notin Unlinking
                 /\ Become(p, [w EXCEPT !.pc = "kin", !.kin = DOMAIN w.page.links])
                 /\ UNCHANGED unlinked
        \/ /\ ~Has(w.scope, w.from)
           /\ worker' = [worker EXCEPT ![p] = Free]
           /\ UNCHANGED <<disk, opened, unlinked>>
     /\ UNCHANGED <<registry, audit, moves, contested, cut>>

-----------------------------------------------------------------------------
(* update_decomposed_parent_back_references and ..._child_back_references: *)
(* the relative is read where the moved file says it is, and written there *)
(* when its link names the folder the file came from.  One that is not     *)
(* JSON is passed over.                                                    *)
ReadKin(p) ==
  LET w == worker[p]
  IN /\ On(p, "kin")
     /\ \E k \in w.kin :
          LET f == w.page.links[k]
          IN \/ /\ Readable(k, f) /\ disk[k][f].links[w.scope] = w.from
                /\ worker' = [worker EXCEPT ![p] =
                     [w EXCEPT !.pc = "rewrite", !.of = k, !.leaf = disk[k][f]]]
             \/ /\ ~(Readable(k, f) /\ disk[k][f].links[w.scope] = w.from)
                /\ worker' = [worker EXCEPT ![p].kin = @ \ {k}]
     /\ UNCHANGED <<disk, registry, audit, moves, opened, histVars>>

KinDone(w, k) == [w EXCEPT !.pc = "kin", !.kin = @ \ {k}, !.leaf = NoPage]

(* An OSError of the reading, or of the opening, is passed over too.       *)
SkipKin(p) ==
  LET w == worker[p]
  IN /\ \/ On(p, "kin") /\ \E k \in w.kin : Become(p, KinDone(w, k))
        \/ On(p, "rewrite") /\ Become(p, KinDone(w, w.of))
     /\ unlinked' = unlinked \cup {w.scope}
     /\ UNCHANGED <<disk, registry, audit, moves, opened, contested, cut>>

EmptyKin(p) ==
  LET w == worker[p]
  IN /\ On(p, "rewrite")
     /\ EmptyText(p, w.of, w.page.links[w.of], w.leaf)
     /\ Become(p, [w EXCEPT !.pc = "refill"])
     /\ UNCHANGED <<registry, audit, moves, histVars>>

Fault_LinkKept(leaf, s, f) == leaf

Relinked(leaf, s, f) == [leaf EXCEPT !.links[s] = f]

(* A failure of the writing leaves the file empty, and is passed over.     *)
RewriteKin(p) ==
  LET w == worker[p]
  IN /\ On(p, "refill")
     /\ \/ FillText(p, Relinked(w.leaf, w.scope, w.to)) /\ UNCHANGED cut
        \/ LeaveCut(p) /\ UNCHANGED disk
     /\ Become(p, KinDone(w, w.of))
     /\ UNCHANGED <<registry, audit, moves, contested, unlinked>>

(* lifecycle_folder of the row of the scope.                               *)
RowOf(w) == w.to

(* _sync_project_definition_after_scope_move, which ends the command: but  *)
(* a forced promote is noted, and a sweep goes on to complete an epic that *)
(* it has activated.  A file that is missing, locked or broken is passed   *)
(* over.                                                                   *)
Register(p) ==
  LET w == worker[p]
  IN /\ On(p, "kin") /\ w.kin = {}
     /\ \/ /\ registry' = [registry EXCEPT ![w.scope] = RowOf(w)]
           /\ UNCHANGED unlinked
        \/ /\ unlinked' = unlinked \cup {w.scope}
           /\ UNCHANGED registry
     /\ worker' = [worker EXCEPT ![p] =
          CASE w.force -> [w EXCEPT !.pc = "audit"]
            [] w.sweeping /\ w.verb = "activate" ->
                 [Ended(p) EXCEPT !.pc = "read", !.verb = "complete", !.scope = Epic,
                                  !.from = "active", !.to = "completed"]
            [] OTHER -> Ended(p)]
     /\ UNCHANGED <<disk, audit, moves, opened, contested, cut>>

(* scope_audit_log.append, after the move.                                 *)
RecordMove(p) ==
  LET w == worker[p]
  IN /\ On(p, "audit")
     /\ audit' = Append(audit, [id |-> w.id, verb |-> w.verb, scope |-> w.scope,
                                in |-> w.to, undoes |-> w.undoes])
     /\ worker' = [worker EXCEPT ![p] = Ended(p)]
     /\ UNCHANGED <<disk, registry, moves, opened, histVars>>

-----------------------------------------------------------------------------
(* sweep_cohort: the stories named, at the paths they had when it began,   *)
(* and then the epics these named, at the paths they named.                *)
StartSweep(p) ==
  \E named \in SUBSET Stories \ {{}} : \E f \in [named -> Folders] :
    /\ \A s \in named : Has(s, f[s])
    /\ Begin(p, [Free EXCEPT !.pc = "sweep", !.sweeping = TRUE,
                             !.cohort = {<<s, f[s]>> : s \in named}])

Sweeping(p) ==
  On(p, "sweep") /\ UNCHANGED <<disk, registry, audit, moves, opened, histVars>>

(* Of the stories only those in active/ are completed; one that is not     *)
(* JSON names no epic.                                                     *)
SweepStory(p) ==
  /\ Sweeping(p)
  /\ \E c \in worker[p].cohort :
       LET s == c[1]
           f == c[2]
           epics == {g \in Folders : /\ Readable(s, f) /\ Has(Epic, g)
                                     /\ disk[s][f].links[Epic] = g}
           rest == [worker[p] EXCEPT !.cohort = @ \ {c}, !.epics = @ \cup epics]
       IN worker' = [worker EXCEPT ![p] =
            IF f = "active"
            THEN [rest EXCEPT !.pc = "read", !.verb = "complete", !.scope = s,
                              !.from = "active", !.to = "completed"]
            ELSE rest]

Fault_AnyChildSettled(f) ==
  \E s \in Stories : disk[Epic][f].links[s] \in Finished /\ Has(s, disk[Epic][f].links[s])

(* _all_children_settled                                                   *)
ChildrenSettled(f) ==
  \A s \in Stories : disk[Epic][f].links[s] \in Finished /\ Has(s, disk[Epic][f].links[s])

Ready(f) == Readable(Epic, f) /\ ChildrenSettled(f)

(* _complete_parent: an epic in pending/ is activated first, one in        *)
(* proposed/ is passed over.                                               *)
SweepEpic(p) ==
  /\ Sweeping(p) /\ worker[p].cohort = {}
  /\ \E f \in {g \in worker[p].epics : Ready(g)} :
       LET rest == [worker[p] EXCEPT !.epics = @ \ {f}]
           verb == IF f = "pending" THEN "activate" ELSE "complete"
       IN worker' = [worker EXCEPT ![p] =
            IF f \in {"pending", "active"}
            THEN [rest EXCEPT !.pc = "read", !.verb = verb, !.scope = Epic,
                              !.from = f, !.to = Transitions[verb].to]
            ELSE rest]

EndSweep(p) ==
  /\ Sweeping(p) /\ worker[p].cohort = {}
  /\ \A f \in worker[p].epics : ~Ready(f)
  /\ worker' = [worker EXCEPT ![p] = Free]

-----------------------------------------------------------------------------
(* Killed, or stopped by an OSError; the links of a scope whose command    *)
(* ends so after the move stay as they are.                                *)
KillWorker(p) ==
  /\ ~On(p, "free")
  /\ worker' = [worker EXCEPT ![p] = Free]
  /\ unlinked' = IF worker[p].pc \in {"kin", "rewrite", "refill"}
                 THEN unlinked \cup {worker[p].scope} ELSE unlinked
  /\ LeaveCut(p)
  /\ UNCHANGED <<disk, registry, audit, moves, contested>>

-----------------------------------------------------------------------------
StatusIn(folder) == IF folder = "active" THEN "running" ELSE folder

(* A decomposed epic with its links in order; or, in addition, a story     *)
(* that has been demoted: once, or a second time after that was undone.    *)
ScopesInit ==
  /\ \E home \in [Scopes -> Begun], demoted \in SUBSET Stories :
       LET linked == [s \in Scopes |-> IF s \in demoted THEN "pending" ELSE home[s]]
           line(id, verb, s, f, undoes) ==
             [id |-> MaxMoves + id, verb |-> verb, scope |-> s, in |-> f, undoes |-> undoes]
       IN /\ Cardinality(demoted) <= 1 /\ \A s \in demoted : home[s] = "proposed"
          /\ disk = [s \in Scopes |-> [f \in {home[s]} |->
               [status |-> StatusIn(f), links |-> [k \in Kin(s) |-> linked[k]],
                text |-> "whole"]]]
          /\ registry = linked /\ unlinked = demoted
          /\ \/ demoted = {} /\ audit = <<>>
             \/ \E s \in demoted : audit = <<line(1, "demote", s, "proposed", {})>>
             \/ \E s \in demoted :
                  audit = <<line(1, "demote", s, "proposed", {}),
                            line(2, "undo", s, "pending", {MaxMoves + 1}),
                            line(3, "demote", s, "proposed", {})>>
  /\ worker = [p \in Workers |-> Free]
  /\ opened = [p \in Workers |-> {}]
  /\ moves = 0 /\ contested = {} /\ cut = {}

MovingOn(p) ==
  ReadScope(p) \/ EmptyScope(p) \/ WriteScope(p) \/ MoveScope(p) \/ RecordMove(p)

Relinking(p) == ReadKin(p) \/ SkipKin(p) \/ EmptyKin(p) \/ RewriteKin(p) \/ Register(p)

SweepingOn(p) == SweepStory(p) \/ SweepEpic(p) \/ EndSweep(p)

Starting(p) ==
  \/ \E verb \in Verbs, s \in Scopes, force \in BOOLEAN : StartMove(p, verb, s, force)
  \/ StartUndo(p) \/ StartSweep(p)

ScopesNext ==
  \E p \in Workers :
    Starting(p) \/ MovingOn(p) \/ Relinking(p) \/ SweepingOn(p) \/ KillWorker(p)

ScopesSpec == ScopesInit /\ [][ScopesNext]_scopeVars

-----------------------------------------------------------------------------
ScopesTypeOK ==
  /\ \A s \in Scopes : DOMAIN disk[s] \subseteq Folders
  /\ \A s \in Scopes : \A f \in DOMAIN disk[s] :
       disk[s][f] \in Content /\ disk[s][f].links \in [Kin(s) -> Folders]
  /\ DOMAIN disk = Scopes
  /\ registry \in [Scopes -> Folders] /\ audit \in Seq(Line)
  /\ worker \in [Workers -> Worker] /\ moves \in Nat
  /\ opened \in [Workers -> SUBSET (Scopes \X Folders)]
  /\ contested \subseteq Scopes /\ unlinked \subseteq Scopes /\ cut \subseteq Scopes

(* The file of a scope is never gone, whatever commands and kills          *)
(* interleave, and is in one folder only unless two commands worked on it  *)
(* at once: a command on one story does not split another, though both     *)
(* write the epic.  Its text is whole but while a command writes it, and   *)
(* but after one was killed, or failed, in the writing.                    *)
NoScopeLost ==
  \A s \in Scopes :
    /\ DOMAIN disk[s] # {}
    /\ s \notin contested => Cardinality(DOMAIN disk[s]) = 1
    /\ s \notin contested \cup cut =>
         \A f \in DOMAIN disk[s] :
           disk[s][f].text = "whole" \/ \E p \in Workers : <<s, f>> \in opened[p]

(* Between commands epic and story name each other's folders, and          *)
(* PROJECT-DEFINITION names both, unless two commands worked on one of     *)
(* them at once, it was demoted or undone, a command on it was killed, or  *)
(* a repair failed, which no command reports.                              *)
LinksFollow ==
  (\A p \in Workers : On(p, "free")) =>
    \A s \in Stories :
      {s, Epic} \cap (contested \cup unlinked \cup cut) = {} =>
        \A f \in DOMAIN disk[s], g \in DOMAIN disk[Epic] :
          /\ disk[s][f].links[Epic] = g /\ disk[Epic][g].links[s] = f
          /\ registry[s] = f /\ registry[Epic] = g

(* A sweep completes the epic only when no story of it is open: a story    *)
(* that is not finished has been worked on by another command meanwhile.   *)
EpicLast ==
  [][\A p \in Workers :
       On(p, "move") /\ worker[p].sweeping /\ worker[p].scope = Epic
       /\ worker[p].verb = "complete" /\ disk' # disk =>
         \A s \in Stories \ contested : DOMAIN disk[s] \subseteq Finished]_scopeVars

(* A demote, or its undo, is undone once, unless two commands worked on    *)
(* the scope at once.                                                      *)
UndoOnce ==
  \A j, k \in DOMAIN audit :
    audit[j].verb = "undo" /\ audit[k].verb = "undo" /\ audit[j].undoes = audit[k].undoes
      => j = k \/ audit[j].scope \in contested
=============================================================================
