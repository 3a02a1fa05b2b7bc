----------------------------- MODULE DeftTriage -----------------------------
(***************************************************************************)
(* Triage decisions of Deft: scripts/triage_actions.py and triage_bulk.py  *)
(* over the append-only log of scripts/candidates_log.py, with the briefs  *)
(* that scripts/issue_ingest.py writes for accepted issues and the issues  *)
(* that are closed on GitHub for rejected ones.                            *)
(*                                                                         *)
(* Several agents run these commands at once, each in a process of its     *)
(* own.  A decision is logged first and carried out afterwards; when that  *)
(* fails, its entry is taken out of the log again by rewriting the file,   *)
(* provided that the process finds the log: it is written in the framework *)
(* that the scripts belong to and looked for under the current directory.  *)
(* Writers of the log take the lock of candidates_log._append_lock: flock  *)
(* on a file beside the log, which every holder deletes after releasing    *)
(* it.  Readers take no lock.  A process may be killed between two steps.  *)
(***************************************************************************)
EXTENDS Naturals, Sequences, FiniteSets

CONSTANTS
  Triagers,      \* the processes
  Issues,        \* the issues under triage
  NoIssue,       \* the issue of a process that works on none
  Tried,         \* BOUND: the decisions that are taken
  MaxDecisions,  \* BOUND: the commands that are started
  MaxSeconds     \* BOUND: the clock, in the seconds entries are stamped with

ASSUME TriageAssumption ==
  /\ IsFiniteSet(Triagers) /\ NoIssue \notin Issues
  /\ Tried \subseteq {"accept", "reject", "mark-duplicate", "defer", "needs-ac", "reset"}
  /\ MaxDecisions \in Nat /\ MaxSeconds \in Nat

VARIABLES
  log,        \* candidates.jsonl: the entries, oldest line first
  briefs,     \* the issues that have a brief in some lifecycle folder
  upstream,   \* the issues on GitHub
  sidecar,    \* the file at the path of the lock, 0 when there is none
  agent,      \* what each process is doing
  clock,
  started,    \* the commands started so far; it numbers their entries
  recorded,   \* history: the entries appended, less those their own command
              \* took out again
  excused,    \* history: the entries whose command was killed half-way, or
              \* could not take the lock to roll back
  stray,      \* history: the entries that their failed command left in the
              \* log, not looking for it where it is or not at all
  unheard,    \* history: the issues closed by a call that reported a failure
  breached,   \* history: two processes were in the lock at once
  torn        \* history: a process was killed while it rewrote the log

triageVars == <<log, briefs, upstream, sidecar, agent, clock, started, recorded,
                excused, stray, unheard, breached, torn>>

-----------------------------------------------------------------------------
Terminal == {"accept", "reject", "mark-duplicate"}

InProgress == {"defer", "needs-ac"}

Decisions == Terminal \cup InProgress \cup {"reset"}

Entry == [id: Nat, issue: Issues, decision: Decisions, at: Nat]

Stages == {"idle", "check", "open", "stat", "lock", "append", "read", "truncate",
           "write_back", "unlock", "unlink", "ingest", "close", "label"}

(* What a process holds: its command, the file it has open as lock, and    *)
(* the lines it keeps in a rollback.                                       *)
Agent == [pc: Stages, decision: Decisions, issue: Issues \cup {NoIssue}, id: Nat,
          at: Nat, file: Nat, kept: Seq(Entry), rollback: BOOLEAN,
          refused: BOOLEAN, todo: SUBSET Issues]

Resting == [pc |-> "idle", decision |-> "defer", issue |-> NoIssue, id |-> 0,
            at |-> 0, file |-> 0, kept |-> <<>>, rollback |-> FALSE,
            refused |-> FALSE, todo |-> {}]

(* After a command a bulk run goes on with the issues that are left; a     *)
(* command that raises ends it.                                            *)
Rested(p) == IF agent[p].todo = {} THEN Resting
             ELSE [Resting EXCEPT !.decision = agent[p].decision, !.todo = agent[p].todo]

At(p, stage) == agent[p].pc = stage

To(p, stage) == agent' = [agent EXCEPT ![p].pc = stage]

Rest(p) == agent' = [agent EXCEPT ![p] = Rested(p)]

Raise(p) == agent' = [agent EXCEPT ![p] = Resting]

LoggedIds == {log[k].id : k \in DOMAIN log}

LinesOf(i) == {k \in DOMAIN log : log[k].issue = i}

(* candidates_log.latest_decision: the last line among those of the latest *)
(* second.                                                                 *)
IsLatest(k, i) ==
  /\ k \in LinesOf(i)
  /\ \A l \in LinesOf(i) : \/ log[l].at < log[k].at
                           \/ log[l].at = log[k].at /\ l <= k

LatestIs(i, decision) == \E k \in LinesOf(i) : IsLatest(k, i) /\ log[k].decision = decision

(* triage_bulk keeps the first line among those of the latest second.      *)
BulkSees(i, decisions) ==
  \E k \in LinesOf(i) :
    /\ log[k].decision \in decisions
    /\ \A l \in LinesOf(i) : \/ log[l].at < log[k].at
                             \/ log[l].at = log[k].at /\ k <= l

files == <<log, briefs, upstream>>

history == <<recorded, excused, stray, unheard, breached, torn>>

(* The definitions named Fault_ are seeded faults, kept to show that the   *)
(* properties notice them.                                                 *)

-----------------------------------------------------------------------------
(* One command, for one issue, given directly or as the next of a bulk run. *)
StartDecision(p, i, decision) ==
  /\ At(p, "idle") /\ started < MaxDecisions
  /\ \/ agent[p].todo = {}
     \/ i \in agent[p].todo /\ decision = agent[p].decision
  /\ started' = started + 1
  /\ agent' = [agent EXCEPT ![p] = [Resting EXCEPT
       !.pc = "check", !.decision = decision, !.issue = i, !.id = started',
       !.todo = agent[p].todo \ {i}]]
  /\ UNCHANGED <<files, sidecar, clock, history>>

(* bulk_action chooses its issues once, from the log as it is now.         *)
StartBulk(p, decision, reAction) ==
  /\ At(p, "idle") /\ agent[p].todo = {} /\ decision # "reset"
  /\ decision # "mark-duplicate"
  /\ LET skipped == IF reAction THEN Terminal ELSE Terminal \cup InProgress
         chosen == {i \in Issues : ~BulkSees(i, skipped)}
     IN /\ chosen # {}
        /\ agent' = [agent EXCEPT ![p] = [Resting EXCEPT !.decision = decision,
                                                        !.todo = chosen]]
  /\ UNCHANGED <<files, sidecar, clock, started, history>>

(* A repeated final decision, and a second reset, end here; so does a      *)
(* reset of an issue without decisions.  A duplicate may be of another     *)
(* issue than before.  Then the entry is built, with the time of now: the  *)
(* clock is looked at nowhere else, and moves on here, from the second of  *)
(* the first command.                                                      *)
CheckRepeat(p) ==
  /\ At(p, "check")
  /\ LET i == agent[p].issue
         d == agent[p].decision
     IN \/ /\ d \in Terminal \cup {"reset"} /\ LatestIs(i, d)
           /\ Rest(p) /\ UNCHANGED clock
        \/ /\ d = "reset" /\ LinesOf(i) = {}
           /\ Raise(p) /\ UNCHANGED clock
        \/ /\ ~(d \in {"accept", "reject", "reset"} /\ LatestIs(i, d))
           /\ ~(d = "reset" /\ LinesOf(i) = {})
           /\ \/ UNCHANGED clock
              \/ clock < MaxSeconds /\ started > 1 /\ clock' = clock + 1
           /\ agent' = [agent EXCEPT ![p].pc = "open", ![p].at = clock']
  /\ UNCHANGED <<files, sidecar, started, history>>

-----------------------------------------------------------------------------
(* _append_lock                                                            *)

(* The numbers of files that are neither at the path nor open.             *)
Unused == {n \in 1..(Cardinality(Triagers) + 1) :
             n # sidecar /\ \A p \in Triagers : agent[p].file # n}

OpenSidecar(p) ==
  /\ At(p, "open")
  /\ IF sidecar # 0 THEN UNCHANGED sidecar
     ELSE sidecar' \in {n \in Unused : \A m \in Unused : n <= m}
  /\ agent' = [agent EXCEPT ![p].pc = "stat", ![p].file = sidecar']
  /\ UNCHANGED <<files, clock, started, history>>

(* The size is asked of the path: when another process has deleted it, the *)
(* call raises, and the handler deletes whatever is at the path by then.   *)
StatSidecar(p) ==
  /\ At(p, "stat")
  /\ agent' = [agent EXCEPT
       ![p] = IF sidecar # 0 THEN [@ EXCEPT !.pc = "lock"]
              ELSE [@ EXCEPT !.pc = "unlink", !.file = 0, !.refused = TRUE]]
  /\ UNCHANGED <<files, sidecar, clock, started, history>>

Holding == {"append", "read", "truncate", "write_back", "unlock"}

Holders == {p \in Triagers : agent[p].pc \in Holding}

(* flock waits for a holder of the same file only.                         *)
TakeLock(p) ==
  /\ At(p, "lock")
  /\ \A q \in Holders : agent[q].file # agent[p].file
  /\ To(p, IF agent[p].rollback THEN "read" ELSE "append")
  /\ breached' = (breached \/ Holders # {})
  /\ UNCHANGED <<files, sidecar, clock, started, recorded, excused, stray,
                 unheard, torn>>

AppendEntry(p) ==
  /\ At(p, "append")
  /\ log' = Append(log, [id |-> agent[p].id, issue |-> agent[p].issue,
                         decision |-> agent[p].decision, at |-> agent[p].at])
  /\ recorded' = recorded \cup {agent[p].id}
  /\ agent' = [agent EXCEPT ![p].pc = "unlock", ![p].at = 0]
  /\ UNCHANGED <<briefs, upstream, sidecar, clock, started, excused, stray,
                 unheard, breached, torn>>

Unlock(p) ==
  /\ At(p, "unlock")
  /\ agent' = [agent EXCEPT ![p].pc = "unlink", ![p].file = 0]
  /\ UNCHANGED <<files, sidecar, clock, started, history>>

(* What comes after the lock: the command's own work, or its end.  A       *)
(* rollback that could not take the lock leaves the entry in the log.      *)
Unlink(p) ==
  /\ At(p, "unlink")
  /\ sidecar' = 0
  /\ CASE agent[p].refused \/ agent[p].rollback -> Raise(p)
       [] ~agent[p].refused /\ ~agent[p].rollback /\ agent[p].decision = "accept" ->
            To(p, "ingest")
       [] ~agent[p].refused /\ ~agent[p].rollback /\ agent[p].decision = "reject" ->
            To(p, "close")
       [] OTHER -> Rest(p)
  /\ excused' = IF agent[p].refused /\ agent[p].rollback
                THEN excused \cup {agent[p].id} ELSE excused
  /\ UNCHANGED <<files, clock, started, recorded, stray, unheard, breached, torn>>

-----------------------------------------------------------------------------
(* Carrying a decision out                                                 *)

Fault_RollBackUnlocked(p) ==
  /\ agent' = [agent EXCEPT ![p].pc = "read", ![p].rollback = TRUE]
  /\ UNCHANGED stray

(* The command raises and its entry stays.                                 *)
LeaveEntry(p) == Raise(p) /\ stray' = stray \cup {agent[p].id}

(* The entry was appended to the log of the framework; the rollback looks  *)
(* under the current directory, which is the caller's, and without a file  *)
(* there it returns, to a caller that does not ask what it returned.       *)
RollBack(p) ==
  \/ agent' = [agent EXCEPT ![p].pc = "open", ![p].rollback = TRUE] /\ UNCHANGED stray
  \/ LeaveEntry(p)

Fault_AcceptKeepsEntry(p) ==
  /\ At(p, "ingest")
  /\ \/ briefs' = briefs \cup {agent[p].issue} /\ Rest(p)
     \/ Raise(p) /\ UNCHANGED briefs
  /\ UNCHANGED <<log, upstream, sidecar, clock, started, history>>

(* An issue that has a brief already is left alone.  The fetch of the      *)
(* issue, or the write, may fail.                                          *)
Ingest(p) ==
  /\ At(p, "ingest")
  /\ \/ briefs' = briefs \cup {agent[p].issue} /\ Rest(p) /\ UNCHANGED stray
     \/ RollBack(p) /\ UNCHANGED briefs
  /\ UNCHANGED <<log, upstream, sidecar, clock, started, recorded, excused,
                 unheard, breached, torn>>

Fault_CloseNotChecked(p) ==
  /\ At(p, "close")
  /\ \/ upstream' = [upstream EXCEPT ![agent[p].issue] = "closed"]
     \/ UNCHANGED upstream
  /\ To(p, "label")
  /\ UNCHANGED <<log, briefs, sidecar, clock, started, history>>

(* gh issue close; a failure that took effect all the same is rolled back  *)
(* like any other.  What is not an UpstreamCloseError, the operating system*)
(* refusing to run gh for one, is raised past the rollback.  Closing a     *)
(* closed issue changes nothing.                                           *)
CloseIssue(p) ==
  /\ At(p, "close")
  /\ LET i == agent[p].issue
         closed == [upstream EXCEPT ![i] = IF @ = "open" THEN "closed" ELSE @]
     IN \/ upstream' = closed /\ To(p, "label") /\ UNCHANGED <<stray, unheard>>
        \/ upstream' = closed /\ RollBack(p) /\ unheard' = unheard \cup {i}
        \/ UNCHANGED <<upstream, unheard>> /\ (RollBack(p) \/ LeaveEntry(p))
        \/ upstream' = closed /\ LeaveEntry(p) /\ UNCHANGED unheard
  /\ UNCHANGED <<log, briefs, sidecar, clock, started, recorded,
                 excused, breached, torn>>

(* The label is made when it is missing; a failure is only a warning, but  *)
(* for the same other exceptions.                                          *)
LabelIssue(p) ==
  /\ At(p, "label")
  /\ \/ upstream' = [upstream EXCEPT ![agent[p].issue] = "labelled"]
     \/ UNCHANGED upstream
  /\ Rest(p) \/ Raise(p)
  /\ UNCHANGED <<log, briefs, sidecar, clock, started, history>>

-----------------------------------------------------------------------------
(* _rollback_audit_entry                                                   *)

(* The log without line k.                                                 *)
Without(k) == [j \in 1..(Len(log) - 1) |-> log[IF j < k THEN j ELSE j + 1]]

(* The first line with the id of the command is left out; when there is    *)
(* none the file is not written.                                           *)
ReadLog(p) ==
  /\ At(p, "read")
  /\ \/ \E k \in DOMAIN log :
          /\ log[k].id = agent[p].id
          /\ \A j \in DOMAIN log : log[j].id = agent[p].id => k <= j
          /\ agent' = [agent EXCEPT ![p].pc = "truncate", ![p].kept = Without(k)]
     \/ agent[p].id \notin LoggedIds /\ To(p, "unlock")
  /\ UNCHANGED <<files, sidecar, clock, started, history>>

(* write_text empties the file first.                                      *)
TruncateLog(p) ==
  /\ At(p, "truncate")
  /\ log' = <<>> /\ To(p, "write_back")
  /\ UNCHANGED <<briefs, upstream, sidecar, clock, started, history>>

WriteBack(p) ==
  /\ At(p, "write_back")
  /\ log' = agent[p].kept
  /\ recorded' = recorded \ {agent[p].id}
  /\ agent' = [agent EXCEPT ![p].pc = "unlock", ![p].kept = <<>>]
  /\ UNCHANGED <<briefs, upstream, sidecar, clock, started, excused, stray,
                 unheard, breached, torn>>

-----------------------------------------------------------------------------
(* A kill releases the lock and leaves its file.                           *)
KillAgent(p) ==
  /\ ~At(p, "idle")
  /\ Raise(p)
  /\ excused' = excused \cup {agent[p].id}
  /\ torn' = (torn \/ At(p, "write_back"))
  /\ UNCHANGED <<files, sidecar, clock, started, recorded, stray, unheard, breached>>

-----------------------------------------------------------------------------
TriageInit ==
  /\ log = <<>> /\ briefs = {} /\ upstream = [i \in Issues |-> "open"]
  /\ sidecar = 0 /\ agent = [p \in Triagers |-> Resting]
  /\ clock = 0 /\ started = 0
  /\ recorded = {} /\ excused = {} /\ stray = {} /\ unheard = {}
  /\ breached = FALSE /\ torn = FALSE

Locking(p) == OpenSidecar(p) \/ StatSidecar(p) \/ TakeLock(p) \/ Unlock(p) \/ Unlink(p)

RollingBack(p) == ReadLog(p) \/ TruncateLog(p) \/ WriteBack(p)

Deciding(p) ==
  \/ \E i \in Issues, d \in Tried : StartDecision(p, i, d)
  \/ \E d \in Tried, reAction \in BOOLEAN : StartBulk(p, d, reAction)
  \/ CheckRepeat(p) \/ AppendEntry(p)
  \/ Ingest(p) \/ CloseIssue(p) \/ LabelIssue(p)

TriageNext ==
  \E p \in Triagers : Deciding(p) \/ Locking(p) \/ RollingBack(p) \/ KillAgent(p)

TriageSpec == TriageInit /\ [][TriageNext]_triageVars

-----------------------------------------------------------------------------
TriageTypeOK ==
  /\ log \in Seq(Entry) /\ briefs \subseteq Issues
  /\ upstream \in [Issues -> {"open", "closed", "labelled"}]
  /\ sidecar \in Nat /\ agent \in [Triagers -> Agent]
  /\ clock \in Nat /\ started \in Nat
  /\ recorded \subseteq Nat /\ excused \subseteq Nat /\ stray \subseteq Nat
  /\ unheard \subseteq Issues /\ breached \in BOOLEAN /\ torn \in BOOLEAN

(* The entry is the work of a command that has not ended.                  *)
UnderWay(id) == \E p \in Triagers : agent[p].pc # "idle" /\ agent[p].id = id

TookEffect(k) ==
  CASE log[k].decision = "accept" -> log[k].issue \in briefs
    [] log[k].decision = "reject" -> upstream[log[k].issue] # "open"
    [] OTHER                      -> TRUE

(* "If the ingest fails, the audit entry is ROLLED BACK so the log never   *)
(* references an accept decision that did not actually produce a vBRIEF",  *)
(* and the same of a reject and its issue.  Not counted are decisions under*)
(* way, commands killed half-way, rollbacks that could not take the lock   *)
(* and whatever happens after the lock has let two processes in.           *)
DecisionsTookEffect ==
  ~breached =>
    \A k \in DOMAIN log :
      UnderWay(log[k].id) \/ log[k].id \in excused \/ TookEffect(k)

Stands(k) == UnderWay(log[k].id) \/ log[k].id \in excused \cup stray

(* That the log keeps no accept without a brief is true of the commands    *)
(* that look for the log where it is: then, between the commands, and as   *)
(* long as the lock keeps rewrites apart, an accept in the log has its     *)
(* brief, whichever other accepts, rollbacks and decisions on the issue    *)
(* interleave with it.  A repeated accept does not mend the exceptions.    *)
AcceptedHasBrief ==
  ~breached =>
    \A k \in DOMAIN log :
      log[k].decision = "accept" => log[k].issue \in briefs \/ Stands(k)

(* A reject in the log has closed its issue, with the same exceptions and  *)
(* that of a close that failed in a way the command does not expect; and an*)
(* issue that is closed has a reject in the log, or the call that closed it*)
(* said that it had not.                                                   *)
RejectedIsClosed ==
  ~breached =>
    /\ \A k \in DOMAIN log :
         log[k].decision = "reject" => upstream[log[k].issue] # "open" \/ Stands(k)
    /\ (~torn /\ \A p \in Triagers : ~At(p, "write_back")) =>
         \A i \in Issues : upstream[i] # "open" =>
           i \in unheard \/ \E k \in LinesOf(i) : log[k].decision = "reject"

(* Every entry appended is in the log until its own command takes it out.  *)
NoEntryLost ==
  ~torn /\ (\A p \in Triagers : ~At(p, "write_back")) =>
    recorded \subseteq LoggedIds

(* The decision log is append-only but for rollbacks, provided that the    *)
(* lock has never let two processes in at once: flock on a file that its   *)
(* holders delete does not ensure that.                                    *)
LossNeedsTwoHolders == ~breached => NoEntryLost
=============================================================================
