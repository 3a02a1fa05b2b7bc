--------------------------- MODULE DeftTriageProofs ---------------------------
(***************************************************************************)
(* Proofs about DeftTriage, for any number of processes, issues and        *)
(* commands.                                                               *)
(*                                                                         *)
(* The argument: as long as the lock has one holder at a time, the line of *)
(* a command is in the log, or in the copy another command is about to     *)
(* write back, exactly from its append to its own rollback (Owned), so     *)
(* that a rewriting takes out one line and loses none (Complete).  A line  *)
(* without a running command was left by one that has carried it out       *)
(* (CarriedOut), and an issue that was closed keeps the line of the        *)
(* command that closed it (Witnessed).                                     *)
(***************************************************************************)
EXTENDS DeftTriage, TLAPS

Running == {p \in Triagers : agent[p].pc # "idle"}

Members(s) == {s[k] : k \in DOMAIN s}

Ids(s) == {s[k].id : k \in DOMAIN s}

Distinct(s) == \A j, k \in DOMAIN s : s[j].id = s[k].id => j = k

(* The entry of the command is in the log, for all it knows.               *)
PastAppend(a) ==
  \/ a.pc \in {"ingest", "close", "label"}
  \/ a.pc \in {"unlock", "unlink"} /\ ~a.rollback /\ ~a.refused

(* It is not yet, or no longer.                                            *)
Outside(a) ==
  \/ ~a.rollback /\ (a.pc \in {"check", "open", "stat", "lock", "append"} \/ a.refused)
  \/ a.rollback /\ ~a.refused /\ a.pc \in {"unlock", "unlink"}

(* What a process knows at each step.                                      *)
Private(a) ==
  /\ a.pc = "idle" => a.id = 0 /\ ~a.rollback
  /\ a.pc # "idle" => a.issue \in Issues /\ a.id \in 1..started
  /\ a.refused => a.pc = "unlink"
  /\ a.pc \in {"read", "truncate", "write_back"} => a.rollback
  /\ a.pc \in {"check", "append", "ingest", "close", "label"} => ~a.rollback
  /\ a.pc = "ingest" => a.decision = "accept"
  /\ a.pc \in {"close", "label"} => a.decision = "reject"
  /\ a.pc \notin {"truncate", "write_back"} => a.kept = <<>>
  /\ a.pc = "label" => upstream[a.issue] # "open"
  /\ PastAppend(a) => a.id \in recorded

Known == \A p \in Triagers : Private(agent[p])

OwnIds == \A p, q \in Running : agent[p].id = agent[q].id => p = q

OneHolder == ~breached => \A p, q \in Holders : p = q

(* The lines in the log, and those that are about to be in it again.       *)
EverWritten == Members(log) \cup UNION {Members(agent[p].kept) : p \in Triagers}

Owned ==
  /\ Distinct(log) /\ \A p \in Triagers : Distinct(agent[p].kept)
  /\ \A e \in EverWritten : e.id \in 1..started
  /\ \A p \in Running : \A e \in EverWritten : e.id = agent[p].id =>
       /\ e.issue = agent[p].issue /\ e.decision = agent[p].decision
       /\ ~Outside(agent[p])
  /\ \A p \in Triagers : \A e \in Members(agent[p].kept) : e.id # agent[p].id

CarriedOut(e) ==
  \/ UnderWay(e.id) \/ e.id \in excused \cup stray
  \/ /\ e.decision = "accept" => e.issue \in briefs
     /\ e.decision = "reject" => upstream[e.issue] # "open"

Faithful == \A e \in EverWritten : CarriedOut(e)

Whole == \A p \in Triagers : ~At(p, "write_back")

Rewriting == {p \in Triagers : agent[p].pc \in {"truncate", "write_back"}}

Complete ==
  /\ Whole => recorded \subseteq Ids(log)
  /\ \A p \in Rewriting : recorded \ {agent[p].id} \subseteq Ids(agent[p].kept)

(* A line that no command is going to take out again.                      *)
Concluded(e, i) ==
  /\ e.issue = i /\ e.decision = "reject"
  /\ \A p \in Running : agent[p].id = e.id => agent[p].pc = "label"

Witness(i) ==
  /\ Whole => \E e \in Members(log) : Concluded(e, i)
  /\ \A p \in Rewriting : \E e \in Members(agent[p].kept) : Concluded(e, i)

Witnessed == \A i \in Issues : upstream[i] = "open" \/ i \in unheard \/ Witness(i)

TriageInv ==
  /\ TriageTypeOK /\ Known /\ OwnIds /\ OneHolder
  /\ ~breached => Owned /\ Faithful
  /\ ~breached /\ ~torn => Complete /\ Witnessed

-----------------------------------------------------------------------------
(* What each step does to its process                                      *)

Turn(p, w) == w \in Agent /\ agent' = [agent EXCEPT ![p] = w]

Leaves(w) ==
  w.pc = "idle" /\ w.id = 0 /\ ~w.rollback /\ ~w.refused /\ w.kept = <<>>

Resumes(a, w, stage) ==
  w.pc = stage /\ w.id = a.id /\ w.issue = a.issue /\ w.decision = a.decision

Keeps(a, w) == w.rollback = a.rollback /\ w.refused = a.refused /\ w.kept = a.kept

LEMMA TurnTaken ==
  ASSUME TriageTypeOK, NEW p \in Triagers, NEW w, Turn(p, w)
  PROVE  /\ agent' \in [Triagers -> Agent] /\ agent'[p] = w
         /\ \A q \in Triagers : q # p => agent'[q] = agent[q]
BY DEF TriageTypeOK, Turn

LEMMA Rests ==
  ASSUME TriageTypeOK, NEW p \in Triagers
  PROVE  /\ Resting \in Agent /\ Leaves(Resting)
         /\ Rested(p) \in Agent /\ Leaves(Rested(p))
<1>1. agent[p] \in Agent
  BY DEF TriageTypeOK
<1>2. Resting \in Agent /\ Leaves(Resting)
  BY DEF Resting, Agent, Stages, Decisions, Terminal, InProgress, Leaves
<1>3. Rested(p) \in Agent /\ Leaves(Rested(p))
  BY <1>1, <1>2 DEF Rested, Resting, Agent, Leaves
<1> QED BY <1>2, <1>3

LEMMA ComesToRest ==
  ASSUME TriageTypeOK, NEW p \in Triagers, Rest(p) \/ Raise(p)
  PROVE  \E w : Turn(p, w) /\ Leaves(w)
BY Rests DEF Rest, Raise, Turn

LEMMA AgentGoes ==
  ASSUME TriageTypeOK, NEW p \in Triagers, NEW stage \in Stages, To(p, stage)
  PROVE  \E w : Turn(p, w) /\ Resumes(agent[p], w, stage) /\ Keeps(agent[p], w)
<1> DEFINE w == [agent[p] EXCEPT !.pc = stage]
<1>1. agent[p] \in Agent
  BY DEF TriageTypeOK
<1>2. w \in Agent /\ Resumes(agent[p], w, stage) /\ Keeps(agent[p], w)
  BY <1>1 DEF Agent, Resumes, Keeps
<1>3. agent' = [agent EXCEPT ![p] = w]
  BY DEF To, TriageTypeOK
<1> QED BY <1>2, <1>3 DEF Turn

LEMMA RollsBack ==
  ASSUME TriageTypeOK, NEW p \in Triagers, RollBack(p)
  PROVE  \E w : /\ Turn(p, w)
                /\ \/ /\ Resumes(agent[p], w, "open") /\ w.rollback /\ stray' = stray
                      /\ w.refused = agent[p].refused /\ w.kept = agent[p].kept
                   \/ Leaves(w) /\ stray' = stray \cup {agent[p].id}
<1> DEFINE w == [agent[p] EXCEPT !.pc = "open", !.rollback = TRUE]
<1>1. agent[p] \in Agent
  BY DEF TriageTypeOK
<1>2. /\ w \in Agent /\ Resumes(agent[p], w, "open") /\ w.rollback
      /\ w.refused = agent[p].refused /\ w.kept = agent[p].kept
  BY <1>1 DEF Agent, Resumes, Stages
<1>3. CASE /\ agent' = [agent EXCEPT ![p].pc = "open", ![p].rollback = TRUE]
           /\ UNCHANGED stray
  <2>1. agent' = [agent EXCEPT ![p] = w]
    BY <1>3 DEF TriageTypeOK
  <2> QED BY <1>2, <1>3, <2>1 DEF Turn
<1>4. CASE LeaveEntry(p)
  BY <1>4, ComesToRest DEF LeaveEntry
<1> QED BY <1>3, <1>4 DEF RollBack

LEMMA StartDecisionTurn ==
  ASSUME TriageTypeOK, NEW p \in Triagers, NEW i \in Issues, NEW d \in Decisions,
         StartDecision(p, i, d)
  PROVE  /\ agent[p].pc = "idle" /\ started' = started + 1
         /\ UNCHANGED <<log, briefs, upstream, sidecar, clock, history>>
         /\ \E w : /\ Turn(p, w) /\ w.pc = "check" /\ w.id = started + 1 /\ w.issue = i
                   /\ w.decision = d /\ ~w.rollback /\ ~w.refused /\ w.kept = <<>>
<1> DEFINE w == [Resting EXCEPT !.pc = "check", !.decision = d, !.issue = i,
                               !.id = started + 1, !.todo = agent[p].todo \ {i}]
<1>1. agent[p] \in Agent /\ started + 1 \in Nat
  BY DEF TriageTypeOK
<1>2. agent[p].todo \ {i} \in SUBSET Issues
  BY <1>1 DEF Agent
<1>3. /\ w.pc = "check" /\ w.id = started + 1 /\ w.issue = i
      /\ w.decision = d /\ ~w.rollback /\ ~w.refused /\ w.kept = <<>>
  BY DEF Resting
<1>4. w \in Agent
  <2>1. Resting \in Agent
    BY Rests
  <2> QED BY <1>1, <1>2, <2>1 DEF Agent, Stages
<1>5. started' = started + 1 /\ agent' = [agent EXCEPT ![p] = w] /\ agent[p].pc = "idle"
  BY DEF StartDecision, At
<1>6. UNCHANGED <<log, briefs, upstream, sidecar, clock, history>>
  BY DEF StartDecision, files, history
<1> QED BY <1>3, <1>4, <1>5, <1>6 DEF Turn

LEMMA StartBulkTurn ==
  ASSUME TriageTypeOK, NEW p \in Triagers, NEW d \in Decisions, NEW again \in BOOLEAN,
         StartBulk(p, d, again)
  PROVE  /\ agent[p].pc = "idle"
         /\ UNCHANGED <<log, briefs, upstream, sidecar, clock, started, history>>
         /\ \E w : Turn(p, w) /\ Leaves(w)
<1>1. PICK chosen \in SUBSET Issues :
        agent' = [agent EXCEPT ![p] = [Resting EXCEPT !.decision = d, !.todo = chosen]]
  BY DEF StartBulk
<1> DEFINE w == [Resting EXCEPT !.decision = d, !.todo = chosen]
<1>2. w \in Agent /\ Leaves(w)
  <2>1. Resting \in Agent /\ Leaves(Resting)
    BY Rests
  <2> QED BY <2>1 DEF Agent, Leaves
<1> QED BY <1>1, <1>2 DEF StartBulk, Turn, files, At

LEMMA CheckRepeatTurn ==
  ASSUME TriageTypeOK, NEW p \in Triagers, CheckRepeat(p)
  PROVE  /\ agent[p].pc = "check" /\ clock' \in Nat
         /\ UNCHANGED <<log, briefs, upstream, sidecar, started, history>>
         /\ \E w : /\ Turn(p, w)
                   /\ Leaves(w) \/ (Resumes(agent[p], w, "open") /\ Keeps(agent[p], w))
<1>1. agent[p] \in Agent /\ clock \in Nat
  BY DEF TriageTypeOK
<1>2. clock' \in Nat
  BY <1>1 DEF CheckRepeat
<1>3. CASE Rest(p) \/ Raise(p)
  BY <1>2, <1>3, ComesToRest DEF CheckRepeat, At, files
<1>4. CASE agent' = [agent EXCEPT ![p].pc = "open", ![p].at = clock']
  <2> DEFINE w == [agent[p] EXCEPT !.pc = "open", !.at = clock']
  <2>1. w \in Agent /\ Resumes(agent[p], w, "open") /\ Keeps(agent[p], w)
    BY <1>1, <1>2 DEF Agent, Stages, Resumes, Keeps
  <2>2. agent' = [agent EXCEPT ![p] = w]
    BY <1>4 DEF TriageTypeOK
  <2>3. \E v : Turn(p, v) /\ Resumes(agent[p], v, "open") /\ Keeps(agent[p], v)
    BY <2>1, <2>2 DEF Turn
  <2> QED BY <1>2, <2>3 DEF CheckRepeat, At, files
<1> QED BY <1>3, <1>4 DEF CheckRepeat

LEMMA OpenSidecarTurn ==
  ASSUME TriageTypeOK, NEW p \in Triagers, OpenSidecar(p)
  PROVE  /\ agent[p].pc = "open" /\ sidecar' \in Nat
         /\ UNCHANGED <<log, briefs, upstream, clock, started, history>>
         /\ \E w : Turn(p, w) /\ Resumes(agent[p], w, "stat") /\ Keeps(agent[p], w)
<1>1. agent[p] \in Agent
  BY DEF TriageTypeOK
<1>2. sidecar' \in Nat
  <2>1. \A n \in Unused : n \in Nat
    BY DEF Unused
  <2> QED BY <2>1 DEF OpenSidecar, TriageTypeOK
<1> DEFINE w == [agent[p] EXCEPT !.pc = "stat", !.file = sidecar']
<1>3. w \in Agent /\ Resumes(agent[p], w, "stat") /\ Keeps(agent[p], w)
  BY <1>1, <1>2 DEF Agent, Stages, Resumes, Keeps
<1>4. agent' = [agent EXCEPT ![p] = w]
  BY DEF OpenSidecar, TriageTypeOK
<1> QED BY <1>2, <1>3, <1>4 DEF Turn, OpenSidecar, At, files

LEMMA StatSidecarTurn ==
  ASSUME TriageTypeOK, NEW p \in Triagers, StatSidecar(p)
  PROVE  /\ agent[p].pc = "stat"
         /\ UNCHANGED <<log, briefs, upstream, sidecar, clock, started, history>>
         /\ \E w : /\ Turn(p, w) /\ w.rollback = agent[p].rollback /\ w.kept = agent[p].kept
                   /\ \/ Resumes(agent[p], w, "lock") /\ w.refused = agent[p].refused
                      \/ Resumes(agent[p], w, "unlink") /\ w.refused
<1>1. agent[p] \in Agent
  BY DEF TriageTypeOK
<1> DEFINE w == IF sidecar # 0 THEN [agent[p] EXCEPT !.pc = "lock"]
                ELSE [agent[p] EXCEPT !.pc = "unlink", !.file = 0, !.refused = TRUE]
<1>2. /\ w \in Agent /\ w.rollback = agent[p].rollback /\ w.kept = agent[p].kept
      /\ \/ Resumes(agent[p], w, "lock") /\ w.refused = agent[p].refused
         \/ Resumes(agent[p], w, "unlink") /\ w.refused
  BY <1>1 DEF Agent, Stages, Resumes
<1>3. agent' = [agent EXCEPT ![p] = w]
  BY DEF StatSidecar, TriageTypeOK
<1> QED BY <1>2, <1>3 DEF Turn, StatSidecar, At, files

LEMMA TakeLockTurn ==
  ASSUME TriageTypeOK, NEW p \in Triagers, TakeLock(p)
  PROVE  /\ agent[p].pc = "lock" /\ breached' = (breached \/ Holders # {})
         /\ UNCHANGED <<log, briefs, upstream, sidecar, clock, started, recorded, excused, stray,
                        unheard, torn>>
         /\ \E w : /\ Turn(p, w) /\ Keeps(agent[p], w)
                   /\ IF agent[p].rollback THEN Resumes(agent[p], w, "read")
                                           ELSE Resumes(agent[p], w, "append")
<1>1. \E w : Turn(p, w) /\ Keeps(agent[p], w)
              /\ Resumes(agent[p], w, IF agent[p].rollback THEN "read" ELSE "append")
  BY AgentGoes DEF TakeLock, Stages
<1> QED BY <1>1 DEF TakeLock, At, files

LEMMA AppendEntryTurn ==
  ASSUME TriageTypeOK, NEW p \in Triagers, AppendEntry(p)
  PROVE  /\ agent[p].pc = "append" /\ recorded' = recorded \cup {agent[p].id}
         /\ log' = Append(log, [id |-> agent[p].id, issue |-> agent[p].issue,
                                decision |-> agent[p].decision, at |-> agent[p].at])
         /\ UNCHANGED <<briefs, upstream, sidecar, clock, started, excused, stray, unheard,
                        breached, torn>>
         /\ \E w : Turn(p, w) /\ Resumes(agent[p], w, "unlock") /\ Keeps(agent[p], w)
<1>1. agent[p] \in Agent
  BY DEF TriageTypeOK
<1> DEFINE w == [agent[p] EXCEPT !.pc = "unlock", !.at = 0]
<1>2. w \in Agent /\ Resumes(agent[p], w, "unlock") /\ Keeps(agent[p], w)
  BY <1>1 DEF Agent, Stages, Resumes, Keeps
<1>3. agent' = [agent EXCEPT ![p] = w]
  BY DEF AppendEntry, TriageTypeOK
<1> QED BY <1>2, <1>3 DEF Turn, AppendEntry, At

LEMMA UnlockTurn ==
  ASSUME TriageTypeOK, NEW p \in Triagers, Unlock(p)
  PROVE  /\ agent[p].pc = "unlock"
         /\ UNCHANGED <<log, briefs, upstream, sidecar, clock, started, history>>
         /\ \E w : Turn(p, w) /\ Resumes(agent[p], w, "unlink") /\ Keeps(agent[p], w)
<1>1. agent[p] \in Agent
  BY DEF TriageTypeOK
<1> DEFINE w == [agent[p] EXCEPT !.pc = "unlink", !.file = 0]
<1>2. w \in Agent /\ Resumes(agent[p], w, "unlink") /\ Keeps(agent[p], w)
  BY <1>1 DEF Agent, Stages, Resumes, Keeps
<1>3. agent' = [agent EXCEPT ![p] = w]
  BY DEF Unlock, TriageTypeOK
<1> QED BY <1>2, <1>3 DEF Turn, Unlock, At, files

LEMMA UnlinkTurn ==
  ASSUME TriageTypeOK, NEW p \in Triagers, Unlink(p)
  PROVE  /\ agent[p].pc = "unlink" /\ sidecar' = 0
         /\ excused' = IF agent[p].refused /\ agent[p].rollback
                       THEN excused \cup {agent[p].id} ELSE excused
         /\ UNCHANGED <<log, briefs, upstream, clock, started, recorded, stray, unheard, breached,
                        torn>>
         /\ \E w : /\ Turn(p, w)
                   /\ \/ /\ Leaves(w)
                         /\ \/ agent[p].refused \/ agent[p].rollback
                            \/ agent[p].decision \notin {"accept", "reject"}
                      \/ /\ ~agent[p].refused /\ ~agent[p].rollback /\ Keeps(agent[p], w)
                         /\ \/ agent[p].decision = "accept" /\ Resumes(agent[p], w, "ingest")
                            \/ agent[p].decision = "reject" /\ Resumes(agent[p], w, "close")
<1>1. /\ agent[p].pc = "unlink" /\ sidecar' = 0
      /\ excused' = IF agent[p].refused /\ agent[p].rollback
                    THEN excused \cup {agent[p].id} ELSE excused
      /\ UNCHANGED <<log, briefs, upstream, clock, started, recorded, stray, unheard, breached, torn>>
  BY DEF Unlink, At, files
<1>2. CASE agent[p].refused \/ agent[p].rollback
  <2>1. Raise(p)
    BY <1>2 DEF Unlink
  <2> QED BY <1>1, <1>2, <2>1, ComesToRest
<1>3. CASE ~agent[p].refused /\ ~agent[p].rollback /\ agent[p].decision = "accept"
  <2>1. To(p, "ingest")
    BY <1>3 DEF Unlink
  <2> QED BY <1>1, <1>3, <2>1, AgentGoes DEF Stages
<1>4. CASE ~agent[p].refused /\ ~agent[p].rollback /\ agent[p].decision = "reject"
  <2>1. To(p, "close")
    BY <1>4 DEF Unlink
  <2> QED BY <1>1, <1>4, <2>1, AgentGoes DEF Stages
<1>5. CASE ~agent[p].refused /\ ~agent[p].rollback /\ agent[p].decision \notin {"accept", "reject"}
  <2>1. Rest(p)
    BY <1>5 DEF Unlink
  <2> QED BY <1>1, <1>5, <2>1, ComesToRest
<1> QED BY <1>2, <1>3, <1>4, <1>5

LEMMA IngestTurn ==
  ASSUME TriageTypeOK, NEW p \in Triagers, Ingest(p)
  PROVE  /\ agent[p].pc = "ingest"
         /\ UNCHANGED <<log, upstream, sidecar, clock, started, recorded, excused, unheard,
                        breached, torn>>
         /\ \E w : /\ Turn(p, w)
                   /\ \/ Leaves(w) /\ briefs' = briefs \cup {agent[p].issue} /\ stray' = stray
                      \/ /\ Resumes(agent[p], w, "open") /\ w.rollback /\ briefs' = briefs
                         /\ w.refused = agent[p].refused /\ w.kept = agent[p].kept
                         /\ stray' = stray
                      \/ /\ Leaves(w) /\ briefs' = briefs
                         /\ stray' = stray \cup {agent[p].id}
<1>1. CASE Rest(p) /\ briefs' = briefs \cup {agent[p].issue} /\ UNCHANGED stray
  BY <1>1, ComesToRest DEF Ingest, At
<1>2. CASE RollBack(p) /\ briefs' = briefs
  <2>1. PICK w : /\ Turn(p, w)
                 /\ \/ /\ Resumes(agent[p], w, "open") /\ w.rollback /\ stray' = stray
                       /\ w.refused = agent[p].refused /\ w.kept = agent[p].kept
                    \/ Leaves(w) /\ stray' = stray \cup {agent[p].id}
    BY <1>2, RollsBack
  <2> QED BY <1>2, <2>1 DEF Ingest, At
<1> QED BY <1>1, <1>2 DEF Ingest

LEMMA CloseIssueTurn ==
  ASSUME TriageTypeOK, NEW p \in Triagers, CloseIssue(p), agent[p].issue \in Issues
  PROVE  /\ agent[p].pc = "close"
         /\ UNCHANGED <<log, briefs, sidecar, clock, started, recorded, excused, breached, torn>>
         /\ stray \subseteq stray' /\ stray' \subseteq stray \cup {agent[p].id}
         /\ upstream' \in [Issues -> {"open", "closed", "labelled"}]
         /\ \A i \in Issues : /\ upstream[i] # "open" => upstream'[i] # "open"
                              /\ i # agent[p].issue => upstream'[i] = upstream[i]
         /\ unheard' \in {unheard, unheard \cup {agent[p].issue}}
         /\ \E w : /\ Turn(p, w)
                   /\ \/ /\ Resumes(agent[p], w, "label") /\ Keeps(agent[p], w)
                         /\ unheard' = unheard /\ upstream'[agent[p].issue] # "open"
                      \/ /\ Resumes(agent[p], w, "open") /\ w.rollback
                         /\ w.refused = agent[p].refused /\ w.kept = agent[p].kept
                         /\ \/ unheard' = unheard \cup {agent[p].issue}
                            \/ upstream' = upstream /\ unheard' = unheard
                      \/ Leaves(w) /\ stray' = stray \cup {agent[p].id}
<1> DEFINE i == agent[p].issue
           closed == [upstream EXCEPT ![i] = IF @ = "open" THEN "closed" ELSE @]
<1>1. /\ closed \in [Issues -> {"open", "closed", "labelled"}]
      /\ \A j \in Issues : upstream[j] # "open" => closed[j] # "open"
      /\ \A j \in Issues : j # i => closed[j] = upstream[j]
      /\ closed[i] # "open"
      /\ upstream \in [Issues -> {"open", "closed", "labelled"}]
  BY DEF TriageTypeOK
<1>2. /\ agent[p].pc = "close"
      /\ UNCHANGED <<log, briefs, sidecar, clock, started, recorded, excused, breached, torn>>
      /\ \/ upstream' = closed /\ To(p, "label") /\ UNCHANGED <<stray, unheard>>
         \/ upstream' = closed /\ RollBack(p) /\ unheard' = unheard \cup {i}
         \/ UNCHANGED <<upstream, unheard>> /\ (RollBack(p) \/ LeaveEntry(p))
         \/ upstream' = closed /\ LeaveEntry(p) /\ UNCHANGED unheard
  BY DEF CloseIssue, At
<1>3. CASE upstream' = closed /\ To(p, "label") /\ UNCHANGED <<stray, unheard>>
  <2>1. \E w : Turn(p, w) /\ Resumes(agent[p], w, "label") /\ Keeps(agent[p], w)
    BY <1>3, AgentGoes DEF Stages
  <2> QED BY <1>1, <1>2, <1>3, <2>1
<1>4. CASE /\ RollBack(p)
           /\ \/ upstream' = closed /\ unheard' = unheard \cup {i}
              \/ UNCHANGED <<upstream, unheard>>
  <2>1. PICK w : /\ Turn(p, w)
                 /\ \/ /\ Resumes(agent[p], w, "open") /\ w.rollback /\ stray' = stray
                       /\ w.refused = agent[p].refused /\ w.kept = agent[p].kept
                    \/ Leaves(w) /\ stray' = stray \cup {agent[p].id}
    BY <1>4, RollsBack
  <2> QED BY <1>1, <1>2, <1>4, <2>1
<1>5. CASE LeaveEntry(p) /\ unheard' = unheard /\ upstream' \in {closed, upstream}
  <2>1. PICK w : Turn(p, w) /\ Leaves(w)
    BY <1>5, ComesToRest DEF LeaveEntry
  <2> QED BY <1>1, <1>2, <1>5, <2>1 DEF LeaveEntry
<1> QED BY <1>2, <1>3, <1>4, <1>5

LEMMA LabelIssueTurn ==
  ASSUME TriageTypeOK, NEW p \in Triagers, LabelIssue(p)
  PROVE  /\ agent[p].pc = "label"
         /\ UNCHANGED <<log, briefs, sidecar, clock, started, history>>
         /\ upstream' \in {upstream, [upstream EXCEPT ![agent[p].issue] = "labelled"]}
         /\ \E w : Turn(p, w) /\ Leaves(w)
BY ComesToRest DEF LabelIssue, At

LEMMA WithoutLine ==
  ASSUME log \in Seq(Entry), NEW k \in DOMAIN log
  PROVE  /\ Without(k) \in Seq(Entry)
         /\ Members(Without(k)) \subseteq Members(log)
         /\ \A j \in DOMAIN log : j # k => log[j] \in Members(Without(k))
         /\ Distinct(log) => Distinct(Without(k)) /\ log[k].id \notin Ids(Without(k))
<1> DEFINE n == Len(log)
           at(j) == IF j < k THEN j ELSE j + 1
           s == Without(k)
<1>1. n \in Nat /\ DOMAIN log = 1..n /\ k \in 1..n /\ n - 1 \in Nat
      /\ \A j \in 1..n : log[j] \in Entry
  OBVIOUS
<1>2. \A j \in 1..(n - 1) : at(j) \in 1..n /\ at(j) # k
  BY <1>1
<1>3. s = [j \in 1..(n - 1) |-> log[at(j)]]
  BY DEF Without
<1>4. s \in Seq(Entry) /\ DOMAIN s = 1..(n - 1)
  <2>1. s \in [1..(n - 1) -> Entry]
    BY <1>1, <1>2, <1>3
  <2> QED BY <1>1, <1>3, <2>1
<1>5. \A j \in 1..n : j # k => \E m \in 1..(n - 1) : at(m) = j
  <2>1. SUFFICES ASSUME NEW j \in 1..n, j # k PROVE \E m \in 1..(n - 1) : at(m) = j
    OBVIOUS
  <2>2. CASE j < k
    BY <1>1, <2>2
  <2>3. CASE j > k
    <3>1. j - 1 \in 1..(n - 1) /\ at(j - 1) = j
      BY <1>1, <2>3
    <3> QED BY <3>1
  <2> QED BY <1>1, <2>1, <2>2, <2>3
<1>6. \A j, m \in 1..(n - 1) : at(j) = at(m) => j = m
  BY <1>1
<1> HIDE DEF n, at, s
<1>7. Members(s) \subseteq Members(log) /\ \A j \in DOMAIN log : j # k => log[j] \in Members(s)
  BY <1>1, <1>2, <1>3, <1>4, <1>5 DEF Members
<1>8. Distinct(log) => Distinct(s) /\ log[k].id \notin Ids(s)
  BY <1>1, <1>2, <1>3, <1>4, <1>6 DEF Distinct, Ids
<1> QED BY <1>4, <1>7, <1>8 DEF s

LEMMA ReadLogTurn ==
  ASSUME TriageTypeOK, NEW p \in Triagers, ReadLog(p)
  PROVE  /\ agent[p].pc = "read"
         /\ UNCHANGED <<log, briefs, upstream, sidecar, clock, started, history>>
         /\ \E w : /\ Turn(p, w) /\ w.rollback = agent[p].rollback /\ w.refused = agent[p].refused
                   /\ \/ /\ Resumes(agent[p], w, "truncate")
                         /\ \E k \in DOMAIN log : log[k].id = agent[p].id /\ w.kept = Without(k)
                      \/ /\ Resumes(agent[p], w, "unlock") /\ w.kept = agent[p].kept
                         /\ agent[p].id \notin Ids(log)
<1>1. agent[p] \in Agent /\ log \in Seq(Entry)
  BY DEF TriageTypeOK
<1>2. /\ agent[p].pc = "read"
      /\ UNCHANGED <<log, briefs, upstream, sidecar, clock, started, history>>
  BY DEF ReadLog, At, files
<1>3. ASSUME NEW k \in DOMAIN log, log[k].id = agent[p].id,
             agent' = [agent EXCEPT ![p].pc = "truncate", ![p].kept = Without(k)]
      PROVE  \E w : /\ Turn(p, w) /\ w.rollback = agent[p].rollback
                    /\ w.refused = agent[p].refused
                    /\ Resumes(agent[p], w, "truncate") /\ w.kept = Without(k)
  <2> DEFINE w == [agent[p] EXCEPT !.pc = "truncate", !.kept = Without(k)]
  <2>1. Without(k) \in Seq(Entry)
    BY <1>1, WithoutLine
  <2>2. /\ w \in Agent /\ w.rollback = agent[p].rollback /\ w.refused = agent[p].refused
        /\ Resumes(agent[p], w, "truncate") /\ w.kept = Without(k)
    BY <1>1, <2>1 DEF Agent, Stages, Resumes
  <2>3. agent' = [agent EXCEPT ![p] = w]
    BY <1>3 DEF TriageTypeOK
  <2> QED BY <2>2, <2>3 DEF Turn
<1>4. ASSUME agent[p].id \notin LoggedIds, To(p, "unlock")
      PROVE  \E w : Turn(p, w) /\ Resumes(agent[p], w, "unlock") /\ Keeps(agent[p], w)
  BY <1>4, AgentGoes DEF Stages
<1>5. Ids(log) = LoggedIds
  BY DEF Ids, LoggedIds
<1>6. CASE \E k \in DOMAIN log :
             /\ log[k].id = agent[p].id
             /\ agent' = [agent EXCEPT ![p].pc = "truncate", ![p].kept = Without(k)]
  BY <1>2, <1>3, <1>6
<1>7. CASE agent[p].id \notin LoggedIds /\ To(p, "unlock")
  BY <1>2, <1>4, <1>5, <1>7 DEF Keeps
<1> QED BY <1>6, <1>7 DEF ReadLog

LEMMA TruncateLogTurn ==
  ASSUME TriageTypeOK, NEW p \in Triagers, TruncateLog(p)
  PROVE  /\ agent[p].pc = "truncate" /\ log' = <<>>
         /\ UNCHANGED <<briefs, upstream, sidecar, clock, started, history>>
         /\ \E w : Turn(p, w) /\ Resumes(agent[p], w, "write_back") /\ Keeps(agent[p], w)
BY AgentGoes DEF TruncateLog, At, Stages

LEMMA WriteBackTurn ==
  ASSUME TriageTypeOK, NEW p \in Triagers, WriteBack(p)
  PROVE  /\ agent[p].pc = "write_back" /\ log' = agent[p].kept
         /\ recorded' = recorded \ {agent[p].id}
         /\ UNCHANGED <<briefs, upstream, sidecar, clock, started, excused, stray, unheard,
                        breached, torn>>
         /\ \E w : /\ Turn(p, w) /\ Resumes(agent[p], w, "unlock") /\ w.kept = <<>>
                   /\ w.rollback = agent[p].rollback /\ w.refused = agent[p].refused
<1>1. agent[p] \in Agent
  BY DEF TriageTypeOK
<1> DEFINE w == [agent[p] EXCEPT !.pc = "unlock", !.kept = <<>>]
<1>2. /\ w \in Agent /\ Resumes(agent[p], w, "unlock") /\ w.kept = <<>>
      /\ w.rollback = agent[p].rollback /\ w.refused = agent[p].refused
  <2>1. <<>> \in Seq(Entry)
    OBVIOUS
  <2> QED BY <1>1, <2>1 DEF Agent, Stages, Resumes
<1>3. agent' = [agent EXCEPT ![p] = w]
  BY DEF WriteBack, TriageTypeOK
<1> QED BY <1>2, <1>3 DEF Turn, WriteBack, At

LEMMA KillAgentTurn ==
  ASSUME TriageTypeOK, NEW p \in Triagers, KillAgent(p)
  PROVE  /\ agent[p].pc # "idle" /\ excused' = excused \cup {agent[p].id}
         /\ torn' = (torn \/ agent[p].pc = "write_back")
         /\ UNCHANGED <<log, briefs, upstream, sidecar, clock, started, recorded, stray,
                        unheard, breached>>
         /\ \E w : Turn(p, w) /\ Leaves(w)
BY ComesToRest DEF KillAgent, At, files

(* A step is that of one process.                                          *)
Step(p) ==
  \/ \E i \in Issues, d \in Decisions : StartDecision(p, i, d)
  \/ \E d \in Decisions, again \in BOOLEAN : StartBulk(p, d, again)
  \/ CheckRepeat(p) \/ OpenSidecar(p) \/ StatSidecar(p) \/ TakeLock(p) \/ AppendEntry(p)
  \/ Unlock(p) \/ Unlink(p) \/ Ingest(p) \/ CloseIssue(p) \/ LabelIssue(p)
  \/ ReadLog(p) \/ TruncateLog(p) \/ WriteBack(p) \/ KillAgent(p)

LEMMA OneSteps == TriageNext => \E p \in Triagers : Step(p)
<1>1. Tried \subseteq Decisions
  BY TriageAssumption DEF Decisions, Terminal, InProgress
<1>2. ASSUME NEW p \in Triagers, Deciding(p) \/ Locking(p) \/ RollingBack(p) \/ KillAgent(p)
      PROVE  Step(p)
  BY <1>1, <1>2 DEF Deciding, Locking, RollingBack, Step
<1> QED BY <1>2 DEF TriageNext

-----------------------------------------------------------------------------
(* Types                                                                   *)

LEMMA TriageTypesKept ==
  ASSUME TriageTypeOK, Known, NEW p \in Triagers, Step(p)
  PROVE  TriageTypeOK'
<1> USE DEF history
<1>0. /\ agent[p] \in Agent /\ log \in Seq(Entry)
      /\ agent[p].pc # "idle" => agent[p].issue \in Issues
      /\ agent[p].id \in Nat /\ agent[p].kept \in Seq(Entry) /\ started + 1 \in Nat
  BY DEF TriageTypeOK, Known, Private, Agent
<1>1. ASSUME NEW w, Turn(p, w), log' \in Seq(Entry), briefs' \subseteq Issues,
             upstream' \in [Issues -> {"open", "closed", "labelled"}],
             sidecar' \in Nat, clock' \in Nat, started' \in Nat, recorded' \subseteq Nat,
             excused' \subseteq Nat, stray' \subseteq Nat, unheard' \subseteq Issues,
             breached' \in BOOLEAN, torn' \in BOOLEAN
      PROVE  TriageTypeOK'
  BY <1>1, TurnTaken DEF TriageTypeOK
<1>2. /\ briefs \subseteq Issues /\ upstream \in [Issues -> {"open", "closed", "labelled"}]
      /\ sidecar \in Nat /\ clock \in Nat /\ started \in Nat /\ recorded \subseteq Nat
      /\ excused \subseteq Nat /\ stray \subseteq Nat /\ unheard \subseteq Issues
      /\ breached \in BOOLEAN /\ torn \in BOOLEAN
  BY DEF TriageTypeOK
<1>3. ASSUME NEW i \in Issues, NEW d \in Decisions, StartDecision(p, i, d)
      PROVE  TriageTypeOK'
  <2>1. PICK w : Turn(p, w)
    BY <1>3, StartDecisionTurn
  <2>2. started' = started + 1 /\ UNCHANGED <<log, briefs, upstream, sidecar, clock, recorded,
                                              excused, stray, unheard, breached, torn>>
    BY <1>3, StartDecisionTurn
  <2> QED BY <1>0, <1>1, <1>2, <2>1, <2>2
<1>4. ASSUME NEW d \in Decisions, NEW again \in BOOLEAN, StartBulk(p, d, again)
      PROVE  TriageTypeOK'
  BY <1>0, <1>1, <1>2, <1>4, StartBulkTurn
<1>5. ASSUME CheckRepeat(p) PROVE TriageTypeOK'
  BY <1>0, <1>1, <1>2, <1>5, CheckRepeatTurn
<1>6. ASSUME OpenSidecar(p) PROVE TriageTypeOK'
  BY <1>0, <1>1, <1>2, <1>6, OpenSidecarTurn
<1>7. ASSUME StatSidecar(p) PROVE TriageTypeOK'
  BY <1>0, <1>1, <1>2, <1>7, StatSidecarTurn
<1>8. ASSUME TakeLock(p) PROVE TriageTypeOK'
  BY <1>0, <1>1, <1>2, <1>8, TakeLockTurn
<1>9. ASSUME AppendEntry(p) PROVE TriageTypeOK'
  <2>1. [id |-> agent[p].id, issue |-> agent[p].issue, decision |-> agent[p].decision,
         at |-> agent[p].at] \in Entry
    BY <1>0, <1>9, AppendEntryTurn DEF Agent, Entry
  <2>2. log' \in Seq(Entry)
    BY <1>0, <1>9, <2>1, AppendEntryTurn
  <2> QED BY <1>0, <1>1, <1>2, <1>9, <2>2, AppendEntryTurn
<1>10. ASSUME Unlock(p) PROVE TriageTypeOK'
  BY <1>0, <1>1, <1>2, <1>10, UnlockTurn
<1>11. ASSUME Unlink(p) PROVE TriageTypeOK'
  <2>1. excused' \subseteq Nat /\ stray' = stray
    BY <1>0, <1>2, <1>11, UnlinkTurn
  <2>2. /\ sidecar' = 0
        /\ UNCHANGED <<log, briefs, upstream, clock, started, recorded, unheard, breached, torn>>
    BY <1>11, UnlinkTurn
  <2>3. PICK w : Turn(p, w)
    BY <1>11, UnlinkTurn
  <2> QED BY <1>0, <1>1, <1>2, <2>1, <2>2, <2>3
<1>12. ASSUME Ingest(p) PROVE TriageTypeOK'
  <2>1. briefs' \subseteq Issues
    BY <1>0, <1>2, <1>12, IngestTurn
  <2> QED BY <1>0, <1>1, <1>2, <1>12, <2>1, IngestTurn
<1>13. ASSUME CloseIssue(p) PROVE TriageTypeOK'
  <2>1. agent[p].issue \in Issues
    BY <1>0, <1>13 DEF CloseIssue, At
  <2>2. unheard' \subseteq Issues
    BY <1>2, <1>13, <2>1, CloseIssueTurn
  <2> QED BY <1>0, <1>1, <1>2, <1>13, <2>1, <2>2, CloseIssueTurn
<1>14. ASSUME LabelIssue(p) PROVE TriageTypeOK'
  <2>1. upstream' \in [Issues -> {"open", "closed", "labelled"}]
    BY <1>2, <1>14, LabelIssueTurn
  <2> QED BY <1>0, <1>1, <1>2, <1>14, <2>1, LabelIssueTurn
<1>15. ASSUME ReadLog(p) PROVE TriageTypeOK'
  BY <1>0, <1>1, <1>2, <1>15, ReadLogTurn
<1>16. ASSUME TruncateLog(p) PROVE TriageTypeOK'
  <2>1. <<>> \in Seq(Entry)
    OBVIOUS
  <2> QED BY <1>0, <1>1, <1>2, <1>16, <2>1, TruncateLogTurn
<1>17. ASSUME WriteBack(p) PROVE TriageTypeOK'
  BY <1>0, <1>1, <1>2, <1>17, WriteBackTurn
<1>18. ASSUME KillAgent(p) PROVE TriageTypeOK'
  <2>1. excused' \subseteq Nat /\ stray' = stray /\ torn' \in BOOLEAN
    BY <1>0, <1>2, <1>18, KillAgentTurn
  <2> QED BY <1>0, <1>1, <1>2, <1>18, <2>1, KillAgentTurn
<1> QED BY <1>3, <1>4, <1>5, <1>6, <1>7, <1>8, <1>9, <1>10, <1>11, <1>12, <1>13, <1>14,
           <1>15, <1>16, <1>17, <1>18 DEF Step

-----------------------------------------------------------------------------
(* What the processes know                                                 *)

LEMMA OthersKnow ==
  ASSUME TriageTypeOK, Known, OwnIds, NEW p \in Triagers, NEW w, Turn(p, w),
         started' \in {started, started + 1},
         \A i \in Issues : upstream[i] # "open" => upstream'[i] # "open",
         recorded \subseteq recorded'
           \/ (p \in Running /\ recorded \ {agent[p].id} \subseteq recorded'),
         Private(w)'
  PROVE  Known'
<1>1. agent' \in [Triagers -> Agent] /\ agent'[p] = w
      /\ \A q \in Triagers : q # p => agent'[q] = agent[q]
  BY TurnTaken
<1>2. ASSUME NEW q \in Triagers, q # p, NEW b, b = agent[q] PROVE Private(b)'
  <2>1. Private(b) /\ started \in Nat
    BY <1>2 DEF Known, TriageTypeOK
  <2>2. PastAppend(b) => b.pc # "idle"
    BY DEF PastAppend
  <2>3. p \in Running /\ b.pc # "idle" => b.id # agent[p].id
    BY <1>2 DEF OwnIds, Running
  <2>4. PastAppend(b) => b.id \in recorded'
    BY <2>1, <2>2, <2>3 DEF Private
  <2> QED BY <2>1, <2>4 DEF Private
<1>3. ASSUME NEW q \in Triagers PROVE Private(agent[q])'
  <2>1. CASE q = p
    BY <1>1, <2>1 DEF Private
  <2>2. CASE q # p
    <3>1. PICK b : b = agent[q]
      OBVIOUS
    <3>2. Private(b)' /\ agent'[q] = b
      BY <1>1, <1>2, <2>2, <3>1
    <3> QED BY <3>2 DEF Private
  <2> QED BY <2>1, <2>2
<1> QED BY <1>3 DEF Known

LEMMA KnownKept ==
  ASSUME TriageTypeOK, Known, OwnIds, NEW p \in Triagers, Step(p)
  PROVE  Known'
<1> USE DEF history
<1>0. PICK a : a = agent[p]
  OBVIOUS
<1>1. Private(a) /\ started \in Nat /\ a \in Agent
  BY <1>0 DEF Known, TriageTypeOK
<1>2. ASSUME NEW w, Turn(p, w), started' = started, Private(w)',
             \A i \in Issues : upstream[i] # "open" => upstream'[i] # "open",
             recorded \subseteq recorded'
               \/ (p \in Running /\ recorded \ {agent[p].id} \subseteq recorded')
      PROVE  Known'
  BY <1>1, <1>2, OthersKnow
<1>3. ASSUME NEW w, Leaves(w) PROVE Private(w)'
  BY <1>3 DEF Leaves, Private, PastAppend
<1>4. ASSUME NEW i \in Issues, NEW d \in Decisions, StartDecision(p, i, d)
      PROVE  Known'
  <2>1. PICK w : /\ Turn(p, w) /\ w.pc = "check" /\ w.id = started + 1 /\ w.issue = i
                 /\ w.decision = d /\ ~w.rollback /\ ~w.refused /\ w.kept = <<>>
    BY <1>4, StartDecisionTurn
  <2>2. started' = started + 1 /\ upstream' = upstream /\ recorded' = recorded
    BY <1>4, StartDecisionTurn
  <2>3. Private(w)'
    BY <1>1, <2>1, <2>2 DEF Private, PastAppend
  <2> QED BY <2>1, <2>2, <2>3, OthersKnow
<1>5. ASSUME NEW d \in Decisions, NEW again \in BOOLEAN, StartBulk(p, d, again)
      PROVE  Known'
  BY <1>2, <1>3, <1>5, StartBulkTurn
<1>6. ASSUME CheckRepeat(p) PROVE Known'
  <2>1. ASSUME NEW w, Turn(p, w), Resumes(a, w, "open"), Keeps(a, w) PROVE Known'
    <3>1. Private(w)'
      BY <1>0, <1>1, <1>6, <2>1, CheckRepeatTurn DEF Private, PastAppend, Resumes, Keeps
    <3> QED BY <1>2, <1>6, <2>1, <3>1, CheckRepeatTurn
  <2> QED BY <1>0, <1>2, <1>3, <1>6, <2>1, CheckRepeatTurn
<1>7. ASSUME OpenSidecar(p) PROVE Known'
  <2>1. PICK w : Turn(p, w) /\ Resumes(a, w, "stat") /\ Keeps(a, w)
    BY <1>0, <1>7, OpenSidecarTurn
  <2>2. Private(w)'
    BY <1>0, <1>1, <1>7, <2>1, OpenSidecarTurn DEF Private, PastAppend, Resumes, Keeps
  <2> QED BY <1>2, <1>7, <2>1, <2>2, OpenSidecarTurn
<1>8. ASSUME StatSidecar(p) PROVE Known'
  <2>1. PICK w : /\ Turn(p, w) /\ w.rollback = a.rollback /\ w.kept = a.kept
                 /\ \/ Resumes(a, w, "lock") /\ w.refused = a.refused
                    \/ Resumes(a, w, "unlink") /\ w.refused
    BY <1>0, <1>8, StatSidecarTurn
  <2>2. Private(w)'
    BY <1>0, <1>1, <1>8, <2>1, StatSidecarTurn DEF Private, PastAppend, Resumes
  <2> QED BY <1>2, <1>8, <2>1, <2>2, StatSidecarTurn
<1>9. ASSUME TakeLock(p) PROVE Known'
  <2>1. PICK w : /\ Turn(p, w) /\ Keeps(a, w)
                 /\ IF a.rollback THEN Resumes(a, w, "read") ELSE Resumes(a, w, "append")
    BY <1>0, <1>9, TakeLockTurn
  <2>2. Private(w)'
    BY <1>0, <1>1, <1>9, <2>1, TakeLockTurn DEF Private, PastAppend, Resumes, Keeps
  <2> QED BY <1>2, <1>9, <2>1, <2>2, TakeLockTurn
<1>10. ASSUME AppendEntry(p) PROVE Known'
  <2>1. PICK w : Turn(p, w) /\ Resumes(a, w, "unlock") /\ Keeps(a, w)
    BY <1>0, <1>10, AppendEntryTurn
  <2>2. recorded' = recorded \cup {a.id} /\ started' = started /\ upstream' = upstream
        /\ a.pc = "append"
    BY <1>0, <1>10, AppendEntryTurn
  <2>3. Private(w)'
    BY <1>1, <2>1, <2>2 DEF Private, PastAppend, Resumes, Keeps
  <2> QED BY <1>2, <2>1, <2>2, <2>3
<1>11. ASSUME Unlock(p) PROVE Known'
  <2>1. PICK w : Turn(p, w) /\ Resumes(a, w, "unlink") /\ Keeps(a, w)
    BY <1>0, <1>11, UnlockTurn
  <2>2. Private(w)'
    BY <1>0, <1>1, <1>11, <2>1, UnlockTurn DEF Private, PastAppend, Resumes, Keeps
  <2> QED BY <1>2, <1>11, <2>1, <2>2, UnlockTurn
<1>12. ASSUME Unlink(p) PROVE Known'
  <2>1. ASSUME NEW w, Turn(p, w), ~a.refused, ~a.rollback, Keeps(a, w),
               \/ a.decision = "accept" /\ Resumes(a, w, "ingest")
               \/ a.decision = "reject" /\ Resumes(a, w, "close")
        PROVE  Known'
    <3>1. Private(w)'
      BY <1>0, <1>1, <1>12, <2>1, UnlinkTurn DEF Private, PastAppend, Resumes, Keeps
    <3> QED BY <1>2, <1>12, <2>1, <3>1, UnlinkTurn
  <2> QED BY <1>0, <1>2, <1>3, <1>12, <2>1, UnlinkTurn
<1>13. ASSUME Ingest(p) PROVE Known'
  <2>1. ASSUME NEW w, Turn(p, w), Resumes(a, w, "open"), w.rollback, w.refused = a.refused,
               w.kept = a.kept
        PROVE  Known'
    <3>1. Private(w)'
      BY <1>0, <1>1, <1>13, <2>1, IngestTurn DEF Private, PastAppend, Resumes
    <3> QED BY <1>2, <1>13, <2>1, <3>1, IngestTurn
  <2> QED BY <1>0, <1>2, <1>3, <1>13, <2>1, IngestTurn
<1>14. ASSUME CloseIssue(p) PROVE Known'
  <2>0. a.issue \in Issues /\ a.pc = "close"
    BY <1>0, <1>1, <1>14 DEF CloseIssue, At, Private
  <2>1. /\ started' = started /\ recorded' = recorded
        /\ \A i \in Issues : upstream[i] # "open" => upstream'[i] # "open"
    BY <1>0, <1>14, <2>0, CloseIssueTurn
  <2>2. PICK w : /\ Turn(p, w)
                 /\ \/ /\ Resumes(a, w, "label") /\ Keeps(a, w)
                       /\ upstream'[a.issue] # "open"
                    \/ /\ Resumes(a, w, "open") /\ w.rollback
                       /\ w.refused = a.refused /\ w.kept = a.kept
                    \/ Leaves(w)
    BY <1>0, <1>14, <2>0, CloseIssueTurn
  <2>3. Private(w)'
    <3>1. CASE Leaves(w)
      BY <1>3, <3>1
    <3>2. CASE ~Leaves(w)
      BY <1>1, <2>0, <2>1, <2>2, <3>2 DEF Private, PastAppend, Resumes, Keeps
    <3> QED BY <3>1, <3>2
  <2> QED BY <1>2, <2>1, <2>2, <2>3
<1>15. ASSUME LabelIssue(p) PROVE Known'
  <2>1. \A i \in Issues : upstream[i] # "open" => upstream'[i] # "open"
    BY <1>15, LabelIssueTurn DEF TriageTypeOK
  <2> QED BY <1>2, <1>3, <1>15, <2>1, LabelIssueTurn
<1>16. ASSUME ReadLog(p) PROVE Known'
  <2>1. PICK w : /\ Turn(p, w) /\ w.rollback = a.rollback /\ w.refused = a.refused
                 /\ \/ Resumes(a, w, "truncate")
                    \/ Resumes(a, w, "unlock") /\ w.kept = a.kept
    BY <1>0, <1>16, ReadLogTurn
  <2>2. Private(w)'
    BY <1>0, <1>1, <1>16, <2>1, ReadLogTurn DEF Private, PastAppend, Resumes
  <2> QED BY <1>2, <1>16, <2>1, <2>2, ReadLogTurn
<1>17. ASSUME TruncateLog(p) PROVE Known'
  <2>1. PICK w : Turn(p, w) /\ Resumes(a, w, "write_back") /\ Keeps(a, w)
    BY <1>0, <1>17, TruncateLogTurn
  <2>2. Private(w)'
    BY <1>0, <1>1, <1>17, <2>1, TruncateLogTurn DEF Private, PastAppend, Resumes, Keeps
  <2> QED BY <1>2, <1>17, <2>1, <2>2, TruncateLogTurn
<1>18. ASSUME WriteBack(p) PROVE Known'
  <2>1. PICK w : /\ Turn(p, w) /\ Resumes(a, w, "unlock") /\ w.kept = <<>>
                 /\ w.rollback = a.rollback /\ w.refused = a.refused
    BY <1>0, <1>18, WriteBackTurn
  <2>2. /\ a.pc = "write_back" /\ started' = started /\ upstream' = upstream
        /\ recorded' = recorded \ {agent[p].id}
    BY <1>0, <1>18, WriteBackTurn
  <2>3. Private(w)'
    BY <1>1, <2>1, <2>2 DEF Private, PastAppend, Resumes
  <2>4. p \in Running
    BY <1>0, <2>2 DEF Running
  <2> QED BY <1>2, <2>1, <2>2, <2>3, <2>4
<1>19. ASSUME KillAgent(p) PROVE Known'
  BY <1>2, <1>3, <1>19, KillAgentTurn
<1> QED BY <1>4, <1>5, <1>6, <1>7, <1>8, <1>9, <1>10, <1>11, <1>12, <1>13, <1>14,
           <1>15, <1>16, <1>17, <1>18, <1>19 DEF Step

-----------------------------------------------------------------------------
(* The commands and the lock                                               *)

LEMMA Shape ==
  ASSUME TriageTypeOK, Known, NEW p \in Triagers, Step(p)
  PROVE  /\ breached => breached'
         /\ \E w : /\ Turn(p, w)
                   /\ \/ Leaves(w) /\ started' = started
                      \/ w.pc = "check" /\ w.id = started + 1 /\ started' = started + 1
                      \/ /\ started' = started /\ agent[p].pc # "idle" /\ w.pc # "idle"
                         /\ w.id = agent[p].id /\ w.issue = agent[p].issue
                         /\ w.decision = agent[p].decision
                         /\ w.pc \in Holding =>
                              agent[p].pc \in Holding \/ Holders = {} \/ breached'
<1> USE DEF history
<1>0. agent[p].pc = "close" => agent[p].issue \in Issues
  BY DEF Known, Private
<1>1. CASE \E i \in Issues, d \in Decisions : StartDecision(p, i, d)
  <2>1. PICK i \in Issues, d \in Decisions : StartDecision(p, i, d)
    BY <1>1
  <2>2. PICK w : Turn(p, w) /\ w.pc = "check" /\ w.id = started + 1
    BY <2>1, StartDecisionTurn
  <2>3. started' = started + 1 /\ breached' = breached
    BY <2>1, StartDecisionTurn
  <2> QED BY <2>2, <2>3
<1>2. CASE \E d \in Decisions, again \in BOOLEAN : StartBulk(p, d, again)
  BY <1>2, StartBulkTurn
<1>3. CASE CheckRepeat(p) \/ OpenSidecar(p) \/ StatSidecar(p)
  BY <1>3, CheckRepeatTurn, OpenSidecarTurn, StatSidecarTurn DEF Resumes, Holding
<1>4. CASE TakeLock(p)
  BY <1>4, TakeLockTurn DEF Resumes
<1>5. CASE AppendEntry(p) \/ Unlock(p) \/ TruncateLog(p)
  BY <1>5, AppendEntryTurn, UnlockTurn, TruncateLogTurn DEF Resumes, Holding
<1>6. CASE Unlink(p)
  BY <1>6, UnlinkTurn DEF Resumes, Holding
<1>7. CASE Ingest(p) \/ LabelIssue(p) \/ KillAgent(p)
  BY <1>7, IngestTurn, LabelIssueTurn, KillAgentTurn DEF Resumes, Holding
<1>8. CASE CloseIssue(p)
  <2>1. agent[p].issue \in Issues
    BY <1>0, <1>8 DEF CloseIssue, At
  <2> QED BY <1>8, <2>1, CloseIssueTurn DEF Resumes, Holding
<1>9. CASE ReadLog(p)
  BY <1>9, ReadLogTurn DEF Resumes, Holding
<1>10. CASE WriteBack(p)
  BY <1>10, WriteBackTurn DEF Resumes, Holding
<1> QED BY <1>1, <1>2, <1>3, <1>4, <1>5, <1>6, <1>7, <1>8, <1>9, <1>10 DEF Step

LEMMA NumberedKept ==
  ASSUME TriageTypeOK, Known, OwnIds, NEW p \in Triagers, Step(p)
  PROVE  OwnIds'
<1>1. PICK w : /\ Turn(p, w)
               /\ \/ w.pc = "idle"
                  \/ w.id = started + 1
                  \/ agent[p].pc # "idle" /\ w.id = agent[p].id
  BY Shape DEF Leaves
<1>2. agent' \in [Triagers -> Agent] /\ agent'[p] = w
      /\ \A q \in Triagers : q # p => agent'[q] = agent[q]
  BY <1>1, TurnTaken
<1>3. started \in Nat /\ \A q \in Running : agent[q].id \in 1..started
  BY DEF TriageTypeOK, Known, Private, Running
<1>4. ASSUME NEW q \in Running', NEW r \in Running', agent'[q].id = agent'[r].id, q # r
      PROVE  FALSE
  <2>1. q \in Triagers /\ r \in Triagers /\ agent'[q].pc # "idle" /\ agent'[r].pc # "idle"
    BY DEF Running
  <2>2. CASE q # p /\ r # p
    BY <1>2, <1>4, <2>1, <2>2 DEF OwnIds, Running
  <2>3. CASE q = p
    BY <1>1, <1>2, <1>3, <1>4, <2>1, <2>3 DEF OwnIds, Running
  <2>4. CASE r = p
    BY <1>1, <1>2, <1>3, <1>4, <2>1, <2>4 DEF OwnIds, Running
  <2> QED BY <2>2, <2>3, <2>4
<1> QED BY <1>4 DEF OwnIds

LEMMA ExclusiveKept ==
  ASSUME TriageTypeOK, Known, OneHolder, NEW p \in Triagers, Step(p)
  PROVE  OneHolder'
<1>1. PICK w : /\ Turn(p, w)
               /\ w.pc \in Holding => agent[p].pc \in Holding \/ Holders = {} \/ breached'
  BY Shape DEF Leaves, Holding
<1>2. agent' \in [Triagers -> Agent] /\ agent'[p] = w
      /\ \A q \in Triagers : q # p => agent'[q] = agent[q]
  BY <1>1, TurnTaken
<1>3. breached => breached'
  BY Shape
<1> QED BY <1>1, <1>2, <1>3 DEF OneHolder, Holders

-----------------------------------------------------------------------------
(* The lines                                                               *)

LEMMA LineAdded ==
  ASSUME NEW s \in Seq(Entry), NEW e \in Entry
  PROVE  /\ Append(s, e) \in Seq(Entry)
         /\ Members(Append(s, e)) = Members(s) \cup {e}
         /\ Ids(Append(s, e)) = Ids(s) \cup {e.id}
         /\ Distinct(s) /\ e.id \notin Ids(s) => Distinct(Append(s, e))
<1> DEFINE n == Len(s)
           t == Append(s, e)
<1>1. /\ n \in Nat /\ DOMAIN s = 1..n /\ DOMAIN t = 1..(n + 1)
      /\ \A k \in 1..n : t[k] = s[k]
      /\ t[n + 1] = e /\ t \in Seq(Entry)
  OBVIOUS
<1> HIDE DEF n, t
<1>2. Members(t) = Members(s) \cup {e} /\ Ids(t) = Ids(s) \cup {e.id}
  BY <1>1 DEF Members, Ids
<1>3. Distinct(s) /\ e.id \notin Ids(s) => Distinct(t)
  BY <1>1 DEF Distinct, Ids
<1> QED BY <1>1, <1>2, <1>3 DEF t

LEMMA NoLines == Members(<<>>) = {} /\ Ids(<<>>) = {} /\ Distinct(<<>>)
BY DEF Members, Ids, Distinct

LEMMA IdsOfMembers == ASSUME NEW s PROVE \A e \in Members(s) : e.id \in Ids(s)
BY DEF Members, Ids

LEMMA MembersOfIds == ASSUME NEW s PROVE \A id \in Ids(s) : \E e \in Members(s) : e.id = id
BY DEF Members, Ids

LEMMA WrittenAfter ==
  ASSUME TriageTypeOK, NEW p \in Triagers, NEW w, Turn(p, w)
  PROVE  EverWritten' = Members(log') \cup Members(w.kept)
                      \cup UNION {Members(agent[q].kept) : q \in Triagers \ {p}}
<1>1. agent' \in [Triagers -> Agent] /\ agent'[p] = w
      /\ \A q \in Triagers : q # p => agent'[q] = agent[q]
  BY TurnTaken
<1>2. UNION {Members(agent[q].kept)' : q \in Triagers}
        = Members(w.kept) \cup UNION {Members(agent[q].kept) : q \in Triagers \ {p}}
  BY <1>1 DEF Members
<1> QED BY <1>2 DEF EverWritten, Members

LEMMA OwnedAfter ==
  ASSUME TriageTypeOK, Known, OwnIds, Owned, NEW p \in Triagers, NEW w, Turn(p, w),
         started' \in {started, started + 1},
         \A e \in EverWritten' : e \in EverWritten \/ (p \in Running /\ e.id = agent[p].id),
         Distinct(log'), Distinct(w.kept),
         w.pc # "idle" => \A e \in EverWritten' : e.id = w.id =>
           e.issue = w.issue /\ e.decision = w.decision /\ ~Outside(w),
         \A e \in Members(w.kept) : e.id # w.id
  PROVE  Owned'
<1>1. agent' \in [Triagers -> Agent] /\ agent'[p] = w
      /\ \A q \in Triagers : q # p => agent'[q] = agent[q]
  BY TurnTaken
<1>2. started \in Nat /\ \A q \in Running : agent[q].id \in 1..started
  BY DEF TriageTypeOK, Known, Private, Running
<1>3. \A e \in EverWritten' : e.id \in 1..started'
  BY <1>2 DEF Owned
<1>4. ASSUME NEW q \in Running', NEW e \in EverWritten', e.id = agent'[q].id
      PROVE  e.issue = agent'[q].issue /\ e.decision = agent'[q].decision /\ ~Outside(agent'[q])
  <2>1. q \in Triagers /\ agent'[q].pc # "idle"
    BY DEF Running
  <2>2. CASE q = p
    BY <1>1, <1>4, <2>1, <2>2
  <2>3. CASE q # p
    <3>1. agent'[q] = agent[q] /\ q \in Running
      BY <1>1, <2>1, <2>3 DEF Running
    <3>2. e \in EverWritten
      BY <1>4, <2>3, <3>1 DEF OwnIds
    <3> QED BY <1>4, <3>1, <3>2 DEF Owned
  <2> QED BY <2>2, <2>3
<1>5. \A q \in Triagers : Distinct(agent'[q].kept)
                          /\ \A e \in Members(agent'[q].kept) : e.id # agent'[q].id
  BY <1>1 DEF Owned
<1>6. Distinct(log)' /\ \A q \in Triagers : Distinct(agent[q].kept)'
                       /\ \A e \in Members(agent[q].kept)' : e.id # agent'[q].id
  BY <1>5 DEF Distinct, Members
<1>7. \A q \in Running' : \A e \in EverWritten' : e.id = agent'[q].id =>
        e.issue = agent'[q].issue /\ e.decision = agent'[q].decision /\ ~Outside(agent[q])'
  BY <1>4 DEF Outside
<1> QED BY <1>3, <1>6, <1>7 DEF Owned

(* The holder of the lock is the only one that rewrites the log.           *)
LEMMA OnlyHolderRewrites ==
  ASSUME Known, OneHolder, ~breached, NEW p \in Triagers, agent[p].pc \in Holding
  PROVE  /\ \A q \in Triagers : q # p => agent[q].pc \notin Holding /\ agent[q].kept = <<>>
         /\ UNION {Members(agent[q].kept) : q \in Triagers \ {p}} = {}
<1>1. \A q \in Triagers : q # p => agent[q].pc \notin Holding /\ agent[q].kept = <<>>
  BY DEF OneHolder, Holders, Known, Private, Holding
<1> QED BY <1>1, NoLines

LEMMA OwnedKept ==
  ASSUME TriageTypeOK, Known, OwnIds, OneHolder, Owned, ~breached',
         NEW p \in Triagers, Step(p)
  PROVE  Owned'
<1> USE DEF history
<1>0. PICK a : a = agent[p]
  OBVIOUS
<1>1. /\ Private(a) /\ started \in Nat /\ a \in Agent /\ ~breached /\ log \in Seq(Entry)
      /\ Distinct(log) /\ Distinct(a.kept) /\ \A e \in Members(a.kept) : e.id # a.id
      /\ \A e \in EverWritten : e.id \in 1..started
      /\ a.pc # "idle" => \A e \in EverWritten : e.id = a.id =>
           e.issue = a.issue /\ e.decision = a.decision /\ ~Outside(a)
  BY <1>0, Shape DEF Known, TriageTypeOK, Owned, Running
<1>2. EverWritten = Members(log) \cup Members(a.kept)
                  \cup UNION {Members(agent[q].kept) : q \in Triagers \ {p}}
  BY <1>0 DEF EverWritten
<1>3. ASSUME NEW w, Turn(p, w), Leaves(w), log' = log, started' = started PROVE Owned'
  <2>1. EverWritten' \subseteq EverWritten
    BY <1>2, <1>3, WrittenAfter, NoLines DEF Leaves
  <2> QED BY <1>1, <1>3, <2>1, NoLines, OwnedAfter DEF Leaves
<1>4. ASSUME NEW w, Turn(p, w), log' = log \/ log' = <<>>, started' = started, a.pc # "idle",
             w.id = a.id, w.issue = a.issue, w.decision = a.decision, w.kept = a.kept,
             Outside(w) => Outside(a)
      PROVE  Owned'
  <2>1. EverWritten' \subseteq EverWritten
    BY <1>2, <1>4, WrittenAfter, NoLines
  <2> QED BY <1>1, <1>4, <2>1, NoLines, OwnedAfter
<1>5. ASSUME NEW i \in Issues, NEW d \in Decisions, StartDecision(p, i, d)
      PROVE  Owned'
  <2>1. PICK w : Turn(p, w) /\ w.id = started + 1 /\ w.kept = <<>>
    BY <1>5, StartDecisionTurn
  <2>2. started' = started + 1 /\ log' = log
    BY <1>5, StartDecisionTurn
  <2>3. EverWritten' \subseteq EverWritten
    BY <1>2, <2>1, <2>2, WrittenAfter, NoLines
  <2> QED BY <1>1, <2>1, <2>2, <2>3, NoLines, OwnedAfter
<1>6. ASSUME NEW d \in Decisions, NEW again \in BOOLEAN, StartBulk(p, d, again)
      PROVE  Owned'
  BY <1>3, <1>6, StartBulkTurn
<1>7. ASSUME CheckRepeat(p) PROVE Owned'
  BY <1>0, <1>1, <1>3, <1>4, <1>7, CheckRepeatTurn DEF Resumes, Keeps, Outside
<1>8. ASSUME OpenSidecar(p) PROVE Owned'
  BY <1>0, <1>1, <1>4, <1>8, OpenSidecarTurn DEF Resumes, Keeps, Outside
<1>9. ASSUME StatSidecar(p) PROVE Owned'
  BY <1>0, <1>1, <1>4, <1>9, StatSidecarTurn DEF Resumes, Outside
<1>10. ASSUME TakeLock(p) PROVE Owned'
  BY <1>0, <1>1, <1>4, <1>10, TakeLockTurn DEF Resumes, Keeps, Outside
<1>11. ASSUME AppendEntry(p) PROVE Owned'
  <2> DEFINE e == [id |-> a.id, issue |-> a.issue, decision |-> a.decision, at |-> a.at]
  <2>1. PICK w : Turn(p, w) /\ Resumes(a, w, "unlock") /\ Keeps(a, w)
    BY <1>0, <1>11, AppendEntryTurn
  <2>2. a.pc = "append" /\ log' = Append(log, e) /\ started' = started
    BY <1>0, <1>11, AppendEntryTurn
  <2>3. ~a.rollback /\ ~a.refused /\ a.issue \in Issues /\ a.id \in 1..started /\ e \in Entry
    BY <1>1, <2>2 DEF Private, Agent, Entry
  <2>4. e.id \notin Ids(log)
    BY <1>1, <1>2, <2>2, <2>3, MembersOfIds DEF Outside
  <2>5. Members(log') = Members(log) \cup {e} /\ Distinct(log')
    BY <1>1, <2>2, <2>3, <2>4, LineAdded
  <2>6. EverWritten' = EverWritten \cup {e}
    BY <1>2, <2>1, <2>5, WrittenAfter DEF Keeps
  <2>7. p \in Running
    BY <1>0, <2>2 DEF Running
  <2>8. ~Outside(w)
    BY <2>1, <2>3 DEF Outside, Resumes, Keeps
  <2>9. \A x \in EverWritten' : x.id = w.id => x.issue = w.issue /\ x.decision = w.decision
    BY <1>1, <2>1, <2>2, <2>6 DEF Resumes
  <2> QED BY <1>0, <1>1, <2>1, <2>2, <2>5, <2>6, <2>7, <2>8, <2>9, OwnedAfter DEF Resumes, Keeps
<1>12. ASSUME Unlock(p) PROVE Owned'
  BY <1>0, <1>1, <1>4, <1>12, UnlockTurn DEF Resumes, Keeps, Outside
<1>13. ASSUME Unlink(p) PROVE Owned'
  <2>1. ASSUME NEW w, Turn(p, w), ~a.refused, ~a.rollback, Keeps(a, w),
               Resumes(a, w, "ingest") \/ Resumes(a, w, "close")
        PROVE  Owned'
    BY <1>0, <1>4, <1>13, <2>1, UnlinkTurn DEF Resumes, Keeps, Outside
  <2> QED BY <1>0, <1>3, <1>13, <2>1, UnlinkTurn
<1>14. ASSUME Ingest(p) PROVE Owned'
  <2>1. ASSUME NEW w, Turn(p, w), Resumes(a, w, "open"), w.rollback, w.refused = a.refused,
               w.kept = a.kept
        PROVE  Owned'
    BY <1>0, <1>1, <1>4, <1>14, <2>1, IngestTurn DEF Resumes, Outside, Private
  <2> QED BY <1>0, <1>3, <1>14, <2>1, IngestTurn
<1>15. ASSUME CloseIssue(p) PROVE Owned'
  <2>0. a.issue \in Issues /\ a.pc = "close"
    BY <1>0, <1>1, <1>15 DEF CloseIssue, At, Private
  <2>1. PICK w : /\ Turn(p, w)
                 /\ \/ Resumes(a, w, "label") /\ Keeps(a, w)
                    \/ /\ Resumes(a, w, "open") /\ w.rollback
                       /\ w.refused = a.refused /\ w.kept = a.kept
                    \/ Leaves(w)
    BY <1>0, <1>15, <2>0, CloseIssueTurn
  <2>2. log' = log /\ started' = started
    BY <1>0, <1>15, <2>0, CloseIssueTurn
  <2>3. CASE Leaves(w)
    BY <1>3, <2>1, <2>2, <2>3
  <2>4. CASE ~Leaves(w)
    <3>1. ~Outside(w)
      BY <1>1, <2>0, <2>1, <2>4 DEF Resumes, Outside, Private, Keeps
    <3> QED BY <1>4, <2>0, <2>1, <2>2, <2>4, <3>1 DEF Resumes, Keeps
  <2> QED BY <2>3, <2>4
<1>16. ASSUME LabelIssue(p) PROVE Owned'
  BY <1>3, <1>16, LabelIssueTurn
<1>17. ASSUME ReadLog(p) PROVE Owned'
  <2>0. a.pc = "read" /\ log' = log /\ started' = started /\ a.kept = <<>> /\ p \in Running
    BY <1>0, <1>1, <1>17, ReadLogTurn DEF Private, Running
  <2>1. EverWritten = Members(log)
    BY <1>0, <1>1, <1>2, <2>0, OnlyHolderRewrites, NoLines DEF Holding
  <2>2. ASSUME NEW w, Turn(p, w), Resumes(a, w, "truncate"), w.rollback = a.rollback,
               NEW k \in DOMAIN log, log[k].id = a.id, w.kept = Without(k)
        PROVE  Owned'
    <3>1. /\ Members(w.kept) \subseteq Members(log) /\ Distinct(w.kept) /\ a.id \notin Ids(w.kept)
      BY <1>1, <2>2, WithoutLine
    <3>2. EverWritten' \subseteq EverWritten
      BY <1>2, <2>0, <2>2, <3>1, WrittenAfter
    <3>3. \A e \in Members(w.kept) : e.id # w.id
      BY <2>2, <3>1, IdsOfMembers DEF Resumes
    <3>4. ~Outside(w)
      BY <1>1, <2>0, <2>2 DEF Outside, Resumes, Private
    <3> QED BY <1>1, <2>0, <2>2, <3>1, <3>2, <3>3, <3>4, OwnedAfter DEF Resumes
  <2>3. ASSUME NEW w, Turn(p, w), Resumes(a, w, "unlock"), w.kept = a.kept, a.id \notin Ids(log)
        PROVE  Owned'
    <3>1. EverWritten' \subseteq EverWritten
      BY <1>2, <2>0, <2>3, WrittenAfter
    <3>2. \A e \in EverWritten' : e.id # w.id
      BY <2>1, <2>3, <3>1, IdsOfMembers DEF Resumes
    <3> QED BY <1>1, <2>0, <2>3, <3>1, <3>2, NoLines, OwnedAfter
  <2> QED BY <1>0, <1>17, <2>2, <2>3, ReadLogTurn
<1>18. ASSUME TruncateLog(p) PROVE Owned'
  BY <1>0, <1>1, <1>4, <1>18, TruncateLogTurn DEF Resumes, Keeps, Outside
<1>19. ASSUME WriteBack(p) PROVE Owned'
  <2>0. a.pc = "write_back" /\ log' = a.kept /\ started' = started
    BY <1>0, <1>19, WriteBackTurn
  <2>1. PICK w : Turn(p, w) /\ Resumes(a, w, "unlock") /\ w.kept = <<>>
    BY <1>0, <1>19, WriteBackTurn
  <2>2. EverWritten' = Members(a.kept)
    <3>1. UNION {Members(agent[q].kept) : q \in Triagers \ {p}} = {}
      BY <1>0, <1>1, <2>0, OnlyHolderRewrites DEF Holding
    <3>2. EverWritten' = Members(log') \cup Members(w.kept)
                       \cup UNION {Members(agent[q].kept) : q \in Triagers \ {p}}
      BY <2>1, WrittenAfter
    <3>3. Members(w.kept) = {}
      BY <2>1, NoLines
    <3> QED BY <2>0, <3>1, <3>2, <3>3
  <2>3. \A e \in EverWritten' : e.id # w.id
    BY <1>1, <2>1, <2>2 DEF Resumes
  <2>4. EverWritten' \subseteq EverWritten
    BY <1>2, <2>2
  <2> QED BY <1>1, <2>0, <2>1, <2>3, <2>4, NoLines, OwnedAfter
<1>20. ASSUME KillAgent(p) PROVE Owned'
  BY <1>3, <1>20, KillAgentTurn
<1> QED BY <1>5, <1>6, <1>7, <1>8, <1>9, <1>10, <1>11, <1>12, <1>13, <1>14,
           <1>15, <1>16, <1>17, <1>18, <1>19, <1>20 DEF Step

(* Only an append writes a new line.                                       *)
LEMMA WrittenGrows ==
  ASSUME TriageTypeOK, Known, NEW p \in Triagers, Step(p), NEW e \in EverWritten'
  PROVE  e \in EverWritten \/ (AppendEntry(p) /\ e.id = agent[p].id)
<1>0. PICK a : a = agent[p]
  OBVIOUS
<1>1. EverWritten = Members(log) \cup Members(a.kept)
                  \cup UNION {Members(agent[q].kept) : q \in Triagers \ {p}}
  BY <1>0 DEF EverWritten
<1>2. ASSUME NEW w, Turn(p, w), log' = log \/ log' = <<>> \/ log' = a.kept,
             w.kept = <<>> \/ w.kept = a.kept
      PROVE  e \in EverWritten
  BY <1>1, <1>2, WrittenAfter, NoLines
<1>3. log \in Seq(Entry) /\ Private(a) /\ a \in Agent
  BY <1>0 DEF TriageTypeOK, Known
<1>4. ASSUME NEW i \in Issues, NEW d \in Decisions, StartDecision(p, i, d)
      PROVE  e \in EverWritten
  BY <1>2, <1>4, StartDecisionTurn
<1>5. ASSUME NEW d \in Decisions, NEW again \in BOOLEAN, StartBulk(p, d, again)
      PROVE  e \in EverWritten
  BY <1>2, <1>5, StartBulkTurn DEF Leaves
<1>6. ASSUME CheckRepeat(p) \/ OpenSidecar(p) \/ StatSidecar(p) \/ TakeLock(p) \/ Unlock(p)
      PROVE  e \in EverWritten
  BY <1>0, <1>2, <1>6, CheckRepeatTurn, OpenSidecarTurn, StatSidecarTurn, TakeLockTurn, UnlockTurn
     DEF Leaves, Keeps
<1>7. ASSUME Unlink(p) \/ Ingest(p) \/ LabelIssue(p) \/ KillAgent(p) PROVE e \in EverWritten
  BY <1>0, <1>2, <1>7, UnlinkTurn, IngestTurn, LabelIssueTurn, KillAgentTurn DEF Leaves, Keeps
<1>8. ASSUME CloseIssue(p) PROVE e \in EverWritten
  <2>1. a.issue \in Issues
    BY <1>0, <1>3, <1>8 DEF CloseIssue, At, Private
  <2> QED BY <1>0, <1>2, <1>8, <2>1, CloseIssueTurn DEF Leaves, Keeps
<1>9. ASSUME AppendEntry(p) PROVE e \in EverWritten \/ e.id = a.id
  <2> DEFINE x == [id |-> a.id, issue |-> a.issue, decision |-> a.decision, at |-> a.at]
  <2>1. PICK w : Turn(p, w) /\ w.kept = a.kept
    BY <1>0, <1>9, AppendEntryTurn DEF Keeps
  <2>2. a.pc = "append" /\ log' = Append(log, x)
    BY <1>0, <1>9, AppendEntryTurn
  <2>3. x \in Entry
    BY <1>3, <2>2 DEF Private, Agent, Entry
  <2>4. Members(log') = Members(log) \cup {x}
    BY <1>3, <2>2, <2>3, LineAdded
  <2> QED BY <1>1, <2>1, <2>4, WrittenAfter
<1>10. ASSUME ReadLog(p) PROVE e \in EverWritten
  <2>1. ASSUME NEW w, Turn(p, w), NEW k \in DOMAIN log, w.kept = Without(k) PROVE e \in EverWritten
    <3>1. Members(w.kept) \subseteq Members(log)
      BY <1>3, <2>1, WithoutLine
    <3>2. log' = log
      BY <1>10, ReadLogTurn
    <3> QED BY <1>1, <2>1, <3>1, <3>2, WrittenAfter
  <2> QED BY <1>0, <1>2, <1>10, <2>1, ReadLogTurn
<1>11. ASSUME TruncateLog(p) \/ WriteBack(p) PROVE e \in EverWritten
  BY <1>0, <1>2, <1>11, TruncateLogTurn, WriteBackTurn DEF Keeps
<1> QED BY <1>0, <1>4, <1>5, <1>6, <1>7, <1>8, <1>9, <1>10, <1>11 DEF Step

LEMMA LinesTyped == TriageTypeOK => \A e \in EverWritten : e.issue \in Issues
<1>1. ASSUME NEW s \in Seq(Entry) PROVE \A e \in Members(s) : e.issue \in Issues
  <2>1. \A k \in DOMAIN s : s[k] \in Entry
    OBVIOUS
  <2>2. \A x \in Entry : x.issue \in Issues
    BY DEF Entry
  <2> QED BY <2>1, <2>2 DEF Members
<1>2. ASSUME TriageTypeOK
      PROVE  log \in Seq(Entry) /\ \A p \in Triagers : agent[p].kept \in Seq(Entry)
  BY <1>2 DEF TriageTypeOK, Agent
<1> QED BY <1>1, <1>2 DEF EverWritten

LEMMA FaithfulAfter ==
  ASSUME TriageTypeOK, Known, Faithful, NEW p \in Triagers, NEW w, Turn(p, w), Step(p),
         excused \subseteq excused', stray \subseteq stray', briefs \subseteq briefs',
         \A i \in Issues : upstream[i] # "open" => upstream'[i] # "open",
         \/ w.pc # "idle" /\ (agent[p].pc # "idle" => w.id = agent[p].id)
         \/ agent[p].pc = "idle"
         \/ \A e \in EverWritten : e.id = agent[p].id =>
              \/ e.id \in (excused \cup stray)'
              \/ /\ e.decision = "accept" => e.issue \in briefs'
                 /\ e.decision = "reject" => upstream'[e.issue] # "open",
         AppendEntry(p) => w.pc # "idle" /\ w.id = agent[p].id
  PROVE  Faithful'
<1>1. agent' \in [Triagers -> Agent] /\ agent'[p] = w
      /\ \A q \in Triagers : q # p => agent'[q] = agent[q]
  BY TurnTaken
<1>2. ASSUME NEW e \in EverWritten' PROVE CarriedOut(e)'
  <2>1. CASE AppendEntry(p) /\ e.id = agent[p].id
    BY <1>1, <2>1 DEF CarriedOut, UnderWay
  <2>2. CASE e \in EverWritten
    <3>1. CarriedOut(e) /\ e.issue \in Issues
      BY <2>2, LinesTyped DEF Faithful
    <3>2. CASE \E q \in Triagers \ {p} : agent[q].pc # "idle" /\ agent[q].id = e.id
      BY <1>1, <3>2 DEF CarriedOut, UnderWay
    <3>3. CASE agent[p].pc # "idle" /\ agent[p].id = e.id
      <4>1. CASE w.pc # "idle" /\ w.id = agent[p].id
        BY <1>1, <3>3, <4>1 DEF CarriedOut, UnderWay
      <4>2. CASE \/ e.id \in (excused \cup stray)'
                 \/ /\ e.decision = "accept" => e.issue \in briefs'
                    /\ e.decision = "reject" => upstream'[e.issue] # "open"
        BY <4>2 DEF CarriedOut
      <4> QED BY <2>2, <3>3, <4>1, <4>2
    <3>4. CASE e.id \in excused \cup stray
                \/ (/\ e.decision = "accept" => e.issue \in briefs
                    /\ e.decision = "reject" => upstream[e.issue] # "open")
      <4>1. CASE e.id \in excused \cup stray
        BY <4>1 DEF CarriedOut
      <4>2. CASE /\ e.decision = "accept" => e.issue \in briefs
                 /\ e.decision = "reject" => upstream[e.issue] # "open"
        <5>1. e.decision = "accept" => e.issue \in briefs'
          BY <4>2
        <5>2. e.decision = "reject" => upstream'[e.issue] # "open"
          BY <3>1, <4>2
        <5> QED BY <5>1, <5>2 DEF CarriedOut
      <4> QED BY <3>4, <4>1, <4>2 DEF CarriedOut
    <3> QED BY <3>1, <3>2, <3>3, <3>4 DEF CarriedOut, UnderWay
  <2> QED BY <2>1, <2>2, WrittenGrows
<1> QED BY <1>2 DEF Faithful

LEMMA FaithfulKept ==
  ASSUME TriageTypeOK, Known, Owned, Faithful, NEW p \in Triagers, Step(p)
  PROVE  Faithful'
<1> USE DEF history
<1>0. PICK a : a = agent[p]
  OBVIOUS
<1>1. /\ Private(a) /\ a \in Agent /\ upstream \in [Issues -> {"open", "closed", "labelled"}]
      /\ a.pc # "idle" => \A e \in EverWritten : e.id = a.id =>
           e.issue = a.issue /\ e.decision = a.decision /\ ~Outside(a)
  BY <1>0 DEF Known, TriageTypeOK, Owned, Running
<1>2. ASSUME NEW w, Turn(p, w), excused' = excused, stray \subseteq stray', briefs' = briefs, w.pc # "idle",
             a.pc # "idle", w.id = a.id,
             \A i \in Issues : upstream[i] # "open" => upstream'[i] # "open"
      PROVE  Faithful'
  BY <1>0, <1>2, FaithfulAfter
<1>3. ASSUME NEW w, Turn(p, w), excused \subseteq excused', stray \subseteq stray',
             briefs \subseteq briefs', a.pc # "append",
             \A i \in Issues : upstream[i] # "open" => upstream'[i] # "open",
             a.pc # "idle" => \A e \in EverWritten : e.id = a.id =>
               \/ e.id \in (excused \cup stray)'
               \/ /\ e.decision = "accept" => e.issue \in briefs'
                  /\ e.decision = "reject" => upstream'[e.issue] # "open"
      PROVE  Faithful'
  <2>1. ~AppendEntry(p)
    BY <1>0, <1>3 DEF AppendEntry, At
  <2> QED BY <1>0, <1>3, <2>1, FaithfulAfter
<1>4. ASSUME NEW i \in Issues, NEW d \in Decisions, StartDecision(p, i, d)
      PROVE  Faithful'
  BY <1>0, <1>3, <1>4, StartDecisionTurn
<1>5. ASSUME NEW d \in Decisions, NEW again \in BOOLEAN, StartBulk(p, d, again)
      PROVE  Faithful'
  BY <1>0, <1>3, <1>5, StartBulkTurn
<1>6. ASSUME CheckRepeat(p) PROVE Faithful'
  <2>1. a.pc = "check" /\ UNCHANGED <<briefs, upstream, excused, stray>> /\ \E w : Turn(p, w)
    BY <1>0, <1>6, CheckRepeatTurn
  <2>2. Outside(a)
    BY <1>1, <2>1 DEF Outside, Private
  <2> QED BY <1>1, <1>3, <2>1, <2>2
<1>7. ASSUME OpenSidecar(p) PROVE Faithful'
  BY <1>0, <1>2, <1>7, OpenSidecarTurn DEF Resumes
<1>8. ASSUME StatSidecar(p) PROVE Faithful'
  BY <1>0, <1>2, <1>8, StatSidecarTurn DEF Resumes
<1>9. ASSUME TakeLock(p) PROVE Faithful'
  BY <1>0, <1>2, <1>9, TakeLockTurn DEF Resumes
<1>10. ASSUME AppendEntry(p) PROVE Faithful'
  BY <1>0, <1>2, <1>10, AppendEntryTurn DEF Resumes
<1>11. ASSUME Unlock(p) PROVE Faithful'
  BY <1>0, <1>2, <1>11, UnlockTurn DEF Resumes
<1>12. ASSUME Unlink(p) PROVE Faithful'
  <2>1. /\ a.pc = "unlink" /\ UNCHANGED <<briefs, upstream, stray>>
        /\ excused' = IF a.refused /\ a.rollback THEN excused \cup {a.id} ELSE excused
    BY <1>0, <1>12, UnlinkTurn
  <2>2. ASSUME NEW w, Turn(p, w), ~a.refused, ~a.rollback,
               Resumes(a, w, "ingest") \/ Resumes(a, w, "close")
        PROVE  Faithful'
    BY <1>2, <2>1, <2>2 DEF Resumes
  <2>3. ASSUME NEW w, Turn(p, w), a.refused \/ a.rollback PROVE Faithful'
    <3>1. CASE a.refused /\ a.rollback
      BY <1>3, <2>1, <2>3, <3>1
    <3>2. CASE ~(a.refused /\ a.rollback)
      <4>1. Outside(a) /\ excused' = excused
        BY <1>1, <2>1, <2>3, <3>2 DEF Outside
      <4> QED BY <1>1, <1>3, <2>1, <2>3, <4>1
    <3> QED BY <3>1, <3>2
  <2>4. ASSUME NEW w, Turn(p, w), a.decision \notin {"accept", "reject"}, ~(a.refused /\ a.rollback)
        PROVE  Faithful'
    <3>1. \A e \in EverWritten : e.id = a.id => e.decision \notin {"accept", "reject"}
      BY <1>1, <2>1, <2>4
    <3> QED BY <1>3, <2>1, <2>4, <3>1
  <2> QED BY <1>0, <1>12, <2>2, <2>3, <2>4, UnlinkTurn
<1>13. ASSUME Ingest(p) PROVE Faithful'
  <2>1. a.pc = "ingest" /\ UNCHANGED <<upstream, excused>> /\ a.decision = "accept"
    BY <1>0, <1>1, <1>13, IngestTurn DEF Private
  <2>3. ASSUME NEW w, Turn(p, w), briefs' = briefs, stray' = stray \cup {a.id} PROVE Faithful'
    BY <1>3, <2>1, <2>3
  <2>2. ASSUME NEW w, Turn(p, w), briefs' = briefs \cup {a.issue}, stray' = stray
        PROVE  Faithful'
    <3>1. \A e \in EverWritten : e.id = a.id => e.decision = "accept" /\ e.issue \in briefs'
      BY <1>1, <2>1, <2>2
    <3> QED BY <1>3, <2>1, <2>2, <3>1
  <2> QED BY <1>0, <1>2, <1>13, <2>1, <2>2, <2>3, IngestTurn DEF Resumes
<1>14. ASSUME CloseIssue(p) PROVE Faithful'
  <2>1. a.issue \in Issues /\ a.pc = "close"
    BY <1>0, <1>1, <1>14 DEF CloseIssue, At, Private
  <2>2. /\ UNCHANGED <<briefs, excused>> /\ stray \subseteq stray'
        /\ \A i \in Issues : upstream[i] # "open" => upstream'[i] # "open"
    BY <1>0, <1>14, <2>1, CloseIssueTurn
  <2>3. ASSUME NEW w, Turn(p, w), stray' = stray \cup {a.id} PROVE Faithful'
    BY <1>3, <2>1, <2>2, <2>3
  <2>4. ASSUME NEW w, Turn(p, w), Resumes(a, w, "label") \/ Resumes(a, w, "open")
        PROVE  Faithful'
    BY <1>2, <2>1, <2>2, <2>4 DEF Resumes
  <2> QED BY <1>0, <1>14, <2>1, <2>3, <2>4, CloseIssueTurn
<1>15. ASSUME LabelIssue(p) PROVE Faithful'
  <2>1. /\ a.pc = "label" /\ UNCHANGED <<briefs, excused, stray>> /\ \E w : Turn(p, w)
        /\ upstream' \in {upstream, [upstream EXCEPT ![a.issue] = "labelled"]}
    BY <1>0, <1>15, LabelIssueTurn
  <2>2. \A i \in Issues : upstream[i] # "open" => upstream'[i] # "open"
    BY <1>1, <2>1
  <2>3. upstream[a.issue] # "open" /\ a.issue \in Issues /\ a.decision = "reject"
    BY <1>1, <2>1 DEF Private
  <2>4. \A e \in EverWritten : e.id = a.id =>
          e.decision = "reject" /\ upstream'[e.issue] # "open"
    BY <1>1, <2>1, <2>2, <2>3
  <2> QED BY <1>3, <2>1, <2>2, <2>4
<1>16. ASSUME ReadLog(p) PROVE Faithful'
  BY <1>0, <1>2, <1>16, ReadLogTurn DEF Resumes
<1>17. ASSUME TruncateLog(p) PROVE Faithful'
  BY <1>0, <1>2, <1>17, TruncateLogTurn DEF Resumes
<1>18. ASSUME WriteBack(p) PROVE Faithful'
  BY <1>0, <1>2, <1>18, WriteBackTurn DEF Resumes
<1>19. ASSUME KillAgent(p) PROVE Faithful'
  <2>1. /\ UNCHANGED <<briefs, upstream, stray>> /\ excused' = excused \cup {a.id}
        /\ \E w : Turn(p, w) /\ Leaves(w)
    BY <1>0, <1>19, KillAgentTurn
  <2>2. CASE a.pc # "append"
    BY <1>3, <2>1, <2>2
  <2>3. CASE a.pc = "append"
    <3>1. ~AppendEntry(p)
      <4>1. PICK w : Turn(p, w) /\ Leaves(w)
        BY <2>1
      <4>2. ASSUME AppendEntry(p) PROVE FALSE
        <5>1. PICK v : Turn(p, v) /\ Resumes(a, v, "unlock")
          BY <1>0, <4>2, AppendEntryTurn
        <5> QED BY <4>1, <5>1, TurnTaken DEF Leaves, Resumes
      <4> QED BY <4>2
    <3> QED BY <1>0, <2>1, <3>1, FaithfulAfter
  <2> QED BY <2>2, <2>3
<1> QED BY <1>4, <1>5, <1>6, <1>7, <1>8, <1>9, <1>10, <1>11, <1>12, <1>13, <1>14,
           <1>15, <1>16, <1>17, <1>18, <1>19 DEF Step

-----------------------------------------------------------------------------
(* What rewriting the log leaves in it                                     *)

Quiet(p) ==
  /\ log' = log /\ recorded' = recorded /\ agent[p].pc # "write_back"
  /\ \E w : Turn(p, w) /\ w.pc \notin {"truncate", "write_back"}

LEMMA QuietSteps ==
  ASSUME TriageTypeOK, Known, NEW p \in Triagers, Step(p), ~torn'
  PROVE  Quiet(p) \/ AppendEntry(p) \/ ReadLog(p) \/ TruncateLog(p) \/ WriteBack(p)
<1> USE DEF history, Quiet
<1>1. CASE \E i \in Issues, d \in Decisions : StartDecision(p, i, d)
  <2>1. PICK i \in Issues, d \in Decisions : StartDecision(p, i, d)
    BY <1>1
  <2>2. PICK w : Turn(p, w) /\ w.pc = "check"
    BY <2>1, StartDecisionTurn
  <2>3. agent[p].pc = "idle" /\ log' = log /\ recorded' = recorded
    BY <2>1, StartDecisionTurn
  <2> QED BY <2>2, <2>3
<1>2. CASE \E d \in Decisions, again \in BOOLEAN : StartBulk(p, d, again)
  BY <1>2, StartBulkTurn DEF Leaves
<1>3. CASE CheckRepeat(p) \/ OpenSidecar(p) \/ StatSidecar(p)
  BY <1>3, CheckRepeatTurn, OpenSidecarTurn, StatSidecarTurn DEF Resumes, Leaves
<1>4. CASE TakeLock(p) \/ Unlock(p)
  BY <1>4, TakeLockTurn, UnlockTurn DEF Resumes
<1>5. CASE Unlink(p)
  BY <1>5, UnlinkTurn DEF Resumes, Leaves
<1>6. CASE Ingest(p) \/ LabelIssue(p)
  BY <1>6, IngestTurn, LabelIssueTurn DEF Resumes, Leaves
<1>7. CASE CloseIssue(p)
  <2>1. agent[p].issue \in Issues
    BY <1>7 DEF CloseIssue, At, Known, Private
  <2> QED BY <1>7, <2>1, CloseIssueTurn DEF Resumes, Leaves
<1>8. CASE KillAgent(p)
  BY <1>8, KillAgentTurn DEF Leaves
<1> QED BY <1>1, <1>2, <1>3, <1>4, <1>5, <1>6, <1>7, <1>8 DEF Step

(* Around a step of the process in the lock no other process rewrites.     *)
LEMMA AloneInLock ==
  ASSUME TriageTypeOK, Known, OneHolder, ~breached, NEW p \in Triagers,
         agent[p].pc \in Holding, NEW w, Turn(p, w)
  PROVE  /\ agent[p].pc \notin {"truncate", "write_back"} => Rewriting = {}
         /\ agent[p].pc # "write_back" => Whole
         /\ Rewriting' = IF w.pc \in {"truncate", "write_back"} THEN {p} ELSE {}
         /\ Whole' <=> w.pc # "write_back"
         /\ agent'[p] = w
<1>1. agent' \in [Triagers -> Agent] /\ agent'[p] = w
      /\ \A q \in Triagers : q # p => agent'[q] = agent[q]
  BY TurnTaken
<1>2. \A q \in Triagers : q # p => agent[q].pc \notin {"truncate", "write_back"}
  BY OnlyHolderRewrites DEF Holding
<1>3. \A q \in Triagers : q # p => agent'[q].pc \notin {"truncate", "write_back"}
  BY <1>1, <1>2
<1>4. Rewriting' = IF w.pc \in {"truncate", "write_back"} THEN {p} ELSE {}
  BY <1>1, <1>3 DEF Rewriting
<1>5. Whole' <=> w.pc # "write_back"
  BY <1>1, <1>3 DEF Whole, At
<1> QED BY <1>1, <1>2, <1>4, <1>5 DEF Rewriting, Whole, At

(* The others go on with the lines they keep.                              *)
LEMMA QuietAside ==
  ASSUME TriageTypeOK, NEW p \in Triagers, Quiet(p)
  PROVE  /\ Whole' => Whole
         /\ \A q \in Rewriting' : q \in Rewriting /\ q # p /\ agent'[q] = agent[q]
<1>1. PICK w : Turn(p, w) /\ w.pc \notin {"truncate", "write_back"}
  BY DEF Quiet
<1>2. agent' \in [Triagers -> Agent] /\ agent'[p] = w
      /\ \A q \in Triagers : q # p => agent'[q] = agent[q]
  BY <1>1, TurnTaken
<1>3. Whole' => Whole
  BY <1>2 DEF Quiet, Whole, At
<1> QED BY <1>1, <1>2, <1>3 DEF Rewriting

LEMMA CompleteKept ==
  ASSUME TriageTypeOK, Known, OneHolder, Owned, Complete, ~breached, ~torn',
         NEW p \in Triagers, Step(p)
  PROVE  Complete'
<1>0. PICK a : a = agent[p]
  OBVIOUS
<1>1. log \in Seq(Entry) /\ Distinct(log) /\ a \in Agent /\ Private(a)
  BY <1>0 DEF TriageTypeOK, Owned, Known
<1>2. CASE Quiet(p)
  <2>1. log' = log /\ recorded' = recorded
    BY <1>2 DEF Quiet
  <2>2. Whole' => recorded' \subseteq Ids(log')
    BY <1>2, <2>1, QuietAside DEF Complete
  <2>3. \A q \in Rewriting' : recorded' \ {agent'[q].id} \subseteq Ids(agent'[q].kept)
    BY <1>2, <2>1, QuietAside DEF Complete
  <2> QED BY <2>2, <2>3 DEF Complete, Ids
<1>3. CASE AppendEntry(p)
  <2> DEFINE e == [id |-> a.id, issue |-> a.issue, decision |-> a.decision, at |-> a.at]
  <2>1. PICK w : Turn(p, w) /\ w.pc = "unlock"
    BY <1>3, AppendEntryTurn DEF Resumes
  <2>2. a.pc = "append" /\ log' = Append(log, e) /\ recorded' = recorded \cup {a.id}
    BY <1>0, <1>3, AppendEntryTurn
  <2>3. e \in Entry
    BY <1>1, <2>2 DEF Private, Agent, Entry
  <2>4. Ids(log') = Ids(log) \cup {a.id}
    BY <1>1, <2>2, <2>3, LineAdded
  <2>5. Rewriting' = {} /\ Whole
    BY <1>0, <2>1, <2>2, AloneInLock DEF Holding
  <2>6. recorded' \subseteq Ids(log')
    BY <2>2, <2>4, <2>5 DEF Complete
  <2> QED BY <2>5, <2>6 DEF Complete, Ids
<1>4. CASE ReadLog(p)
  <2>1. a.pc = "read" /\ log' = log /\ recorded' = recorded
    BY <1>0, <1>4, ReadLogTurn DEF history
  <2>2. Whole /\ recorded \subseteq Ids(log)
    <3>1. PICK w : Turn(p, w)
      BY <1>4, ReadLogTurn
    <3>2. Whole
      BY <1>0, <2>1, <3>1, AloneInLock DEF Holding
    <3> QED BY <3>2 DEF Complete
  <2>3. ASSUME NEW w, Turn(p, w), Resumes(a, w, "truncate"),
               NEW k \in DOMAIN log, log[k].id = a.id, w.kept = Without(k)
        PROVE  Complete'
    <3>1. Rewriting' = {p} /\ agent'[p] = w /\ w.id = a.id
      BY <1>0, <2>1, <2>3, AloneInLock DEF Holding, Resumes
    <3>2. \A id \in recorded : id # a.id => id \in Ids(w.kept)
      <4>1. ASSUME NEW id \in recorded, id # a.id PROVE id \in Ids(w.kept)
        <5>1. PICK j \in DOMAIN log : log[j].id = id
          BY <2>2 DEF Ids
        <5>2. log[j] \in Members(w.kept)
          BY <1>1, <2>3, <4>1, <5>1, WithoutLine
        <5> QED BY <5>1, <5>2, IdsOfMembers
      <4> QED BY <4>1
    <3>3. \A q \in Rewriting' : recorded' \ {agent'[q].id} \subseteq Ids(agent'[q].kept)
      BY <2>1, <3>1, <3>2
    <3>4. recorded' \subseteq Ids(log')
      BY <2>1, <2>2
    <3> QED BY <3>3, <3>4 DEF Complete, Ids
  <2>4. ASSUME NEW w, Turn(p, w), Resumes(a, w, "unlock") PROVE Complete'
    <3>1. Rewriting' = {}
      BY <1>0, <2>1, <2>4, AloneInLock DEF Holding, Resumes
    <3>2. recorded' \subseteq Ids(log')
      BY <2>1, <2>2
    <3> QED BY <3>1, <3>2 DEF Complete, Ids
  <2> QED BY <1>0, <1>4, <2>3, <2>4, ReadLogTurn
<1>5. CASE TruncateLog(p)
  <2>1. PICK w : Turn(p, w) /\ Resumes(a, w, "write_back") /\ Keeps(a, w)
    BY <1>0, <1>5, TruncateLogTurn
  <2>2. a.pc = "truncate" /\ recorded' = recorded
    BY <1>0, <1>5, TruncateLogTurn DEF history
  <2>3. ~Whole' /\ Rewriting' = {p} /\ agent'[p] = w
    BY <1>0, <2>1, <2>2, AloneInLock DEF Holding, Resumes
  <2>4. recorded \ {a.id} \subseteq Ids(a.kept)
    BY <1>0, <2>2 DEF Complete, Rewriting
  <2>5. \A q \in Rewriting' : recorded' \ {agent'[q].id} \subseteq Ids(agent'[q].kept)
    BY <2>1, <2>2, <2>3, <2>4 DEF Resumes, Keeps
  <2> QED BY <2>3, <2>5 DEF Complete, Ids
<1>6. CASE WriteBack(p)
  <2>1. PICK w : Turn(p, w) /\ w.pc = "unlock"
    BY <1>6, WriteBackTurn DEF Resumes
  <2>2. a.pc = "write_back" /\ recorded' = recorded \ {a.id} /\ log' = a.kept
    BY <1>0, <1>6, WriteBackTurn
  <2>3. Rewriting' = {}
    BY <1>0, <2>1, <2>2, AloneInLock DEF Holding
  <2>4. recorded \ {a.id} \subseteq Ids(a.kept)
    BY <1>0, <2>2 DEF Complete, Rewriting
  <2>5. recorded' \subseteq Ids(log')
    BY <2>2, <2>4
  <2> QED BY <2>3, <2>5 DEF Complete, Ids
<1> QED BY <1>2, <1>3, <1>4, <1>5, <1>6, QuietSteps

-----------------------------------------------------------------------------
(* The lines of the rejects that closed an issue                           *)

LEMMA LabelEnds ==
  ASSUME TriageTypeOK, Known, NEW p \in Triagers, Step(p), agent[p].pc = "label"
  PROVE  \E w : Turn(p, w) /\ Leaves(w)
<1>1. ASSUME NEW i \in Issues, NEW d \in Decisions, StartDecision(p, i, d) PROVE FALSE
  BY <1>1, StartDecisionTurn
<1>2. ASSUME NEW d \in Decisions, NEW again \in BOOLEAN, StartBulk(p, d, again) PROVE FALSE
  BY <1>2, StartBulkTurn
<1>3. ~ (CheckRepeat(p) \/ OpenSidecar(p) \/ StatSidecar(p) \/ TakeLock(p) \/ AppendEntry(p))
  BY CheckRepeatTurn, OpenSidecarTurn, StatSidecarTurn, TakeLockTurn, AppendEntryTurn
<1>4. ~ (Unlock(p) \/ Unlink(p) \/ Ingest(p) \/ ReadLog(p) \/ TruncateLog(p) \/ WriteBack(p))
  BY UnlockTurn, UnlinkTurn, IngestTurn, ReadLogTurn, TruncateLogTurn, WriteBackTurn
<1>5. ~ CloseIssue(p)
  BY DEF CloseIssue, At
<1> QED BY <1>1, <1>2, <1>3, <1>4, <1>5, LabelIssueTurn, KillAgentTurn DEF Step

LEMMA SettledStays ==
  ASSUME TriageTypeOK, Known, Owned, NEW p \in Triagers, Step(p),
         NEW e \in EverWritten, NEW i, Concluded(e, i)
  PROVE  Concluded(e, i)'
<1>1. PICK w : /\ Turn(p, w)
               /\ \/ w.pc = "idle"
                  \/ w.id = started + 1
                  \/ agent[p].pc # "idle" /\ w.id = agent[p].id
  BY Shape DEF Leaves
<1>2. agent' \in [Triagers -> Agent] /\ agent'[p] = w
      /\ \A q \in Triagers : q # p => agent'[q] = agent[q]
  BY <1>1, TurnTaken
<1>3. e.id # started + 1
  BY DEF Owned, TriageTypeOK
<1>4. ASSUME agent[p].pc # "idle", agent[p].id = e.id PROVE w.pc = "idle"
  <2>1. agent[p].pc = "label"
    BY <1>4 DEF Concluded, Running
  <2>2. PICK v : Turn(p, v) /\ Leaves(v)
    BY <2>1, LabelEnds
  <2>3. v = w
    BY <1>2, <2>2, TurnTaken
  <2> QED BY <2>2, <2>3 DEF Leaves
<1>5. ASSUME NEW q \in Running', agent'[q].id = e.id PROVE agent'[q].pc = "label"
  <2>1. q \in Triagers /\ agent'[q].pc # "idle"
    BY DEF Running
  <2>2. CASE q = p
    BY <1>1, <1>2, <1>3, <1>4, <1>5, <2>1, <2>2
  <2>3. CASE q # p
    BY <1>2, <1>5, <2>1, <2>3 DEF Concluded, Running
  <2> QED BY <2>2, <2>3
<1> QED BY <1>5 DEF Concluded

LEMMA LinesAreWritten ==
  ASSUME TriageTypeOK
  PROVE  /\ Members(log) \subseteq EverWritten
         /\ \A p \in Triagers : Members(agent[p].kept) \subseteq EverWritten
BY DEF EverWritten

LEMMA WitnessKept ==
  ASSUME TriageTypeOK, Known, OneHolder, Owned, ~breached, ~torn',
         NEW p \in Triagers, Step(p), NEW i, Witness(i)
  PROVE  Witness(i)'
<1>0. PICK a : a = agent[p]
  OBVIOUS
<1>1. log \in Seq(Entry) /\ a \in Agent /\ Private(a)
  BY <1>0 DEF TriageTypeOK, Known
<1>2. ASSUME NEW s, \E e \in Members(s) : e \in EverWritten /\ Concluded(e, i)
      PROVE  \E e \in Members(s) : Concluded(e, i)'
  BY <1>2, SettledStays
<1>3. CASE Quiet(p)
  <2>1. log' = log
    BY <1>3 DEF Quiet
  <2>2. Whole' => \E e \in Members(log') : Concluded(e, i)'
    <3>1. Whole => \E e \in Members(log) : e \in EverWritten /\ Concluded(e, i)
      BY LinesAreWritten DEF Witness
    <3> QED BY <1>2, <1>3, <2>1, <3>1, QuietAside
  <2>3. ASSUME NEW q \in Rewriting'
        PROVE  \E e \in Members(agent'[q].kept) : Concluded(e, i)'
    <3>1. q \in Rewriting /\ q \in Triagers /\ agent'[q] = agent[q]
      BY <1>3, QuietAside DEF Rewriting
    <3>2. \E e \in Members(agent[q].kept) : e \in EverWritten /\ Concluded(e, i)
      BY <3>1, LinesAreWritten DEF Witness
    <3> QED BY <1>2, <3>1, <3>2
  <2> QED BY <2>2, <2>3 DEF Witness, Members
<1>4. CASE AppendEntry(p)
  <2> DEFINE e == [id |-> a.id, issue |-> a.issue, decision |-> a.decision, at |-> a.at]
  <2>1. PICK w : Turn(p, w) /\ w.pc = "unlock"
    BY <1>4, AppendEntryTurn DEF Resumes
  <2>2. a.pc = "append" /\ log' = Append(log, e)
    BY <1>0, <1>4, AppendEntryTurn
  <2>3. e \in Entry
    BY <1>1, <2>2 DEF Private, Agent, Entry
  <2>4. Members(log') = Members(log) \cup {e}
    BY <1>1, <2>2, <2>3, LineAdded
  <2>5. Rewriting' = {} /\ Whole
    BY <1>0, <2>1, <2>2, AloneInLock DEF Holding
  <2>6. \E x \in Members(log) : x \in EverWritten /\ Concluded(x, i)
    BY <2>5, LinesAreWritten DEF Witness
  <2>7. \E x \in Members(log') : Concluded(x, i)'
    BY <1>2, <2>4, <2>6
  <2> QED BY <2>5, <2>7 DEF Witness, Members
<1>5. CASE ReadLog(p)
  <2>1. a.pc = "read" /\ log' = log
    BY <1>0, <1>5, ReadLogTurn
  <2>2. PICK e \in Members(log) : e \in EverWritten /\ Concluded(e, i)
    <3>1. PICK w : Turn(p, w)
      BY <1>5, ReadLogTurn
    <3>2. Whole
      BY <1>0, <2>1, <3>1, AloneInLock DEF Holding
    <3> QED BY <3>2, LinesAreWritten DEF Witness
  <2>3. \E x \in Members(log') : Concluded(x, i)'
    BY <1>2, <2>1, <2>2
  <2>4. ASSUME NEW w, Turn(p, w), Resumes(a, w, "truncate"),
               NEW k \in DOMAIN log, log[k].id = a.id, w.kept = Without(k)
        PROVE  Witness(i)'
    <3>1. Rewriting' = {p} /\ agent'[p] = w
      BY <1>0, <2>1, <2>4, AloneInLock DEF Holding, Resumes
    <3>2. e.id # a.id
      BY <1>0, <2>1, <2>2 DEF Concluded, Running
    <3>3. e \in Members(w.kept)
      <4>1. PICK j \in DOMAIN log : log[j] = e
        BY <2>2 DEF Members
      <4> QED BY <1>1, <2>4, <3>2, <4>1, WithoutLine
    <3>4. \E x \in Members(w.kept) : Concluded(x, i)'
      BY <1>2, <2>2, <3>3
    <3>5. \A q \in Rewriting' : \E x \in Members(agent'[q].kept) : Concluded(x, i)'
      BY <3>1, <3>4
    <3> QED BY <2>3, <3>5 DEF Witness, Members
  <2>5. ASSUME NEW w, Turn(p, w), Resumes(a, w, "unlock") PROVE Witness(i)'
    <3>1. Rewriting' = {}
      BY <1>0, <2>1, <2>5, AloneInLock DEF Holding, Resumes
    <3> QED BY <2>3, <3>1 DEF Witness, Members
  <2> QED BY <1>0, <1>5, <2>4, <2>5, ReadLogTurn
<1>6. CASE TruncateLog(p) \/ WriteBack(p)
  <2>1. a.pc \in {"truncate", "write_back"} /\ p \in Rewriting
    BY <1>0, <1>6, TruncateLogTurn, WriteBackTurn DEF Rewriting
  <2>2. \E e \in Members(a.kept) : e \in EverWritten /\ Concluded(e, i)
    BY <1>0, <2>1, LinesAreWritten DEF Witness
  <2>3. \E e \in Members(a.kept) : Concluded(e, i)'
    BY <1>2, <2>2
  <2>4. CASE TruncateLog(p)
    <3>1. PICK w : Turn(p, w) /\ w.pc = "write_back" /\ w.kept = a.kept
      BY <1>0, <2>4, TruncateLogTurn DEF Resumes, Keeps
    <3>2. ~Whole' /\ Rewriting' = {p} /\ agent'[p] = w
      BY <1>0, <2>1, <3>1, AloneInLock DEF Holding
    <3>3. \A q \in Rewriting' : \E e \in Members(agent'[q].kept) : Concluded(e, i)'
      BY <2>3, <3>1, <3>2
    <3> QED BY <3>2, <3>3 DEF Witness, Members
  <2>5. CASE WriteBack(p)
    <3>1. PICK w : Turn(p, w) /\ w.pc = "unlock"
      BY <2>5, WriteBackTurn DEF Resumes
    <3>2. Rewriting' = {} /\ log' = a.kept
      BY <1>0, <2>1, <2>5, <3>1, AloneInLock, WriteBackTurn DEF Holding
    <3>3. \E e \in Members(log') : Concluded(e, i)'
      BY <2>3, <3>2
    <3> QED BY <3>2, <3>3 DEF Witness, Members
  <2> QED BY <1>6, <2>4, <2>5
<1> QED BY <1>3, <1>4, <1>5, <1>6, QuietSteps

(* Closing an issue leaves its own line as the witness.                    *)
LEMMA ClosedByReject ==
  ASSUME TriageTypeOK, Known, OwnIds, Owned, Complete, NEW p \in Triagers,
         NEW i, i = agent[p].issue, CloseIssue(p), upstream[i] = "open", upstream'[i] # "open", i \notin unheard'
  PROVE  Witness(i)'
<1>0. PICK a : a = agent[p]
  OBVIOUS
<1>1. a.issue = i /\ a.pc = "close" /\ p \in Running
  BY <1>0 DEF CloseIssue, At, Running
<1>2. a.issue \in Issues /\ a.decision = "reject" /\ a.id \in recorded
  BY <1>0, <1>1 DEF Known, Private, PastAppend
<1>3. log' = log
  BY <1>0, <1>2, CloseIssueTurn
<1>4. PICK w : Turn(p, w) /\ w.pc \in {"label", "idle"}
  BY <1>0, <1>2, CloseIssueTurn DEF Resumes, Leaves
<1>5. agent' \in [Triagers -> Agent] /\ agent'[p] = w
      /\ \A q \in Triagers : q # p => agent'[q] = agent[q]
  BY <1>4, TurnTaken
<1>6. ASSUME NEW e \in EverWritten, e.id = a.id PROVE Concluded(e, i)'
  <2>1. e.issue = a.issue /\ e.decision = "reject"
    BY <1>0, <1>1, <1>2, <1>6 DEF Owned
  <2>2. \A q \in Running' : agent'[q].id = e.id => agent'[q].pc = "label"
    BY <1>0, <1>1, <1>4, <1>5, <1>6 DEF OwnIds, Running
  <2> QED BY <1>1, <2>1, <2>2 DEF Concluded
<1>7. ASSUME NEW s, a.id \in Ids(s), Members(s) \subseteq EverWritten
      PROVE  \E e \in Members(s) : Concluded(e, i)'
  <2>1. PICK e \in Members(s) : e.id = a.id
    BY <1>7, MembersOfIds
  <2> QED BY <1>6, <1>7, <2>1
<1>8. Whole' => Whole
  BY <1>0, <1>1, <1>5 DEF Whole, At
<1>9. Whole' => \E e \in Members(log') : Concluded(e, i)'
  BY <1>2, <1>3, <1>7, <1>8, LinesAreWritten DEF Complete
<1>10. ASSUME NEW q \in Rewriting'
       PROVE  \E e \in Members(agent'[q].kept) : Concluded(e, i)'
  <2>1. q \in Triagers /\ q # p /\ agent'[q] = agent[q] /\ q \in Rewriting /\ q \in Running
    BY <1>4, <1>5 DEF Rewriting, Running
  <2>2. a.id # agent[q].id
    BY <1>0, <1>1, <2>1 DEF OwnIds
  <2>3. a.id \in Ids(agent[q].kept)
    BY <1>2, <2>1, <2>2 DEF Complete
  <2> QED BY <1>7, <2>1, <2>3, LinesAreWritten
<1> QED BY <1>9, <1>10 DEF Witness, Members

LEMMA WitnessedKept ==
  ASSUME TriageTypeOK, Known, OwnIds, OneHolder, Owned, Complete, Witnessed, ~breached, ~torn',
         NEW p \in Triagers, Step(p)
  PROVE  Witnessed'
<1> USE DEF history
<1>1. ASSUME NEW i \in Issues, Witness(i) PROVE Witness(i)'
  BY <1>1, WitnessKept
<1>2. CASE unheard \subseteq unheard' /\ upstream' = upstream
  BY <1>1, <1>2 DEF Witnessed
<1>3. CASE CloseIssue(p)
  <2>1. PICK i \in Issues : i = agent[p].issue
    BY <1>3 DEF CloseIssue, At, Known, Private
  <2>2. /\ unheard \subseteq unheard'
        /\ \A j \in Issues : j # i => upstream'[j] = upstream[j]
        /\ upstream[i] # "open" => upstream'[i] # "open"
    BY <1>3, <2>1, CloseIssueTurn
  <2>3. upstream'[i] = "open" \/ i \in unheard' \/ Witness(i)'
    BY <1>1, <1>3, <2>1, <2>2, ClosedByReject DEF Witnessed
  <2>4. ASSUME NEW j \in Issues, j # i
        PROVE  upstream'[j] = "open" \/ j \in unheard' \/ Witness(j)'
    BY <1>1, <2>2, <2>4 DEF Witnessed
  <2>5. \A j \in Issues : upstream'[j] = "open" \/ j \in unheard' \/ Witness(j)'
    BY <2>3, <2>4
  <2> QED BY <2>5 DEF Witnessed
<1>4. CASE LabelIssue(p)
  <2>1. /\ agent[p].pc = "label" /\ unheard' = unheard
        /\ upstream' \in {upstream, [upstream EXCEPT ![agent[p].issue] = "labelled"]}
    BY <1>4, LabelIssueTurn
  <2>2. \A j \in Issues : upstream[j] = "open" => upstream'[j] = "open"
    BY <2>1 DEF Known, Private, TriageTypeOK
  <2> QED BY <1>1, <2>1, <2>2 DEF Witnessed
<1>5. CASE \/ \E i \in Issues, d \in Decisions : StartDecision(p, i, d)
           \/ \E d \in Decisions, again \in BOOLEAN : StartBulk(p, d, again)
  BY <1>2, <1>5, StartDecisionTurn, StartBulkTurn
<1>6. CASE CheckRepeat(p) \/ OpenSidecar(p) \/ StatSidecar(p) \/ TakeLock(p) \/ AppendEntry(p)
  BY <1>2, <1>6, CheckRepeatTurn, OpenSidecarTurn, StatSidecarTurn, TakeLockTurn, AppendEntryTurn
<1>7. CASE Unlock(p) \/ Unlink(p) \/ Ingest(p) \/ ReadLog(p) \/ TruncateLog(p) \/ WriteBack(p)
  BY <1>2, <1>7, UnlockTurn, UnlinkTurn, IngestTurn, ReadLogTurn, TruncateLogTurn, WriteBackTurn
<1>8. CASE KillAgent(p)
  BY <1>2, <1>8, KillAgentTurn
<1> QED BY <1>3, <1>4, <1>5, <1>6, <1>7, <1>8 DEF Step

LEMMA TornStays ==
  ASSUME TriageTypeOK, Known, NEW p \in Triagers, Step(p), torn
  PROVE  torn'
<1> USE DEF history
<1>1. CASE \/ \E i \in Issues, d \in Decisions : StartDecision(p, i, d)
           \/ \E d \in Decisions, again \in BOOLEAN : StartBulk(p, d, again)
  BY <1>1, StartDecisionTurn, StartBulkTurn
<1>2. CASE CheckRepeat(p) \/ OpenSidecar(p) \/ StatSidecar(p) \/ TakeLock(p) \/ AppendEntry(p)
  BY <1>2, CheckRepeatTurn, OpenSidecarTurn, StatSidecarTurn, TakeLockTurn, AppendEntryTurn
<1>3. CASE Unlock(p) \/ Unlink(p) \/ Ingest(p) \/ ReadLog(p) \/ TruncateLog(p) \/ WriteBack(p)
  BY <1>3, UnlockTurn, UnlinkTurn, IngestTurn, ReadLogTurn, TruncateLogTurn, WriteBackTurn
<1>4. CASE CloseIssue(p)
  <2>1. agent[p].issue \in Issues
    BY <1>4 DEF CloseIssue, At, Known, Private
  <2> QED BY <1>4, <2>1, CloseIssueTurn
<1>5. CASE LabelIssue(p) \/ KillAgent(p)
  BY <1>5, LabelIssueTurn, KillAgentTurn
<1> QED BY <1>1, <1>2, <1>3, <1>4, <1>5 DEF Step

-----------------------------------------------------------------------------
(* The theorems                                                            *)

LEMMA InitTriageInv == TriageInit => TriageInv
<1> SUFFICES ASSUME TriageInit PROVE TriageInv
  OBVIOUS
<1>1. /\ Resting \in Agent /\ Resting.pc = "idle" /\ Resting.id = 0 /\ ~Resting.rollback
      /\ ~Resting.refused /\ Resting.kept = <<>>
  BY DEF Resting, Agent, Stages, Decisions, Terminal, InProgress
<1>2. /\ \A p \in Triagers : agent[p] = Resting
      /\ log = <<>> /\ recorded = {} /\ \A i \in Issues : upstream[i] = "open"
  BY DEF TriageInit
<1>3. TriageTypeOK
  <2>1. <<>> \in Seq(Entry)
    OBVIOUS
  <2> QED BY <1>1, <2>1 DEF TriageInit, TriageTypeOK
<1>4. Known
  BY <1>1, <1>2 DEF Known, Private, PastAppend
<1>5. OwnIds /\ OneHolder
  BY <1>1, <1>2 DEF OwnIds, OneHolder, Running, Holders, Holding
<1>6. EverWritten = {} /\ Running = {} /\ Rewriting = {}
  BY <1>1, <1>2, NoLines DEF EverWritten, Running, Rewriting
<1>7. Owned
  BY <1>1, <1>2, <1>6, NoLines DEF Owned
<1>8. Faithful /\ Complete /\ Witnessed
  BY <1>2, <1>6, NoLines DEF Faithful, Complete, Witnessed
<1> QED BY <1>3, <1>4, <1>5, <1>7, <1>8 DEF TriageInv

LEMMA StepKeeps == ASSUME TriageInv, NEW p \in Triagers, Step(p) PROVE TriageInv'
<1>1. TriageTypeOK /\ Known /\ OwnIds /\ OneHolder
  BY DEF TriageInv
<1>2. (TriageTypeOK /\ Known /\ OwnIds /\ OneHolder)'
  BY <1>1, TriageTypesKept, KnownKept, NumberedKept, ExclusiveKept
<1>3. breached => breached'
  BY <1>1, Shape
<1>4. torn => torn'
  BY <1>1, TornStays
<1>5. ASSUME ~breached' PROVE Owned' /\ Faithful'
  <2>1. ~breached /\ Owned /\ Faithful
    BY <1>3, <1>5 DEF TriageInv
  <2> QED BY <1>1, <1>5, <2>1, OwnedKept, FaithfulKept
<1>6. ASSUME ~breached', ~torn' PROVE Complete' /\ Witnessed'
  <2>1. ~breached /\ ~torn /\ Owned /\ Complete /\ Witnessed
    BY <1>3, <1>4, <1>6 DEF TriageInv
  <2> QED BY <1>1, <1>6, <2>1, CompleteKept, WitnessedKept
<1> QED BY <1>2, <1>5, <1>6 DEF TriageInv

LEMMA StutterKeeps == ASSUME TriageInv, UNCHANGED triageVars PROVE TriageInv'
<1> USE DEF triageVars
<1>1. /\ UNCHANGED TriageTypeOK /\ UNCHANGED OwnIds /\ UNCHANGED OneHolder
      /\ UNCHANGED EverWritten /\ UNCHANGED Running /\ UNCHANGED Rewriting /\ UNCHANGED Whole
  BY DEF TriageTypeOK, OwnIds, OneHolder, Running, Holders, EverWritten, Members, Rewriting,
         Whole, At
<1>2. \A a : Private(a) => Private(a)'
  BY DEF Private, PastAppend
<1>3. UNCHANGED Known
  BY DEF Known, Private, PastAppend
<1>4. UNCHANGED Owned
  BY <1>1 DEF Owned, Distinct, Members, Outside
<1>5. UNCHANGED Faithful
  BY <1>1 DEF Faithful, CarriedOut, UnderWay
<1>6. UNCHANGED Complete
  BY <1>1 DEF Complete, Ids
<1>7. UNCHANGED Witnessed
  BY <1>1 DEF Witnessed, Witness, Concluded, Members
<1> QED BY <1>1, <1>3, <1>4, <1>5, <1>6, <1>7 DEF TriageInv

(* The invariant holds throughout.                                         *)
THEOREM TriageInductive == TriageSpec => []TriageInv
<1>1. TriageInv /\ [TriageNext]_triageVars => TriageInv'
  BY OneSteps, StepKeeps, StutterKeeps
<1> QED BY InitTriageInv, <1>1, PTL DEF TriageSpec

(* Every variable keeps its type.                                          *)
THEOREM TriageTypes == TriageSpec => []TriageTypeOK
<1>1. TriageInv => TriageTypeOK
  BY DEF TriageInv
<1> QED BY <1>1, TriageInductive, PTL

(* An entry that was appended to the log leaves it by its own command's    *)
(* rollback only, as long as the lock has one holder at a time and no      *)
(* process is killed while it rewrites the file.                           *)
THEOREM EntriesStay == TriageSpec => []LossNeedsTwoHolders
<1>1. TriageInv => LossNeedsTwoHolders
  BY DEF TriageInv, LossNeedsTwoHolders, NoEntryLost, Complete, Whole, LoggedIds, Ids
<1> QED BY <1>1, TriageInductive, PTL

(* Under one holder at a time, an accept in the log has its brief, unless  *)
(* its command goes on, was killed, or failed without taking the entry out:*)
(* a rollback that runs removes its own entry and no other.                *)
THEOREM AcceptsAreCarriedOut == TriageSpec => []AcceptedHasBrief
<1>1. ASSUME TriageInv, ~breached, NEW k \in DOMAIN log, log[k].decision = "accept"
      PROVE  log[k].issue \in briefs \/ Stands(k)
  <2>1. log[k] \in EverWritten
    BY DEF EverWritten, Members
  <2>2. CarriedOut(log[k])
    BY <1>1, <2>1 DEF TriageInv, Faithful
  <2> QED BY <1>1, <2>2 DEF CarriedOut, Stands
<1>2. TriageInv => AcceptedHasBrief
  BY <1>1 DEF AcceptedHasBrief
<1> QED BY <1>2, TriageInductive, PTL

(* Under one holder at a time, a reject in the log has closed its issue,   *)
(* with the same exceptions, and a closed issue has its reject in the log. *)
THEOREM RejectsAndClosedIssuesAgree == TriageSpec => []RejectedIsClosed
<1>1. ASSUME TriageInv, ~breached, NEW k \in DOMAIN log, log[k].decision = "reject"
      PROVE  upstream[log[k].issue] # "open" \/ Stands(k)
  <2>1. log[k] \in EverWritten
    BY DEF EverWritten, Members
  <2>2. CarriedOut(log[k])
    BY <1>1, <2>1 DEF TriageInv, Faithful
  <2> QED BY <1>1, <2>2 DEF CarriedOut, Stands
<1>2. ASSUME TriageInv, ~breached, ~torn, Whole, NEW i \in Issues, upstream[i] # "open",
             i \notin unheard
      PROVE  \E k \in LinesOf(i) : log[k].decision = "reject"
  <2>1. Witness(i)
    BY <1>2 DEF TriageInv, Witnessed
  <2>2. PICK e \in Members(log) : Concluded(e, i)
    BY <1>2, <2>1 DEF Witness
  <2> QED BY <2>2 DEF Members, Concluded, LinesOf
<1>3. TriageInv => RejectedIsClosed
  BY <1>1, <1>2 DEF RejectedIsClosed, Whole
<1> QED BY <1>3, TriageInductive, PTL
=============================================================================
