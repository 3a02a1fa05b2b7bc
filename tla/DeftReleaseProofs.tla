--------------------------- MODULE DeftReleaseProofs ---------------------------
(***************************************************************************)
(* Proofs about DeftRelease, for any number of commands, publications,     *)
(* downloads and commits.                                                  *)
(*                                                                         *)
(* The argument: only the operator's command changes the branch and the    *)
(* local tag, so what it has found out about them stays true until it acts *)
(* on it (Cutting, InRollback).  What others can change meanwhile, the     *)
(* release and the tag on origin, they change in ways that leave a trace   *)
(* (misled) or that the download guard has counted (Guarded).              *)
(***************************************************************************)
EXTENDS DeftRelease, TLAPS

CutSteps == {"check_tags", "check_release", "promote", "commit", "tag", "push",
             "create", "verify", "flip"}

UnwindSteps == {"read", "reread", "delete", "untag_remote", "untag_local",
                "revert", "push_base"}

(* The branch only grows, a revert follows what it reverts, and the tags   *)
(* name commits that exist; the local one a release commit.                *)
History ==
  /\ origin <= Tip /\ remoteTag <= origin /\ localTag <= Tip
  /\ localTag # 0 => base[localTag] = Prep
  /\ \A j \in DOMAIN base : base[j].kind = "revert" => base[j].of < j

(* What a command that cuts a release knows.                               *)
Cutting ==
  /\ op.pc \in CutSteps => op.cmd = "release"
  /\ op.pc \in {"check_release", "promote", "commit", "tag"} => localTag = 0
  /\ op.pc = "tag" => Tip \in Preps
  /\ op.pc = "push" => localTag = Tip /\ Tip # 0

(* What a rollback knows.                                                  *)
InRollback ==
  /\ op.pc \in {"detect", "detect_tags", "resolve"} \cup UnwindSteps => op.cmd = "rollback"
  /\ op.pc \in {"resolve"} \cup UnwindSteps => op.situation \in {"local", "pushed", "released"}
  /\ op.pc \in {"read", "reread", "delete"} => op.situation = "released"
  /\ op.pc = "untag_remote" => op.situation = "pushed"
  /\ op.pc = "push_base" => op.situation # "local" /\ IsReverted(op.sha, Tip)
  /\ op.pc \in UnwindSteps => op.sha \in Preps
  /\ op.pc \in {"read", "reread", "delete", "untag_remote", "untag_local"} =>
       localTag \in {0, op.sha}
  /\ op.pc \in {"revert", "push_base"} /\ op.situation # "released" => localTag = 0

(* The release commit the command has made and not yet tagged, or is about *)
(* to revert.                                                              *)
Pending == CASE op.pc = "tag" -> {Tip}
             [] op.pc = "revert" -> {op.sha}
             [] OTHER -> {}

TagsAccounted == Untagged({localTag}) \subseteq loose \cup Pending

(* A command has an exit code when it has ended.                           *)
Unfinished == op.pc # "idle" => op.result = "none"

(* Downloads after the second reading are counted as late.                 *)
Guarded == op.pc = "delete" => gh.downloads <= op.limit + op.late

(* What is gone stays gone, unless GitHub acts on its own.                 *)
Withdrawn ==
  ~misled =>
    /\ remoteTag # 0 => ~IsReverted(remoteTag, Tip)
    /\ op.pc = "resolve" /\ op.situation = "local" => remoteTag = 0
    /\ op.pc \in {"untag_local", "revert", "push_base"} => remoteTag = 0 /\ gh.state = "absent"
    /\ op.pc = "detect_tags" => gh.state = "absent"
    /\ op.pc \in {"resolve", "untag_remote"} /\ op.situation \in {"local", "pushed"} =>
         gh.state = "absent"

ReleaseInv ==
  /\ ReleaseTypeOK /\ History /\ Cutting /\ InRollback /\ Unfinished
  /\ TagsAccounted /\ Guarded /\ Withdrawn /\ RollbackUndoes

-----------------------------------------------------------------------------
(* Types                                                                   *)

LEMMA Positions ==
  ASSUME ReleaseTypeOK
  PROVE  /\ Idle \in Operator /\ Failed \in Operator /\ Done \in Operator
         /\ \A step \in Steps : Goto(step) \in Operator
BY DEF ReleaseTypeOK, Idle, Failed, Done, Goto, Operator, Steps, Situations

LEMMA Started ==
  ASSUME NEW a \in BOOLEAN, NEW b \in BOOLEAN, NEW c \in BOOLEAN
  PROVE  /\ [Idle EXCEPT !.pc = "detect", !.cmd = "rollback"] \in Operator
         /\ [Idle EXCEPT !.cmd = "release", !.result = "failed"] \in Operator
         /\ [Idle EXCEPT !.pc = "check_tags", !.cmd = "release", !.skipTag = a,
                         !.skipRelease = b, !.draft = c] \in Operator
BY DEF Idle, Operator, Steps, Situations

LEMMA OnlyTheCommand ==
  ASSUME ReleaseTypeOK, op' \in Operator, loose' \subseteq Nat,
         UNCHANGED <<base, origin, dirty, localTag, remoteTag, gh, ci, pub, budget, misled>>
  PROVE  ReleaseTypeOK'
BY DEF ReleaseTypeOK

LEMMA CommitsAreNumbers ==
  ASSUME ReleaseTypeOK, NEW tags
  PROVE  Untagged(tags) \subseteq Nat /\ Tip \in Nat /\ Preps \subseteq 1..Tip
BY DEF ReleaseTypeOK, Untagged, Preps, Tip

LEMMA Grows ==
  ASSUME base \in Seq(Commit), NEW c \in Commit
  PROVE  /\ Append(base, c) \in Seq(Commit)
         /\ Len(Append(base, c)) = Tip + 1 /\ Tip \in Nat
         /\ \A j \in 1..Tip : Append(base, c)[j] = base[j]
         /\ Append(base, c)[Tip + 1] = c
BY DEF Tip

LEMMA Kinds == Work \in Commit /\ Prep \in Commit /\ \A n \in Nat : RevertOf(n) \in Commit
BY DEF Work, Prep, RevertOf, Commit

LEMMA Releases ==
  ASSUME ReleaseTypeOK, NEW state \in {"draft", "public"}
  PROVE  /\ NewRelease(state) \in Release /\ NoRelease \in Release
         /\ [gh EXCEPT !.state = state] \in Release
         /\ [gh EXCEPT !.downloads = @ + 1] \in Release
         /\ \A age \in AgesFrom(gh.age) : [gh EXCEPT !.age = age] \in Release
<1>1. /\ gh \in Release /\ gh.serial \in Nat /\ gh.downloads + 1 \in Nat
      /\ gh.age \in {"fresh", "recent", "old"}
  BY DEF ReleaseTypeOK, Release
<1>2. NewRelease(state) \in Release /\ NoRelease \in Release
  <2>1. gh.serial + 1 \in Nat /\ 0 \in Nat
    BY <1>1
  <2>2. NewRelease(state) \in Release
    BY <2>1 DEF NewRelease, Release
  <2>3. NoRelease \in Release
    BY <1>1, <2>1 DEF NoRelease, Release
  <2> QED BY <2>2, <2>3
<1>3. [gh EXCEPT !.state = state] \in Release
  BY <1>1 DEF Release
<1>4. [gh EXCEPT !.downloads = @ + 1] \in Release
  BY <1>1 DEF Release
<1>5. \A age \in AgesFrom(gh.age) : [gh EXCEPT !.age = age] \in Release
  <2>1. AgesFrom(gh.age) \subseteq {"fresh", "recent", "old"}
    BY <1>1 DEF AgesFrom
  <2> QED BY <1>1, <2>1 DEF Release
<1> QED BY <1>2, <1>3, <1>4, <1>5

LEMMA Limits ==
  ASSUME NEW age \in {"fresh", "recent", "old"}, NEW allowLow \in {0, Generous},
         NEW dataLoss \in BOOLEAN, NEW strict \in BOOLEAN
  PROVE  Threshold(age, allowLow, dataLoss, strict) \in Nat \cup {-1}
BY ReleaseAssumption DEF Threshold

(* The command moves, and loose grows.                                     *)
LEMMA Moves ==
  ASSUME ReleaseTypeOK
  PROVE  /\ \A next \in Operator : Proceed(next) => op' \in Operator /\ loose' \subseteq Nat
         /\ Interrupted => op' \in Operator /\ loose' \subseteq Nat
<1>1. loose \subseteq Nat /\ Untagged({localTag}) \subseteq Nat /\ Failed \in Operator
  BY CommitsAreNumbers, Positions DEF ReleaseTypeOK
<1> QED BY <1>1 DEF Proceed, Interrupted

LEMMA ReleaseTypesKept == ReleaseTypeOK /\ [ReleaseNext]_releaseVars => ReleaseTypeOK'
<1> SUFFICES ASSUME ReleaseTypeOK, [ReleaseNext]_releaseVars
             PROVE  ReleaseTypeOK'
  OBVIOUS
<1>1. ASSUME NEW allowDirty \in BOOLEAN, NEW skipTag \in BOOLEAN,
             NEW skipRelease \in BOOLEAN, NEW draft \in BOOLEAN,
             StartRelease(allowDirty, skipTag, skipRelease, draft)
      PROVE  ReleaseTypeOK'
  <2>1. op' \in Operator
    BY <1>1, Started DEF StartRelease
  <2>2. budget' \in [commands: Nat, publishes: Nat]
    BY <1>1 DEF StartRelease, ReleaseTypeOK
  <2>3. UNCHANGED <<base, origin, dirty, localTag, remoteTag, gh, ci, pub, loose, misled>>
    BY <1>1 DEF StartRelease, git
  <2> QED BY <2>1, <2>2, <2>3 DEF ReleaseTypeOK
<1>2. ASSUME CheckTags \/ CheckRelease \/ VerifyDraft PROVE ReleaseTypeOK'
  <2>1. op' \in Operator /\ loose' \subseteq Nat
    <3>1. /\ Goto("check_release") \in Operator /\ Goto("promote") \in Operator
          /\ Goto("flip") \in Operator
      BY Positions DEF Steps
    <3> QED BY <1>2, <3>1, Positions, Moves DEF CheckTags, CheckRelease, VerifyDraft
  <2>2. UNCHANGED <<base, origin, dirty, localTag, remoteTag, gh, ci, pub, budget, misled>>
    BY <1>2 DEF CheckTags, CheckRelease, VerifyDraft, git, others
  <2> QED BY <2>1, <2>2, OnlyTheCommand
<1>3. ASSUME Promote PROVE ReleaseTypeOK'
  BY <1>3, Positions, Moves DEF Promote, ReleaseTypeOK, others, Steps
<1>4. ASSUME CommitRelease PROVE ReleaseTypeOK'
  BY <1>4, Grows, Kinds, Positions, Moves DEF CommitRelease, ReleaseTypeOK, others, Steps
<1>5. ASSUME CreateTag \/ PushRelease PROVE ReleaseTypeOK'
  BY <1>5, CommitsAreNumbers, Positions, Moves DEF CreateTag, PushRelease, ReleaseTypeOK, others, Steps
<1>6. ASSUME CreateGithubRelease PROVE ReleaseTypeOK'
  <2>1. /\ remoteTag' \in Nat /\ misled' \in BOOLEAN /\ gh' \in Release
        /\ op' \in Operator /\ loose' \subseteq Nat
    <3>1. CASE op.skipRelease
      BY <1>6, <3>1, Positions, Moves DEF CreateGithubRelease, ReleaseTypeOK
    <3>2. CASE ~op.skipRelease
      <4>1. remoteTag' \in Nat /\ misled' \in BOOLEAN
        BY <1>6, <3>2 DEF CreateGithubRelease, ReleaseTypeOK, TagOnGithub
      <4>2. gh' \in Release
        BY <1>6, <3>2, Releases DEF CreateGithubRelease, ReleaseTypeOK
      <4>3. op' \in Operator /\ loose' \subseteq Nat
        BY <1>6, <3>2, Positions, Moves DEF CreateGithubRelease, Steps
      <4> QED BY <4>1, <4>2, <4>3
    <3> QED BY <3>1, <3>2
  <2> QED BY <1>6, <2>1 DEF CreateGithubRelease, ReleaseTypeOK
<1>7. ASSUME FlipToDraft PROVE ReleaseTypeOK'
  <2>1. op' \in Operator /\ loose' \subseteq Nat
    BY <1>7, Positions, Moves DEF FlipToDraft
  <2>2. gh' \in Release
    BY <1>7, Releases DEF FlipToDraft, ReleaseTypeOK
  <2>3. UNCHANGED <<git, others>>
    BY <1>7 DEF FlipToDraft
  <2> QED BY <2>1, <2>2, <2>3 DEF ReleaseTypeOK, git, others
<1>8. ASSUME StartRollback PROVE ReleaseTypeOK'
  <2>1. op' \in Operator
    BY <1>8, Started DEF StartRollback
  <2>2. budget' \in [commands: Nat, publishes: Nat]
    BY <1>8 DEF StartRollback, ReleaseTypeOK
  <2>3. UNCHANGED <<base, origin, dirty, localTag, remoteTag, gh, ci, pub, loose, misled>>
    BY <1>8 DEF StartRollback, git
  <2> QED BY <2>1, <2>2, <2>3 DEF ReleaseTypeOK
<1>9. ASSUME NEW allowLow \in {0, Generous}, NEW dataLoss \in BOOLEAN, NEW strict \in BOOLEAN,
             DetectRelease(allowLow, dataLoss, strict)
      PROVE  ReleaseTypeOK'
  <2>1. gh' \in Release /\ misled' \in BOOLEAN
    BY <1>9, Releases DEF DetectRelease, ReleaseTypeOK
  <2>2. op' \in Operator /\ loose' \subseteq Nat
    <3>1. ASSUME NEW age \in AgesFrom(gh.age),
                 Threshold(age, allowLow, dataLoss, strict) >= 0
          PROVE  [Goto("resolve") EXCEPT !.situation = "released",
                    !.limit = Threshold(age, allowLow, dataLoss, strict)] \in Operator
      <4>1. Threshold(age, allowLow, dataLoss, strict) \in Nat
        BY <3>1, Limits DEF AgesFrom, ReleaseTypeOK, Release
      <4>2. Goto("resolve") \in Operator
        BY Positions DEF Steps
      <4> QED BY <4>1, <4>2 DEF Operator, Situations
    <3>2. Goto("detect_tags") \in Operator
      BY Positions DEF Steps
    <3>3. \A age \in AgesFrom(gh.age) :
            Threshold(age, allowLow, dataLoss, strict) < 0
            \/ Threshold(age, allowLow, dataLoss, strict) >= 0
      BY Limits DEF AgesFrom, ReleaseTypeOK, Release
    <3> QED BY <1>9, <3>1, <3>2, <3>3, Positions, Moves DEF DetectRelease
  <2> QED BY <1>9, <2>1, <2>2 DEF DetectRelease, ReleaseTypeOK, git
<1>10. ASSUME DetectTags PROVE ReleaseTypeOK'
  <2>1. /\ [Goto("resolve") EXCEPT !.situation = "pushed"] \in Operator
        /\ [Goto("resolve") EXCEPT !.situation = "local"] \in Operator
        /\ [Done EXCEPT !.situation = "absent"] \in Operator
    BY Positions DEF Operator, Steps, Situations
  <2>2. op' \in Operator /\ loose' \subseteq Nat /\ misled' \in BOOLEAN
    BY <1>10, <2>1, Positions, Moves DEF DetectTags, ReleaseTypeOK
  <2> QED BY <1>10, <2>2 DEF DetectTags, ReleaseTypeOK, git
<1>11. ASSUME ResolvePrepSha PROVE ReleaseTypeOK'
  <2>1. Resolved \subseteq Nat
    BY CommitsAreNumbers DEF Resolved, ReleaseTypeOK
  <2>2. \A sha \in Nat : [Goto(Unwinding) EXCEPT !.sha = sha] \in Operator
    BY Positions DEF Unwinding, Operator, Steps
  <2> QED BY <1>11, <2>1, <2>2, Positions, Moves DEF ResolvePrepSha, ReleaseTypeOK, git, others
<1>12. ASSUME ReadDownloads PROVE ReleaseTypeOK'
  <2>1. [Goto("reread") EXCEPT !.seen = gh.downloads] \in Operator
    <3>1. Goto("reread") \in Operator /\ gh.downloads \in Nat
      BY Positions DEF Steps, ReleaseTypeOK, Release
    <3> QED BY <3>1 DEF Operator
  <2> QED BY <1>12, <2>1, Positions, Moves DEF ReadDownloads, ReleaseTypeOK, git, others
<1>13. ASSUME RereadDownloads PROVE ReleaseTypeOK'
  BY <1>13, Positions, Moves DEF RereadDownloads, ReleaseTypeOK, git, others, Steps
<1>14. ASSUME DeleteRelease \/ DeleteRemoteTag PROVE ReleaseTypeOK'
  BY <1>14, Releases, Positions, Moves DEF DeleteRelease, DeleteRemoteTag, ReleaseTypeOK, others, Steps
<1>15. ASSUME DeleteLocalTag PROVE ReleaseTypeOK'
  BY <1>15, Positions, Moves DEF DeleteLocalTag, ReleaseTypeOK, others, Steps
<1>16. ASSUME RevertCommit PROVE ReleaseTypeOK'
  <2>1. op.sha \in Nat
    BY DEF ReleaseTypeOK, Operator
  <2> QED BY <1>16, <2>1, Grows, Kinds, Positions, Moves DEF RevertCommit, ReleaseTypeOK, others, Steps
<1>17. ASSUME PushBase \/ CrashOperator PROVE ReleaseTypeOK'
  BY <1>17, CommitsAreNumbers, Positions, Moves DEF PushBase, CrashOperator, ReleaseTypeOK, git, others
<1>18. ASSUME Publish PROVE ReleaseTypeOK'
  <2>1. CASE ViewRelease
    BY <2>1 DEF ViewRelease, ReleaseTypeOK, git, Publisher, Release
  <2>2. CASE PublishRelease
    <3>1. gh' \in Release
      BY <2>2, Releases DEF PublishRelease, ReleaseTypeOK
    <3>2. remoteTag' \in Nat /\ misled' \in BOOLEAN
      BY <2>2 DEF PublishRelease, TagOnGithub, ReleaseTypeOK
    <3> QED BY <2>2, <3>1, <3>2 DEF PublishRelease, PubIdle, Publisher, ReleaseTypeOK
  <2> QED BY <1>18, <2>1, <2>2 DEF Publish
<1>19. ASSUME WorkflowCheckout PROVE ReleaseTypeOK'
  BY <1>19 DEF WorkflowCheckout, ReleaseTypeOK, git
<1>20. ASSUME WorkflowUpload PROVE ReleaseTypeOK'
  BY <1>20, Releases DEF WorkflowUpload, ReleaseTypeOK, git
<1>21. ASSUME Download PROVE ReleaseTypeOK'
  <2>1. [op EXCEPT !.late = @ + 1] \in Operator
    <3>1. op \in Operator /\ op.late + 1 \in Nat
      BY DEF ReleaseTypeOK, Operator
    <3> QED BY <3>1 DEF Operator
  <2> QED BY <1>21, <2>1, Releases DEF Download, ReleaseTypeOK, git
<1>22. ASSUME WorkOnBase PROVE ReleaseTypeOK'
  BY <1>22, Grows, Kinds DEF WorkOnBase, ReleaseTypeOK
<1>23. ASSUME PushWork \/ RestoreTree PROVE ReleaseTypeOK'
  BY <1>23, CommitsAreNumbers DEF PushWork, RestoreTree, ReleaseTypeOK
<1>24. ASSUME UNCHANGED releaseVars PROVE ReleaseTypeOK'
  BY <1>24 DEF releaseVars, ReleaseTypeOK
<1> QED BY <1>1, <1>2, <1>3, <1>4, <1>5, <1>6, <1>7, <1>8, <1>9, <1>10, <1>11, <1>12,
           <1>13, <1>14, <1>15, <1>16, <1>17, <1>18, <1>19, <1>20, <1>21, <1>22, <1>23,
           <1>24 DEF ReleaseNext, Cut, Rollback, Environment

-----------------------------------------------------------------------------
(* The branch                                                              *)

(* What an added commit changes: a release commit may be new, a revert     *)
(* takes one out of force, and nothing that was reverted is not.           *)
LEMMA Added ==
  ASSUME base \in Seq(Commit), NEW c \in Commit, base' = Append(base, c)
  PROVE  /\ Tip \in Nat /\ Tip' = Tip + 1 /\ DOMAIN base = 1..Tip /\ DOMAIN base' = 1..(Tip + 1)
         /\ \A j \in 1..Tip : base'[j] = base[j]
         /\ base'[Tip + 1] = c
         /\ Preps \subseteq Preps'
         /\ c # Prep => Preps' = Preps
         /\ Preps' \subseteq Preps \cup {Tip + 1}
BY Grows DEF Preps, Tip

LEMMA AddedReverts ==
  ASSUME base \in Seq(Commit), NEW c \in Commit, base' = Append(base, c), NEW n
  PROVE  /\ \A upto \in Nat : IsReverted(n, upto) => IsReverted(n, upto)'
         /\ IsReverted(n, Tip) => IsReverted(n, Tip)'
         /\ IsReverted(n, Tip)' => IsReverted(n, Tip) \/ c = RevertOf(n)
         /\ c = RevertOf(n) => IsReverted(n, Tip)'
<1> DEFINE t == Tip
<1>1. /\ t \in Nat /\ Tip' = t + 1 /\ DOMAIN base = 1..t /\ DOMAIN base' = 1..(t + 1)
      /\ \A j \in 1..t : base'[j] = base[j]
      /\ base'[t + 1] = c
  BY Added
<1>2. \A upto \in Nat : IsReverted(n, upto) => IsReverted(n, upto)'
  BY <1>1 DEF IsReverted, RevertOf
<1>3. IsReverted(n, Tip) <=> \E j \in 1..t : base[j] = RevertOf(n)
  BY <1>1 DEF IsReverted
<1>4. IsReverted(n, Tip)' <=> \E j \in 1..(t + 1) : base'[j] = RevertOf(n)
  BY <1>1 DEF IsReverted, RevertOf
<1> HIDE DEF t
<1> QED BY <1>1, <1>2, <1>3, <1>4

(* The steps that leave branch and tags alone.                             *)
LEMMA Elsewhere ==
  ASSUME [ReleaseNext]_releaseVars
  PROVE  \/ UNCHANGED <<base, origin, localTag, remoteTag>>
         \/ CommitRelease \/ CreateTag \/ PushRelease \/ CreateGithubRelease
         \/ DeleteRelease \/ DeleteRemoteTag \/ DeleteLocalTag \/ RevertCommit \/ PushBase
         \/ PublishRelease \/ WorkOnBase \/ PushWork
<1>1. CASE Cut
  BY <1>1 DEF Cut, StartRelease, CheckTags, CheckRelease, Promote, VerifyDraft,
              FlipToDraft, git
<1>2. CASE Rollback
  BY <1>2 DEF Rollback, StartRollback, DetectRelease, DetectTags, ResolvePrepSha,
              ReadDownloads, RereadDownloads, git
<1>3. CASE CrashOperator \/ UNCHANGED releaseVars
  BY <1>3 DEF CrashOperator, releaseVars, git
<1>4. CASE Publish
  BY <1>4 DEF Publish, ViewRelease, git
<1>5. CASE Environment
  BY <1>5 DEF Environment, WorkflowCheckout, WorkflowUpload, Download, RestoreTree, git
<1> QED BY <1>1, <1>2, <1>3, <1>4, <1>5 DEF ReleaseNext

LEMMA Extended ==
  ASSUME History, base \in Seq(Commit), NEW c \in Commit, base' = Append(base, c),
         c.kind = "revert" => c.of \in 1..Tip, origin \in Nat, remoteTag \in Nat,
         localTag \in Nat, UNCHANGED <<origin, localTag, remoteTag>>
  PROVE  History'
<1> DEFINE t == Tip
<1>1. /\ t \in Nat /\ Tip' = t + 1 /\ DOMAIN base = 1..t /\ DOMAIN base' = 1..(t + 1)
      /\ \A j \in 1..t : base'[j] = base[j]
      /\ base'[t + 1] = c
  BY Added
<1>2. /\ origin <= t /\ remoteTag <= origin /\ localTag <= t
      /\ localTag # 0 => base[localTag] = Prep
      /\ \A j \in 1..t : base[j].kind = "revert" => base[j].of < j
      /\ c.kind = "revert" => c.of \in 1..t
  BY <1>1 DEF History
<1> HIDE DEF t
<1>3. \A j \in 1..(t + 1) : base'[j].kind = "revert" => base'[j].of < j
  BY <1>1, <1>2
<1>4. localTag' # 0 => base'[localTag'] = Prep
  BY <1>1, <1>2
<1> QED BY <1>1, <1>2, <1>3, <1>4 DEF History

LEMMA HistoryKept ==
  ASSUME ReleaseTypeOK, History, Cutting, InRollback, [ReleaseNext]_releaseVars
  PROVE  History'
<1>0. /\ base \in Seq(Commit) /\ origin \in Nat /\ remoteTag \in Nat /\ localTag \in Nat
      /\ Tip \in Nat /\ Preps \subseteq 1..Tip
  BY CommitsAreNumbers DEF ReleaseTypeOK
<1>1. CASE UNCHANGED <<base, origin, localTag, remoteTag>>
  BY <1>1 DEF History, Tip
<1>2. CASE CommitRelease
  <2>1. CASE base' = Append(base, Prep)
    <3>1. Prep.kind # "revert"
      BY DEF Prep
    <3> QED BY <1>0, <1>2, <2>1, <3>1, Extended, Kinds DEF CommitRelease
  <2>2. CASE base' = base
    BY <1>2, <2>2 DEF CommitRelease, History, Tip
  <2> QED BY <1>2, <2>1, <2>2 DEF CommitRelease
<1>3. CASE CreateTag
  BY <1>0, <1>3 DEF CreateTag, Cutting, History, Tip, Preps
<1>4. CASE PushRelease
  BY <1>0, <1>4 DEF PushRelease, History, Tip
<1>5. CASE CreateGithubRelease \/ PublishRelease
  BY <1>0, <1>5 DEF CreateGithubRelease, PublishRelease, TagOnGithub, History, Tip
<1>6. CASE DeleteRelease \/ DeleteRemoteTag \/ DeleteLocalTag
  BY <1>0, <1>6 DEF DeleteRelease, DeleteRemoteTag, DeleteLocalTag, History, Tip
<1>7. CASE RevertCommit
  <2>1. op.sha \in 1..Tip
    BY <1>0, <1>7 DEF RevertCommit, InRollback, UnwindSteps
  <2>2. CASE base' = Append(base, RevertOf(op.sha))
    <3>1. RevertOf(op.sha) \in Commit /\ RevertOf(op.sha).of = op.sha
      BY <2>1, Kinds DEF RevertOf
    <3> QED BY <1>0, <1>7, <2>1, <2>2, <3>1, Extended DEF RevertCommit
  <2>3. CASE base' = base
    BY <1>7, <2>3 DEF RevertCommit, History, Tip
  <2> QED BY <1>7, <2>2, <2>3 DEF RevertCommit
<1>8. CASE PushBase \/ PushWork
  BY <1>0, <1>8 DEF PushBase, PushWork, History, Tip
<1>9. CASE WorkOnBase
  <2>1. Work.kind # "revert"
    BY DEF Work
  <2> QED BY <1>0, <1>9, <2>1, Extended, Kinds DEF WorkOnBase
<1> QED BY <1>1, <1>2, <1>3, <1>4, <1>5, <1>6, <1>7, <1>8, <1>9, Elsewhere

-----------------------------------------------------------------------------
(* The command                                                             *)

LEMMA Fields ==
  ASSUME op \in Operator
  PROVE  /\ \A step \in Steps :
              /\ Goto(step).pc = step /\ Goto(step).cmd = op.cmd
              /\ Goto(step).situation = op.situation /\ Goto(step).sha = op.sha
              /\ Goto(step).result = op.result /\ Goto(step).limit = op.limit
              /\ Goto(step).late = op.late /\ Goto(step).seen = op.seen
         /\ Done.pc = "idle" /\ Done.cmd = op.cmd /\ Done.sha = op.sha
         /\ Done.situation = op.situation
         /\ Failed.pc = "idle" /\ Failed.cmd = op.cmd /\ Failed.result = "failed"
BY DEF Operator, Goto, Done, Failed, Idle

(* Nobody else touches the branch and the local tag while a command runs.  *)
LEMMA Alone ==
  ASSUME ReleaseTypeOK, Publish \/ Environment \/ UNCHANGED releaseVars
  PROVE  /\ op'.pc = op.pc /\ op'.cmd = op.cmd /\ op'.situation = op.situation
         /\ op'.sha = op.sha /\ op'.result = op.result /\ op'.limit = op.limit
         /\ UNCHANGED <<localTag, loose>>
         /\ op.pc # "idle" => UNCHANGED base
<1>0. op \in Operator
  BY DEF ReleaseTypeOK
<1>1. CASE Download
  BY <1>0, <1>1 DEF Download, git, Operator
<1>2. CASE Publish
  BY <1>2 DEF Publish, ViewRelease, PublishRelease, git
<1>3. CASE Environment /\ ~Download
  BY <1>3 DEF Environment, WorkflowCheckout, WorkflowUpload, WorkOnBase, PushWork,
              RestoreTree, git
<1>4. CASE UNCHANGED releaseVars
  BY <1>4 DEF releaseVars
<1> QED BY <1>1, <1>2, <1>3, <1>4

LEMMA KnowledgeKept ==
  ASSUME ReleaseTypeOK, History, Cutting, InRollback, Unfinished, [ReleaseNext]_releaseVars
  PROVE  Cutting' /\ InRollback' /\ Unfinished'
<1>0. /\ op \in Operator /\ Tip \in Nat /\ Preps \subseteq 1..Tip
      /\ base \in Seq(Commit) /\ localTag \in Nat
  BY CommitsAreNumbers DEF ReleaseTypeOK
<1> DEFINE Known == Cutting' /\ InRollback' /\ Unfinished'
<1>1. ASSUME op'.pc = "idle" PROVE Known
  BY <1>1 DEF Cutting, InRollback, Unfinished, CutSteps, UnwindSteps
<1>2. ASSUME op' = Failed \/ op' = Done \/ op' = [Done EXCEPT !.situation = "absent"] PROVE Known
  <2>1. op'.pc = "idle"
    BY <1>2 DEF Failed, Done, Idle
  <2> QED BY <1>1, <2>1
<1>3. ASSUME NEW a \in BOOLEAN, NEW b \in BOOLEAN, NEW c \in BOOLEAN, NEW d \in BOOLEAN,
             StartRelease(a, b, c, d)
      PROVE  Known
  <2>1. op'.pc = "idle" \/ (op'.pc = "check_tags" /\ op'.cmd = "release" /\ op'.result = "none")
    BY <1>3 DEF StartRelease, Idle
  <2>2. CASE op'.pc = "check_tags" /\ op'.cmd = "release" /\ op'.result = "none"
    BY <2>2 DEF Cutting, InRollback, Unfinished, CutSteps, UnwindSteps
  <2> QED BY <1>1, <2>1, <2>2
<1>4. ASSUME CheckTags \/ CheckRelease \/ Promote \/ VerifyDraft PROVE Known
  <2>1. CASE op' = Failed \/ op' = Done
    BY <1>2, <2>1
  <2>2. CASE CheckTags /\ localTag = 0 /\ localTag' = localTag /\ op' = Goto("check_release")
    BY <1>0, <2>2, Fields DEF CheckTags, Cutting, InRollback, Unfinished, CutSteps, UnwindSteps, Steps
  <2>3. CASE CheckRelease /\ localTag' = localTag /\ op' = Goto("promote")
    BY <1>0, <2>3, Fields DEF CheckRelease, Cutting, InRollback, Unfinished, CutSteps, UnwindSteps, Steps
  <2>4. CASE Promote /\ localTag' = localTag /\ op' \in {Goto("commit"), Goto("create")}
    BY <1>0, <2>4, Fields DEF Promote, Cutting, InRollback, Unfinished, CutSteps, UnwindSteps, Steps
  <2>5. CASE VerifyDraft /\ op' = Goto("flip")
    BY <1>0, <2>5, Fields DEF VerifyDraft, Cutting, InRollback, Unfinished, CutSteps, UnwindSteps, Steps
  <2> QED BY <1>4, <2>1, <2>2, <2>3, <2>4, <2>5
          DEF CheckTags, CheckRelease, Promote, VerifyDraft, Proceed, git
<1>5. ASSUME CommitRelease PROVE Known
  <2>1. CASE op' = Failed
    BY <1>2, <2>1
  <2>2. CASE op' = Goto("tag") /\ base' = Append(base, Prep)
    <3>1. Tip' \in Preps'
      BY <1>0, <2>2, Added, Kinds DEF Preps
    <3> QED BY <1>0, <1>5, <2>2, <3>1, Fields
            DEF CommitRelease, Cutting, InRollback, Unfinished, CutSteps, UnwindSteps, Steps
  <2> QED BY <1>5, <2>1, <2>2 DEF CommitRelease, Proceed
<1>6. ASSUME CreateTag PROVE Known
  <2>1. CASE op' = Failed
    BY <1>2, <2>1
  <2>2. CASE op' = Goto("push") /\ localTag' = Tip
    BY <1>0, <1>6, <2>2, Fields
       DEF CreateTag, Cutting, InRollback, Unfinished, CutSteps, UnwindSteps, Steps, Tip
  <2> QED BY <1>6, <2>1, <2>2 DEF CreateTag, Proceed, Interrupted
<1>7. ASSUME PushRelease \/ CreateGithubRelease \/ FlipToDraft PROVE Known
  <2>1. CASE op' = Failed \/ op' = Done
    BY <1>2, <2>1
  <2>2. CASE op' \in {Goto("create"), Goto("verify")} /\ op.pc \in {"push", "create"}
    BY <1>0, <2>2, Fields
       DEF Cutting, InRollback, Unfinished, CutSteps, UnwindSteps, Steps
  <2> QED BY <1>7, <2>1, <2>2
          DEF PushRelease, CreateGithubRelease, FlipToDraft, Proceed, Interrupted
<1>8. ASSUME StartRollback PROVE Known
  BY <1>8 DEF StartRollback, Idle, Cutting, InRollback, Unfinished, CutSteps, UnwindSteps
<1>9. ASSUME NEW allowLow \in {0, Generous}, NEW dataLoss \in BOOLEAN, NEW strict \in BOOLEAN,
             DetectRelease(allowLow, dataLoss, strict)
      PROVE  Known
  <2>1. CASE op' = Failed
    BY <1>2, <2>1
  <2>2. CASE op' = Goto("detect_tags")
    BY <1>0, <1>9, <2>2, Fields
       DEF DetectRelease, Cutting, InRollback, Unfinished, CutSteps, UnwindSteps, Steps
  <2>3. ASSUME NEW limit \in Int,
               op' = [Goto("resolve") EXCEPT !.situation = "released", !.limit = limit]
        PROVE  Known
    <3>1. /\ op'.pc = "resolve" /\ op'.cmd = op.cmd /\ op'.situation = "released"
          /\ op'.result = op.result
      BY <1>0, <2>3 DEF Goto, Operator
    <3> QED BY <1>0, <1>9, <3>1
            DEF DetectRelease, Cutting, InRollback, Unfinished, CutSteps, UnwindSteps
  <2>4. ASSUME NEW age \in AgesFrom(gh.age)
        PROVE  Threshold(age, allowLow, dataLoss, strict) \in Int
    BY Limits DEF AgesFrom, ReleaseTypeOK, Release
  <2> QED BY <1>9, <2>1, <2>2, <2>3, <2>4 DEF DetectRelease, Proceed
<1>10. ASSUME DetectTags PROVE Known
  <2>1. CASE op' = [Done EXCEPT !.situation = "absent"]
    BY <1>2, <2>1
  <2>2. ASSUME NEW s \in {"pushed", "local"}, op' = [Goto("resolve") EXCEPT !.situation = s]
        PROVE  Known
    <3>1. /\ op'.pc = "resolve" /\ op'.cmd = op.cmd /\ op'.situation = s
          /\ op'.result = op.result
      BY <1>0, <2>2 DEF Goto, Operator
    <3> QED BY <1>0, <1>10, <3>1
            DEF DetectTags, Cutting, InRollback, Unfinished, CutSteps, UnwindSteps
  <2> QED BY <1>10, <2>1, <2>2 DEF DetectTags, Proceed
<1>11. ASSUME ResolvePrepSha PROVE Known
  <2>1. CASE op' = Failed
    BY <1>2, <2>1
  <2>2. ASSUME NEW sha \in Resolved, op' = [Goto(Unwinding) EXCEPT !.sha = sha]
        PROVE  Known
    <3>1. /\ op'.pc = Unwinding /\ op'.cmd = op.cmd /\ op'.situation = op.situation
          /\ op'.result = op.result /\ op'.sha = sha
      BY <1>0, <2>2 DEF Goto, Operator
    <3>2. sha \in Preps /\ (localTag # 0 => localTag = sha)
      BY <1>0, <2>2 DEF Resolved, History, Preps, Tip
    <3>3. UNCHANGED <<base, localTag>> /\ Preps' = Preps
      BY <1>11 DEF ResolvePrepSha, git, Preps
    <3> QED BY <1>0, <1>11, <3>1, <3>2, <3>3
            DEF ResolvePrepSha, Unwinding, Cutting, InRollback, Unfinished, CutSteps, UnwindSteps
  <2> QED BY <1>11, <2>1, <2>2 DEF ResolvePrepSha, Proceed
<1>12. ASSUME ReadDownloads \/ RereadDownloads PROVE Known
  <2>1. CASE op' = Failed
    BY <1>2, <2>1
  <2>2. CASE op' = Goto("delete") \/ op' = [Goto("reread") EXCEPT !.seen = gh.downloads]
    <3>1. /\ op'.pc \in {"reread", "delete"} /\ op'.cmd = op.cmd /\ op'.situation = op.situation
          /\ op'.result = op.result /\ op'.sha = op.sha
      BY <1>0, <2>2 DEF Goto, Operator
    <3>2. UNCHANGED <<base, localTag>> /\ Preps' = Preps
      BY <1>12 DEF ReadDownloads, RereadDownloads, git, Preps
    <3>3. op.pc \in {"read", "reread"}
      BY <1>12 DEF ReadDownloads, RereadDownloads
    <3> QED BY <3>1, <3>2, <3>3 DEF Cutting, InRollback, Unfinished, CutSteps, UnwindSteps
  <2> QED BY <1>12, <2>1, <2>2 DEF ReadDownloads, RereadDownloads, Proceed
<1>13. ASSUME DeleteRelease \/ DeleteRemoteTag PROVE Known
  <2>1. CASE op' = Failed
    BY <1>2, <2>1
  <2>2. CASE op' = Goto("untag_local")
    <3>1. UNCHANGED <<base, localTag>> /\ Preps' = Preps /\ op.pc \in {"delete", "untag_remote"}
      BY <1>13 DEF DeleteRelease, DeleteRemoteTag, Preps
    <3> QED BY <1>0, <2>2, <3>1, Fields
            DEF Cutting, InRollback, Unfinished, CutSteps, UnwindSteps, Steps
  <2> QED BY <1>13, <2>1, <2>2 DEF DeleteRelease, DeleteRemoteTag, Proceed, Interrupted
<1>14. ASSUME DeleteLocalTag PROVE Known
  <2>1. CASE op' = Failed
    BY <1>2, <2>1
  <2>2. CASE op' = Goto("revert") /\ (localTag' = 0 \/ op.situation = "released")
    <3>1. UNCHANGED base /\ Preps' = Preps /\ op.pc = "untag_local"
      BY <1>14 DEF DeleteLocalTag, Preps
    <3> QED BY <1>0, <2>2, <3>1, Fields
            DEF Cutting, InRollback, Unfinished, CutSteps, UnwindSteps, Steps
  <2> QED BY <1>14, <2>1, <2>2 DEF DeleteLocalTag, Proceed, Interrupted
<1>15. ASSUME RevertCommit PROVE Known
  <2>1. CASE op' = Failed \/ op' = Done
    BY <1>2, <2>1
  <2>2. CASE /\ op' = Goto("push_base") /\ op.situation # "local"
             /\ base' = Append(base, RevertOf(op.sha))
    <3>1. op.sha \in Preps
      BY <1>15 DEF RevertCommit, InRollback, UnwindSteps
    <3>2. PICK n \in Preps : n = op.sha
      BY <3>1
    <3>3. /\ op'.pc = "push_base" /\ op'.sha = n /\ op'.situation = op.situation
          /\ op'.cmd = op.cmd /\ op'.result = op.result /\ localTag' = localTag
          /\ op.pc = "revert"
      BY <1>0, <1>15, <2>2, <3>2, Fields DEF RevertCommit, Steps
    <3>4. n \in Nat /\ RevertOf(n) \in Commit /\ base' = Append(base, RevertOf(n))
      BY <1>0, <2>2, <3>2, Kinds
    <3>5. n \in Preps' /\ IsReverted(n, Tip)'
      BY <1>0, <3>4, Added, AddedReverts
    <3> QED BY <2>2, <3>3, <3>5
            DEF Cutting, InRollback, Unfinished, CutSteps, UnwindSteps, IsReverted
  <2> QED BY <1>15, <2>1, <2>2 DEF RevertCommit, Proceed, Interrupted
<1>16. ASSUME PushBase \/ CrashOperator PROVE Known
  BY <1>2, <1>16 DEF PushBase, CrashOperator, Proceed, Interrupted
<1>17. ASSUME Publish \/ Environment \/ UNCHANGED releaseVars PROVE Known
  <2>1. CASE op.pc = "idle"
    BY <1>1, <1>17, <2>1, Alone
  <2>2. CASE op.pc # "idle"
    BY <1>17, <2>2, Alone DEF Cutting, InRollback, Unfinished, Preps, Tip, IsReverted
  <2> QED BY <2>1, <2>2
<1> QED BY <1>3, <1>4, <1>5, <1>6, <1>7, <1>8, <1>9, <1>10, <1>11, <1>12, <1>13, <1>14,
           <1>15, <1>16, <1>17 DEF ReleaseNext, Cut, Rollback

-----------------------------------------------------------------------------
(* The release commits that no tag names                                   *)

LEMMA UntaggedAdded ==
  ASSUME base \in Seq(Commit), NEW c \in Commit, base' = Append(base, c), localTag' = localTag
  PROVE  /\ c # Prep => Untagged({localTag})' \subseteq Untagged({localTag})
         /\ Untagged({localTag})' \subseteq Untagged({localTag}) \cup {Tip'}
         /\ \A n : c = RevertOf(n) => n \notin Untagged({localTag})'
<1>1. /\ c # Prep => Preps' = Preps
      /\ Preps' \subseteq Preps \cup {Tip'}
  BY Added
<1>2. ASSUME NEW n PROVE /\ ~IsReverted(n, Tip)' => ~IsReverted(n, Tip)
                         /\ c = RevertOf(n) => IsReverted(n, Tip)'
  BY AddedReverts
<1> QED BY <1>1, <1>2 DEF Untagged

LEMMA AccountedKept ==
  ASSUME ReleaseTypeOK, History, Cutting, InRollback, TagsAccounted, [ReleaseNext]_releaseVars
  PROVE  TagsAccounted'
<1>0. /\ op \in Operator /\ Tip \in Nat /\ Preps \subseteq 1..Tip
      /\ base \in Seq(Commit) /\ localTag \in Nat
  BY CommitsAreNumbers DEF ReleaseTypeOK
<1>1. ASSUME Interrupted, UNCHANGED <<base, localTag>> PROVE TagsAccounted'
  BY <1>1 DEF Interrupted, TagsAccounted, Untagged, Preps, IsReverted, Tip
<1>2. ASSUME op.pc \notin {"tag", "revert"}, loose' = loose, UNCHANGED <<base, localTag>>
      PROVE  TagsAccounted'
  BY <1>2 DEF TagsAccounted, Pending, Untagged, Preps, IsReverted, Tip
<1>3. ASSUME NEW a \in BOOLEAN, NEW b \in BOOLEAN, NEW c \in BOOLEAN, NEW d \in BOOLEAN,
             StartRelease(a, b, c, d)
      PROVE  TagsAccounted'
  BY <1>2, <1>3 DEF StartRelease, git
<1>4. ASSUME CheckTags \/ CheckRelease \/ Promote \/ VerifyDraft PROVE TagsAccounted'
  BY <1>2, <1>4 DEF CheckTags, CheckRelease, Promote, VerifyDraft, Proceed, git
<1>5. ASSUME CommitRelease PROVE TagsAccounted'
  <2>1. CASE base' = base
    BY <1>2, <1>5, <2>1 DEF CommitRelease, Proceed
  <2>2. CASE op' = Goto("tag") /\ base' = Append(base, Prep)
    <3>1. Untagged({localTag})' \subseteq Untagged({localTag}) \cup {Tip'}
      BY <1>0, <1>5, <2>2, UntaggedAdded, Kinds DEF CommitRelease
    <3>2. Pending = {} /\ Pending' = {Tip'} /\ loose' = loose
      BY <1>0, <1>5, <2>2, Fields DEF CommitRelease, Pending, Proceed, Steps
    <3> QED BY <3>1, <3>2 DEF TagsAccounted
  <2> QED BY <1>5, <2>1, <2>2 DEF CommitRelease, Proceed
<1>6. ASSUME CreateTag PROVE TagsAccounted'
  <2>1. op.pc = "tag" /\ localTag = 0 /\ base' = base
    BY <1>6 DEF CreateTag, Cutting
  <2>2. CASE localTag' = localTag
    <3>1. CASE Interrupted
      BY <1>1, <2>1, <2>2, <3>1
    <3>2. CASE localTag = Tip
      BY <1>0, <1>6, <2>1, <3>2 DEF CreateTag, Cutting
    <3> QED BY <1>6, <2>1, <2>2, <3>1, <3>2 DEF CreateTag
  <2>3. CASE localTag' = Tip /\ loose' = loose
    <3>1. Untagged({localTag}) \subseteq loose \cup {Tip}
      BY <2>1 DEF TagsAccounted, Pending
    <3>2. Untagged({localTag})' \subseteq Untagged({localTag}) \ {Tip}
      BY <1>0, <2>1, <2>3 DEF Untagged, Preps, IsReverted, Tip
    <3> QED BY <2>3, <3>1, <3>2 DEF TagsAccounted
  <2> QED BY <1>6, <2>1, <2>2, <2>3 DEF CreateTag, Proceed
<1>7. ASSUME PushRelease \/ CreateGithubRelease \/ FlipToDraft PROVE TagsAccounted'
  BY <1>1, <1>2, <1>7 DEF PushRelease, CreateGithubRelease, FlipToDraft, Proceed, git
<1>8. ASSUME StartRollback PROVE TagsAccounted'
  BY <1>2, <1>8 DEF StartRollback, git
<1>9. ASSUME NEW allowLow \in {0, Generous}, NEW dataLoss \in BOOLEAN, NEW strict \in BOOLEAN,
             DetectRelease(allowLow, dataLoss, strict)
      PROVE  TagsAccounted'
  BY <1>2, <1>9 DEF DetectRelease, Proceed, git
<1>10. ASSUME DetectTags \/ ResolvePrepSha \/ ReadDownloads \/ RereadDownloads PROVE TagsAccounted'
  BY <1>2, <1>10 DEF DetectTags, ResolvePrepSha, ReadDownloads, RereadDownloads, Proceed, git
<1>11. ASSUME DeleteRelease \/ DeleteRemoteTag PROVE TagsAccounted'
  BY <1>1, <1>2, <1>11 DEF DeleteRelease, DeleteRemoteTag, Proceed
<1>12. ASSUME DeleteLocalTag PROVE TagsAccounted'
  <2>1. CASE Interrupted /\ localTag' = localTag
    BY <1>1, <1>12, <2>1 DEF DeleteLocalTag
  <2>2. CASE op' = Goto("revert") /\ loose' = loose
    <3>1. /\ op.pc = "untag_local" /\ localTag \in {0, op.sha} /\ base' = base
          /\ localTag' \in {0, localTag}
      BY <1>12 DEF DeleteLocalTag, InRollback
    <3>2. Pending = {} /\ Pending' = {op.sha}
      BY <1>0, <2>2, <3>1, Fields DEF Pending, Steps
    <3>3. Untagged({localTag})' \subseteq Untagged({localTag}) \cup {op.sha}
      BY <3>1 DEF Untagged, Preps, IsReverted, Tip
    <3> QED BY <2>2, <3>2, <3>3 DEF TagsAccounted
  <2> QED BY <1>12, <2>1, <2>2 DEF DeleteLocalTag, Proceed
<1>13. ASSUME RevertCommit PROVE TagsAccounted'
  <2>1. CASE base' = base
    BY <1>1, <1>2, <1>13, <2>1, <1>0 DEF RevertCommit, Proceed, Tip
  <2>2. CASE base' = Append(base, RevertOf(op.sha)) /\ loose' = loose
    <3>1. PICK n \in Nat : n = op.sha
      BY <1>0 DEF Operator
    <3>2. Untagged({localTag}) \subseteq loose \cup {n}
      BY <1>13, <3>1 DEF RevertCommit, TagsAccounted, Pending
    <3>3. RevertOf(n) \in Commit /\ RevertOf(n) # Prep
      BY Kinds DEF RevertOf, Prep
    <3>4. /\ Untagged({localTag})' \subseteq Untagged({localTag})
          /\ n \notin Untagged({localTag})'
      BY <1>0, <1>13, <2>2, <3>1, <3>3, UntaggedAdded DEF RevertCommit
    <3> QED BY <2>2, <3>2, <3>4 DEF TagsAccounted
  <2> QED BY <1>13, <2>1, <2>2 DEF RevertCommit, Proceed
<1>14. ASSUME PushBase \/ CrashOperator PROVE TagsAccounted'
  BY <1>1, <1>2, <1>14 DEF PushBase, CrashOperator, Proceed, git
<1>15. ASSUME Publish \/ Environment \/ UNCHANGED releaseVars PROVE TagsAccounted'
  <2>1. CASE base' = base
    BY <1>15, <2>1, Alone DEF TagsAccounted, Pending, Untagged, Preps, IsReverted, Tip
  <2>2. CASE WorkOnBase
    <3>1. Work # Prep
      BY DEF Work, Prep
    <3>2. Untagged({localTag})' \subseteq Untagged({localTag})
      BY <1>0, <2>2, <3>1, Kinds, UntaggedAdded DEF WorkOnBase
    <3> QED BY <2>2, <3>2 DEF WorkOnBase, TagsAccounted, Pending
  <2> QED BY <1>15, <2>1, <2>2
          DEF Publish, ViewRelease, PublishRelease, Environment, WorkflowCheckout,
              WorkflowUpload, Download, PushWork, RestoreTree, git, releaseVars
<1> QED BY <1>3, <1>4, <1>5, <1>6, <1>7, <1>8, <1>9, <1>10, <1>11, <1>12, <1>13, <1>14,
           <1>15 DEF ReleaseNext, Cut, Rollback

-----------------------------------------------------------------------------
(* The download guard                                                      *)

(* Only the last look at the downloads leads to the deletion.              *)
LEMMA ToDelete ==
  ASSUME ReleaseTypeOK, [ReleaseNext]_releaseVars, op'.pc = "delete"
  PROVE  RereadDownloads \/ Publish \/ Environment \/ UNCHANGED releaseVars
<1>0. op \in Operator
  BY DEF ReleaseTypeOK
<1>1. \A step \in Steps : Goto(step).pc = step
  BY <1>0, Fields
<1>2. Failed.pc = "idle" /\ Done.pc = "idle" /\ Idle.pc = "idle"
  BY DEF Failed, Done, Idle
<1>3. ASSUME NEW a \in BOOLEAN, NEW b \in BOOLEAN, NEW c \in BOOLEAN, NEW d \in BOOLEAN
      PROVE  ~StartRelease(a, b, c, d)
  <2>1. /\ [Idle EXCEPT !.cmd = "release", !.result = "failed"].pc = "idle"
        /\ [Idle EXCEPT !.pc = "check_tags", !.cmd = "release", !.skipTag = b,
                        !.skipRelease = c, !.draft = d].pc = "check_tags"
    BY DEF Idle
  <2> QED BY <2>1 DEF StartRelease
<1>4. ~(CheckTags \/ CheckRelease \/ Promote \/ CommitRelease \/ CreateTag)
  BY <1>1, <1>2 DEF CheckTags, CheckRelease, Promote, CommitRelease, CreateTag, Proceed,
                    Interrupted, Steps
<1>5. ~(PushRelease \/ CreateGithubRelease \/ VerifyDraft \/ FlipToDraft)
  BY <1>1, <1>2 DEF PushRelease, CreateGithubRelease, VerifyDraft, FlipToDraft, Proceed,
                    Interrupted, Steps
<1>6. ~StartRollback
  BY DEF StartRollback, Idle
<1>7. ASSUME NEW allowLow \in {0, Generous}, NEW dataLoss \in BOOLEAN, NEW strict \in BOOLEAN
      PROVE  ~DetectRelease(allowLow, dataLoss, strict)
  <2>1. \A limit : [Goto("resolve") EXCEPT !.situation = "released", !.limit = limit].pc = "resolve"
    BY <1>0 DEF Goto, Operator
  <2>2. Goto("detect_tags").pc # "delete"
    BY <1>1 DEF Steps
  <2>3. DetectRelease(allowLow, dataLoss, strict) =>
          op' \in {Failed, Goto("detect_tags")}
          \/ \E limit : op' = [Goto("resolve") EXCEPT !.situation = "released", !.limit = limit]
    BY DEF DetectRelease, Proceed
  <2> QED BY <1>2, <2>1, <2>2, <2>3
<1>8. ~DetectTags
  <2>1. \A t : /\ [Goto("resolve") EXCEPT !.situation = t].pc = "resolve"
               /\ [Done EXCEPT !.situation = t].pc = "idle"
    BY <1>0 DEF Goto, Operator, Done, Idle
  <2> QED BY <2>1 DEF DetectTags, Proceed
<1>9. ~ResolvePrepSha
  <2>1. \A t : [Goto(Unwinding) EXCEPT !.sha = t].pc = Unwinding
    BY <1>0 DEF Goto, Operator
  <2>2. Unwinding # "delete"
    BY DEF Unwinding
  <2> QED BY <1>2, <2>1, <2>2 DEF ResolvePrepSha, Proceed
<1>10. ~ReadDownloads
  <2>1. \A t : [Goto("reread") EXCEPT !.seen = t].pc = "reread"
    BY <1>0 DEF Goto, Operator
  <2> QED BY <1>2, <2>1 DEF ReadDownloads, Proceed
<1>11. ~(DeleteRelease \/ DeleteRemoteTag \/ DeleteLocalTag \/ RevertCommit \/ PushBase
          \/ CrashOperator)
  BY <1>1, <1>2 DEF DeleteRelease, DeleteRemoteTag, DeleteLocalTag, RevertCommit, PushBase,
                    CrashOperator, Proceed, Interrupted, Steps
<1> QED BY <1>3, <1>4, <1>5, <1>6, <1>7, <1>8, <1>9, <1>10, <1>11
        DEF ReleaseNext, Cut, Rollback

LEMMA GuardedKept ==
  ASSUME ReleaseTypeOK, Guarded, [ReleaseNext]_releaseVars
  PROVE  Guarded'
<1> SUFFICES ASSUME op'.pc = "delete" PROVE gh'.downloads <= op'.limit + op'.late
  BY DEF Guarded
<1>0. /\ op \in Operator /\ gh \in Release /\ op.limit \in Nat /\ op.late \in Nat
      /\ gh.downloads \in Nat /\ op.seen \in Nat
  BY DEF ReleaseTypeOK, Operator, Release
<1>1. CASE RereadDownloads
  <2>1. Failed.pc = "idle"
    BY <1>0, Fields
  <2>2. op' = Goto("delete") /\ gh.downloads <= op.limit /\ gh' = gh
    BY <1>0, <1>1, <2>1 DEF RereadDownloads, Proceed
  <2>3. op'.limit = op.limit /\ op'.late = op.late
    BY <1>0, <2>2, Fields DEF Steps
  <2> QED BY <1>0, <2>2, <2>3
<1>2. CASE Download
  BY <1>0, <1>2 DEF Download, Guarded, Operator, Release
<1>3. CASE WorkflowUpload
  <2>1. NewRelease("draft").downloads = 0 /\ [gh EXCEPT !.state = "draft"].downloads = gh.downloads
    BY <1>0 DEF NewRelease, Release
  <2>2. gh'.downloads \in {0, gh.downloads} /\ op' = op
    BY <1>3, <2>1 DEF WorkflowUpload
  <2>3. gh.downloads <= op.limit + op.late
    BY <2>2 DEF Guarded
  <2> QED BY <1>0, <2>2, <2>3
<1>4. CASE PublishRelease
  <2>1. [gh EXCEPT !.state = "public"].downloads = gh.downloads
    BY <1>0 DEF Release
  <2> QED BY <1>0, <1>4, <2>1 DEF PublishRelease, Guarded
<1>5. CASE ViewRelease \/ WorkflowCheckout \/ WorkOnBase \/ PushWork \/ RestoreTree
           \/ UNCHANGED releaseVars
  BY <1>5 DEF ViewRelease, WorkflowCheckout, WorkOnBase, PushWork, RestoreTree,
              releaseVars, Guarded
<1> QED BY <1>1, <1>2, <1>3, <1>4, <1>5, ToDelete DEF Publish, Environment

(* A release only goes when a rollback deletes it.                         *)
LEMMA OnlyDeleted ==
  ASSUME ReleaseTypeOK, [ReleaseNext]_releaseVars, gh.state # "absent", gh'.state = "absent"
  PROVE  op.pc = "delete"
<1>0. gh \in Release /\ \A t : /\ NewRelease(t).state = t
                              /\ [gh EXCEPT !.state = t].state = t
                              /\ [gh EXCEPT !.age = t].state = gh.state
                              /\ [gh EXCEPT !.downloads = t].state = gh.state
  BY DEF ReleaseTypeOK, Release, NewRelease
<1>1. ~Cut
  <2>1. ~(CreateGithubRelease \/ FlipToDraft)
    BY <1>0 DEF CreateGithubRelease, FlipToDraft
  <2>2. \A a, b, c, d \in BOOLEAN : ~StartRelease(a, b, c, d)
    BY DEF StartRelease
  <2>3. ~(CheckTags \/ CheckRelease \/ Promote \/ CommitRelease \/ CreateTag
          \/ PushRelease \/ VerifyDraft)
    BY DEF CheckTags, CheckRelease, Promote, CommitRelease, CreateTag, PushRelease, VerifyDraft
  <2> QED BY <2>1, <2>2, <2>3 DEF Cut
<1>2. Rollback => DeleteRelease
  <2>1. ~DeleteRemoteTag
    BY <1>0 DEF DeleteRemoteTag
  <2>2. \A a \in {0, Generous}, b, c \in BOOLEAN : ~DetectRelease(a, b, c)
    BY <1>0 DEF DetectRelease
  <2> QED BY <2>1, <2>2 DEF Rollback, StartRollback, DetectTags, ResolvePrepSha,
             ReadDownloads, RereadDownloads, DeleteLocalTag, RevertCommit, PushBase
<1>3. ~(CrashOperator \/ Publish \/ UNCHANGED releaseVars)
  BY <1>0 DEF CrashOperator, Publish, ViewRelease, PublishRelease, releaseVars
<1>4. ~Environment
  BY <1>0 DEF Environment, WorkflowCheckout, WorkflowUpload, Download, WorkOnBase, PushWork,
              RestoreTree
<1> QED BY <1>1, <1>2, <1>3, <1>4 DEF ReleaseNext, DeleteRelease

-----------------------------------------------------------------------------
(* What a rollback withdraws stays withdrawn                               *)

LEMMA MisledStays == ASSUME ReleaseTypeOK, [ReleaseNext]_releaseVars, misled PROVE misled'
<1>1. CASE Cut
  BY <1>1 DEF Cut, StartRelease, CheckTags, CheckRelease, Promote, CommitRelease, CreateTag,
              PushRelease, CreateGithubRelease, TagOnGithub, VerifyDraft, FlipToDraft, others
<1>2. CASE Rollback
  BY <1>2 DEF Rollback, StartRollback, DetectRelease, DetectTags, ResolvePrepSha, ReadDownloads,
              RereadDownloads, DeleteRelease, DeleteRemoteTag, DeleteLocalTag, RevertCommit,
              PushBase, others
<1>3. CASE CrashOperator \/ UNCHANGED releaseVars
  BY <1>3 DEF CrashOperator, others, releaseVars
<1>4. CASE Publish
  BY <1>4 DEF Publish, ViewRelease, PublishRelease, TagOnGithub
<1>5. CASE Environment
  BY <1>5 DEF Environment, WorkflowCheckout, WorkflowUpload, Download, WorkOnBase, PushWork,
              RestoreTree
<1> QED BY <1>1, <1>2, <1>3, <1>4, <1>5 DEF ReleaseNext

(* A commit that was just made is not reverted.                            *)
LEMMA TipStands == ASSUME ReleaseTypeOK, History PROVE ~IsReverted(Tip, Tip)
<1>1. Tip \in Nat /\ DOMAIN base = 1..Tip
  BY DEF ReleaseTypeOK, Tip
<1> QED BY <1>1 DEF History, IsReverted, RevertOf

(* A tag on origin that names no reverted commit.                          *)
TagStands == remoteTag # 0 => ~IsReverted(remoteTag, Tip)

LEMMA TagStandsKept ==
  ASSUME ReleaseTypeOK, History, Cutting, InRollback, Withdrawn,
         [ReleaseNext]_releaseVars, ~misled'
  PROVE  TagStands'
<1>0. /\ ~misled /\ TagStands
      /\ base \in Seq(Commit) /\ remoteTag \in Nat /\ Tip \in Nat /\ op \in Operator
  BY MisledStays DEF ReleaseTypeOK, Withdrawn, TagStands, Tip
<1>1. CASE UNCHANGED <<base, remoteTag>>
  BY <1>0, <1>1 DEF TagStands, IsReverted, Tip
<1>2. ASSUME NEW c \in Commit, base' = Append(base, c), remoteTag' = remoteTag,
             c.kind # "revert"
      PROVE  TagStands'
  <2>1. PICK n \in Nat : n = remoteTag
    BY <1>0
  <2>2. c # RevertOf(n)
    BY <1>2 DEF RevertOf
  <2>3. ~IsReverted(n, Tip) => ~IsReverted(n, Tip)'
    BY <1>0, <1>2, <2>2, AddedReverts
  <2>4. n # 0 => ~IsReverted(n, Tip)
    BY <1>0, <2>1 DEF TagStands
  <2> QED BY <1>2, <2>1, <2>3, <2>4 DEF TagStands, IsReverted
<1>3. CASE CommitRelease
  <2>1. Prep.kind # "revert"
    BY DEF Prep
  <2> QED BY <1>1, <1>2, <1>3, <2>1, Kinds DEF CommitRelease
<1>4. CASE WorkOnBase
  <2>1. Work.kind # "revert"
    BY DEF Work
  <2> QED BY <1>2, <1>4, <2>1, Kinds DEF WorkOnBase
<1>5. CASE PushRelease
  <2>1. CASE remoteTag' = localTag /\ base' = base
    <3>1. remoteTag' = Tip
      BY <1>5, <2>1 DEF PushRelease, Cutting
    <3> QED BY <2>1, <3>1, TipStands DEF TagStands, IsReverted, Tip
  <2> QED BY <1>1, <1>5, <2>1 DEF PushRelease
<1>6. CASE CreateGithubRelease \/ PublishRelease
  BY <1>0, <1>1, <1>6 DEF CreateGithubRelease, PublishRelease, TagOnGithub
<1>7. CASE DeleteRelease \/ DeleteRemoteTag
  BY <1>1, <1>7 DEF DeleteRelease, DeleteRemoteTag, TagStands
<1>8. CASE RevertCommit
  BY <1>0, <1>8 DEF RevertCommit, Withdrawn, TagStands
<1>9. CASE CreateTag \/ DeleteLocalTag \/ PushBase \/ PushWork
  BY <1>1, <1>9 DEF CreateTag, DeleteLocalTag, PushBase, PushWork
<1> QED BY <1>1, <1>3, <1>4, <1>5, <1>6, <1>7, <1>8, <1>9, Elsewhere

(* What is absent stays absent while nobody acts but GitHub, its workflow, *)
(* the publishers and the consumers.                                       *)
LEMMA StaysAbsent ==
  ASSUME Publish \/ Environment \/ UNCHANGED releaseVars, gh.state = "absent", ~misled',
         remoteTag = 0 \/ (op.pc # "idle" /\ op.cmd = "rollback")
  PROVE  gh'.state = "absent" /\ remoteTag' = remoteTag
<1>1. CASE Publish
  BY <1>1 DEF Publish, ViewRelease, PublishRelease, git
<1>2. CASE Environment
  BY <1>2 DEF Environment, WorkflowCheckout, WorkflowUpload, Download, WorkOnBase, PushWork,
              RestoreTree, git
<1>3. CASE UNCHANGED releaseVars
  BY <1>3 DEF releaseVars
<1> QED BY <1>1, <1>2, <1>3

(* The rest of Withdrawn: what the command has found gone.                 *)
GoneFromOrigin ==
  /\ op.pc = "resolve" /\ op.situation = "local" => remoteTag = 0
  /\ op.pc \in {"untag_local", "revert", "push_base"} => remoteTag = 0 /\ gh.state = "absent"
  /\ op.pc = "detect_tags" => gh.state = "absent"
  /\ op.pc \in {"resolve", "untag_remote"} /\ op.situation \in {"local", "pushed"} =>
       gh.state = "absent"

LEMMA GoneKept ==
  ASSUME ReleaseTypeOK, Cutting, InRollback, Withdrawn, [ReleaseNext]_releaseVars, ~misled'
  PROVE  GoneFromOrigin'
<1>0. ~misled /\ GoneFromOrigin /\ op \in Operator /\ gh \in Release
  BY MisledStays DEF ReleaseTypeOK, Withdrawn, GoneFromOrigin
<1> DEFINE Watched == {"resolve", "untag_local", "revert", "push_base", "detect_tags", "untag_remote"}
<1>1. ASSUME op'.pc \notin Watched PROVE GoneFromOrigin'
  BY <1>1 DEF GoneFromOrigin
<1>2. Failed.pc = "idle" /\ Done.pc = "idle" /\ \A step \in Steps : Goto(step).pc = step
  BY <1>0, Fields
<1>3. ASSUME NEW a \in BOOLEAN, NEW b \in BOOLEAN, NEW c \in BOOLEAN, NEW d \in BOOLEAN,
             StartRelease(a, b, c, d)
      PROVE  GoneFromOrigin'
  <2>1. op'.pc \in {"idle", "check_tags"}
    BY <1>3 DEF StartRelease, Idle
  <2> QED BY <1>1, <2>1
<1>4. ASSUME CheckTags \/ CheckRelease \/ Promote \/ CommitRelease \/ CreateTag PROVE GoneFromOrigin'
  <2>1. op'.pc \in {"idle", "check_release", "promote", "commit", "create", "tag", "push"}
    BY <1>2, <1>4 DEF CheckTags, CheckRelease, Promote, CommitRelease, CreateTag, Proceed,
                      Interrupted, Steps
  <2> QED BY <1>1, <2>1
<1>5. ASSUME PushRelease \/ CreateGithubRelease \/ VerifyDraft \/ FlipToDraft PROVE GoneFromOrigin'
  <2>1. op'.pc \in {"idle", "create", "verify", "flip"}
    BY <1>2, <1>5 DEF PushRelease, CreateGithubRelease, VerifyDraft, FlipToDraft, Proceed,
                      Interrupted, Steps
  <2> QED BY <1>1, <2>1
<1>6. ASSUME StartRollback PROVE GoneFromOrigin'
  <2>1. op'.pc = "detect"
    BY <1>6 DEF StartRollback, Idle
  <2> QED BY <1>1, <2>1
<1>7. ASSUME NEW allowLow \in {0, Generous}, NEW dataLoss \in BOOLEAN, NEW strict \in BOOLEAN,
             DetectRelease(allowLow, dataLoss, strict)
      PROVE  GoneFromOrigin'
  <2>1. CASE op' = Failed
    BY <1>1, <1>2, <2>1
  <2>2. CASE op' = Goto("detect_tags") /\ gh' = gh /\ (misled' <=> misled \/ gh.state # "absent")
    BY <1>2, <2>2 DEF GoneFromOrigin, Steps
  <2>3. ASSUME NEW limit,
               op' = [Goto("resolve") EXCEPT !.situation = "released", !.limit = limit]
        PROVE  GoneFromOrigin'
    <3>1. op'.pc = "resolve" /\ op'.situation = "released"
      BY <1>0, <2>3 DEF Goto, Operator
    <3> QED BY <3>1 DEF GoneFromOrigin
  <2> QED BY <1>7, <2>1, <2>2, <2>3 DEF DetectRelease, Proceed
<1>8. ASSUME DetectTags PROVE GoneFromOrigin'
  <2>1. PICK seen \in {remoteTag, 0} :
          /\ misled' = (misled \/ seen # remoteTag)
          /\ op' = CASE seen # 0 -> [Goto("resolve") EXCEPT !.situation = "pushed"]
                     [] seen = 0 /\ localTag # 0 ->
                         [Goto("resolve") EXCEPT !.situation = "local"]
                     [] OTHER -> [Done EXCEPT !.situation = "absent"]
    BY <1>8 DEF DetectTags, Proceed
  <2>2. /\ [Goto("resolve") EXCEPT !.situation = "pushed"].situation = "pushed"
        /\ [Done EXCEPT !.situation = "absent"].pc = "idle"
    BY <1>0 DEF Goto, Operator, Done, Idle
  <2>3. gh.state = "absent" /\ gh' = gh /\ remoteTag' = remoteTag /\ seen = remoteTag
    BY <1>0, <1>8, <2>1 DEF DetectTags, GoneFromOrigin, git
  <2>4. op'.pc \in {"resolve", "idle"} /\ (op'.pc = "resolve" /\ op'.situation = "local" => seen = 0)
    BY <1>0, <2>1, <2>2 DEF Goto, Operator
  <2> QED BY <2>3, <2>4 DEF GoneFromOrigin
<1>9. ASSUME ResolvePrepSha PROVE GoneFromOrigin'
  <2>1. CASE op' = Failed
    BY <1>1, <1>2, <2>1
  <2>2. ASSUME NEW sha, op' = [Goto(Unwinding) EXCEPT !.sha = sha] PROVE GoneFromOrigin'
    <3>1. op'.pc = Unwinding /\ op'.situation = op.situation
      BY <1>0, <2>2 DEF Goto, Operator
    <3>2. op.pc = "resolve" /\ gh' = gh /\ remoteTag' = remoteTag
          /\ op.situation \in {"local", "pushed", "released"}
      BY <1>9 DEF ResolvePrepSha, InRollback, git
    <3> QED BY <1>0, <3>1, <3>2 DEF GoneFromOrigin, Unwinding
  <2> QED BY <1>9, <2>1, <2>2 DEF ResolvePrepSha, Proceed
<1>10. ASSUME ReadDownloads \/ RereadDownloads PROVE GoneFromOrigin'
  <2>1. [Goto("reread") EXCEPT !.seen = gh.downloads].pc = "reread"
    BY <1>0 DEF Goto, Operator
  <2>2. op'.pc \in {"idle", "reread", "delete"}
    BY <1>2, <1>10, <2>1 DEF ReadDownloads, RereadDownloads, Proceed, Steps
  <2> QED BY <1>1, <2>2
<1>11. ASSUME DeleteRelease \/ DeleteRemoteTag PROVE GoneFromOrigin'
  <2>1. CASE op' = Failed
    BY <1>1, <1>2, <2>1
  <2>2. CASE op' = Goto("untag_local") /\ remoteTag' = 0 /\ gh'.state = "absent"
    BY <1>2, <2>2 DEF GoneFromOrigin, Steps
  <2>3. NoRelease.state = "absent"
    BY <1>0 DEF NoRelease, Release
  <2>4. op.pc = "untag_remote" => gh.state = "absent"
    BY <1>0 DEF InRollback, GoneFromOrigin
  <2> QED BY <1>11, <2>1, <2>2, <2>3, <2>4
          DEF DeleteRelease, DeleteRemoteTag, Proceed, Interrupted
<1>12. ASSUME DeleteLocalTag \/ RevertCommit \/ PushBase PROVE GoneFromOrigin'
  <2>1. CASE op' = Failed \/ op' = Done
    BY <1>1, <1>2, <2>1
  <2>2. CASE op' \in {Goto("revert"), Goto("push_base")}
    BY <1>0, <1>2, <1>12, <2>2 DEF DeleteLocalTag, RevertCommit, PushBase, GoneFromOrigin, Steps, others
  <2> QED BY <1>12, <2>1, <2>2 DEF DeleteLocalTag, RevertCommit, PushBase, Proceed, Interrupted
<1>13. ASSUME CrashOperator PROVE GoneFromOrigin'
  BY <1>1, <1>2, <1>13 DEF CrashOperator, Interrupted
<1>14. ASSUME Publish \/ Environment \/ UNCHANGED releaseVars PROVE GoneFromOrigin'
  <2>1. op'.pc = op.pc /\ op'.situation = op.situation
    BY <1>14, Alone
  <2>2. op.pc \in Watched => op.cmd = "rollback" /\ op.pc # "idle"
    BY DEF InRollback, UnwindSteps
  <2>3. op.pc \in Watched /\ gh.state = "absent" =>
          gh'.state = "absent" /\ remoteTag' = remoteTag
    BY <1>14, <2>2, StaysAbsent
  <2> QED BY <1>0, <2>1, <2>3 DEF GoneFromOrigin
<1> QED BY <1>3, <1>4, <1>5, <1>6, <1>7, <1>8, <1>9, <1>10, <1>11, <1>12, <1>13, <1>14
        DEF ReleaseNext, Cut, Rollback

LEMMA WithdrawnKept ==
  ASSUME ReleaseTypeOK, History, Cutting, InRollback, Withdrawn, [ReleaseNext]_releaseVars
  PROVE  Withdrawn'
<1>1. ~misled' => TagStands' /\ GoneFromOrigin'
  BY TagStandsKept, GoneKept
<1> QED BY <1>1 DEF Withdrawn, TagStands, GoneFromOrigin

-----------------------------------------------------------------------------
(* What a rollback that exits 0 has undone                                 *)

LEMMA UndoneKept ==
  ASSUME ReleaseInv, [ReleaseNext]_releaseVars
  PROVE  RollbackUndoes'
<1>0. /\ op \in Operator /\ base \in Seq(Commit) /\ Tip \in Nat /\ Preps \subseteq 1..Tip
      /\ origin \in Nat /\ localTag \in Nat
      /\ Cutting /\ InRollback /\ Unfinished /\ Withdrawn /\ RollbackUndoes /\ History
      /\ ReleaseTypeOK
  BY CommitsAreNumbers DEF ReleaseInv, ReleaseTypeOK
<1>1. ASSUME op'.result # "ok" \/ op'.cmd # "rollback" PROVE RollbackUndoes'
  BY <1>1 DEF RollbackUndoes
<1>2. /\ Failed.result = "failed" /\ Done.cmd = op.cmd
      /\ \A step \in Steps : Goto(step).result = op.result
  BY <1>0, Fields
<1>3. ASSUME NEW a \in BOOLEAN, NEW b \in BOOLEAN, NEW c \in BOOLEAN, NEW d \in BOOLEAN,
             StartRelease(a, b, c, d)
      PROVE  RollbackUndoes'
  <2>1. op'.cmd = "release"
    BY <1>3 DEF StartRelease, Idle
  <2> QED BY <1>1, <2>1
<1>4. ASSUME CheckTags \/ CheckRelease \/ Promote \/ CommitRelease \/ CreateTag
      PROVE  RollbackUndoes'
  <2>1. op.result = "none"
    BY <1>0, <1>4 DEF CheckTags, CheckRelease, Promote, CommitRelease, CreateTag, Unfinished
  <2>2. op'.result # "ok"
    BY <1>2, <1>4, <2>1 DEF CheckTags, CheckRelease, Promote, CommitRelease, CreateTag, Proceed,
                      Interrupted, Steps
  <2> QED BY <1>1, <2>2
<1>5. ASSUME PushRelease \/ CreateGithubRelease \/ VerifyDraft \/ FlipToDraft
      PROVE  RollbackUndoes'
  <2>1. op.result = "none" /\ op.cmd = "release"
    BY <1>0, <1>5 DEF PushRelease, CreateGithubRelease, VerifyDraft, FlipToDraft, Unfinished,
                      Cutting, CutSteps
  <2>2. op'.result # "ok" \/ op'.cmd # "rollback"
    BY <1>2, <1>5, <2>1 DEF PushRelease, CreateGithubRelease, VerifyDraft, FlipToDraft, Proceed,
                      Interrupted, Steps
  <2> QED BY <1>1, <2>2
<1>6. ASSUME StartRollback PROVE RollbackUndoes'
  <2>1. op'.result = "none"
    BY <1>6 DEF StartRollback, Idle
  <2> QED BY <1>1, <2>1
<1>7. ASSUME NEW allowLow \in {0, Generous}, NEW dataLoss \in BOOLEAN, NEW strict \in BOOLEAN,
             DetectRelease(allowLow, dataLoss, strict)
      PROVE  RollbackUndoes'
  <2>1. \A limit : [Goto("resolve") EXCEPT !.situation = "released", !.limit = limit].result = op.result
    BY <1>0 DEF Goto, Operator
  <2>2. op.result = "none"
    BY <1>0, <1>7 DEF DetectRelease, Unfinished
  <2>3. \/ op' \in {Failed, Goto("detect_tags")}
        \/ \E limit : op' = [Goto("resolve") EXCEPT !.situation = "released", !.limit = limit]
    BY <1>7 DEF DetectRelease, Proceed
  <2>4. op'.result # "ok"
    BY <1>2, <2>1, <2>2, <2>3 DEF Steps
  <2> QED BY <1>1, <2>4
<1>8. ASSUME DetectTags PROVE RollbackUndoes'
  <2>1. \A t : /\ [Goto("resolve") EXCEPT !.situation = t].result = op.result
               /\ [Done EXCEPT !.situation = t].situation = t
    BY <1>0 DEF Goto, Operator, Done, Idle
  <2>2. op.result = "none"
    BY <1>0, <1>8 DEF DetectTags, Unfinished
  <2>3. \/ op' = [Done EXCEPT !.situation = "absent"]
        \/ \E t : op' = [Goto("resolve") EXCEPT !.situation = t]
    BY <1>8 DEF DetectTags, Proceed
  <2>4. op'.result # "ok" \/ op'.situation = "absent"
    BY <2>1, <2>2, <2>3
  <2> QED BY <2>4 DEF RollbackUndoes
<1>9. ASSUME ResolvePrepSha \/ ReadDownloads \/ RereadDownloads PROVE RollbackUndoes'
  <2>1. \A t : /\ [Goto(Unwinding) EXCEPT !.sha = t].result = op.result
               /\ [Goto("reread") EXCEPT !.seen = t].result = op.result
    BY <1>0 DEF Goto, Operator
  <2>2. op.result = "none"
    BY <1>0, <1>9 DEF ResolvePrepSha, ReadDownloads, RereadDownloads, Unfinished
  <2>3. op'.result # "ok"
    BY <1>2, <1>9, <2>1, <2>2 DEF ResolvePrepSha, ReadDownloads, RereadDownloads, Proceed, Steps
  <2> QED BY <1>1, <2>3
<1>10. ASSUME DeleteRelease \/ DeleteRemoteTag \/ DeleteLocalTag \/ CrashOperator
       PROVE  RollbackUndoes'
  <2>1. op.result = "none"
    BY <1>0, <1>10 DEF DeleteRelease, DeleteRemoteTag, DeleteLocalTag, CrashOperator, Unfinished
  <2>2. op'.result # "ok"
    BY <1>2, <1>10, <2>1 DEF DeleteRelease, DeleteRemoteTag, DeleteLocalTag, CrashOperator,
                             Proceed, Interrupted, Steps
  <2> QED BY <1>1, <2>2
<1>11. ASSUME RevertCommit PROVE RollbackUndoes'
  <2>1. op.result = "none" /\ op.sha \in Preps
    BY <1>0, <1>11 DEF RevertCommit, Unfinished, InRollback, UnwindSteps
  <2>2. CASE op' = Failed \/ op' = Goto("push_base")
    BY <1>1, <1>2, <2>1, <2>2 DEF Steps
  <2>3. CASE op' = Done /\ op.situation = "local" /\ base' = Append(base, RevertOf(op.sha))
    <3>1. PICK n \in Preps : n = op.sha
      BY <2>1
    <3>2. RevertOf(n) \in Commit /\ n \in Nat
      BY <1>0, Kinds
    <3>3. n \in Preps' /\ IsReverted(n, Tip)'
      BY <1>0, <2>3, <3>1, <3>2, Added, AddedReverts
    <3>4. op'.sha = n /\ op'.situation = "local"
      BY <1>0, <2>3, <3>1, Fields
    <3>5. localTag' = 0
      BY <1>0, <1>11, <2>3 DEF RevertCommit, InRollback
    <3>6. ~misled' => gh'.state = "absent" /\ remoteTag' = 0
      BY <1>0, <1>11 DEF RevertCommit, Withdrawn, others
    <3> QED BY <3>3, <3>4, <3>5, <3>6 DEF RollbackUndoes, Preps, IsReverted
  <2> QED BY <1>11, <2>2, <2>3 DEF RevertCommit, Proceed, Interrupted
<1>12. ASSUME PushBase PROVE RollbackUndoes'
  <2>1. CASE op' = Failed
    BY <1>1, <1>2, <2>1
  <2>2. CASE op' = Done /\ origin' = Tip
    <3>1. PICK n \in Preps : n = op.sha
      BY <1>0, <1>12 DEF PushBase, InRollback, UnwindSteps
    <3>2. IsReverted(n, Tip) /\ n \in Preps
      BY <1>0, <1>12, <3>1 DEF PushBase, InRollback, Preps
    <3>3. op'.sha = n /\ op'.situation = op.situation
      BY <1>0, <2>2, <3>1, Fields
    <3>4. base' = base /\ (op.situation # "released" => localTag' = 0)
      BY <1>0, <1>12 DEF PushBase, InRollback
    <3>5. ~misled' => gh'.state = "absent" /\ remoteTag' = 0
      BY <1>0, <1>12 DEF PushBase, Withdrawn, others
    <3> QED BY <2>2, <3>2, <3>3, <3>4, <3>5 DEF RollbackUndoes, IsReverted, Tip, Preps
  <2> QED BY <1>12, <2>1, <2>2 DEF PushBase, Proceed, Interrupted
<1>13. ASSUME Publish \/ Environment \/ UNCHANGED releaseVars PROVE RollbackUndoes'
  <2>0. SUFFICES ASSUME op.cmd = "rollback", op.result = "ok", op.situation # "absent", ~misled'
                 PROVE  RollbackUndoes'
    BY <1>13, Alone, <1>0 DEF RollbackUndoes
  <2>1. /\ gh.state = "absent" /\ remoteTag = 0
        /\ op.sha \in Preps /\ IsReverted(op.sha, Tip)
        /\ op.situation # "local" => IsReverted(op.sha, origin)
        /\ op.situation # "released" => localTag = 0
    BY <1>0, <2>0, MisledStays DEF RollbackUndoes
  <2>2. gh'.state = "absent" /\ remoteTag' = 0
    BY <1>13, <2>0, <2>1, StaysAbsent
  <2>3. op'.sha = op.sha /\ op'.situation = op.situation /\ localTag' = localTag
    BY <1>0, <1>13, Alone
  <2>4. PICK n \in Nat : n = op.sha
    BY <1>0 DEF Operator
  <2>5. \/ base' = base /\ (origin' = origin \/ origin' = Tip)
        \/ WorkOnBase
    BY <1>13 DEF Publish, ViewRelease, PublishRelease, Environment, WorkflowCheckout,
                 WorkflowUpload, Download, PushWork, RestoreTree, git, releaseVars
  <2>6. CASE base' = base /\ (origin' = origin \/ origin' = Tip)
    BY <2>1, <2>2, <2>3, <2>6 DEF RollbackUndoes, IsReverted, Tip, Preps
  <2>7. CASE WorkOnBase
    <3>1. base' = Append(base, Work) /\ origin' = origin
      BY <2>7 DEF WorkOnBase
    <3>2. n \in Preps'
      BY <1>0, <2>1, <2>4, <3>1, Added, Kinds
    <3>4. IsReverted(n, Tip)' /\ (op.situation # "local" => IsReverted(n, origin)')
      BY <1>0, <2>1, <2>4, <3>1, AddedReverts, Kinds DEF IsReverted
    <3> QED BY <2>1, <2>2, <2>3, <2>4, <3>2, <3>4 DEF RollbackUndoes, IsReverted, Preps
  <2> QED BY <2>5, <2>6, <2>7
<1> QED BY <1>3, <1>4, <1>5, <1>6, <1>7, <1>8, <1>9, <1>10, <1>11, <1>12, <1>13
        DEF ReleaseNext, Cut, Rollback

-----------------------------------------------------------------------------
(* The theorems                                                            *)

LEMMA InitReleaseInv == ReleaseInit => ReleaseInv
<1> SUFFICES ASSUME ReleaseInit PROVE ReleaseInv
  OBVIOUS
<1>1. base \in Seq(Commit) /\ Tip = 1 /\ base[1] = Work /\ DOMAIN base = {1}
  BY Kinds DEF ReleaseInit, Tip
<1>2. Idle \in Operator
  BY DEF Idle, Operator, Steps, Situations
<1>3. /\ gh \in Release /\ pub \in Publisher /\ budget \in [commands: Nat, publishes: Nat]
  BY DEF ReleaseInit, Release, Publisher, PubIdle
<1>4. ReleaseTypeOK
  BY <1>1, <1>2, <1>3 DEF ReleaseInit, ReleaseTypeOK
<1>5. Idle.pc = "idle" /\ Idle.cmd = "none"
  BY DEF Idle
<1>6. Work.kind = "work" /\ Work # Prep
  BY DEF Work, Prep
<1>7. History /\ Preps = {}
  BY <1>1, <1>6 DEF ReleaseInit, History, Preps
<1>8. Cutting /\ InRollback /\ Unfinished /\ Guarded /\ RollbackUndoes
  BY <1>5 DEF ReleaseInit, Cutting, InRollback, Unfinished, Guarded, RollbackUndoes,
              CutSteps, UnwindSteps
<1>9. TagsAccounted /\ Withdrawn
  BY <1>5, <1>7 DEF ReleaseInit, TagsAccounted, Untagged, Withdrawn
<1> QED BY <1>4, <1>7, <1>8, <1>9 DEF ReleaseInv

(* The inductive invariant of the cut, publish and rollback commands.      *)
THEOREM ReleaseInductive == ReleaseSpec => []ReleaseInv
<1>1. ReleaseInv /\ [ReleaseNext]_releaseVars => ReleaseInv'
  BY ReleaseTypesKept, HistoryKept, KnowledgeKept, AccountedKept, GuardedKept, WithdrawnKept,
     UndoneKept DEF ReleaseInv
<1> QED BY InitReleaseInv, <1>1, PTL DEF ReleaseSpec

(* Types of the release state, for any bounds.                             *)
THEOREM ReleaseTypes == ReleaseSpec => []ReleaseTypeOK
<1>1. ReleaseInv => ReleaseTypeOK
  BY DEF ReleaseInv
<1> QED BY ReleaseInductive, <1>1, PTL

(* The tag on origin names a fetchable commit whose release is in force:   *)
(* push is atomic and the rollback deletes tags before it publishes a      *)
(* revert.                                                                 *)
THEOREM TagOnOriginStands == ReleaseSpec => []PublishedTagStands
<1>1. ReleaseInv => PublishedTagStands
  <2> SUFFICES ASSUME ReleaseInv PROVE PublishedTagStands
    OBVIOUS
  <2>1. Tip \in Nat /\ origin \in Nat /\ origin <= Tip /\ remoteTag <= origin
        /\ DOMAIN base = 1..Tip
    BY DEF ReleaseInv, ReleaseTypeOK, History, Tip
  <2>2. IsReverted(remoteTag, origin) => IsReverted(remoteTag, Tip)
    BY <2>1 DEF IsReverted
  <2> QED BY <2>1, <2>2 DEF ReleaseInv, Withdrawn, PublishedTagStands
<1> QED BY ReleaseInductive, <1>1, PTL

(* A rollback that exits 0 has undone the release it found.                *)
THEOREM RollbackThatSucceeds == ReleaseSpec => []RollbackUndoes
<1>1. ReleaseInv => RollbackUndoes
  BY DEF ReleaseInv
<1> QED BY ReleaseInductive, <1>1, PTL

(* No command that reaches its end leaves a release commit without a tag.  *)
THEOREM NothingStranded == ReleaseSpec => []NoStrandedCommit
<1>1. ReleaseInv => NoStrandedCommit
  BY DEF ReleaseInv, TagsAccounted, Pending, NoStrandedCommit, Untagged
<1> QED BY ReleaseInductive, <1>1, PTL

(* The release a rollback deletes has no more downloads than its limit     *)
(* allows, but for those that came after the second reading.               *)
THEOREM DeletionsAreGuarded == ReleaseSpec => LossWithinLimit
<1>1. ReleaseInv /\ [ReleaseNext]_releaseVars =>
        [gh.state # "absent" /\ gh'.state = "absent" =>
           gh.downloads <= op.limit + op.late]_releaseVars
  BY OnlyDeleted DEF ReleaseInv, Guarded
<1> QED BY ReleaseInductive, <1>1, PTL DEF ReleaseSpec, LossWithinLimit
=============================================================================
