----------------------------- MODULE DeftRelease -----------------------------
(***************************************************************************)
(* Cutting, publishing and withdrawing one version of the Deft framework:  *)
(* scripts/release.py, release_publish.py, release_rollback.py, and the    *)
(* workflow .github/workflows/release.yml that a pushed tag starts.        *)
(*                                                                         *)
(* An operator runs `task release` and `task release:rollback` in one      *)
(* clone, one at a time; `task release:publish` only talks to GitHub and   *)
(* runs beside them, as does the workflow.  A remote call may succeed, may *)
(* fail, and may take effect and still be reported as failed (the runs of  *)
(* git and gh have a timeout); a command may be killed between two steps.  *)
(* A step that fails ends the command: nothing is undone.                  *)
(***************************************************************************)
EXTENDS Integers, Sequences

CONSTANTS
  BotThreshold,   \* _DEFAULT_BOT_THRESHOLD
  Generous,       \* the N of --allow-low-downloads N, when it is given
  Unlimited,      \* what --allow-data-loss accepts
  MaxDownloads,   \* BOUND: the downloads of a release
  MaxCommits,     \* BOUND: the length of the base branch
  MaxCommands,    \* BOUND: the commands the operator starts
  MaxPublishes    \* BOUND: the runs of release:publish

ASSUME ReleaseAssumption ==
  /\ BotThreshold \in Nat /\ Generous \in Nat /\ Unlimited \in Nat
  /\ MaxDownloads \in Nat /\ MaxCommits \in Nat
  /\ MaxCommands \in Nat /\ MaxPublishes \in Nat
  /\ MaxDownloads <= Unlimited

VARIABLES
  base,        \* the local base branch, oldest commit first
  origin,      \* how many of its commits origin has
  dirty,       \* the working tree holds uncommitted release artifacts
  localTag,    \* the commit the tag names in the clone
  remoteTag,   \* the commit the tag names on origin
  gh,          \* the GitHub release of the version
  ci,          \* the release workflow
  op,          \* the operator's command
  pub,         \* release:publish
  budget,      \* the commands and publications started so far
  loose,       \* history: release commits an interrupted command left untagged
  misled       \* history: GitHub acted on its own (it made a tag; the workflow
               \* made a release in the face of a rollback), or a rollback did
               \* not see what was there

releaseVars == <<base, origin, dirty, localTag, remoteTag, gh, ci, op, pub,
                 budget, loose, misled>>

-----------------------------------------------------------------------------
(* A commit is the promotion of the changelog for this version, the revert *)
(* of an earlier commit, or other work.  0 is "no commit".                 *)
Commit == [kind: {"work", "prep", "revert"}, of: Nat]

Work == [kind |-> "work", of |-> 0]

Prep == [kind |-> "prep", of |-> 0]

RevertOf(n) == [kind |-> "revert", of |-> n]

Tip == Len(base)

IsReverted(n, upto) == \E j \in DOMAIN base : j <= upto /\ base[j] = RevertOf(n)

Preps == {n \in DOMAIN base : base[n] = Prep}

(* The release commits that are in force and that none of these tags names. *)
Untagged(tags) == {n \in Preps : ~IsReverted(n, Tip)} \ tags

Release == [state: {"absent", "draft", "public"}, serial: Nat,
            age: {"fresh", "recent", "old"}, downloads: Nat]

NewRelease(state) == [state |-> state, serial |-> gh.serial + 1,
                      age |-> "fresh", downloads |-> 0]

Steps == {"idle", "check_tags", "check_release", "promote", "commit", "tag",
          "push", "create", "verify", "flip",
          "detect", "detect_tags", "resolve", "read", "reread", "delete",
          "untag_remote", "untag_local", "revert", "push_base"}

Situations == {"none", "absent", "local", "pushed", "released"}

Operator == [pc: Steps, cmd: {"none", "release", "rollback"},
             skipTag: BOOLEAN, skipRelease: BOOLEAN, draft: BOOLEAN,
             situation: Situations, sha: Nat, limit: Nat,
             seen: Nat, late: Nat, result: {"none", "ok", "failed"}]

Idle == [pc |-> "idle", cmd |-> "none", skipTag |-> FALSE, skipRelease |-> FALSE,
         draft |-> TRUE, situation |-> "none", sha |-> 0,
         limit |-> 0, seen |-> 0, late |-> 0, result |-> "none"]

Goto(step) == [op EXCEPT !.pc = step]

(* Exit 0: what the command worked on is kept for the properties.          *)
Done == [Idle EXCEPT !.cmd = op.cmd, !.situation = op.situation,
                     !.sha = op.sha, !.result = "ok"]

Failed == [Idle EXCEPT !.cmd = op.cmd, !.result = "failed"]

git == <<base, origin, dirty, localTag, remoteTag>>

others == <<ci, pub, budget, misled>>

(* A command that does not end with exit 0 may leave release commits that  *)
(* no tag names.                                                           *)
Interrupted == op' = Failed /\ loose' = loose \cup Untagged({localTag})

Proceed(next) == op' = next /\ loose' = loose

(* The definitions named Fault_ are seeded faults, kept to show that the   *)
(* properties notice them.                                                 *)

-----------------------------------------------------------------------------
(* task release                                                            *)

(* Steps 1 to 3: the tree must be clean, or --allow-dirty given.           *)
StartRelease(allowDirty, skipTag, skipRelease, draft) ==
  /\ op.pc = "idle" /\ budget.commands < MaxCommands
  /\ budget' = [budget EXCEPT !.commands = @ + 1]
  /\ op' = IF dirty /\ ~allowDirty
           THEN [Idle EXCEPT !.cmd = "release", !.result = "failed"]
           ELSE [Idle EXCEPT !.pc = "check_tags", !.cmd = "release",
                             !.skipTag = skipTag, !.skipRelease = skipRelease,
                             !.draft = draft]
  /\ UNCHANGED <<git, gh, ci, pub, loose, misled>>

Fault_LocalTagNotChecked ==
  /\ op.pc = "check_tags"
  /\ Proceed(Goto("check_release"))
  /\ UNCHANGED <<git, gh, others>>

(* Step 4, git: a tag that exists is refused; an origin that cannot be     *)
(* asked counts as one that has no such tag.                               *)
CheckTags ==
  /\ op.pc = "check_tags"
  /\ IF localTag # 0
     THEN Proceed(Failed)
     ELSE \/ remoteTag # 0 /\ Proceed(Failed)
          \/ Proceed(Goto("check_release"))
  /\ UNCHANGED <<git, gh, others>>

(* Step 4, GitHub: without gh, or when it fails, the check passes.  Step 5 *)
(* runs the tests, which may fail.                                         *)
CheckRelease ==
  /\ op.pc = "check_release"
  /\ \/ Proceed(Goto("promote"))
     \/ Proceed(Failed)
  /\ UNCHANGED <<git, gh, others>>

(* Steps 6 to 8: changelog, version, lock file and roadmap are rewritten   *)
(* and the build runs.  A failure leaves the tree as it is.                *)
Promote ==
  /\ op.pc = "promote"
  /\ dirty' = TRUE
  /\ \/ Proceed(Goto(IF ~op.skipTag THEN "commit" ELSE "create"))
     \/ Proceed(Failed)
  /\ UNCHANGED <<base, origin, localTag, remoteTag, gh, others>>

(* Step 9.                                                                 *)
CommitRelease ==
  /\ op.pc = "commit"
  /\ \/ /\ Tip < MaxCommits
        /\ base' = Append(base, Prep) /\ dirty' = FALSE
        /\ Proceed(Goto("tag"))
     \/ Proceed(Failed) /\ UNCHANGED <<base, dirty>>
  /\ UNCHANGED <<origin, localTag, remoteTag, gh, others>>

(* Step 10: `git tag` refuses a tag that exists.  That failure is of       *)
(* step 4's making, and does not excuse the commit it leaves behind.       *)
CreateTag ==
  /\ op.pc = "tag"
  /\ \/ localTag = 0 /\ localTag' = Tip /\ Proceed(Goto("push"))
     \/ UNCHANGED localTag /\ IF localTag = 0 THEN Interrupted ELSE Proceed(Failed)
  /\ UNCHANGED <<base, origin, dirty, remoteTag, gh, others>>

Fault_PushNotAtomic ==
  /\ op.pc = "push"
  /\ remoteTag' = localTag /\ ci' = "queued"
  /\ \/ origin' = Tip /\ Proceed(Goto("create"))
     \/ UNCHANGED origin /\ Interrupted
  /\ UNCHANGED <<base, dirty, localTag, gh, pub, budget, misled>>

(* Step 11: branch and tag go together or not at all.                      *)
PushRelease ==
  /\ op.pc = "push"
  /\ \/ /\ remoteTag = 0
        /\ origin' = Tip /\ remoteTag' = localTag /\ ci' = "queued"
        /\ \/ Proceed(Goto("create")) \/ Interrupted
     \/ Interrupted /\ UNCHANGED <<origin, remoteTag, ci>>
  /\ UNCHANGED <<base, dirty, localTag, gh, pub, budget, misled>>

(* GitHub makes the tag of a release that becomes public without one, on   *)
(* the newest commit it knows.                                             *)
TagOnGithub ==
  /\ remoteTag' = IF remoteTag = 0 THEN origin ELSE remoteTag
  /\ misled' = (misled \/ remoteTag = 0)

(* Step 12.                                                                *)
CreateGithubRelease ==
  /\ op.pc = "create"
  /\ IF op.skipRelease
     THEN Proceed(Done) /\ UNCHANGED <<remoteTag, gh, misled>>
     ELSE \/ /\ gh.state = "absent"
             /\ gh' = NewRelease(IF op.draft THEN "draft" ELSE "public")
             /\ IF op.draft THEN UNCHANGED <<remoteTag, misled>> ELSE TagOnGithub
             /\ \/ Proceed(IF op.draft THEN Goto("verify") ELSE Done)
                \/ Interrupted
          \/ Interrupted /\ UNCHANGED <<remoteTag, gh, misled>>
  /\ UNCHANGED <<base, origin, dirty, localTag, ci, pub, budget>>

(* Step 13: a release seen as public is flipped; one that cannot be read   *)
(* within the budget is let through.                                       *)
VerifyDraft ==
  /\ op.pc = "verify"
  /\ \/ gh.state = "public" /\ Proceed(Goto("flip"))
     \/ Proceed(Done)
  /\ UNCHANGED <<git, gh, others>>

FlipToDraft ==
  /\ op.pc = "flip"
  /\ \/ /\ gh.state # "absent" /\ gh' = [gh EXCEPT !.state = "draft"]
        /\ Proceed(Done) \/ Interrupted
     \/ Interrupted /\ UNCHANGED gh
  /\ UNCHANGED <<git, others>>

-----------------------------------------------------------------------------
(* task release:rollback                                                   *)

(* What compute_threshold accepts; a negative limit is a refusal.          *)
Threshold(age, allowLow, dataLoss, strict) ==
  CASE strict -> 0
    [] ~strict /\ dataLoss -> Unlimited
    [] ~strict /\ ~dataLoss /\ age = "fresh" -> 0
    [] ~strict /\ ~dataLoss /\ age = "recent" ->
         IF allowLow > BotThreshold THEN allowLow ELSE BotThreshold
    [] OTHER -> -1

AgesFrom(age) ==
  CASE age = "fresh" -> {"fresh", "recent", "old"}
    [] age = "recent" -> {"recent", "old"}
    [] age = "old" -> {"old"}

StartRollback ==
  /\ op.pc = "idle" /\ budget.commands < MaxCommands
  /\ budget' = [budget EXCEPT !.commands = @ + 1]
  /\ op' = [Idle EXCEPT !.pc = "detect", !.cmd = "rollback"]
  /\ UNCHANGED <<git, gh, ci, pub, loose, misled>>

Fault_OldReleaseNotRefused(allowLow, dataLoss, strict) ==
  /\ op.pc = "detect"
  /\ IF gh.state = "absent"
     THEN Proceed(Goto("detect_tags"))
     ELSE \E age \in AgesFrom(gh.age) :
            Proceed([Goto("resolve") EXCEPT !.situation = "released",
                       !.limit = Threshold(age, allowLow, dataLoss, strict)])
  /\ UNCHANGED <<git, gh, others>>

(* detect_state asks GitHub first.  An error refuses; but a gh that is not *)
(* installed also says "not found", and counts as a release that is not    *)
(* there.  The age is read here and nowhere else, so that it grows here;   *)
(* the limits come from the flags.                                         *)
DetectRelease(allowLow, dataLoss, strict) ==
  /\ op.pc = "detect"
  /\ \/ /\ gh.state # "absent"
        /\ \E age \in AgesFrom(gh.age) :
             LET limit == Threshold(age, allowLow, dataLoss, strict)
             IN /\ gh' = [gh EXCEPT !.age = age]
                /\ Proceed(IF limit < 0 THEN Failed
                           ELSE [Goto("resolve") EXCEPT !.situation = "released",
                                                        !.limit = limit])
        /\ UNCHANGED misled
     \/ /\ Proceed(Goto("detect_tags"))
        /\ misled' = (misled \/ gh.state # "absent") /\ UNCHANGED gh
     \/ Proceed(Failed) /\ UNCHANGED <<gh, misled>>
  /\ UNCHANGED <<git, ci, pub, budget>>

(* Then the tags.  A failed question to origin counts as "no tag there".   *)
DetectTags ==
  /\ op.pc = "detect_tags"
  /\ \E seen \in {remoteTag, 0} :
       /\ misled' = (misled \/ seen # remoteTag)
       /\ Proceed(CASE seen # 0 -> [Goto("resolve") EXCEPT !.situation = "pushed"]
                    [] seen = 0 /\ localTag # 0 ->
                         [Goto("resolve") EXCEPT !.situation = "local"]
                    [] OTHER -> [Done EXCEPT !.situation = "absent"])
  /\ UNCHANGED <<git, gh, ci, pub, budget>>

(* The commit the tag names, or else the newest one with its subject.      *)
Resolved == IF localTag # 0 THEN {localTag}
            ELSE {n \in Preps : \A m \in Preps : m <= n}

(* The first step of the unwinding of each situation.                      *)
Unwinding ==
  CASE op.situation = "released" -> "read"
    [] op.situation = "pushed" -> "untag_remote"
    [] OTHER -> "untag_local"

Fault_ResolveHead ==
  /\ op.pc = "resolve"
  /\ Proceed([Goto(Unwinding) EXCEPT !.sha = Tip])
  /\ UNCHANGED <<git, gh, others>>

ResolvePrepSha ==
  /\ op.pc = "resolve"
  /\ \/ Resolved = {} /\ Proceed(Failed)
     \/ \E sha \in Resolved : Proceed([Goto(Unwinding) EXCEPT !.sha = sha])
  /\ UNCHANGED <<git, gh, others>>

(* The first of the two readings of the download count.                    *)
ReadDownloads ==
  /\ op.pc = "read"
  /\ \/ gh.state # "absent" /\ Proceed([Goto("reread") EXCEPT !.seen = gh.downloads])
     \/ Proceed(Failed)
  /\ UNCHANGED <<git, gh, others>>

Fault_SecondReadIgnored ==
  /\ op.pc = "reread"
  /\ Proceed(IF op.seen > op.limit THEN Failed ELSE Goto("delete"))
  /\ UNCHANGED <<git, gh, others>>

(* The second must not be larger, and must be within the limit.            *)
RereadDownloads ==
  /\ op.pc = "reread"
  /\ \/ /\ gh.state # "absent"
        /\ Proceed(IF gh.downloads > op.seen \/ op.seen > op.limit
                   THEN Failed ELSE Goto("delete"))
     \/ Proceed(Failed)
  /\ UNCHANGED <<git, gh, others>>

NoRelease == [gh EXCEPT !.state = "absent", !.age = "fresh", !.downloads = 0]

Fault_DeleteKeepsTag ==
  /\ op.pc = "delete"
  /\ gh.state # "absent" /\ gh' = NoRelease /\ UNCHANGED remoteTag
  /\ Proceed(Goto("untag_local"))
  /\ UNCHANGED <<base, origin, dirty, localTag, ci, pub, budget, misled>>

(* gh release delete --cleanup-tag: the release goes first, then the tag.  *)
DeleteRelease ==
  /\ op.pc = "delete"
  /\ \/ /\ gh.state # "absent" /\ gh' = NoRelease
        /\ \/ remoteTag' = 0 /\ (Proceed(Goto("untag_local")) \/ Interrupted)
           \/ UNCHANGED remoteTag /\ Interrupted
     \/ Interrupted /\ UNCHANGED <<gh, remoteTag>>
  /\ UNCHANGED <<base, origin, dirty, localTag, ci, pub, budget, misled>>

(* git push --delete.  GitHub turns a release that loses its tag into a    *)
(* draft.                                                                  *)
DeleteRemoteTag ==
  /\ op.pc = "untag_remote"
  /\ \/ /\ remoteTag # 0 /\ remoteTag' = 0
        /\ gh' = IF gh.state = "public" THEN [gh EXCEPT !.state = "draft"] ELSE gh
        /\ Proceed(Goto("untag_local")) \/ Interrupted
     \/ Interrupted /\ UNCHANGED <<remoteTag, gh>>
  /\ UNCHANGED <<base, origin, dirty, localTag, others>>

(* A local tag that cannot be deleted ends the command, except after the   *)
(* release was deleted: then it is a warning.                              *)
DeleteLocalTag ==
  /\ op.pc = "untag_local"
  /\ \/ localTag' = 0 /\ Proceed(Goto("revert"))
     \/ /\ localTag # 0 /\ UNCHANGED localTag
        /\ IF op.situation = "released" THEN Proceed(Goto("revert")) ELSE Interrupted
  /\ UNCHANGED <<base, origin, dirty, remoteTag, gh, others>>

(* git revert fails on a conflict, on a commit already reverted and over   *)
(* uncommitted changes; it is aborted, which changes nothing.              *)
RevertCommit ==
  /\ op.pc = "revert"
  /\ \/ /\ Tip < MaxCommits /\ ~dirty /\ ~IsReverted(op.sha, Tip)
        /\ base' = Append(base, RevertOf(op.sha))
        /\ Proceed(IF op.situation = "local" THEN Done ELSE Goto("push_base"))
     \/ Interrupted /\ UNCHANGED base
  /\ UNCHANGED <<origin, dirty, localTag, remoteTag, gh, others>>

PushBase ==
  /\ op.pc = "push_base"
  /\ \/ origin' = Tip /\ (Proceed(Done) \/ Interrupted)
     \/ Interrupted /\ UNCHANGED origin
  /\ UNCHANGED <<base, dirty, localTag, remoteTag, gh, others>>

(* The command is killed between two steps.                                *)
CrashOperator ==
  /\ op.pc # "idle"
  /\ Interrupted
  /\ UNCHANGED <<git, gh, others>>

-----------------------------------------------------------------------------
(* task release:publish, from any machine                                  *)

Publisher == [pc: {"idle", "edit"}, id: Nat]

PubIdle == [pc |-> "idle", id |-> 0]

(* The release is looked up by its tag; a published one is left alone.     *)
ViewRelease ==
  /\ pub.pc = "idle" /\ budget.publishes < MaxPublishes
  /\ budget' = [budget EXCEPT !.publishes = @ + 1]
  /\ gh.state = "draft" /\ pub' = [pc |-> "edit", id |-> gh.serial]
  /\ UNCHANGED <<git, gh, ci, op, loose, misled>>

(* The release is changed by its id, whatever became of the tag.  The      *)
(* look at the result that follows is only an exit code.                   *)
PublishRelease ==
  /\ pub.pc = "edit" /\ pub' = PubIdle
  /\ \/ /\ gh.state # "absent" /\ gh.serial = pub.id
        /\ gh' = [gh EXCEPT !.state = "public"]
        /\ TagOnGithub
     \/ UNCHANGED <<gh, remoteTag, misled>>
  /\ UNCHANGED <<base, origin, dirty, localTag, ci, op, budget, loose>>

-----------------------------------------------------------------------------
(* The workflow, the consumers and the operator's own git                  *)

(* The last job checks the tag out, or ends there.                         *)
WorkflowCheckout ==
  /\ ci = "queued"
  /\ ci' = IF remoteTag # 0 THEN "built" ELSE "idle"
  /\ UNCHANGED <<git, gh, op, pub, budget, loose, misled>>

(* It uploads the binaries to the release of the tag, which it makes when  *)
(* there is none; it says draft: true, and may turn a release back.        *)
WorkflowUpload ==
  /\ ci = "built" /\ ci' = "idle"
  /\ IF gh.state = "absent"
     THEN /\ gh' = NewRelease("draft")
          /\ misled' = (misled \/ remoteTag = 0
                          \/ (op.pc # "idle" /\ op.cmd = "rollback"))
     ELSE gh' \in {gh, [gh EXCEPT !.state = "draft"]} /\ UNCHANGED misled
  /\ UNCHANGED <<git, op, pub, budget, loose>>

(* A download between the second reading and the deletion is not seen.     *)
Download ==
  /\ gh.state = "public" /\ gh.downloads < MaxDownloads
  /\ gh' = [gh EXCEPT !.downloads = @ + 1]
  /\ op' = IF op.pc = "delete" THEN [op EXCEPT !.late = @ + 1] ELSE op
  /\ UNCHANGED <<git, ci, pub, budget, loose, misled>>

WorkOnBase ==
  /\ op.pc = "idle" /\ Tip < MaxCommits
  /\ base' = Append(base, Work)
  /\ UNCHANGED <<origin, dirty, localTag, remoteTag, gh, ci, op, pub, budget,
                 loose, misled>>

PushWork ==
  /\ op.pc = "idle" /\ origin' = Tip
  /\ UNCHANGED <<base, dirty, localTag, remoteTag, gh, ci, op, pub, budget,
                 loose, misled>>

RestoreTree ==
  /\ op.pc = "idle" /\ dirty' = FALSE
  /\ UNCHANGED <<base, origin, localTag, remoteTag, gh, ci, op, pub, budget,
                 loose, misled>>

-----------------------------------------------------------------------------
ReleaseInit ==
  /\ base = <<Work>> /\ origin = 1 /\ dirty = FALSE
  /\ localTag = 0 /\ remoteTag = 0
  /\ gh = [state |-> "absent", serial |-> 0, age |-> "fresh", downloads |-> 0]
  /\ ci = "idle" /\ op = Idle /\ pub = PubIdle
  /\ budget = [commands |-> 0, publishes |-> 0]
  /\ loose = {} /\ misled = FALSE

Cut ==
  \/ \E allowDirty, skipTag, skipRelease, draft \in BOOLEAN :
       StartRelease(allowDirty, skipTag, skipRelease, draft)
  \/ CheckTags \/ CheckRelease \/ Promote \/ CommitRelease \/ CreateTag
  \/ PushRelease \/ CreateGithubRelease \/ VerifyDraft \/ FlipToDraft

Rollback ==
  \/ StartRollback
  \/ \E allowLow \in {0, Generous}, dataLoss, strict \in BOOLEAN :
       DetectRelease(allowLow, dataLoss, strict)
  \/ DetectTags \/ ResolvePrepSha \/ ReadDownloads \/ RereadDownloads
  \/ DeleteRelease \/ DeleteRemoteTag \/ DeleteLocalTag \/ RevertCommit \/ PushBase

Publish == ViewRelease \/ PublishRelease

Environment ==
  \/ WorkflowCheckout \/ WorkflowUpload \/ Download
  \/ WorkOnBase \/ PushWork \/ RestoreTree

ReleaseNext == Cut \/ Rollback \/ CrashOperator \/ Publish \/ Environment

ReleaseSpec == ReleaseInit /\ [][ReleaseNext]_releaseVars

-----------------------------------------------------------------------------
ReleaseTypeOK ==
  /\ base \in Seq(Commit) /\ origin \in Nat /\ dirty \in BOOLEAN
  /\ localTag \in Nat /\ remoteTag \in Nat
  /\ gh \in Release /\ ci \in {"idle", "queued", "built"}
  /\ op \in Operator /\ pub \in Publisher
  /\ budget \in [commands: Nat, publishes: Nat]
  /\ loose \subseteq Nat /\ misled \in BOOLEAN

(* The tag consumers can fetch names a commit they can fetch too (the push *)
(* of branch and tag is atomic), and one whose release is still in force   *)
(* on origin: a rollback withdraws the tag before its revert is published, *)
(* in whatever order commands fail and are tried again.                    *)
PublishedTagStands ==
  /\ remoteTag <= origin
  /\ ~misled /\ remoteTag # 0 => ~IsReverted(remoteTag, origin)

(* A rollback that found something and exits 0 has undone it: the release  *)
(* and the tag are gone, the commit the tag named is reverted although     *)
(* other commits may have followed it, and the revert is on origin if the  *)
(* release was.                                                            *)
RollbackUndoes ==
  op.cmd = "rollback" /\ op.result = "ok" /\ op.situation # "absent" /\ ~misled =>
    /\ gh.state = "absent" /\ remoteTag = 0
    /\ op.sha \in Preps /\ IsReverted(op.sha, Tip)
    /\ op.situation # "local" => IsReverted(op.sha, origin)
    /\ op.situation # "released" => localTag = 0

(* Between commands every release commit in force has its tag, or was left *)
(* by a command that did not reach its end: no command that exits 0 or is  *)
(* refused leaves one behind, and no version is promoted under a tag that  *)
(* exists already.                                                         *)
NoStrandedCommit == op.pc = "idle" => Untagged({localTag, remoteTag}) \subseteq loose

(* A rollback takes from consumers only a release whose downloads are      *)
(* within the limit for its age and the flags, but for those that arrive   *)
(* after the second reading.                                               *)
LossWithinLimit ==
  [][gh.state # "absent" /\ gh'.state = "absent" =>
       gh.downloads <= op.limit + op.late]_releaseVars
=============================================================================
