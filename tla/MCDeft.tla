------------------------------- MODULE MCDeft -------------------------------
(***************************************************************************)
(* The five parts of Deft that keep state, for TLC.  They share no file,   *)
(* so a behaviour is a session with one of them.                           *)
(***************************************************************************)
EXTENDS DeftScopes, DeftTriage, DeftRelease, DeftRelocate, DeftCache, TLC

CONSTANT Sessions  \* the parts that are checked

VARIABLE session

deftVars == <<session, scopeVars, triageVars, releaseVars, relocateVars, cacheVars>>

(* BOUND: a project has AGENTS.md and .gitignore to begin with, or neither *)
(* of the two, and the framework in one directory or in none: in two it is *)
(* after a relocate has stopped.                                           *)
Begins ==
  /\ tree.agents.there <=> tree.ignore.there
  /\ ~(tree.legacy.there /\ tree.core.there)

(* BOUND: no story is in pending/ to begin with; the epic may be.          *)
Undecided == \A s \in Stories : ~Has(s, "pending")

(* The other parts stay as they are, and begin with nothing.               *)
DeftInit ==
  /\ session \in Sessions
  /\ ScopesInit /\ TriageInit /\ ReleaseInit /\ RelocateInit /\ CacheInit
  /\ session # "scopes" => audit = <<>> /\ \A s \in Scopes : Has(s, "proposed")
  /\ session = "scopes" => Undecided
  /\ session = "relocate" => Begins
  /\ session # "relocate" => tree = NoTree
  /\ session # "cache" => Listed = {}

InScopes ==
  /\ session = "scopes" /\ ScopesNext
  /\ UNCHANGED <<session, triageVars, releaseVars, relocateVars, cacheVars>>

InTriage ==
  /\ session = "triage" /\ TriageNext
  /\ UNCHANGED <<session, scopeVars, releaseVars, relocateVars, cacheVars>>

InRelease ==
  /\ session = "release" /\ ReleaseNext
  /\ UNCHANGED <<session, scopeVars, triageVars, relocateVars, cacheVars>>

InRelocate ==
  /\ session = "relocate" /\ RelocateNext
  /\ UNCHANGED <<session, scopeVars, triageVars, releaseVars, cacheVars>>

InCache ==
  /\ session = "cache" /\ CacheNext
  /\ UNCHANGED <<session, scopeVars, triageVars, releaseVars, relocateVars>>

DeftNext == InScopes \/ InTriage \/ InRelease \/ InRelocate \/ InCache

DeftSpec == DeftInit /\ [][DeftNext]_deftVars

(* Each part keeps its types; the others do not move.                      *)
DeftTypeOK ==
  /\ session = "scopes" => ScopesTypeOK
  /\ session = "triage" => TriageTypeOK
  /\ session = "release" => ReleaseTypeOK
  /\ session = "relocate" => RelocateTypeOK
  /\ session = "cache" => CacheTypeOK

(* BOUND: one scope at most is exempt of the promises about links, by a    *)
(* demote or a failure, and not all of them are contested; the lock of the *)
(* decision log has not let two in; one entry of the cache at most is      *)
(* mixed.  What comes after is not followed up.                            *)
Modest ==
  /\ Cardinality(cut) + Cardinality(unlinked) <= 1 /\ contested # Scopes
  /\ ~breached
  /\ Cardinality(mixed) <= 1

(* What happens around the commands happens when one can notice it: a      *)
(* second passes between the two relocates, whose snapshots it tells apart;*)
(* the user edits before the last command has ended, an issue changes while*)
(* a command may still look at it; an entry is used before a scan (of two  *)
(* entries only the last use counts), and is seen to be stale by a fetch.  *)
(* At other times the step would change nothing for the commands.          *)
Timely ==
  /\ now' # now => Doing("idle") /\ runs = 1
  /\ edits' # edits => ~Doing("idle") \/ runs < MaxRuns
  /\ issue' # issue => commands < MaxVerbs \/ \E p \in Procs : proc[p].verb = "refresh"
  /\ used' # used /\ entry' = entry => \E p \in Procs : Is(p, "scan")
  /\ \A k \in Keys :
       entry[k].age = "fresh" /\ entry'[k].age = "stale" =>
         \E p \in Procs : Is(p, "fetch") /\ k \in proc[p].todo

(* Nothing is exchanged, or every element of these sets for another one of *)
(* its set; a session sees only the sets of its own part.                  *)
Exchanges(sets) ==
  {f \in Permutations(UNION sets) :
     \/ \A x \in UNION sets : f[x] = x
     \/ \A S \in sets : \A x \in S : f[x] \in S \ {x}}

Symmetry == Exchanges({Workers, Triagers, Procs}) \cup Exchanges({Stories, Issues, Keys})
=============================================================================
