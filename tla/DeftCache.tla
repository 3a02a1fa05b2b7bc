----------------------------- MODULE DeftCache -----------------------------
(***************************************************************************)
(* The content cache of Deft: scripts/cache.py, with its quota             *)
(* (_cache_quota.py), the bulk fetch (_cache_fetch.py) and the             *)
(* reconciliation of closed issues (_cache_refresh.py).                    *)
(*                                                                         *)
(* An entry is a directory of three files, each replaced atomically but    *)
(* one after the other: raw.json, content.md and, last, meta.json.         *)
(* Several processes use the cache without a lock while the issues change  *)
(* on GitHub, and each may be killed between two steps.  The removal of an *)
(* entry, the scan of the usage and the listing of issues are one step     *)
(* each.  The audit log is only appended to and is left out.               *)
(*                                                                         *)
(* Any step of a put may raise an exception; the bulk commands report it   *)
(* and go on with the next issue.                                          *)
(***************************************************************************)
EXTENDS Integers, FiniteSets

CONSTANTS
  Keys,       \* the issues of one repository
  Procs,      \* the processes
  MaxBytes,   \* DEFT_CACHE_MAX_BYTES
  MaxEntries, \* DEFT_CACHE_MAX_ENTRIES
  Sizes,      \* BOUND: the sizes of an issue
  MaxChanges, \* BOUND: the changes on GitHub
  MaxVerbs    \* BOUND: the commands that are started

ASSUME CacheAssumption ==
  /\ Sizes \subseteq Nat /\ IsFiniteSet(Keys)
  /\ MaxBytes \in Nat \ {0} /\ MaxEntries \in Nat \ {0} /\ MaxChanges \in Nat /\ MaxVerbs \in Nat

VARIABLES
  issue,      \* each issue as it is on GitHub
  entry,      \* each entry of the cache
  used,       \* <<j, k>>: the meta.json of j is older than that of k
  proc,       \* what each process is doing
  changes, commands,
  mixed       \* history: the entries that were written or removed by two
              \* processes at once, or left by one that was killed or by a
              \* put or a removal that failed

cacheVars == <<issue, entry, used, proc, changes, commands, mixed>>

-----------------------------------------------------------------------------
(* A payload: version v of an issue, 0 for none.                           *)
NoLoad == [v |-> 0, open |-> FALSE, size |-> 0, clean |-> FALSE]

Load == [v: Nat, open: BOOLEAN, size: Nat, clean: BOOLEAN]

Ages == {"none", "fresh", "stale"}

(* content: the version of content.md, 0 for none.  The age of meta.json:  *)
(* within the TTL or past it.                                              *)
NoEntry == [raw |-> NoLoad, content |-> 0, meta |-> 0, size |-> 0, passed |-> FALSE,
            age |-> "none"]

CacheEntry ==
  [raw: Load, content: Nat, meta: Nat, size: Nat, passed: BOOLEAN, age: Ages]

NoProc == [pc |-> "free", verb |-> "put", list |-> [k \in Keys |-> NoLoad], todo |-> {},
           key |-> 0, load |-> NoLoad, was |-> 0, new |-> 0, victims |-> {},
           order |-> {}, alone |-> FALSE, sole |-> FALSE, failed |-> {}, seen |-> {}, others |-> {}]

Proc == [pc: {"free", "fetch", "enumerate", "revisit", "scan", "evict", "raw", "content", "meta"},
         verb: {"put", "fetch", "refresh", "drain"}, list: [Keys -> Load], todo: SUBSET Keys,
         key: Keys \cup {0}, load: Load, was: Nat, new: {0, 1}, victims: SUBSET Keys,
         order: SUBSET (Keys \X Keys), alone: BOOLEAN, sole: BOOLEAN, failed: SUBSET Keys,
         seen: SUBSET Keys, others: SUBSET Keys]

Is(p, stage) == proc[p].pc = stage

Busy == {p \in Procs : ~Is(p, "free")}

Writes(p, k) == proc[p].pc \in {"content", "meta"} /\ proc[p].key = k

(* The definitions named Fault_ are seeded faults, kept to show that the   *)
(* properties notice them.                                                 *)

-----------------------------------------------------------------------------
(* scan_usage: what it lists are the files meta.json.                      *)
Listed == {k \in Keys : entry[k].meta # 0}

(* The bytes of the entries S, those of k numbered from 1.                 *)
Bytes(S) == Cardinality(UNION {{k} \X (1..entry[k].size) : k \in S})

Exceeds(S, bytes, entries) ==
  Bytes(S) + bytes > MaxBytes \/ Cardinality(S) + entries > MaxEntries

(* lru_order, of the entries S                                             *)
LruOrder(S) == {e \in used : e[1] \in S /\ e[2] \in S}

(* evict_lru: an entry is removed when it is not protected and the caps    *)
(* are still exceeded without those that are older.                        *)
Victims(protected, bytes, entries) ==
  LET order == LruOrder(Listed \ protected)
      older(k) == {j \in Keys : <<j, k>> \in order}
  IN {k \in Listed \ protected : Exceeds(Listed \ older(k), bytes, entries)}

(* The time of meta.json becomes now.                                      *)
Touched(k) ==
  {e \in used : e[1] # k /\ e[2] # k} \cup {<<j, k>> : j \in Keys \ {k}}

(* What the others notice of a step of p that writes or removes entry k.   *)
Noticed(p, k) ==
  [q \in Procs |->
     IF q = p \/ Is(q, "free") THEN proc[q]
     ELSE [proc[q] EXCEPT !.others = IF proc[q].verb = "refresh" THEN @ \cup {k} ELSE @,
                          !.sole = @ /\ proc[q].key # k]]

(* Entry k becomes e; process p goes on as w.                              *)
Store(p, k, e, w) ==
  /\ entry' = [entry EXCEPT ![k] = e]
  /\ proc' = [Noticed(p, k) EXCEPT ![p] = w]

Goes(p, w) == proc' = [proc EXCEPT ![p] = w]

Clashing(p, k) == \E q \in Procs \ {p} : Writes(q, k)

(* A removal makes an end of what was mixed, unless the entry is being     *)
(* written.                                                                *)
Gone(p, k) == IF Clashing(p, k) THEN mixed \cup {k} ELSE mixed \ {k}

-----------------------------------------------------------------------------
StartCommand(p, w) ==
  /\ Is(p, "free") /\ commands < MaxVerbs /\ commands' = commands + 1
  /\ proc' = [q \in Procs |->
       IF q = p THEN [w EXCEPT !.alone = (Busy = {}),
                               !.seen = IF w.verb = "refresh" THEN {k \in Keys : issue[k].open}
                                        ELSE {}]
       ELSE [proc[q] EXCEPT !.alone = FALSE]]
  /\ UNCHANGED <<issue, entry, used, changes, mixed>>

PutOf(w, k, load) == [w EXCEPT !.pc = "scan", !.key = k, !.load = load]

(* cache:put of a file that was fetched just now.                          *)
StartPut(p) == \E k \in Keys : StartCommand(p, PutOf(NoProc, k, issue[k]))

(* run_fetch_all: the open issues, as they are at the time of the listing. *)
StartFetch(p) ==
  StartCommand(p, [NoProc EXCEPT !.pc = "fetch", !.verb = "fetch",
                        !.list = [k \in Keys |-> IF issue[k].open THEN issue[k] ELSE NoLoad],
                        !.todo = {k \in Keys : issue[k].open}])

IsFresh(k) == entry[k].age = "fresh"

FetchNext(p) ==
  LET w == proc[p]
  IN /\ Is(p, "fetch")
     /\ \/ \E k \in w.todo :
             LET rest == [w EXCEPT !.todo = @ \ {k}, !.list[k] = NoLoad]
             IN Goes(p, IF IsFresh(k) THEN rest ELSE PutOf(rest, k, w.list[k]))
        \/ w.todo = {} /\ Goes(p, NoProc)
     /\ UNCHANGED <<issue, entry, used, changes, commands, mixed>>

(* cache_refresh_closed: the entries whose raw.json says open.             *)
StartRefresh(p) ==
  StartCommand(p, [NoProc EXCEPT !.pc = "enumerate", !.verb = "refresh",
                        !.todo = {k \in Keys : entry[k].raw.open}])

Fault_ListsAll(S) == Keys

(* list_open_issue_numbers; the listing may miss some.                     *)
OpenNumbers(S) == {k \in S : issue[k].open}

Enumerate(p) ==
  /\ Is(p, "enumerate")
  /\ \E S \in SUBSET Keys :
       Goes(p, [proc[p] EXCEPT !.pc = "revisit", !.todo = @ \ OpenNumbers(S)])
  /\ UNCHANGED <<issue, entry, used, changes, commands, mixed>>

(* run_state_refresh: an issue that is still open is left as it is.        *)
Revisit(p) ==
  LET w == proc[p]
  IN /\ Is(p, "revisit")
     /\ \/ \E k \in w.todo :
             LET rest == [w EXCEPT !.todo = @ \ {k}]
             IN \/ Goes(p, [rest EXCEPT !.failed = @ \cup {k}])
                \/ issue[k].open /\ Goes(p, rest)
                \/ ~issue[k].open /\ Goes(p, PutOf(rest, k, issue[k]))
        \/ w.todo = {} /\ Goes(p, NoProc)
     /\ UNCHANGED <<issue, entry, used, changes, commands, mixed>>

(* cache_prune_to_cap                                                      *)
StartDrain(p) == StartCommand(p, [NoProc EXCEPT !.pc = "scan", !.verb = "drain"])

-----------------------------------------------------------------------------
(* What follows a put in its command.                                      *)
After(w) ==
  LET next == [w EXCEPT !.key = 0, !.load = NoLoad, !.was = 0, !.new = 0, !.victims = {},
                      !.order = {}, !.sole = FALSE]
  IN CASE w.verb = "fetch" -> [next EXCEPT !.pc = "fetch"]
       [] w.verb = "refresh" -> [next EXCEPT !.pc = "revisit"]
       [] OTHER -> NoProc

(* What follows a put that raises an exception, which the bulk commands    *)
(* catch; a refresh keeps the account.                                     *)
PutRaised(w) ==
  IF w.verb = "refresh" THEN [After(w) EXCEPT !.failed = @ \cup {w.key}] ELSE After(w)

Fault_GrowthForgotten(w) == w.new * w.load.size

(* incoming_delta                                                          *)
Delta(w) == IF w.verb = "drain" THEN 0 ELSE w.load.size - w.was

(* The size of the entry that is replaced, and the usage.                  *)
Scan(p) ==
  /\ Is(p, "scan")
  /\ LET w == proc[p]
         k == w.key
         put == w.verb # "drain"
         there == put /\ entry[k].meta # 0
         u == [w EXCEPT !.pc = "evict", !.sole = TRUE,
                        !.was = IF there THEN entry[k].size ELSE 0,
                        !.new = IF put /\ ~there THEN 1 ELSE 0]
         victims == Victims({k}, Delta(u), u.new)
     IN Goes(p, [u EXCEPT !.victims = victims, !.order = LruOrder(victims)])
  /\ UNCHANGED <<issue, entry, used, changes, commands, mixed>>

(* What is left to remove, the oldest first as they were scanned.          *)
Oldest(w) == {k \in w.victims : \A j \in w.victims : <<j, k>> \notin w.order}

Evict(p) ==
  /\ Is(p, "evict")
  /\ \E k \in Oldest(proc[p]) :
       /\ Store(p, k, NoEntry, [proc[p] EXCEPT !.victims = @ \ {k}])
       /\ mixed' = Gone(p, k)
  /\ UNCHANGED <<issue, used, changes, commands>>

(* enforce_caps looks again: a put that does not fit is refused, after the *)
(* evictions.                                                              *)
Decide(p) ==
  LET w == proc[p]
      refused == Exceeds(Listed, Delta(w), w.new)
  IN /\ Is(p, "evict") /\ w.victims = {}
     /\ Goes(p, IF w.verb = "drain" \/ refused THEN PutRaised(w)
                ELSE [w EXCEPT !.pc = "raw", !.order = {}])
     /\ UNCHANGED <<issue, entry, used, changes, commands, mixed>>

WriteRaw(p) ==
  LET w == proc[p]
      k == w.key
  IN /\ Is(p, "raw")
     /\ Store(p, k, [entry[k] EXCEPT !.raw = w.load], [w EXCEPT !.pc = "content"])
     /\ mixed' = IF Clashing(p, k) THEN mixed \cup {k} ELSE mixed
     /\ UNCHANGED <<issue, used, changes, commands>>

Fault_ContentLeft(e, load) == IF load.clean THEN [e EXCEPT !.content = load.v] ELSE e

(* The scan of the text; what does not pass has no content.md.             *)
Scanned(e, load) == [e EXCEPT !.content = IF load.clean THEN load.v ELSE 0]

WriteContent(p) ==
  LET w == proc[p]
      k == w.key
  IN /\ Is(p, "content")
     /\ Store(p, k, Scanned(entry[k], w.load), [w EXCEPT !.pc = "meta"])
     /\ mixed' = IF Clashing(p, k) THEN mixed \cup {k} ELSE mixed
     /\ UNCHANGED <<issue, used, changes, commands>>

(* The put is over.  One that nobody disturbed makes an end of what was    *)
(* mixed before.                                                           *)
WriteMeta(p) ==
  LET w == proc[p]
      k == w.key
  IN /\ Is(p, "meta")
     /\ Store(p, k, [entry[k] EXCEPT !.meta = w.load.v, !.size = w.load.size,
                                     !.passed = w.load.clean, !.age = "fresh"], After(w))
     /\ used' = Touched(k)
     /\ mixed' = CASE Clashing(p, k) -> mixed \cup {k}
                   [] ~Clashing(p, k) /\ w.sole -> mixed \ {k}
                   [] OTHER -> mixed
     /\ UNCHANGED <<issue, changes, commands>>

(* What is left of an entry whose removal is cut short.                    *)
Leavings(e) ==
  {[e EXCEPT !.raw = IF "raw" \in gone THEN NoLoad ELSE @,
             !.content = IF "content" \in gone THEN 0 ELSE @,
             !.meta = IF "meta" \in gone THEN 0 ELSE @,
             !.size = IF "meta" \in gone THEN 0 ELSE @,
             !.passed = IF "meta" \in gone THEN FALSE ELSE @,
             !.age = IF "meta" \in gone THEN "none" ELSE @] :
     gone \in SUBSET {"raw", "content", "meta"}}

(* A command that breaks off in a put leaves the entry as it is, one that  *)
(* does while it removes an entry a part of that.  It goes on as w.        *)
Breaks(p, w) ==
  /\ \/ /\ Goes(p, w)
        /\ mixed' = mixed \cup {k \in Keys : Writes(p, k)}
        /\ UNCHANGED entry
     \/ /\ Is(p, "evict")
        /\ \E k \in Oldest(proc[p]) :
             /\ \E left \in Leavings(entry[k]) : Store(p, k, left, w)
             /\ mixed' = mixed \cup {k}
  /\ UNCHANGED <<issue, used, changes, commands>>

(* An exception ends a command that is not a bulk one in the same way.     *)
KillProc(p) == ~Is(p, "free") /\ Breaks(p, NoProc)

(* An exception in a put of run_fetch_all or run_state_refresh.            *)
FailPut(p) ==
  LET w == proc[p]
  IN /\ w.pc \in {"scan", "evict", "raw", "content", "meta"}
     /\ w.verb \in {"fetch", "refresh"}
     /\ Breaks(p, PutRaised(w))

-----------------------------------------------------------------------------
(* cache_get and the touch of meta.json.                                   *)
Get(k) ==
  /\ k \in Listed /\ used' = Touched(k)
  /\ UNCHANGED <<issue, entry, proc, changes, commands, mixed>>

(* cache_invalidate, and cache_prune of one entry; it may be killed too.   *)
Remove(p, k) ==
  /\ Is(p, "free") /\ commands < MaxVerbs /\ commands' = commands + 1
  /\ entry[k] # NoEntry
  /\ \/ entry' = [entry EXCEPT ![k] = NoEntry] /\ mixed' = Gone(p, k)
     \/ \E left \in Leavings(entry[k]) :
          entry' = [entry EXCEPT ![k] = left] /\ mixed' = mixed \cup {k}
  /\ proc' = [q \in Procs |-> [Noticed(p, k)[q] EXCEPT !.alone = FALSE]]
  /\ UNCHANGED <<issue, used, changes>>

(* The issue changes on GitHub, is closed or opened again.                 *)
Change(k) ==
  /\ changes < MaxChanges /\ changes' = changes + 1
  /\ \E size \in Sizes, open, clean \in BOOLEAN :
       issue' = [issue EXCEPT ![k] = [v |-> @.v + 1, open |-> open, size |-> size,
                                      clean |-> clean]]
  /\ proc' = [p \in Procs |->
       IF proc[p].verb # "refresh" \/ ~issue'[k].open THEN proc[p]
       ELSE [proc[p] EXCEPT !.seen = @ \cup {k}]]
  /\ UNCHANGED <<entry, used, commands, mixed>>

(* The TTL of an entry passes.                                             *)
Expire(k) ==
  /\ entry[k].age = "fresh" /\ entry' = [entry EXCEPT ![k].age = "stale"]
  /\ UNCHANGED <<issue, used, proc, changes, commands, mixed>>

-----------------------------------------------------------------------------
FirstLoad == [v |-> 1, open |-> TRUE, size |-> 1, clean |-> TRUE]

(* r is a strict order that is total on S.                                 *)
Orders(r, S) ==
  /\ \A j, k \in Keys : <<j, k>> \in r => j # k /\ <<k, j>> \notin r
  /\ \A i, j, k \in Keys : <<i, j>> \in r /\ <<j, k>> \in r => <<i, k>> \in r
  /\ \A j, k \in S : j # k => <<j, k>> \in r \/ <<k, j>> \in r

FirstEntry == [raw |-> FirstLoad, content |-> 1, meta |-> 1, size |-> 1, passed |-> TRUE,
               age |-> "fresh"]

(* Some of the issues have been fetched already.                           *)
CacheInit ==
  /\ issue = [k \in Keys |-> FirstLoad]
  /\ \E S \in SUBSET Keys :
       /\ entry = [k \in Keys |-> IF k \in S THEN FirstEntry ELSE NoEntry]
       /\ used \in SUBSET (S \X S) /\ Orders(used, S)
  /\ ~Exceeds(Listed, 0, 0)
  /\ proc = [p \in Procs |-> NoProc]
  /\ changes = 0 /\ commands = 0 /\ mixed = {}

Commanding(p) == StartPut(p) \/ StartFetch(p) \/ StartRefresh(p) \/ StartDrain(p)

Storing(p) ==
  \/ Scan(p) \/ Evict(p) \/ Decide(p) \/ WriteRaw(p) \/ WriteContent(p) \/ WriteMeta(p)
  \/ FailPut(p)

CacheNext ==
  \/ \E p \in Procs : \/ Commanding(p) \/ FetchNext(p) \/ Enumerate(p) \/ Revisit(p)
                      \/ Storing(p) \/ KillProc(p)
                      \/ \E k \in Keys : Remove(p, k)
  \/ \E k \in Keys : Get(k) \/ Change(k) \/ Expire(k)

CacheSpec == CacheInit /\ [][CacheNext]_cacheVars

-----------------------------------------------------------------------------
CacheTypeOK ==
  /\ issue \in [Keys -> Load] /\ entry \in [Keys -> CacheEntry]
  /\ used \subseteq Keys \X Keys /\ Orders(used, Listed)
  /\ proc \in [Procs -> Proc]
  /\ changes \in 0..MaxChanges /\ commands \in 0..MaxVerbs
  /\ mixed \subseteq Keys

(* The three files of an entry are those of one version, and content.md is *)
(* there exactly when that passed the scan, except while a put writes it:  *)
(* unless it was left by a command that was killed or by a put or a        *)
(* removal that failed, which a bulk command goes on from, or two commands *)
(* have worked on it at once; and then until a later put of its own is     *)
(* done, or it is removed.                                                 *)
FilesAgree ==
  \A k \in Keys :
    k \notin mixed /\ (\A p \in Procs : ~Writes(p, k)) =>
      LET e == entry[k]
      IN /\ e.meta = e.raw.v
         /\ e.passed = e.raw.clean /\ e.size = e.raw.size
         /\ e.content = IF e.passed THEN e.meta ELSE 0

(* A put during whose command no other one ran leaves the cache within its *)
(* caps, whatever was killed or run at once before.                        *)
CapsHold ==
  [][\A p \in Procs :
       Is(p, "meta") /\ proc[p].alone /\ proc'[p].pc # "meta" /\ entry' # entry
         => ~Exceeds(Listed, 0, 0)']_cacheVars

(* When a refresh ends, an entry that says open is of an issue that was    *)
(* open at some moment since it began: unless its fetch or put failed, or  *)
(* another command has written the entry meanwhile.                        *)
RefreshReconciles ==
  \A p \in Procs :
    Is(p, "revisit") /\ proc[p].todo = {} =>
      \A k \in Keys \ (proc[p].failed \cup proc[p].others) :
        entry[k].raw.open => k \in proc[p].seen

=============================================================================
