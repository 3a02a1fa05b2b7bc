-------------------------- MODULE DeftCacheProofs --------------------------
(***************************************************************************)
(* Proofs about DeftCache, for any issues, processes, caps and sizes.      *)
(*                                                                         *)
(* That the files of an entry agree rests on what a put may rely on        *)
(* between its writes: raw.json, and later content.md, are still its own   *)
(* as long as nobody else has touched the entry.  That a refresh           *)
(* reconciles rests on an account of each issue while it runs: still to be *)
(* visited, failed, written by others, or not said to be open unless it    *)
(* was seen open.  Neither asks what the quota evicts.                     *)
(*                                                                         *)
(* That the caps hold rests on what a command that runs alone has measured *)
(* and decided: the size of the entry it replaces, and room for the new    *)
(* one.  It is an invariant of types and usage, kept apart from the first. *)
(* The usage is the number of the bytes, numbered entry by entry, so that  *)
(* what an entry adds follows from the size of a disjoint union.           *)
(*                                                                         *)
(* The last section is about MCDeft, where the five parts of Deft meet:    *)
(* what is proved of each part holds of Deft.                              *)
(***************************************************************************)
EXTENDS MCDeft, DeftScopesProofs, DeftTriageProofs, DeftReleaseProofs, DeftRelocateProofs,
        FiniteSetTheorems, TLAPS

ProcFields == {"pc", "verb", "list", "todo", "key", "load", "was", "new", "victims",
               "order", "alone", "sole", "failed", "seen", "others"}

EntryFields == {"raw", "content", "meta", "size", "passed", "age"}

IsProc(w) == DOMAIN w = ProcFields

IsEntry(e) == DOMAIN e = EntryFields

CacheShaped ==
  /\ DOMAIN entry = Keys /\ \A k \in Keys : IsEntry(entry[k])
  /\ DOMAIN proc = Procs /\ \A p \in Procs : IsProc(proc[p])
  /\ DOMAIN issue = Keys

Putting == {"scan", "evict", "raw", "content", "meta"}

(* The three files are those of one version.                               *)
Agree(e) ==
  /\ e.meta = e.raw.v
  /\ e.passed = e.raw.clean /\ e.size = e.raw.size
  /\ e.content = IF e.raw.clean THEN e.raw.v ELSE 0

EntriesSettled ==
  \A k \in Keys : k \notin mixed /\ (\A p \in Procs : ~Writes(p, k)) => Agree(entry[k])

OneWriter ==
  \A k \in Keys : \A p, q \in Procs :
    k \notin mixed /\ Writes(p, k) /\ Writes(q, k) => p = q

(* What a put has written is there as long as nobody touched the entry.    *)
Own(e, w) ==
  /\ e.raw = w.load
  /\ w.pc = "meta" => e.content = IF w.load.clean THEN w.load.v ELSE 0

Held ==
  \A k \in Keys : \A p \in Procs :
    Writes(p, k) /\ (k \notin mixed \/ proc[p].sole) => Own(entry[k], proc[p])

EntriesInv == EntriesSettled /\ OneWriter /\ Held

Ahead(w, k) == w.key = k /\ w.pc \in {"scan", "evict", "raw"}

HasAccount(w, k) == k \in w.todo \/ k \in w.failed \/ k \in w.others \/ Ahead(w, k)

(* A refresh has seen what is open, puts what was closed and has an        *)
(* account of every issue.                                                 *)
Sound(w) ==
  w.pc # "free" =>
    /\ w.pc \in {"enumerate", "revisit"} => w.verb = "refresh"
    /\ w.verb = "refresh" =>
         /\ \A k \in Keys : issue[k].open => k \in w.seen
         /\ w.pc # "fetch"
         /\ w.pc \in Putting => ~w.load.open
         /\ \A k \in Keys : ~HasAccount(w, k) /\ entry[k].raw.open => k \in w.seen

RefreshInv == \A p \in Procs : Sound(proc[p])

CacheInv == CacheShaped /\ EntriesInv /\ RefreshInv

-----------------------------------------------------------------------------
(* Records and what becomes of them.                                       *)
LEMMA Nothing ==
  /\ IsProc(NoProc) /\ NoProc.pc = "free" /\ NoProc.key = 0
  /\ NoProc.others = {} /\ NoProc.failed = {} /\ NoProc.verb = "put"
  /\ IsEntry(NoEntry) /\ Agree(NoEntry) /\ ~NoEntry.raw.open
BY DEF NoProc, IsProc, ProcFields, NoEntry, IsEntry, EntryFields, NoLoad, Agree

(* The bystanders of a step on entry k.                                    *)
LEMMA Bystanders ==
  ASSUME NEW p \in Procs, NEW k, NEW q \in Procs, \A r \in Procs : IsProc(proc[r])
  PROVE  LET w == Noticed(p, k)[q]
         IN /\ IsProc(w) /\ w.pc = proc[q].pc /\ w.verb = proc[q].verb /\ w.key = proc[q].key
            /\ w.load = proc[q].load /\ w.todo = proc[q].todo
            /\ w.failed = proc[q].failed /\ w.seen = proc[q].seen
            /\ q # p /\ ~Is(q, "free") =>
                 /\ w.verb = "refresh" => w.others = proc[q].others \cup {k}
                 /\ w.sole => proc[q].sole /\ proc[q].key # k
BY DEF Noticed, IsProc, ProcFields, Is

(* One file is replaced.                                                   *)
LEMMA Replaced ==
  ASSUME NEW k \in Keys, NEW e, DOMAIN entry = Keys
  PROVE  /\ DOMAIN [entry EXCEPT ![k] = e] = Keys
         /\ [entry EXCEPT ![k] = e][k] = e
         /\ \A j \in Keys : j # k => [entry EXCEPT ![k] = e][j] = entry[j]
OBVIOUS

-----------------------------------------------------------------------------
LEMMA InitCacheInv == CacheInit => CacheInv
<1> SUFFICES ASSUME CacheInit PROVE CacheInv
  OBVIOUS
<1>1. IsEntry(FirstEntry) /\ Agree(FirstEntry)
  BY DEF FirstEntry, FirstLoad, IsEntry, EntryFields, Agree
<1>2. DOMAIN entry = Keys /\ \A k \in Keys : entry[k] \in {FirstEntry, NoEntry}
  BY DEF CacheInit
<1>3. DOMAIN proc = Procs /\ \A p \in Procs : proc[p] = NoProc
  BY DEF CacheInit
<1>4. CacheShaped
  BY <1>1, <1>2, <1>3, Nothing DEF CacheShaped, CacheInit
<1>5. EntriesInv
  BY <1>1, <1>2, <1>3, Nothing DEF EntriesInv, EntriesSettled, OneWriter, Held, Writes
<1>6. RefreshInv
  BY <1>3, Nothing DEF RefreshInv, Sound
<1> QED
  BY <1>4, <1>5, <1>6 DEF CacheInv

-----------------------------------------------------------------------------
(* What process q sees of a step of another one that writes or removes k.  *)
Watched(q, k) ==
  /\ IsProc(proc'[q]) /\ proc'[q].pc = proc[q].pc /\ proc'[q].verb = proc[q].verb
  /\ proc'[q].key = proc[q].key /\ proc'[q].load = proc[q].load
  /\ proc'[q].todo = proc[q].todo /\ proc'[q].failed = proc[q].failed
  /\ proc'[q].seen = proc[q].seen
  /\ proc[q].pc # "free" =>
       /\ proc[q].verb = "refresh" => proc'[q].others = proc[q].others \cup {k}
       /\ proc'[q].sole => proc[q].sole /\ proc[q].key # k

LEMMA StoreIsWatched ==
  ASSUME CacheShaped, NEW p \in Procs, NEW k, NEW e, NEW w, Store(p, k, e, w),
         IsProc(w), k \in Keys => IsEntry(e), issue' = issue
  PROVE  /\ CacheShaped' /\ proc'[p] = w
         /\ \A q \in Procs : q # p => Watched(q, k)
         /\ \A j \in Keys : entry'[j] = IF j = k THEN e ELSE entry[j]
<1>1. DOMAIN Noticed(p, k) = Procs
  BY DEF Noticed
<1>2. proc'[p] = w /\ DOMAIN proc' = Procs /\ \A q \in Procs : q # p => proc'[q] = Noticed(p, k)[q]
  BY <1>1 DEF Store
<1>3. \A q \in Procs : q # p => Watched(q, k)
  BY <1>2, Bystanders DEF Watched, CacheShaped, Is
<1>4. DOMAIN entry' = Keys /\ \A j \in Keys : entry'[j] = IF j = k THEN e ELSE entry[j]
  BY DEF Store, CacheShaped
<1>5. CacheShaped'
  BY <1>2, <1>3, <1>4 DEF CacheShaped, Watched
<1> QED
  BY <1>2, <1>3, <1>4, <1>5

(* What is asked of a step of p on entry k: others see it, and what p has  *)
(* put stays its own.                                                      *)
LEMMA FilesOfStep ==
  ASSUME EntriesInv, NEW p \in Procs, NEW k,
         \A q \in Procs : q # p => Watched(q, k),
         \A j \in Keys :
           j # k =>
             /\ entry'[j] = entry[j] /\ (j \in mixed' <=> j \in mixed)
             /\ ~Writes(p, j) /\ ~Writes(p, j)',
         k \notin mixed' => ~Clashing(p, k),
         k \in Keys /\ k \notin mixed' /\ ~Writes(p, k)' => Agree(entry'[k]),
         k \in Keys /\ Writes(p, k)' /\ (k \notin mixed' \/ proc'[p].sole) => Own(entry'[k], proc'[p])
  PROVE  EntriesInv'
<1>1. \A q \in Procs : q # p => \A j \in Keys : Writes(q, j)' <=> Writes(q, j)
  BY DEF Watched, Writes
<1>2. \A q \in Procs : q # p /\ Writes(q, k) => ~proc'[q].sole
  BY DEF Watched, Writes
<1>3. k \notin mixed' => \A q \in Procs : q # p => ~Writes(q, k)
  BY DEF Clashing
<1>4. EntriesSettled'
  <2> SUFFICES ASSUME NEW j \in Keys, j \notin mixed', \A q \in Procs : ~Writes(q, j)'
               PROVE  Agree(entry'[j])
    BY DEF EntriesSettled
  <2>1. CASE j = k
    BY <2>1
  <2>2. CASE j # k
    <3>1. \A q \in Procs : ~Writes(q, j)
      BY <1>1, <2>2
    <3> QED
      BY <2>2, <3>1 DEF EntriesInv, EntriesSettled
  <2> QED
    BY <2>1, <2>2
<1>5. OneWriter'
  <2> SUFFICES ASSUME NEW j \in Keys, NEW q \in Procs, NEW r \in Procs, j \notin mixed',
                      Writes(q, j)', Writes(r, j)'
               PROVE  q = r
    BY DEF OneWriter
  <2>1. CASE j = k
    BY <1>1, <1>3, <2>1
  <2>2. CASE j # k
    BY <1>1, <2>2 DEF EntriesInv, OneWriter
  <2> QED
    BY <2>1, <2>2
<1>6. Held'
  <2> SUFFICES ASSUME NEW j \in Keys, NEW q \in Procs, Writes(q, j)',
                      j \notin mixed' \/ proc'[q].sole
               PROVE  Own(entry'[j], proc'[q])
    BY DEF Held
  <2>1. CASE q = p
    BY <2>1
  <2>2. CASE q # p /\ j = k
    BY <1>1, <1>2, <1>3, <2>2
  <2>3. CASE q # p /\ j # k
    <3>1. Writes(q, j) /\ (j \notin mixed \/ proc[q].sole)
      BY <1>1, <2>3 DEF Watched, Writes
    <3>2. Own(entry[j], proc[q])
      BY <3>1 DEF EntriesInv, Held
    <3> QED
      BY <2>3, <3>2 DEF Own, Watched
  <2> QED
    BY <2>1, <2>2, <2>3
<1> QED
  BY <1>4, <1>5, <1>6 DEF EntriesInv

(* A step that writes no entry and neither begins nor ends a put.          *)
LEMMA FilesAlone ==
  ASSUME EntriesInv, mixed' = mixed,
         \A k \in Keys : Agree(entry[k]) => Agree(entry'[k]),
         \A k \in Keys : entry'[k].raw = entry[k].raw /\ entry'[k].content = entry[k].content,
         \A q \in Procs : \A k \in Keys : Writes(q, k)' <=> Writes(q, k),
         \A q \in Procs :
           proc[q].pc \in {"content", "meta"} =>
             /\ proc'[q].pc = proc[q].pc /\ proc'[q].load = proc[q].load
             /\ proc'[q].sole => proc[q].sole
  PROVE  EntriesInv'
<1>1. EntriesSettled' /\ OneWriter'
  BY DEF EntriesInv, EntriesSettled, OneWriter
<1>2. Held'
  <2> SUFFICES ASSUME NEW k \in Keys, NEW q \in Procs, Writes(q, k)',
                      k \notin mixed' \/ proc'[q].sole
               PROVE  Own(entry'[k], proc'[q])
    BY DEF Held
  <2>1. Writes(q, k) /\ proc[q].pc \in {"content", "meta"}
    BY DEF Writes
  <2>2. Own(entry[k], proc[q])
    BY <2>1 DEF EntriesInv, Held
  <2> QED
    BY <2>1, <2>2 DEF Own
<1> QED
  BY <1>1, <1>2 DEF EntriesInv

(* Whoever watches keeps its account.                                      *)
LEMMA WatchersAreSound ==
  ASSUME NEW q \in Procs, NEW k, Sound(proc[q]), Watched(q, k), issue' = issue,
         \A j \in Keys : j # k => entry'[j] = entry[j]
  PROVE  Sound(proc[q])'
BY DEF Sound, Watched, HasAccount, Ahead, Putting

-----------------------------------------------------------------------------
LEMMA PutOfFacts ==
  ASSUME NEW w, IsProc(w), NEW k, NEW load
  PROVE  LET u == PutOf(w, k, load)
         IN /\ IsProc(u) /\ u.pc = "scan" /\ u.key = k /\ u.load = load
            /\ u.verb = w.verb /\ u.todo = w.todo /\ u.failed = w.failed
            /\ u.seen = w.seen /\ u.others = w.others
BY DEF PutOf, IsProc, ProcFields

LEMMA AfterFacts ==
  ASSUME NEW w, IsProc(w)
  PROVE  LET u == After(w)
         IN /\ IsProc(u) /\ u.pc \in {"free", "fetch", "revisit"}
            /\ u.pc = "fetch" => w.verb = "fetch"
            /\ u.pc = "revisit" => w.verb = "refresh"
            /\ u.pc # "free" => /\ u.verb = w.verb /\ u.todo = w.todo /\ u.failed = w.failed
                                /\ u.seen = w.seen /\ u.others = w.others
<1> DEFINE n == [w EXCEPT !.key = 0, !.load = NoLoad, !.was = 0, !.new = 0, !.victims = {},
                         !.order = {}, !.sole = FALSE]
<1>1. /\ IsProc(n) /\ n.verb = w.verb /\ n.todo = w.todo /\ n.failed = w.failed
      /\ n.seen = w.seen /\ n.others = w.others
  BY DEF IsProc, ProcFields
<1>2. ASSUME NEW stage
      PROVE  LET u == [n EXCEPT !.pc = stage]
             IN /\ IsProc(u) /\ u.pc = stage /\ u.verb = w.verb /\ u.todo = w.todo
                /\ u.failed = w.failed /\ u.seen = w.seen /\ u.others = w.others
  <2> HIDE DEF n
  <2> QED
    BY <1>1 DEF IsProc, ProcFields
<1>3. After(w) = CASE w.verb = "fetch" -> [n EXCEPT !.pc = "fetch"]
                   [] w.verb = "refresh" -> [n EXCEPT !.pc = "revisit"]
                   [] OTHER -> NoProc
  BY DEF After
<1>4. CASE w.verb = "fetch"
  <2>1. After(w) = [n EXCEPT !.pc = "fetch"]
    BY <1>3, <1>4
  <2> HIDE DEF n
  <2> QED
    BY <1>2, <1>4, <2>1
<1>5. CASE w.verb = "refresh"
  <2>1. After(w) = [n EXCEPT !.pc = "revisit"]
    BY <1>3, <1>5
  <2> HIDE DEF n
  <2> QED
    BY <1>2, <1>5, <2>1
<1>6. CASE w.verb # "fetch" /\ w.verb # "refresh"
  <2>1. After(w) = NoProc
    BY <1>3, <1>6
  <2>2. IsProc(NoProc) /\ NoProc.pc = "free"
    BY Nothing
  <2> HIDE DEF n
  <2> QED
    BY <2>1, <2>2
<1> QED
  BY <1>4, <1>5, <1>6

(* A put that failed is accounted for.                                     *)
LEMMA FailedFacts ==
  ASSUME NEW w, IsProc(w), Sound(w), w.pc \in Putting
  PROVE  /\ IsProc(PutRaised(w)) /\ PutRaised(w).pc \in {"free", "fetch", "revisit"}
         /\ Sound(PutRaised(w))
<1> DEFINE after == After(w)
           u == [after EXCEPT !.failed = @ \cup {w.key}]
<1>1. /\ IsProc(after) /\ after.pc \in {"free", "fetch", "revisit"}
      /\ after.pc = "fetch" => w.verb = "fetch"
      /\ after.pc = "revisit" => w.verb = "refresh"
      /\ after.pc # "free" =>
           /\ after.verb = w.verb /\ after.todo = w.todo /\ after.failed = w.failed
           /\ after.seen = w.seen /\ after.others = w.others
  BY AfterFacts
<1>2. PutRaised(w) = IF w.verb = "refresh" THEN u ELSE after
  BY DEF PutRaised
<1> HIDE DEF after
<1>3. /\ IsProc(u) /\ u.pc = after.pc /\ u.verb = after.verb
      /\ u.todo = after.todo /\ u.failed = after.failed \cup {w.key}
      /\ u.seen = after.seen /\ u.others = after.others
  BY <1>1 DEF IsProc, ProcFields
<1> HIDE DEF u
<1>4. CASE w.verb = "refresh"
  BY <1>1, <1>2, <1>3, <1>4 DEF Sound, HasAccount, Ahead, Putting
<1>5. CASE w.verb # "refresh"
  BY <1>1, <1>2, <1>5 DEF Sound
<1> QED
  BY <1>4, <1>5

(* A step of p that changes only what p is doing.                          *)
LEMMA ProcGoes ==
  ASSUME CacheInv, NEW p \in Procs, NEW u, Goes(p, u), IsProc(u), Sound(u),
         proc[p].pc \notin {"content", "meta"}, u.pc \notin {"content", "meta"},
         UNCHANGED <<issue, entry, mixed>>
  PROVE  CacheInv'
<1>1. proc'[p] = u /\ DOMAIN proc' = Procs /\ \A q \in Procs : q # p => proc'[q] = proc[q]
  BY DEF Goes, CacheInv, CacheShaped
<1>2. CacheShaped'
  BY <1>1 DEF CacheInv, CacheShaped
<1>3. \A q \in Procs : \A k \in Keys : Writes(q, k)' <=> Writes(q, k)
  BY <1>1 DEF Writes
<1>4. EntriesInv'
  <2>1. \A q \in Procs : proc[q].pc \in {"content", "meta"} => proc'[q] = proc[q]
    BY <1>1
  <2> QED
    BY <1>3, <2>1, FilesAlone DEF CacheInv
<1>5. RefreshInv'
  <2>1. Sound(u)' 
    BY DEF Sound
  <2>2. \A q \in Procs : q # p => Sound(proc'[q])
    BY <1>1 DEF CacheInv, RefreshInv
  <2>3. \A q \in Procs : Sound(proc'[q])
    BY <1>1, <2>2
  <2> QED
    BY <2>3 DEF RefreshInv, Sound
<1> QED
  BY <1>2, <1>4, <1>5 DEF CacheInv

LEMMA CommandsKeepInv ==
  ASSUME CacheInv, NEW p \in Procs, Commanding(p)
  PROVE  CacheInv'
<1>1. PICK w : /\ StartCommand(p, w) /\ IsProc(w)
               /\ w.pc \in {"scan", "fetch", "enumerate"}
               /\ w.pc = "enumerate" => w.verb = "refresh"
               /\ w.verb = "refresh" => w.pc = "enumerate" /\ w.todo = {k \in Keys : entry[k].raw.open}
  <2>1. CASE StartPut(p)
    <3>1. PICK k \in Keys : StartCommand(p, PutOf(NoProc, k, issue[k]))
      BY <2>1 DEF StartPut
    <3> QED
      BY <3>1, Nothing, PutOfFacts
  <2>2. CASE StartFetch(p)
    <3> DEFINE w == [NoProc EXCEPT !.pc = "fetch", !.verb = "fetch",
                        !.list = [k \in Keys |-> IF issue[k].open THEN issue[k] ELSE NoLoad],
                        !.todo = {k \in Keys : issue[k].open}]
    <3>1. IsProc(w) /\ w.pc = "fetch" /\ w.verb = "fetch"
      BY DEF NoProc, IsProc, ProcFields
    <3>2. StartCommand(p, w)
      BY <2>2 DEF StartFetch
    <3> HIDE DEF w
    <3> QED
      BY <3>1, <3>2
  <2>3. CASE StartRefresh(p)
    <3> DEFINE w == [NoProc EXCEPT !.pc = "enumerate", !.verb = "refresh",
                        !.todo = {k \in Keys : entry[k].raw.open}]
    <3>1. IsProc(w) /\ w.pc = "enumerate" /\ w.verb = "refresh" /\ w.todo = {k \in Keys : entry[k].raw.open}
      BY DEF NoProc, IsProc, ProcFields
    <3>2. StartCommand(p, w)
      BY <2>3 DEF StartRefresh
    <3> HIDE DEF w
    <3> QED
      BY <3>1, <3>2
  <2>4. CASE StartDrain(p)
    <3> DEFINE w == [NoProc EXCEPT !.pc = "scan", !.verb = "drain"]
    <3>1. IsProc(w) /\ w.pc = "scan" /\ w.verb = "drain"
      BY DEF NoProc, IsProc, ProcFields
    <3>2. StartCommand(p, w)
      BY <2>4 DEF StartDrain
    <3> HIDE DEF w
    <3> QED
      BY <3>1, <3>2
  <2> QED
    BY <2>1, <2>2, <2>3, <2>4 DEF Commanding
<1> DEFINE u == [w EXCEPT !.alone = (Busy = {}),
                         !.seen = IF w.verb = "refresh" THEN {k \in Keys : issue[k].open}
                                  ELSE {}]
<1>2. /\ IsProc(u) /\ u.pc = w.pc /\ u.verb = w.verb /\ u.todo = w.todo
      /\ w.verb = "refresh" => u.seen = {k \in Keys : issue[k].open}
  BY <1>1 DEF IsProc, ProcFields
<1>3. proc[p].pc = "free" /\ UNCHANGED <<issue, entry, mixed>>
  BY <1>1 DEF StartCommand, Is
<1>4. /\ DOMAIN proc' = Procs /\ proc'[p] = u
      /\ \A q \in Procs : q # p => proc'[q] = [proc[q] EXCEPT !.alone = FALSE]
  BY <1>1 DEF StartCommand
<1> HIDE DEF u
<1>5. \A q \in Procs :
        q # p =>
          /\ IsProc(proc'[q]) /\ proc'[q].pc = proc[q].pc /\ proc'[q].verb = proc[q].verb
          /\ proc'[q].key = proc[q].key /\ proc'[q].load = proc[q].load
          /\ proc'[q].sole = proc[q].sole /\ proc'[q].todo = proc[q].todo
          /\ proc'[q].failed = proc[q].failed /\ proc'[q].others = proc[q].others
          /\ proc'[q].seen = proc[q].seen
  BY <1>4 DEF CacheInv, CacheShaped, IsProc, ProcFields
<1>6. CacheShaped'
  BY <1>2, <1>3, <1>4, <1>5 DEF CacheInv, CacheShaped
<1>7. EntriesInv'
  <2>1. \A q \in Procs : \A k \in Keys : Writes(q, k)' <=> Writes(q, k)
    BY <1>1, <1>2, <1>3, <1>4, <1>5 DEF Writes
  <2>2. \A q \in Procs :
          proc[q].pc \in {"content", "meta"} =>
            /\ proc'[q].pc = proc[q].pc /\ proc'[q].load = proc[q].load
            /\ proc'[q].sole => proc[q].sole
    BY <1>3, <1>5
  <2> QED
    BY <1>3, <2>1, <2>2, FilesAlone DEF CacheInv
<1>8. RefreshInv'
  <2>1. Sound(proc[p])'
    BY <1>1, <1>2, <1>3, <1>4 DEF Sound, HasAccount, Putting
  <2>2. ASSUME NEW q \in Procs, q # p
        PROVE  Sound(proc[q])'
    <3>1. Sound(proc[q])
      BY DEF CacheInv, RefreshInv
    <3> QED
      BY <1>3, <1>5, <2>2, <3>1 DEF Sound, HasAccount, Ahead
  <2> QED
    BY <2>1, <2>2 DEF RefreshInv
<1> QED
  BY <1>6, <1>7, <1>8 DEF CacheInv

-----------------------------------------------------------------------------
LEMMA FreeIsSound == Sound(NoProc)
BY Nothing DEF Sound

LEMMA FetchNextKeepsInv ==
  ASSUME CacheInv, NEW p \in Procs, FetchNext(p)
  PROVE  CacheInv'
<1> DEFINE w == proc[p]
<1>1. /\ IsProc(w) /\ Sound(w) /\ w.pc = "fetch"
      /\ UNCHANGED <<issue, entry, mixed>>
  BY DEF CacheInv, CacheShaped, RefreshInv, FetchNext, Is
<1>2. CASE w.todo = {} /\ Goes(p, NoProc)
  BY <1>1, <1>2, Nothing, FreeIsSound, ProcGoes
<1>3. CASE \E k \in w.todo :
             LET rest == [w EXCEPT !.todo = @ \ {k}, !.list[k] = NoLoad]
             IN Goes(p, IF IsFresh(k) THEN rest ELSE PutOf(rest, k, w.list[k]))
  <2> PICK k \in w.todo :
             LET rest == [w EXCEPT !.todo = @ \ {k}, !.list[k] = NoLoad]
             IN Goes(p, IF IsFresh(k) THEN rest ELSE PutOf(rest, k, w.list[k]))
    BY <1>3
  <2> DEFINE rest == [w EXCEPT !.todo = @ \ {k}, !.list[k] = NoLoad]
             load == w.list[k]
             u == IF IsFresh(k) THEN rest ELSE PutOf(rest, k, load)
  <2>1. IsProc(rest) /\ rest.pc = "fetch" /\ rest.verb = w.verb /\ rest.seen = w.seen
    BY <1>1 DEF IsProc, ProcFields
  <2>2. Goes(p, u)
    OBVIOUS
  <2> HIDE DEF rest, load
  <2>3. IsProc(u) /\ u.pc \in {"fetch", "scan"} /\ u.verb = w.verb /\ u.seen = w.seen
    BY <2>1, PutOfFacts
  <2> HIDE DEF u
  <2>4. Sound(u)
    BY <1>1, <2>3 DEF Sound
  <2> QED
    BY <1>1, <2>2, <2>3, <2>4, ProcGoes
<1> QED
  BY <1>2, <1>3 DEF FetchNext

LEMMA EnumerateKeepsInv ==
  ASSUME CacheInv, NEW p \in Procs, Enumerate(p)
  PROVE  CacheInv'
<1> DEFINE w == proc[p]
<1>1. /\ IsProc(w) /\ Sound(w) /\ w.pc = "enumerate"
      /\ UNCHANGED <<issue, entry, mixed>>
  BY DEF CacheInv, CacheShaped, RefreshInv, Enumerate, Is
<1> PICK S \in SUBSET Keys : Goes(p, [w EXCEPT !.pc = "revisit", !.todo = @ \ OpenNumbers(S)])
  BY DEF Enumerate
<1> DEFINE u == [w EXCEPT !.pc = "revisit", !.todo = @ \ OpenNumbers(S)]
<1>2. /\ IsProc(u) /\ u.pc = "revisit" /\ u.verb = w.verb /\ u.seen = w.seen
      /\ u.todo = w.todo \ OpenNumbers(S) /\ u.failed = w.failed /\ u.others = w.others
  BY <1>1 DEF IsProc, ProcFields
<1>3. Goes(p, u)
  OBVIOUS
<1> HIDE DEF u
<1>4. Sound(u)
  BY <1>1, <1>2 DEF Sound, HasAccount, Ahead, OpenNumbers, Putting
<1> QED
  BY <1>1, <1>2, <1>3, <1>4, ProcGoes

LEMMA RevisitKeepsInv ==
  ASSUME CacheInv, NEW p \in Procs, Revisit(p)
  PROVE  CacheInv'
<1> DEFINE w == proc[p]
<1>1. /\ IsProc(w) /\ Sound(w) /\ w.pc = "revisit"
      /\ UNCHANGED <<issue, entry, mixed>>
  BY DEF CacheInv, CacheShaped, RefreshInv, Revisit, Is
<1>2. CASE w.todo = {} /\ Goes(p, NoProc)
  BY <1>1, <1>2, Nothing, FreeIsSound, ProcGoes
<1>3. ASSUME NEW k \in w.todo,
             LET rest == [w EXCEPT !.todo = @ \ {k}]
             IN \/ Goes(p, [rest EXCEPT !.failed = @ \cup {k}])
                \/ issue[k].open /\ Goes(p, rest)
                \/ ~issue[k].open /\ Goes(p, PutOf(rest, k, issue[k]))
      PROVE  CacheInv'
  <2> DEFINE rest == [w EXCEPT !.todo = @ \ {k}]
             gaveUp == [rest EXCEPT !.failed = @ \cup {k}]
             u == PutOf(rest, k, issue[k])
  <2>1. /\ IsProc(rest) /\ rest.pc = "revisit" /\ rest.verb = w.verb /\ rest.seen = w.seen
        /\ rest.todo = w.todo \ {k} /\ rest.failed = w.failed /\ rest.others = w.others
    BY <1>1 DEF IsProc, ProcFields
  <2>2. \/ Goes(p, gaveUp)
        \/ issue[k].open /\ Goes(p, rest)
        \/ ~issue[k].open /\ Goes(p, u)
    BY <1>3
  <2> HIDE DEF rest
  <2>3. CASE Goes(p, gaveUp)
    <3>1. /\ IsProc(gaveUp) /\ gaveUp.pc = "revisit" /\ gaveUp.verb = w.verb
          /\ gaveUp.seen = w.seen /\ gaveUp.todo = w.todo \ {k}
          /\ gaveUp.failed = w.failed \cup {k} /\ gaveUp.others = w.others
      BY <2>1 DEF IsProc, ProcFields
    <3> HIDE DEF gaveUp
    <3>2. Sound(gaveUp)
      BY <1>1, <3>1 DEF Sound, HasAccount, Ahead, Putting
    <3> QED
      BY <1>1, <2>3, <3>1, <3>2, ProcGoes
  <2>4. CASE issue[k].open /\ Goes(p, rest)
    <3>1. Sound(rest)
      BY <1>1, <2>1, <2>4 DEF Sound, HasAccount, Ahead, Putting
    <3> QED
      BY <1>1, <2>1, <2>4, <3>1, ProcGoes
  <2>5. CASE ~issue[k].open /\ Goes(p, u)
    <3>1. /\ IsProc(u) /\ u.pc = "scan" /\ u.verb = w.verb /\ u.seen = w.seen
          /\ u.todo = w.todo \ {k} /\ u.failed = w.failed /\ u.others = w.others
          /\ u.key = k /\ u.load = issue[k]
      BY <2>1, PutOfFacts
    <3> HIDE DEF u
    <3>2. Sound(u)
      BY <1>1, <2>5, <3>1 DEF Sound, HasAccount, Ahead, Putting
    <3> QED
      BY <1>1, <2>5, <3>1, <3>2, ProcGoes
  <2> QED
    BY <2>2, <2>3, <2>4, <2>5
<1> QED
  BY <1>2, <1>3 DEF Revisit

LEMMA ScanKeepsInv ==
  ASSUME CacheInv, NEW p \in Procs, Scan(p)
  PROVE  CacheInv'
<1> DEFINE w == proc[p]
<1>1. /\ IsProc(w) /\ Sound(w) /\ w.pc = "scan"
      /\ UNCHANGED <<issue, entry, mixed>>
  BY DEF CacheInv, CacheShaped, RefreshInv, Scan, Is
<1>2. PICK was, new, victims, order :
        Goes(p, [[w EXCEPT !.pc = "evict", !.sole = TRUE, !.was = was, !.new = new]
                   EXCEPT !.victims = victims, !.order = order])
  BY DEF Scan
<1> DEFINE v == [w EXCEPT !.pc = "evict", !.sole = TRUE, !.was = was, !.new = new]
           u == [v EXCEPT !.victims = victims, !.order = order]
<1>3. /\ IsProc(v) /\ v.pc = "evict" /\ v.verb = w.verb /\ v.seen = w.seen /\ v.key = w.key
      /\ v.load = w.load
      /\ v.todo = w.todo /\ v.failed = w.failed /\ v.others = w.others
  BY <1>1 DEF IsProc, ProcFields
<1>4. Goes(p, u)
  BY <1>2
<1> HIDE DEF v
<1>5. /\ IsProc(u) /\ u.pc = "evict" /\ u.verb = w.verb /\ u.seen = w.seen /\ u.key = w.key
      /\ u.load = w.load
      /\ u.todo = w.todo /\ u.failed = w.failed /\ u.others = w.others
  BY <1>3 DEF IsProc, ProcFields
<1> HIDE DEF u
<1>6. Sound(u)
  BY <1>1, <1>5 DEF Sound, HasAccount, Ahead, Putting
<1> QED
  BY <1>1, <1>4, <1>5, <1>6, ProcGoes

LEMMA DecideKeepsInv ==
  ASSUME CacheInv, NEW p \in Procs, Decide(p)
  PROVE  CacheInv'
<1> DEFINE w == proc[p]
           u == [w EXCEPT !.pc = "raw", !.order = {}]
<1>1. /\ IsProc(w) /\ Sound(w) /\ w.pc = "evict"
      /\ UNCHANGED <<issue, entry, mixed>>
  BY DEF CacheInv, CacheShaped, RefreshInv, Decide, Is
<1>2. Goes(p, PutRaised(w)) \/ Goes(p, u)
  BY DEF Decide
<1>3. CASE Goes(p, PutRaised(w))
  <2>1. /\ IsProc(PutRaised(w)) /\ PutRaised(w).pc \in {"free", "fetch", "revisit"}
        /\ Sound(PutRaised(w))
    BY <1>1, FailedFacts DEF Putting
  <2> QED
    BY <1>1, <1>3, <2>1, ProcGoes
<1>4. CASE Goes(p, u)
  <2>1. /\ IsProc(u) /\ u.pc = "raw" /\ u.verb = w.verb /\ u.seen = w.seen /\ u.key = w.key
        /\ u.load = w.load /\ u.todo = w.todo /\ u.failed = w.failed /\ u.others = w.others
    BY <1>1 DEF IsProc, ProcFields
  <2> HIDE DEF u
  <2>2. Sound(u)
    BY <1>1, <2>1 DEF Sound, HasAccount, Ahead, Putting
  <2> QED
    BY <1>1, <1>4, <2>1, <2>2, ProcGoes
<1> QED
  BY <1>2, <1>3, <1>4

-----------------------------------------------------------------------------
LEMMA EvictKeepsInv ==
  ASSUME CacheInv, NEW p \in Procs, Evict(p)
  PROVE  CacheInv'
<1> DEFINE w == proc[p]
<1> PICK k \in Oldest(w) :
      Store(p, k, NoEntry, [w EXCEPT !.victims = @ \ {k}]) /\ mixed' = Gone(p, k)
  BY DEF Evict
<1> DEFINE u == [w EXCEPT !.victims = @ \ {k}]
<1>1. /\ IsProc(w) /\ Sound(w) /\ w.pc = "evict"
      /\ Store(p, k, NoEntry, u) /\ mixed' = Gone(p, k) /\ issue' = issue
  BY DEF CacheInv, CacheShaped, RefreshInv, Evict, Is
<1>2. /\ IsProc(u) /\ u.pc = "evict" /\ u.verb = w.verb /\ u.seen = w.seen /\ u.key = w.key
      /\ u.load = w.load /\ u.todo = w.todo /\ u.failed = w.failed /\ u.others = w.others
  BY <1>1 DEF IsProc, ProcFields
<1> HIDE DEF u
<1>3. /\ CacheShaped' /\ proc'[p] = u
      /\ \A q \in Procs : q # p => Watched(q, k)
      /\ \A j \in Keys : entry'[j] = IF j = k THEN NoEntry ELSE entry[j]
  BY <1>1, <1>2, Nothing, StoreIsWatched DEF CacheInv
<1>4. EntriesInv'
  <2>1. \A j \in Keys : ~Writes(p, j) /\ ~Writes(p, j)'
    BY <1>1, <1>2, <1>3 DEF Writes
  <2>2. k \notin mixed' => ~Clashing(p, k)
    BY <1>1 DEF Gone
  <2>3. \A j \in Keys : j # k => (j \in mixed' <=> j \in mixed)
    BY <1>1 DEF Gone
  <2> QED
    BY <1>3, <2>1, <2>2, <2>3, Nothing, FilesOfStep DEF CacheInv
<1>5. RefreshInv'
  <2>1. Sound(proc[p])'
    BY <1>1, <1>2, <1>3, Nothing DEF Sound, HasAccount, Ahead, Putting
  <2>2. \A q \in Procs : q # p => Sound(proc[q])'
    BY <1>1, <1>3, WatchersAreSound DEF CacheInv, RefreshInv
  <2> QED
    BY <2>1, <2>2 DEF RefreshInv
<1> QED
  BY <1>3, <1>4, <1>5 DEF CacheInv

(* The three writes of a put.                                              *)
LEMMA WritesKeepInv ==
  ASSUME CacheInv, NEW p \in Procs, NEW e, NEW u,
         LET w == proc[p]
             k == w.key
         IN /\ Store(p, k, e, u) /\ (k \in Keys => IsEntry(e)) /\ IsProc(u) /\ issue' = issue
            /\ w.pc \in {"raw", "content", "meta"}
            /\ u.pc \in {"content", "meta"} => u.key = k
            /\ u.pc # "free" =>
                 /\ u.verb = w.verb /\ u.seen = w.seen /\ u.todo = w.todo
                 /\ u.failed = w.failed /\ u.others = w.others
            /\ u.pc = "fetch" => w.verb = "fetch"
            /\ u.pc = "revisit" => w.verb = "refresh"
            /\ u.pc \in {"fetch", "revisit", "free"} \/ (u.load = w.load /\ u.pc \in {"content", "meta"})
            /\ k \in Keys => e.raw = IF w.pc = "raw" THEN w.load ELSE entry[k].raw
            /\ \A j \in Keys : j # k => (j \in mixed' <=> j \in mixed)
            /\ k \notin mixed' => ~Clashing(p, k)
            /\ k \in Keys /\ k \notin mixed' /\ u.pc \notin {"content", "meta"} => Agree(e)
            /\ k \in Keys /\ u.pc \in {"content", "meta"} /\ (k \notin mixed' \/ u.sole) => Own(e, u)
  PROVE  CacheInv'
<1> DEFINE w == proc[p]
<1> PICK k : k = w.key
  OBVIOUS
<1>1. /\ IsProc(w) /\ Sound(w) /\ w.pc \in {"raw", "content", "meta"}
  BY DEF CacheInv, CacheShaped, RefreshInv
<1>2. /\ CacheShaped' /\ proc'[p] = u
      /\ \A q \in Procs : q # p => Watched(q, k)
      /\ \A j \in Keys : entry'[j] = IF j = k THEN e ELSE entry[j]
  BY StoreIsWatched DEF CacheInv
<1>3. EntriesInv'
  <2>1. \A j \in Keys : j # k => ~Writes(p, j) /\ ~Writes(p, j)'
    BY <1>2 DEF Writes
  <2>2. k \in Keys => (Writes(p, k)' <=> u.pc \in {"content", "meta"})
    BY <1>2 DEF Writes
  <2> QED
    BY <1>2, <2>1, <2>2, FilesOfStep DEF CacheInv
<1>4. RefreshInv'
  <2>1. Sound(proc[p])'
    BY <1>1, <1>2 DEF Sound, HasAccount, Ahead, Putting
  <2>2. \A q \in Procs : q # p => Sound(proc[q])'
    BY <1>1, <1>2, WatchersAreSound DEF CacheInv, RefreshInv
  <2> QED
    BY <2>1, <2>2 DEF RefreshInv
<1> QED
  BY <1>2, <1>3, <1>4 DEF CacheInv

LEMMA WriteRawKeepsInv ==
  ASSUME CacheInv, NEW p \in Procs, WriteRaw(p)
  PROVE  CacheInv'
<1> DEFINE w == proc[p]
           k == w.key
           e == [entry[k] EXCEPT !.raw = w.load]
           u == [w EXCEPT !.pc = "content"]
<1>1. /\ IsProc(w) /\ w.pc = "raw" /\ Store(p, k, e, u) /\ issue' = issue
      /\ mixed' = IF Clashing(p, k) THEN mixed \cup {k} ELSE mixed
  BY DEF CacheInv, CacheShaped, WriteRaw, Is
<1>2. /\ IsProc(u) /\ u.pc = "content" /\ u.verb = w.verb /\ u.seen = w.seen /\ u.key = k
      /\ u.load = w.load /\ u.todo = w.todo /\ u.failed = w.failed /\ u.others = w.others
  BY <1>1 DEF IsProc, ProcFields
<1>3. k \in Keys => IsEntry(e) /\ e.raw = w.load
  BY DEF CacheInv, CacheShaped, IsEntry, EntryFields
<1> HIDE DEF e, u
<1>4. k \in Keys => Own(e, u)
  BY <1>2, <1>3 DEF Own
<1> QED
  BY <1>1, <1>2, <1>3, <1>4, WritesKeepInv

LEMMA WriteContentKeepsInv ==
  ASSUME CacheInv, NEW p \in Procs, WriteContent(p)
  PROVE  CacheInv'
<1> DEFINE w == proc[p]
           k == w.key
           e == Scanned(entry[k], w.load)
           u == [w EXCEPT !.pc = "meta"]
<1>1. /\ IsProc(w) /\ w.pc = "content" /\ Store(p, k, e, u) /\ issue' = issue
      /\ mixed' = IF Clashing(p, k) THEN mixed \cup {k} ELSE mixed
  BY DEF CacheInv, CacheShaped, WriteContent, Is
<1>2. /\ IsProc(u) /\ u.pc = "meta" /\ u.verb = w.verb /\ u.seen = w.seen /\ u.key = k
      /\ u.load = w.load /\ u.todo = w.todo /\ u.failed = w.failed /\ u.others = w.others
      /\ u.sole = w.sole
  BY <1>1 DEF IsProc, ProcFields
<1>3. k \in Keys => /\ IsEntry(e) /\ e.raw = entry[k].raw
                    /\ e.content = IF w.load.clean THEN w.load.v ELSE 0
  BY DEF CacheInv, CacheShaped, IsEntry, EntryFields, Scanned
<1> HIDE DEF e, u
<1>4. k \in Keys /\ (k \notin mixed' \/ u.sole) => Own(e, u)
  <2>1. k \in Keys /\ (k \notin mixed \/ w.sole) => Own(entry[k], w)
    BY <1>1 DEF CacheInv, EntriesInv, Held, Writes
  <2> QED
    BY <1>1, <1>2, <1>3, <2>1 DEF Own
<1> QED
  BY <1>1, <1>2, <1>3, <1>4, WritesKeepInv

LEMMA WriteMetaKeepsInv ==
  ASSUME CacheInv, NEW p \in Procs, WriteMeta(p)
  PROVE  CacheInv'
<1> DEFINE w == proc[p]
           k == w.key
           e == [entry[k] EXCEPT !.meta = w.load.v, !.size = w.load.size,
                                 !.passed = w.load.clean, !.age = "fresh"]
           u == After(w)
<1>1. /\ IsProc(w) /\ w.pc = "meta" /\ Store(p, k, e, u) /\ issue' = issue
      /\ mixed' = CASE Clashing(p, k) -> mixed \cup {k}
                    [] ~Clashing(p, k) /\ w.sole -> mixed \ {k}
                    [] OTHER -> mixed
  BY DEF CacheInv, CacheShaped, WriteMeta, Is
<1>2. /\ IsProc(u) /\ u.pc \in {"free", "fetch", "revisit"}
      /\ u.pc = "fetch" => w.verb = "fetch"
      /\ u.pc = "revisit" => w.verb = "refresh"
      /\ u.pc # "free" => /\ u.verb = w.verb /\ u.todo = w.todo /\ u.failed = w.failed
                          /\ u.seen = w.seen /\ u.others = w.others
  BY <1>1, AfterFacts
<1>3. k \in Keys => /\ IsEntry(e) /\ e.raw = entry[k].raw /\ e.content = entry[k].content
                    /\ e.meta = w.load.v /\ e.size = w.load.size /\ e.passed = w.load.clean
  BY DEF CacheInv, CacheShaped, IsEntry, EntryFields
<1> HIDE DEF e, u
<1>4. /\ \A j \in Keys : j # k => (j \in mixed' <=> j \in mixed)
      /\ k \notin mixed' => ~Clashing(p, k) /\ (k \notin mixed \/ w.sole)
  <2>1. CASE Clashing(p, k)
    BY <1>1, <2>1
  <2>2. CASE ~Clashing(p, k) /\ w.sole
    BY <1>1, <2>2
  <2>3. CASE ~Clashing(p, k) /\ ~w.sole
    BY <1>1, <2>3
  <2> QED
    BY <2>1, <2>2, <2>3
<1>5. k \in Keys /\ k \notin mixed' => Agree(e)
  <2>1. k \in Keys /\ (k \notin mixed \/ w.sole) => Own(entry[k], w)
    BY <1>1 DEF CacheInv, EntriesInv, Held, Writes
  <2> QED
    BY <1>1, <1>3, <1>4, <2>1 DEF Own, Agree
<1> QED
  BY <1>1, <1>2, <1>3, <1>4, <1>5, WritesKeepInv

(* What is left of an entry says open only if the entry did.               *)
LEMMA LeavingsFacts ==
  ASSUME NEW e, IsEntry(e), NEW left \in Leavings(e)
  PROVE  IsEntry(left) /\ (left.raw.open => e.raw.open)
<1> PICK gone \in SUBSET {"raw", "content", "meta"} :
      left = [e EXCEPT !.raw = IF "raw" \in gone THEN NoLoad ELSE @,
             !.content = IF "content" \in gone THEN 0 ELSE @,
             !.meta = IF "meta" \in gone THEN 0 ELSE @,
             !.size = IF "meta" \in gone THEN 0 ELSE @,
             !.passed = IF "meta" \in gone THEN FALSE ELSE @,
             !.age = IF "meta" \in gone THEN "none" ELSE @]
  BY DEF Leavings
<1>1. IsEntry(left) /\ left.raw = IF "raw" \in gone THEN NoLoad ELSE e.raw
  BY DEF IsEntry, EntryFields
<1>2. NoLoad.open = FALSE
  BY DEF NoLoad
<1> QED
  BY <1>1, <1>2

(* Entry k goes, or a part of it, by a process that is in no put           *)
(* afterwards.                                                             *)
LEMMA RemovalsKeepInv ==
  ASSUME CacheInv, NEW p \in Procs, NEW k, NEW e,
         CacheShaped', issue' = issue, Sound(proc[p])',
         {proc[p].pc, proc'[p].pc} \cap {"content", "meta"} = {},
         \A q \in Procs : q # p => Watched(q, k),
         \A j \in Keys : entry'[j] = IF j = k THEN e ELSE entry[j],
         \A j \in Keys : j # k => (j \in mixed' <=> j \in mixed),
         k \notin mixed' => ~Clashing(p, k) /\ Agree(e)
  PROVE  CacheInv'
<1>1. \A j \in Keys : ~Writes(p, j) /\ ~Writes(p, j)'
  BY DEF Writes
<1>2. EntriesInv'
  BY <1>1, FilesOfStep DEF CacheInv
<1>3. RefreshInv'
  <2>1. \A q \in Procs : q # p => Sound(proc[q])'
    BY WatchersAreSound DEF CacheInv, RefreshInv
  <2> QED
    BY <2>1 DEF RefreshInv
<1> QED
  BY <1>2, <1>3 DEF CacheInv

(* A command that breaks off, and goes on as u.                            *)
LEMMA BreaksKeepInv ==
  ASSUME CacheInv, NEW p \in Procs, NEW u, Breaks(p, u),
         IsProc(u), Sound(u), u.pc \notin {"content", "meta"}
  PROVE  CacheInv'
<1> DEFINE w == proc[p]
<1>1. CASE /\ Goes(p, u) /\ UNCHANGED entry
           /\ mixed' = mixed \cup {k \in Keys : Writes(p, k)}
  <2>1. /\ proc'[p] = u /\ DOMAIN proc' = Procs
        /\ \A q \in Procs : q # p => proc'[q] = proc[q]
        /\ UNCHANGED <<issue, entry>>
    BY <1>1 DEF Goes, CacheInv, CacheShaped, Breaks
  <2>2. CacheShaped'
    BY <2>1 DEF CacheInv, CacheShaped
  <2>3. \A q \in Procs : \A k \in Keys : Writes(q, k)' <=> q # p /\ Writes(q, k)
    BY <2>1 DEF Writes
  <2>4. EntriesInv'
    <3>1. EntriesSettled'
      BY <1>1, <2>1, <2>3 DEF CacheInv, EntriesInv, EntriesSettled
    <3>2. OneWriter'
      BY <1>1, <2>3 DEF CacheInv, EntriesInv, OneWriter
    <3>3. Held'
      BY <1>1, <2>1, <2>3 DEF CacheInv, EntriesInv, Held
    <3> QED
      BY <3>1, <3>2, <3>3 DEF EntriesInv
  <2>5. RefreshInv'
    <3> SUFFICES ASSUME NEW q \in Procs PROVE Sound(proc[q])'
      BY DEF RefreshInv
    <3>1. proc'[q] = u \/ proc'[q] = proc[q]
      BY <2>1
    <3>2. Sound(proc'[q])
      BY <3>1 DEF CacheInv, RefreshInv
    <3> QED
      BY <2>1, <3>2 DEF Sound, HasAccount, Ahead
  <2> QED
    BY <2>2, <2>4, <2>5 DEF CacheInv
<1>2. CASE /\ w.pc = "evict"
           /\ \E k \in Oldest(w) :
                /\ \E left \in Leavings(entry[k]) : Store(p, k, left, u)
                /\ mixed' = mixed \cup {k}
  <2> PICK k \in Oldest(w) : /\ \E left \in Leavings(entry[k]) : Store(p, k, left, u)
                             /\ mixed' = mixed \cup {k}
    BY <1>2
  <2> PICK left \in Leavings(entry[k]) : Store(p, k, left, u)
    OBVIOUS
  <2>1. k \in Keys => IsEntry(left) /\ (left.raw.open => entry[k].raw.open)
    BY LeavingsFacts DEF CacheInv, CacheShaped
  <2>2. issue' = issue /\ mixed' = mixed \cup {k}
    BY <1>2 DEF Breaks
  <2>3. /\ CacheShaped' /\ proc'[p] = u
        /\ \A q \in Procs : q # p => Watched(q, k)
        /\ \A j \in Keys : entry'[j] = IF j = k THEN left ELSE entry[j]
    BY <2>1, <2>2, StoreIsWatched DEF CacheInv
  <2>4. Sound(proc[p])'
    BY <2>1, <2>2, <2>3 DEF Sound, HasAccount, Ahead
  <2> QED
    BY <1>2, <2>2, <2>3, <2>4, RemovalsKeepInv
<1> QED
  BY <1>1, <1>2 DEF Breaks, Is

LEMMA KillKeepsInv ==
  ASSUME CacheInv, NEW p \in Procs, KillProc(p)
  PROVE  CacheInv'
BY Nothing, FreeIsSound, BreaksKeepInv DEF KillProc

LEMMA FailKeepsInv ==
  ASSUME CacheInv, NEW p \in Procs, FailPut(p)
  PROVE  CacheInv'
<1> DEFINE w == proc[p]
<1>1. IsProc(w) /\ Sound(w) /\ w.pc \in Putting /\ Breaks(p, PutRaised(w))
  BY DEF CacheInv, CacheShaped, RefreshInv, FailPut, Putting
<1>2. /\ IsProc(PutRaised(w)) /\ PutRaised(w).pc \in {"free", "fetch", "revisit"}
      /\ Sound(PutRaised(w))
  BY <1>1, FailedFacts
<1> QED
  BY <1>1, <1>2, BreaksKeepInv

LEMMA RemoveKeepsInv ==
  ASSUME CacheInv, NEW p \in Procs, NEW k \in Keys, Remove(p, k)
  PROVE  CacheInv'
<1>1. PICK e : /\ entry' = [entry EXCEPT ![k] = e] /\ IsEntry(e)
               /\ \/ Agree(e) /\ mixed' = Gone(p, k)
                  \/ mixed' = mixed \cup {k}
  <2>1. CASE entry' = [entry EXCEPT ![k] = NoEntry] /\ mixed' = Gone(p, k)
    BY <2>1, Nothing
  <2>2. CASE \E left \in Leavings(entry[k]) :
               entry' = [entry EXCEPT ![k] = left] /\ mixed' = mixed \cup {k}
    <3> PICK left \in Leavings(entry[k]) :
               entry' = [entry EXCEPT ![k] = left] /\ mixed' = mixed \cup {k}
      BY <2>2
    <3>1. IsEntry(left)
      BY LeavingsFacts DEF CacheInv, CacheShaped
    <3> QED
      BY <3>1
  <2> QED
    BY <2>1, <2>2 DEF Remove
<1>2. /\ proc[p].pc = "free" /\ issue' = issue
      /\ proc' = [q \in Procs |-> [Noticed(p, k)[q] EXCEPT !.alone = FALSE]]
  BY DEF Remove, Is
<1>3. ASSUME NEW q \in Procs
      PROVE  /\ IsProc(proc'[q]) /\ proc'[q].pc = proc[q].pc
             /\ q # p => Watched(q, k)
  <2> PICK w : w = Noticed(p, k)[q]
    OBVIOUS
  <2>1. /\ IsProc(w) /\ w.pc = proc[q].pc /\ w.verb = proc[q].verb /\ w.key = proc[q].key
        /\ w.load = proc[q].load /\ w.todo = proc[q].todo
        /\ w.failed = proc[q].failed /\ w.seen = proc[q].seen
        /\ q # p /\ proc[q].pc # "free" =>
             /\ w.verb = "refresh" => w.others = proc[q].others \cup {k}
             /\ w.sole => proc[q].sole /\ proc[q].key # k
    BY Bystanders DEF CacheInv, CacheShaped, Is
  <2>2. proc'[q] = [w EXCEPT !.alone = FALSE]
    BY <1>2
  <2>3. /\ IsProc(proc'[q]) /\ proc'[q].pc = w.pc /\ proc'[q].verb = w.verb
        /\ proc'[q].key = w.key /\ proc'[q].load = w.load /\ proc'[q].todo = w.todo
        /\ proc'[q].failed = w.failed /\ proc'[q].seen = w.seen
        /\ proc'[q].others = w.others /\ proc'[q].sole = w.sole
    BY <2>1, <2>2 DEF IsProc, ProcFields
  <2> QED
    BY <2>1, <2>3 DEF Watched
<1>4. /\ DOMAIN entry' = Keys
      /\ \A j \in Keys : entry'[j] = IF j = k THEN e ELSE entry[j]
  BY <1>1 DEF CacheInv, CacheShaped
<1>5. CacheShaped'
  BY <1>1, <1>2, <1>3, <1>4 DEF CacheInv, CacheShaped
<1>6. /\ \A j \in Keys : j # k => (j \in mixed' <=> j \in mixed)
      /\ k \notin mixed' => ~Clashing(p, k) /\ Agree(e)
  BY <1>1 DEF Gone
<1>7. /\ proc'[p].pc = "free" /\ Sound(proc[p])'
      /\ \A q \in Procs : q # p => Watched(q, k)
  BY <1>2, <1>3 DEF Sound
<1> QED
  BY <1>2, <1>4, <1>5, <1>6, <1>7, RemovalsKeepInv

-----------------------------------------------------------------------------
LEMMA ChangeKeepsInv ==
  ASSUME CacheInv, NEW k \in Keys, Change(k)
  PROVE  CacheInv'
<1>1. UNCHANGED <<entry, mixed>>
  BY DEF Change
<1>2. /\ DOMAIN issue' = Keys /\ \A j \in Keys : j # k => issue'[j] = issue[j]
  BY DEF Change, CacheInv, CacheShaped
<1>3. /\ DOMAIN proc' = Procs
      /\ \A q \in Procs :
           /\ IsProc(proc'[q]) /\ proc'[q].pc = proc[q].pc /\ proc'[q].verb = proc[q].verb
           /\ proc'[q].key = proc[q].key /\ proc'[q].load = proc[q].load
           /\ proc'[q].sole = proc[q].sole /\ proc'[q].todo = proc[q].todo
           /\ proc'[q].failed = proc[q].failed /\ proc'[q].others = proc[q].others
           /\ \A j \in Keys : j \in proc[q].seen => j \in proc'[q].seen
           /\ proc[q].verb = "refresh" /\ issue'[k].open => k \in proc'[q].seen
  BY DEF Change, CacheInv, CacheShaped, IsProc, ProcFields, Is
<1>4. CacheShaped'
  BY <1>1, <1>2, <1>3 DEF CacheInv, CacheShaped
<1>5. EntriesInv'
  <2>1. \A q \in Procs : \A j \in Keys : Writes(q, j)' <=> Writes(q, j)
    BY <1>3 DEF Writes
  <2>2. \A q \in Procs :
          proc[q].pc \in {"content", "meta"} =>
            /\ proc'[q].pc = proc[q].pc /\ proc'[q].load = proc[q].load
            /\ proc'[q].sole => proc[q].sole
    BY <1>3
  <2> QED
    BY <1>1, <2>1, <2>2, FilesAlone DEF CacheInv
<1>6. RefreshInv'
  <2> SUFFICES ASSUME NEW q \in Procs PROVE Sound(proc[q])'
    BY DEF RefreshInv
  <2>1. Sound(proc[q])
    BY DEF CacheInv, RefreshInv
  <2> QED
    BY <1>1, <1>2, <1>3, <2>1 DEF Sound, HasAccount, Ahead, Putting
<1> QED
  BY <1>4, <1>5, <1>6 DEF CacheInv

LEMMA ExpireKeepsInv ==
  ASSUME CacheInv, NEW k \in Keys, Expire(k)
  PROVE  CacheInv'
<1>1. UNCHANGED <<issue, proc, mixed>>
  BY DEF Expire
<1>2. /\ DOMAIN entry' = Keys
      /\ \A j \in Keys : /\ IsEntry(entry'[j]) /\ entry'[j].raw = entry[j].raw
                         /\ entry'[j].content = entry[j].content
                         /\ entry'[j].meta = entry[j].meta /\ entry'[j].size = entry[j].size
                         /\ entry'[j].passed = entry[j].passed
  BY DEF Expire, CacheInv, CacheShaped, IsEntry, EntryFields
<1>3. CacheShaped'
  BY <1>1, <1>2 DEF CacheInv, CacheShaped
<1>4. EntriesInv'
  <2>1. \A q \in Procs : \A j \in Keys : Writes(q, j)' <=> Writes(q, j)
    BY <1>1 DEF Writes
  <2>2. \A j \in Keys : Agree(entry[j]) => Agree(entry'[j])
    BY <1>2 DEF Agree
  <2> QED
    BY <1>1, <1>2, <2>1, <2>2, FilesAlone DEF CacheInv
<1>5. RefreshInv'
  BY <1>1, <1>2 DEF CacheInv, RefreshInv, Sound, HasAccount, Ahead
<1> QED
  BY <1>3, <1>4, <1>5 DEF CacheInv

LEMMA IdleKeepsInv ==
  ASSUME CacheInv, UNCHANGED <<issue, entry, proc, mixed>>
  PROVE  CacheInv'
BY DEF CacheInv, CacheShaped, EntriesInv, EntriesSettled, OneWriter, Held, Own, Agree, Writes, RefreshInv,
       Sound, HasAccount, Ahead

LEMMA NextKeepsCacheInv == CacheInv /\ [CacheNext]_cacheVars => CacheInv'
<1> SUFFICES ASSUME CacheInv, [CacheNext]_cacheVars PROVE CacheInv'
  OBVIOUS
<1>1. ASSUME NEW p \in Procs,
             \/ Commanding(p) \/ FetchNext(p) \/ Enumerate(p) \/ Revisit(p)
             \/ Storing(p) \/ KillProc(p)
             \/ \E k \in Keys : Remove(p, k)
      PROVE  CacheInv'
  BY <1>1, CommandsKeepInv, FetchNextKeepsInv, EnumerateKeepsInv, RevisitKeepsInv,
     ScanKeepsInv, EvictKeepsInv, DecideKeepsInv, WriteRawKeepsInv, WriteContentKeepsInv,
     WriteMetaKeepsInv, FailKeepsInv, KillKeepsInv, RemoveKeepsInv DEF Storing
<1>2. ASSUME NEW k \in Keys, Get(k) \/ Change(k) \/ Expire(k)
      PROVE  CacheInv'
  <2>1. Get(k) => UNCHANGED <<issue, entry, proc, mixed>>
    BY DEF Get
  <2> QED
    BY <1>2, <2>1, IdleKeepsInv, ChangeKeepsInv, ExpireKeepsInv
<1>3. CASE UNCHANGED cacheVars
  BY <1>3, IdleKeepsInv DEF cacheVars
<1> QED
  BY <1>1, <1>2, <1>3 DEF CacheNext

-----------------------------------------------------------------------------
(* What a stage of a command says of its entry.                            *)
KeyFits(w) ==
  /\ w.pc \in {"scan", "evict"} /\ w.verb # "drain" => w.key \in Keys
  /\ w.pc \in {"raw", "content", "meta"} => w.key \in Keys /\ w.verb # "drain"

TypedInv == CacheTypeOK /\ \A p \in Procs : KeyFits(proc[p])

-----------------------------------------------------------------------------
LEMMA OrdersOfFewer ==
  ASSUME NEW r, NEW S, NEW T \in SUBSET S, Orders(r, S)
  PROVE  Orders(r, T)
BY DEF Orders

LEMMA TouchedOrders ==
  ASSUME used \subseteq Keys \X Keys, NEW S \in SUBSET Keys, Orders(used, S), NEW k \in Keys
  PROVE  Touched(k) \subseteq Keys \X Keys /\ Orders(Touched(k), S \cup {k})
<1>1. ASSUME NEW i \in Keys, NEW j \in Keys
      PROVE  <<i, j>> \in Touched(k) <=> i # k /\ (j = k \/ <<i, j>> \in used)
  BY DEF Touched, Orders
<1>2. Touched(k) \subseteq Keys \X Keys
  BY DEF Touched
<1>3. Orders(Touched(k), S \cup {k})
  BY <1>1 DEF Orders
<1> QED
  BY <1>2, <1>3

LEMMA TypesAtRest ==
  /\ NoLoad \in Load /\ NoEntry \in CacheEntry /\ NoEntry.meta = 0
  /\ NoProc \in Proc /\ KeyFits(NoProc)
BY DEF NoLoad, Load, NoEntry, CacheEntry, Ages, NoProc, Proc, KeyFits

LEMMA GoesTyped ==
  ASSUME TypedInv, NEW p \in Procs, NEW u \in Proc, KeyFits(u), Goes(p, u),
         UNCHANGED <<issue, entry, used, changes, commands, mixed>>
  PROVE  TypedInv'
<1>1. proc' \in [Procs -> Proc] /\ \A q \in Procs : proc'[q] = IF q = p THEN u ELSE proc[q]
  BY DEF Goes, TypedInv, CacheTypeOK
<1>2. CacheTypeOK'
  BY <1>1 DEF TypedInv, CacheTypeOK, Listed
<1> QED
  BY <1>1, <1>2 DEF TypedInv, KeyFits

LEMMA NoticedTyped ==
  ASSUME TypedInv, NEW p, NEW k \in Keys, NEW q \in Procs
  PROVE  Noticed(p, k)[q] \in Proc /\ KeyFits(Noticed(p, k)[q])
<1> DEFINE w == proc[q]
           u == [w EXCEPT !.others = IF w.verb = "refresh" THEN @ \cup {k} ELSE @,
                          !.sole = @ /\ w.key # k]
<1>1. w \in Proc /\ KeyFits(w)
  BY DEF TypedInv, CacheTypeOK
<1>2. u \in Proc /\ u.pc = w.pc /\ u.verb = w.verb /\ u.key = w.key
  BY <1>1 DEF Proc
<1>3. Noticed(p, k)[q] \in {w, u}
  BY DEF Noticed
<1> HIDE DEF u
<1> QED
  BY <1>1, <1>2, <1>3 DEF KeyFits

LEMMA StoreTyped ==
  ASSUME TypedInv, NEW p \in Procs, NEW k \in Keys, NEW e \in CacheEntry, NEW u \in Proc,
         KeyFits(u), Store(p, k, e, u), UNCHANGED <<issue, changes, commands>>,
         mixed' \subseteq Keys,
         \/ used' = used /\ (e.meta # 0 => entry[k].meta # 0)
         \/ used' = Touched(k)
  PROVE  TypedInv'
<1>1. DOMAIN Noticed(p, k) = Procs
  BY DEF Noticed
<1>2. \A q \in Procs : proc'[q] \in Proc /\ KeyFits(proc'[q])
  BY <1>1, NoticedTyped DEF Store
<1>3. proc' \in [Procs -> Proc]
  <2>1. proc' = [q \in Procs |-> proc'[q]]
    BY <1>1 DEF Store
  <2> QED
    BY <1>2, <2>1
<1>4. /\ entry' \in [Keys -> CacheEntry]
      /\ \A j \in Keys : entry'[j] = IF j = k THEN e ELSE entry[j]
  BY DEF Store, TypedInv, CacheTypeOK
<1>5. used' \subseteq Keys \X Keys /\ Orders(used', Listed')
  <2>1. used \subseteq Keys \X Keys /\ Orders(used, Listed) /\ Listed \subseteq Keys
    BY DEF TypedInv, CacheTypeOK, Listed
  <2>2. CASE used' = used /\ (e.meta # 0 => entry[k].meta # 0)
    <3>1. Listed' \subseteq Listed
      BY <1>4, <2>2 DEF Listed
    <3> QED
      BY <2>1, <2>2, <3>1, OrdersOfFewer
  <2>3. CASE used' = Touched(k)
    <3>1. Listed' \subseteq Listed \cup {k}
      BY <1>4 DEF Listed
    <3> QED
      BY <2>1, <2>3, <3>1, TouchedOrders, OrdersOfFewer
  <2> QED
    BY <2>2, <2>3
<1>6. CacheTypeOK'
  BY <1>3, <1>4, <1>5 DEF TypedInv, CacheTypeOK
<1> QED
  BY <1>2, <1>6 DEF TypedInv

LEMMA PutOfTyped ==
  ASSUME NEW w \in Proc, NEW k \in Keys, NEW load \in Load
  PROVE  /\ PutOf(w, k, load) \in Proc /\ KeyFits(PutOf(w, k, load))
         /\ PutOf(w, k, load).pc = "scan" /\ PutOf(w, k, load).alone = w.alone
BY DEF PutOf, Proc, KeyFits

LEMMA AfterTyped ==
  ASSUME NEW w \in Proc
  PROVE  /\ After(w) \in Proc /\ KeyFits(After(w))
         /\ After(w).pc \in {"free", "fetch", "revisit"}
         /\ After(w).alone => w.alone
<1> DEFINE n == [w EXCEPT !.key = 0, !.load = NoLoad, !.was = 0, !.new = 0, !.victims = {},
                          !.order = {}, !.sole = FALSE]
<1>1. n \in Proc /\ n.alone = w.alone
  BY TypesAtRest DEF Proc
<1>2. After(w) \in {[n EXCEPT !.pc = "fetch"], [n EXCEPT !.pc = "revisit"], NoProc}
  BY DEF After
<1> HIDE DEF n
<1>3. ASSUME NEW stage \in {"fetch", "revisit"}
      PROVE  LET u == [n EXCEPT !.pc = stage]
             IN u \in Proc /\ u.pc = stage /\ u.alone = w.alone
  BY <1>1 DEF Proc
<1>4. NoProc.pc = "free" /\ ~NoProc.alone
  BY DEF NoProc
<1>5. /\ After(w) \in Proc /\ After(w).pc \in {"free", "fetch", "revisit"}
      /\ After(w).alone => w.alone
  BY <1>2, <1>3, <1>4, TypesAtRest
<1> QED
  BY <1>5 DEF KeyFits

LEMMA FailedTyped ==
  ASSUME NEW w \in Proc, KeyFits(w), w.pc \in Putting
  PROVE  /\ PutRaised(w) \in Proc /\ KeyFits(PutRaised(w))
         /\ PutRaised(w).pc \in {"free", "fetch", "revisit"}
         /\ PutRaised(w).alone => w.alone
<1> DEFINE after == After(w)
           u == [after EXCEPT !.failed = @ \cup {w.key}]
<1>1. /\ after \in Proc /\ KeyFits(after) /\ after.pc \in {"free", "fetch", "revisit"}
      /\ after.alone => w.alone
  BY AfterTyped
<1>2. PutRaised(w) = IF w.verb = "refresh" THEN u ELSE after
  BY DEF PutRaised
<1> HIDE DEF after
<1>3. w.verb = "refresh" => u \in Proc /\ u.pc = after.pc /\ u.alone = after.alone
  BY <1>1 DEF Proc, KeyFits, Putting
<1> HIDE DEF u
<1> QED
  BY <1>1, <1>2, <1>3 DEF KeyFits

LEMMA StartTyped ==
  ASSUME TypedInv, NEW p \in Procs, NEW w \in Proc, KeyFits(w), StartCommand(p, w)
  PROVE  TypedInv'
<1> DEFINE u == [w EXCEPT !.alone = (Busy = {}),
                         !.seen = IF w.verb = "refresh" THEN {k \in Keys : issue[k].open}
                                  ELSE {}]
<1>1. u \in Proc /\ KeyFits(u)
  <2>1. u \in Proc
    BY DEF Proc
  <2>2. u.pc = w.pc /\ u.verb = w.verb /\ u.key = w.key
    BY DEF Proc
  <2> QED
    BY <2>1, <2>2 DEF KeyFits
<1>2. ASSUME NEW q \in Procs
      PROVE  LET v == [proc[q] EXCEPT !.alone = FALSE] IN v \in Proc /\ KeyFits(v)
  <2> DEFINE v == [proc[q] EXCEPT !.alone = FALSE]
  <2>1. proc[q] \in Proc /\ KeyFits(proc[q])
    BY DEF TypedInv, CacheTypeOK
  <2>2. v \in Proc /\ v.pc = proc[q].pc /\ v.verb = proc[q].verb /\ v.key = proc[q].key
    BY <2>1 DEF Proc
  <2> QED
    BY <2>1, <2>2 DEF KeyFits
<1>3. proc' = [q \in Procs |-> IF q = p THEN u ELSE [proc[q] EXCEPT !.alone = FALSE]]
  BY DEF StartCommand
<1> HIDE DEF u
<1>4. proc' \in [Procs -> Proc] /\ \A q \in Procs : KeyFits(proc'[q])
  BY <1>1, <1>2, <1>3
<1>5. UNCHANGED <<issue, entry, used, changes, mixed>> /\ commands < MaxVerbs
      /\ commands' = commands + 1
  BY DEF StartCommand
<1>6. commands' \in 0..MaxVerbs
  BY <1>5, CacheAssumption DEF TypedInv, CacheTypeOK
<1>7. CacheTypeOK'
  BY <1>4, <1>5, <1>6 DEF TypedInv, CacheTypeOK, Listed
<1> QED
  BY <1>4, <1>7 DEF TypedInv

(* How a command begins.                                                   *)
LEMMA Beginnings ==
  ASSUME TypedInv, NEW p \in Procs, Commanding(p)
  PROVE  \E w \in Proc : /\ StartCommand(p, w) /\ KeyFits(w)
                         /\ w.pc \in {"scan", "fetch", "enumerate"}
<1>1. CASE StartPut(p)
  <2>1. PICK k \in Keys : StartCommand(p, PutOf(NoProc, k, issue[k]))
    BY <1>1 DEF StartPut
  <2>2. issue[k] \in Load
    BY DEF TypedInv, CacheTypeOK
  <2> QED
    BY <2>1, <2>2, PutOfTyped, TypesAtRest
<1>2. CASE StartFetch(p)
  <2> DEFINE w == [NoProc EXCEPT !.pc = "fetch", !.verb = "fetch",
                      !.list = [k \in Keys |-> IF issue[k].open THEN issue[k] ELSE NoLoad],
                      !.todo = {k \in Keys : issue[k].open}]
  <2>1. [k \in Keys |-> IF issue[k].open THEN issue[k] ELSE NoLoad] \in [Keys -> Load]
    BY TypesAtRest DEF TypedInv, CacheTypeOK
  <2>2. w \in Proc /\ w.pc = "fetch"
    BY <2>1, TypesAtRest DEF Proc
  <2>3. StartCommand(p, w)
    BY <1>2 DEF StartFetch
  <2> HIDE DEF w
  <2> QED
    BY <2>2, <2>3 DEF KeyFits
<1>3. CASE StartRefresh(p)
  <2> DEFINE w == [NoProc EXCEPT !.pc = "enumerate", !.verb = "refresh",
                      !.todo = {k \in Keys : entry[k].raw.open}]
  <2>1. w \in Proc /\ w.pc = "enumerate"
    BY TypesAtRest DEF Proc
  <2>2. StartCommand(p, w)
    BY <1>3 DEF StartRefresh
  <2> HIDE DEF w
  <2> QED
    BY <2>1, <2>2 DEF KeyFits
<1>4. CASE StartDrain(p)
  <2> DEFINE w == [NoProc EXCEPT !.pc = "scan", !.verb = "drain"]
  <2>1. w \in Proc /\ w.pc = "scan" /\ w.verb = "drain"
    BY TypesAtRest DEF Proc
  <2>2. StartCommand(p, w)
    BY <1>4 DEF StartDrain
  <2> HIDE DEF w
  <2> QED
    BY <2>1, <2>2 DEF KeyFits
<1> QED
  BY <1>1, <1>2, <1>3, <1>4 DEF Commanding

LEMMA FetchNextTyped ==
  ASSUME TypedInv, NEW p \in Procs, FetchNext(p)
  PROVE  TypedInv'
<1> DEFINE w == proc[p]
<1>1. w \in Proc /\ w.pc = "fetch" /\ UNCHANGED <<issue, entry, used, changes, commands, mixed>>
  BY DEF TypedInv, CacheTypeOK, FetchNext, Is
<1>2. CASE Goes(p, NoProc)
  BY <1>1, <1>2, TypesAtRest, GoesTyped
<1>3. ASSUME NEW k \in w.todo,
             LET rest == [w EXCEPT !.todo = @ \ {k}, !.list[k] = NoLoad]
             IN Goes(p, IF IsFresh(k) THEN rest ELSE PutOf(rest, k, w.list[k]))
      PROVE  TypedInv'
  <2> DEFINE rest == [w EXCEPT !.todo = @ \ {k}, !.list[k] = NoLoad]
             load == w.list[k]
  <2>1. k \in Keys /\ load \in Load
    BY <1>1, <1>3 DEF Proc
  <2>2. rest \in Proc /\ rest.pc = "fetch"
    <3>1. [w.list EXCEPT ![k] = NoLoad] \in [Keys -> Load]
      BY <1>1, TypesAtRest DEF Proc
    <3> QED
      BY <1>1, <3>1 DEF Proc
  <2>3. Goes(p, IF IsFresh(k) THEN rest ELSE PutOf(rest, k, load))
    BY <1>3
  <2> HIDE DEF rest, load
  <2>4. CASE Goes(p, rest)
    <3>1. KeyFits(rest)
      BY <2>2 DEF KeyFits
    <3> QED
      BY <1>1, <2>2, <2>4, <3>1, GoesTyped
  <2>5. CASE Goes(p, PutOf(rest, k, load))
    BY <1>1, <2>1, <2>2, <2>5, PutOfTyped, GoesTyped
  <2> QED
    BY <2>3, <2>4, <2>5
<1> QED
  BY <1>2, <1>3 DEF FetchNext

LEMMA EnumerateTyped ==
  ASSUME TypedInv, NEW p \in Procs, Enumerate(p)
  PROVE  TypedInv'
<1> DEFINE w == proc[p]
<1> PICK S \in SUBSET Keys : Goes(p, [w EXCEPT !.pc = "revisit", !.todo = @ \ OpenNumbers(S)])
  BY DEF Enumerate
<1> DEFINE u == [w EXCEPT !.pc = "revisit", !.todo = @ \ OpenNumbers(S)]
<1>1. w \in Proc /\ UNCHANGED <<issue, entry, used, changes, commands, mixed>>
  BY DEF TypedInv, CacheTypeOK, Enumerate
<1>2. u \in Proc /\ u.pc = "revisit"
  BY <1>1 DEF Proc
<1>3. Goes(p, u)
  OBVIOUS
<1> HIDE DEF u
<1>4. KeyFits(u)
  BY <1>2 DEF KeyFits
<1> QED
  BY <1>1, <1>2, <1>3, <1>4, GoesTyped

LEMMA RevisitTyped ==
  ASSUME TypedInv, NEW p \in Procs, Revisit(p)
  PROVE  TypedInv'
<1> DEFINE w == proc[p]
<1>1. w \in Proc /\ w.pc = "revisit" /\ UNCHANGED <<issue, entry, used, changes, commands, mixed>>
  BY DEF TypedInv, CacheTypeOK, Revisit, Is
<1>2. CASE Goes(p, NoProc)
  BY <1>1, <1>2, TypesAtRest, GoesTyped
<1>3. ASSUME NEW k \in w.todo,
             LET rest == [w EXCEPT !.todo = @ \ {k}]
             IN \/ Goes(p, [rest EXCEPT !.failed = @ \cup {k}])
                \/ issue[k].open /\ Goes(p, rest)
                \/ ~issue[k].open /\ Goes(p, PutOf(rest, k, issue[k]))
      PROVE  TypedInv'
  <2> DEFINE rest == [w EXCEPT !.todo = @ \ {k}]
             gaveUp == [rest EXCEPT !.failed = @ \cup {k}]
  <2>1. k \in Keys /\ issue[k] \in Load
    BY <1>1, <1>3 DEF Proc, TypedInv, CacheTypeOK
  <2>2. rest \in Proc /\ rest.pc = "revisit"
    BY <1>1 DEF Proc
  <2>3. Goes(p, gaveUp) \/ Goes(p, rest) \/ Goes(p, PutOf(rest, k, issue[k]))
    BY <1>3
  <2> HIDE DEF rest
  <2>4. gaveUp \in Proc /\ gaveUp.pc = "revisit"
    BY <2>1, <2>2 DEF Proc
  <2> HIDE DEF gaveUp
  <2>5. KeyFits(rest) /\ KeyFits(gaveUp)
    BY <2>2, <2>4 DEF KeyFits
  <2>6. CASE Goes(p, gaveUp)
    BY <1>1, <2>4, <2>5, <2>6, GoesTyped
  <2>7. CASE Goes(p, rest)
    BY <1>1, <2>2, <2>5, <2>7, GoesTyped
  <2>8. CASE Goes(p, PutOf(rest, k, issue[k]))
    BY <1>1, <2>1, <2>2, <2>8, PutOfTyped, GoesTyped
  <2> QED
    BY <2>3, <2>6, <2>7, <2>8
<1> QED
  BY <1>2, <1>3 DEF Revisit

LEMMA VictimsTyped ==
  ASSUME NEW protected, NEW bytes, NEW entries
  PROVE  /\ Victims(protected, bytes, entries) \in SUBSET (Listed \ protected)
         /\ LruOrder(Victims(protected, bytes, entries)) \in SUBSET used
BY DEF Victims, LruOrder

LEMMA ScanTyped ==
  ASSUME TypedInv, NEW p \in Procs, Scan(p)
  PROVE  TypedInv'
<1> DEFINE w == proc[p]
           there == w.verb # "drain" /\ entry[w.key].meta # 0
           was == IF there THEN entry[w.key].size ELSE 0
           new == IF w.verb # "drain" /\ ~there THEN 1 ELSE 0
           v == [w EXCEPT !.pc = "evict", !.sole = TRUE, !.was = was, !.new = new]
           victims == Victims({w.key}, Delta(v), v.new)
           order == LruOrder(victims)
           u == [v EXCEPT !.victims = victims, !.order = order]
<1>1. /\ w \in Proc /\ KeyFits(w) /\ w.pc = "scan"
      /\ UNCHANGED <<issue, entry, used, changes, commands, mixed>>
  BY DEF TypedInv, CacheTypeOK, Scan, Is
<1>2. Goes(p, u)
  BY DEF Scan
<1>3. was \in Nat /\ new \in {0, 1}
  BY <1>1 DEF KeyFits, TypedInv, CacheTypeOK, CacheEntry
<1> HIDE DEF was, new
<1>4. v \in Proc /\ v.pc = "evict" /\ v.verb = w.verb /\ v.key = w.key
  BY <1>1, <1>3 DEF Proc
<1> HIDE DEF v
<1>5. victims \in SUBSET Keys /\ order \in SUBSET (Keys \X Keys)
  BY VictimsTyped DEF Listed, TypedInv, CacheTypeOK
<1> HIDE DEF victims, order
<1>6. u \in Proc /\ u.pc = "evict" /\ u.verb = w.verb /\ u.key = w.key
  BY <1>4, <1>5 DEF Proc
<1> HIDE DEF u
<1>7. KeyFits(u)
  BY <1>1, <1>6 DEF KeyFits
<1> QED
  BY <1>1, <1>2, <1>6, <1>7, GoesTyped

LEMMA DecideTyped ==
  ASSUME TypedInv, NEW p \in Procs, Decide(p)
  PROVE  TypedInv'
<1> DEFINE w == proc[p]
           u == [w EXCEPT !.pc = "raw", !.order = {}]
<1>1. /\ w \in Proc /\ KeyFits(w) /\ w.pc = "evict"
      /\ UNCHANGED <<issue, entry, used, changes, commands, mixed>>
  BY DEF TypedInv, CacheTypeOK, Decide, Is
<1>2. \/ Goes(p, PutRaised(w))
      \/ w.verb # "drain" /\ Goes(p, u)
  BY DEF Decide
<1>3. CASE Goes(p, PutRaised(w))
  BY <1>1, <1>3, FailedTyped, GoesTyped DEF Putting
<1>4. CASE w.verb # "drain" /\ Goes(p, u)
  <2>1. u \in Proc /\ u.pc = "raw" /\ u.key = w.key /\ u.verb = w.verb
    BY <1>1 DEF Proc
  <2> HIDE DEF u
  <2>2. KeyFits(u)
    BY <1>1, <1>4, <2>1 DEF KeyFits
  <2> QED
    BY <1>1, <1>4, <2>1, <2>2, GoesTyped
<1> QED
  BY <1>2, <1>3, <1>4

LEMMA EvictTyped ==
  ASSUME TypedInv, NEW p \in Procs, Evict(p)
  PROVE  TypedInv'
<1> DEFINE w == proc[p]
<1> PICK k \in Oldest(w) :
      Store(p, k, NoEntry, [w EXCEPT !.victims = @ \ {k}]) /\ mixed' = Gone(p, k)
  BY DEF Evict
<1> DEFINE u == [w EXCEPT !.victims = @ \ {k}]
<1>1. /\ w \in Proc /\ KeyFits(w) /\ w.pc = "evict" /\ k \in Keys
      /\ UNCHANGED <<issue, used, changes, commands>>
  BY DEF TypedInv, CacheTypeOK, Evict, Is, Oldest, Proc
<1>2. u \in Proc /\ u.pc = w.pc /\ u.key = w.key /\ u.verb = w.verb
  BY <1>1 DEF Proc
<1>3. Store(p, k, NoEntry, u)
  OBVIOUS
<1> HIDE DEF u
<1>4. KeyFits(u) /\ mixed' \subseteq Keys
  BY <1>1, <1>2 DEF KeyFits, Gone, TypedInv, CacheTypeOK
<1> QED
  BY <1>1, <1>2, <1>3, <1>4, TypesAtRest, StoreTyped

LEMMA WriteRawTyped ==
  ASSUME TypedInv, NEW p \in Procs, WriteRaw(p)
  PROVE  TypedInv'
<1> DEFINE w == proc[p]
           k == w.key
           e == [entry[k] EXCEPT !.raw = w.load]
           u == [w EXCEPT !.pc = "content"]
<1>1. /\ w \in Proc /\ KeyFits(w) /\ w.pc = "raw" /\ Store(p, k, e, u)
      /\ UNCHANGED <<issue, used, changes, commands>>
      /\ mixed' = IF Clashing(p, k) THEN mixed \cup {k} ELSE mixed
  BY DEF TypedInv, CacheTypeOK, WriteRaw, Is
<1>2. k \in Keys /\ w.verb # "drain" /\ entry[k] \in CacheEntry
  BY <1>1 DEF KeyFits, TypedInv, CacheTypeOK
<1>3. e \in CacheEntry /\ e.meta = entry[k].meta
  BY <1>1, <1>2 DEF CacheEntry, Proc
<1>4. u \in Proc /\ u.pc = "content" /\ u.key = k /\ u.verb = w.verb
  BY <1>1 DEF Proc
<1> HIDE DEF e, u
<1>5. KeyFits(u) /\ mixed' \subseteq Keys
  BY <1>1, <1>2, <1>4 DEF KeyFits, TypedInv, CacheTypeOK
<1> QED
  BY <1>1, <1>2, <1>3, <1>4, <1>5, StoreTyped

LEMMA WriteContentTyped ==
  ASSUME TypedInv, NEW p \in Procs, WriteContent(p)
  PROVE  TypedInv'
<1> DEFINE w == proc[p]
           k == w.key
           e == Scanned(entry[k], w.load)
           u == [w EXCEPT !.pc = "meta"]
<1>1. /\ w \in Proc /\ KeyFits(w) /\ w.pc = "content" /\ Store(p, k, e, u)
      /\ UNCHANGED <<issue, used, changes, commands>>
      /\ mixed' = IF Clashing(p, k) THEN mixed \cup {k} ELSE mixed
  BY DEF TypedInv, CacheTypeOK, WriteContent, Is
<1>2. k \in Keys /\ w.verb # "drain" /\ entry[k] \in CacheEntry
  BY <1>1 DEF KeyFits, TypedInv, CacheTypeOK
<1>3. e \in CacheEntry /\ e.meta = entry[k].meta
  BY <1>1, <1>2 DEF CacheEntry, Proc, Load, Scanned
<1>4. u \in Proc /\ u.pc = "meta" /\ u.key = k /\ u.verb = w.verb
  BY <1>1 DEF Proc
<1> HIDE DEF e, u
<1>5. KeyFits(u) /\ mixed' \subseteq Keys
  BY <1>1, <1>2, <1>4 DEF KeyFits, TypedInv, CacheTypeOK
<1> QED
  BY <1>1, <1>2, <1>3, <1>4, <1>5, StoreTyped

LEMMA WriteMetaTyped ==
  ASSUME TypedInv, NEW p \in Procs, WriteMeta(p)
  PROVE  TypedInv'
<1> DEFINE w == proc[p]
           k == w.key
           e == [entry[k] EXCEPT !.meta = w.load.v, !.size = w.load.size,
                                 !.passed = w.load.clean, !.age = "fresh"]
           u == After(w)
<1>1. /\ w \in Proc /\ KeyFits(w) /\ w.pc = "meta" /\ Store(p, k, e, u)
      /\ used' = Touched(k) /\ UNCHANGED <<issue, changes, commands>>
      /\ mixed' = CASE Clashing(p, k) -> mixed \cup {k}
                    [] ~Clashing(p, k) /\ w.sole -> mixed \ {k}
                    [] OTHER -> mixed
  BY DEF TypedInv, CacheTypeOK, WriteMeta, Is
<1>2. k \in Keys /\ entry[k] \in CacheEntry
  BY <1>1 DEF KeyFits, TypedInv, CacheTypeOK
<1>3. e \in CacheEntry
  BY <1>1, <1>2 DEF CacheEntry, Proc, Load, Ages
<1>4. u \in Proc /\ KeyFits(u)
  BY <1>1, AfterTyped
<1> HIDE DEF e, u
<1>5. mixed' \subseteq Keys
  BY <1>1, <1>2 DEF TypedInv, CacheTypeOK
<1> QED
  BY <1>1, <1>2, <1>3, <1>4, <1>5, StoreTyped

LEMMA LeavingsTyped ==
  ASSUME NEW e \in CacheEntry, NEW left \in Leavings(e)
  PROVE  left \in CacheEntry /\ (left.meta # 0 => e.meta # 0)
<1> PICK gone \in SUBSET {"raw", "content", "meta"} :
      left = [e EXCEPT !.raw = IF "raw" \in gone THEN NoLoad ELSE @,
             !.content = IF "content" \in gone THEN 0 ELSE @,
             !.meta = IF "meta" \in gone THEN 0 ELSE @,
             !.size = IF "meta" \in gone THEN 0 ELSE @,
             !.passed = IF "meta" \in gone THEN FALSE ELSE @,
             !.age = IF "meta" \in gone THEN "none" ELSE @]
  BY DEF Leavings
<1> QED
  BY TypesAtRest DEF CacheEntry, Ages

LEMMA BreaksTyped ==
  ASSUME TypedInv, NEW p \in Procs, NEW u \in Proc, KeyFits(u), Breaks(p, u)
  PROVE  TypedInv'
<1>1. UNCHANGED <<issue, used, changes, commands>>
  BY DEF Breaks
<1>2. CASE Goes(p, u) /\ UNCHANGED entry
           /\ mixed' = mixed \cup {k \in Keys : Writes(p, k)}
  <2>1. proc' \in [Procs -> Proc] /\ \A q \in Procs : KeyFits(proc'[q])
    BY <1>2 DEF Goes, TypedInv, CacheTypeOK
  <2>2. CacheTypeOK'
    BY <1>1, <1>2, <2>1 DEF TypedInv, CacheTypeOK, Listed
  <2> QED
    BY <2>1, <2>2 DEF TypedInv
<1>3. ASSUME NEW k \in Oldest(proc[p]), NEW left \in Leavings(entry[k]),
             Store(p, k, left, u), mixed' = mixed \cup {k}
      PROVE  TypedInv'
  <2>1. k \in Keys /\ entry[k] \in CacheEntry
    BY <1>3 DEF Oldest, TypedInv, CacheTypeOK, Proc
  <2>2. left \in CacheEntry /\ (left.meta # 0 => entry[k].meta # 0)
    BY <1>3, <2>1, LeavingsTyped
  <2>3. mixed' \subseteq Keys
    BY <1>3, <2>1 DEF TypedInv, CacheTypeOK
  <2> QED
    BY <1>1, <1>3, <2>1, <2>2, <2>3, StoreTyped
<1> QED
  BY <1>2, <1>3 DEF Breaks

LEMMA KillTyped ==
  ASSUME TypedInv, NEW p \in Procs, KillProc(p)
  PROVE  TypedInv'
BY TypesAtRest, BreaksTyped DEF KillProc

LEMMA FailTyped ==
  ASSUME TypedInv, NEW p \in Procs, FailPut(p)
  PROVE  TypedInv'
<1> DEFINE w == proc[p]
<1>1. w \in Proc /\ KeyFits(w) /\ w.pc \in Putting /\ Breaks(p, PutRaised(w))
  BY DEF TypedInv, CacheTypeOK, FailPut, Putting
<1> QED
  BY <1>1, FailedTyped, BreaksTyped

LEMMA RemoveTyped ==
  ASSUME TypedInv, NEW p \in Procs, NEW k \in Keys, Remove(p, k)
  PROVE  TypedInv'
<1>1. PICK e \in CacheEntry : entry' = [entry EXCEPT ![k] = e] /\ (e.meta # 0 => entry[k].meta # 0)
  <2>1. entry[k] \in CacheEntry
    BY DEF TypedInv, CacheTypeOK
  <2> QED
    BY <2>1, TypesAtRest, LeavingsTyped DEF Remove
<1>2. ASSUME NEW q \in Procs
      PROVE  proc'[q] \in Proc /\ KeyFits(proc'[q])
  <2> PICK w : w = Noticed(p, k)[q]
    OBVIOUS
  <2>1. w \in Proc /\ KeyFits(w)
    BY NoticedTyped
  <2>2. proc'[q] = [w EXCEPT !.alone = FALSE]
    BY DEF Remove
  <2>3. proc'[q] \in Proc /\ proc'[q].pc = w.pc /\ proc'[q].verb = w.verb /\ proc'[q].key = w.key
    BY <2>1, <2>2 DEF Proc
  <2> QED
    BY <2>1, <2>3 DEF KeyFits
<1>3. proc' \in [Procs -> Proc]
  <2>1. proc' = [q \in Procs |-> proc'[q]]
    BY DEF Remove
  <2> QED
    BY <1>2, <2>1
<1>4. UNCHANGED <<issue, used, changes>> /\ mixed' \subseteq Keys
  BY DEF Remove, Gone, TypedInv, CacheTypeOK
<1>5. commands' \in 0..MaxVerbs
  <2>1. commands < MaxVerbs /\ commands' = commands + 1 /\ commands \in 0..MaxVerbs
    BY DEF Remove, TypedInv, CacheTypeOK
  <2> QED
    BY <2>1, CacheAssumption
<1>6. entry' \in [Keys -> CacheEntry] /\ Listed' \subseteq Listed
  BY <1>1 DEF Listed, TypedInv, CacheTypeOK
<1>7. Orders(used', Listed')
  BY <1>4, <1>6, OrdersOfFewer DEF TypedInv, CacheTypeOK
<1>8. CacheTypeOK'
  BY <1>3, <1>4, <1>5, <1>6, <1>7 DEF TypedInv, CacheTypeOK
<1> QED
  BY <1>2, <1>8 DEF TypedInv

LEMMA ChangeTyped ==
  ASSUME TypedInv, NEW k \in Keys, Change(k)
  PROVE  TypedInv'
<1>1. UNCHANGED <<entry, used, commands, mixed>>
  BY DEF Change
<1>2. issue' \in [Keys -> Load]
  <2> PICK size \in Sizes, open \in BOOLEAN, clean \in BOOLEAN :
        issue' = [issue EXCEPT ![k] = [v |-> @.v + 1, open |-> open, size |-> size,
                                       clean |-> clean]]
    BY DEF Change
  <2>1. issue \in [Keys -> Load] /\ issue[k].v + 1 \in Nat
    BY DEF TypedInv, CacheTypeOK, Load
  <2> QED
    BY <2>1, CacheAssumption DEF Load
<1>3. changes' \in 0..MaxChanges
  <2>1. changes < MaxChanges /\ changes' = changes + 1 /\ changes \in 0..MaxChanges
    BY DEF Change, TypedInv, CacheTypeOK
  <2> QED
    BY <2>1, CacheAssumption
<1>4. ASSUME NEW q \in Procs
      PROVE  proc'[q] \in Proc /\ KeyFits(proc'[q])
  <2> DEFINE w == proc[q]
             u == [w EXCEPT !.seen = @ \cup {k}]
  <2>1. w \in Proc /\ KeyFits(w)
    BY DEF TypedInv, CacheTypeOK
  <2>2. u \in Proc /\ u.pc = w.pc /\ u.verb = w.verb /\ u.key = w.key
    BY <2>1 DEF Proc
  <2>3. proc'[q] \in {w, u}
    BY DEF Change
  <2> HIDE DEF u
  <2> QED
    BY <2>1, <2>2, <2>3 DEF KeyFits
<1>5. proc' \in [Procs -> Proc]
  <2>1. proc' = [q \in Procs |-> proc'[q]]
    BY DEF Change
  <2> QED
    BY <1>4, <2>1
<1>6. CacheTypeOK'
  BY <1>1, <1>2, <1>3, <1>5 DEF TypedInv, CacheTypeOK, Listed
<1> QED
  BY <1>4, <1>6 DEF TypedInv

LEMMA ExpireTyped ==
  ASSUME TypedInv, NEW k \in Keys, Expire(k)
  PROVE  TypedInv'
<1> DEFINE e == [entry[k] EXCEPT !.age = "stale"]
<1>1. UNCHANGED <<issue, used, proc, changes, commands, mixed>> /\ entry' = [entry EXCEPT ![k] = e]
  BY DEF Expire
<1>2. e \in CacheEntry /\ e.meta = entry[k].meta
  BY DEF TypedInv, CacheTypeOK, CacheEntry, Ages
<1> HIDE DEF e
<1>3. entry' \in [Keys -> CacheEntry] /\ Listed' = Listed
  BY <1>1, <1>2 DEF TypedInv, CacheTypeOK, Listed
<1>4. Orders(used', Listed')
  BY <1>1, <1>3 DEF TypedInv, CacheTypeOK
<1>5. CacheTypeOK'
  BY <1>1, <1>3, <1>4 DEF TypedInv, CacheTypeOK
<1> QED
  BY <1>1, <1>5 DEF TypedInv

LEMMA GetTyped ==
  ASSUME TypedInv, NEW k \in Keys, Get(k)
  PROVE  TypedInv'
<1>1. used' = Touched(k) /\ UNCHANGED <<issue, entry, proc, changes, commands, mixed>>
  BY DEF Get
<1>2. used' \subseteq Keys \X Keys /\ Orders(used', Listed \cup {k}) /\ k \in Listed
  BY <1>1, TouchedOrders DEF TypedInv, CacheTypeOK, Listed, Get
<1>3. Listed' = Listed /\ Listed \cup {k} = Listed
  BY <1>1, <1>2 DEF Listed
<1>4. Orders(used', Listed')
  BY <1>2, <1>3
<1>5. CacheTypeOK'
  BY <1>1, <1>2, <1>4 DEF TypedInv, CacheTypeOK
<1> QED
  BY <1>1, <1>5 DEF TypedInv

LEMMA InitTyped == CacheInit => TypedInv
<1> SUFFICES ASSUME CacheInit PROVE TypedInv
  OBVIOUS
<1>1. FirstLoad \in Load /\ FirstEntry \in CacheEntry /\ FirstEntry.meta = 1
  BY DEF FirstLoad, Load, FirstEntry, CacheEntry, Ages
<1>2. PICK S \in SUBSET Keys :
        /\ entry = [k \in Keys |-> IF k \in S THEN FirstEntry ELSE NoEntry]
        /\ used \in SUBSET (S \X S) /\ Orders(used, S)
  BY DEF CacheInit
<1>3. entry \in [Keys -> CacheEntry] /\ Listed = S
  BY <1>1, <1>2, TypesAtRest DEF Listed
<1>4. used \subseteq Keys \X Keys /\ Orders(used, Listed)
  BY <1>2, <1>3
<1>5. proc \in [Procs -> Proc] /\ \A p \in Procs : KeyFits(proc[p])
  BY TypesAtRest DEF CacheInit
<1>6. CacheTypeOK
  BY <1>1, <1>3, <1>4, <1>5, CacheAssumption DEF CacheInit, CacheTypeOK
<1> QED
  BY <1>5, <1>6 DEF TypedInv

LEMMA NextKeepsTyped == TypedInv /\ [CacheNext]_cacheVars => TypedInv'
<1> SUFFICES ASSUME TypedInv, [CacheNext]_cacheVars PROVE TypedInv'
  OBVIOUS
<1>1. ASSUME NEW p \in Procs,
             \/ Commanding(p) \/ FetchNext(p) \/ Enumerate(p) \/ Revisit(p)
             \/ Storing(p) \/ KillProc(p)
             \/ \E k \in Keys : Remove(p, k)
      PROVE  TypedInv'
  BY <1>1, Beginnings, StartTyped, FetchNextTyped, EnumerateTyped, RevisitTyped, ScanTyped, EvictTyped,
     DecideTyped, WriteRawTyped, WriteContentTyped, WriteMetaTyped, FailTyped,
     KillTyped, RemoveTyped
     DEF Storing
<1>2. ASSUME NEW k \in Keys, Get(k) \/ Change(k) \/ Expire(k)
      PROVE  TypedInv'
  BY <1>2, GetTyped, ChangeTyped, ExpireTyped
<1>3. CASE UNCHANGED cacheVars
  BY <1>3 DEF cacheVars, TypedInv, CacheTypeOK, Listed
<1> QED
  BY <1>1, <1>2, <1>3 DEF CacheNext

-----------------------------------------------------------------------------
(* What a command that runs alone has measured, and has decided.           *)
Measured(w) ==
  /\ w.was = IF w.key \in Listed THEN entry[w.key].size ELSE 0
  /\ w.new = IF w.key \in Listed THEN 0 ELSE 1

Fits(w) == Bytes(Listed) + w.load.size - w.was <= MaxBytes
           /\ Cardinality(Listed) + w.new <= MaxEntries

Quota(p) ==
  LET w == proc[p]
  IN w.alone =>
       /\ \A q \in Procs : q # p => Is(q, "free")
       /\ w.pc = "evict" => w.key \notin w.victims
       /\ w.pc \in {"evict", "raw", "content", "meta"} /\ w.verb # "drain" => Measured(w)
       /\ w.pc \in {"raw", "content", "meta"} => Fits(w)

QuotaInv == \A p \in Procs : Quota(p)

-----------------------------------------------------------------------------
(* The sum of the sizes, as a number of bytes.                             *)
Extent(f, k) == {k} \X (1..f[k].size)

Total(f, S) == Cardinality(UNION {Extent(f, k) : k \in S})

LEMMA BytesAreTotal == \A S : Bytes(S) = Total(entry, S) /\ Bytes(S)' = Total(entry', S')
BY DEF Bytes, Total, Extent

LEMMA ExtentFacts ==
  ASSUME NEW f \in [Keys -> CacheEntry], NEW k \in Keys
  PROVE  IsFiniteSet(Extent(f, k)) /\ Cardinality(Extent(f, k)) = f[k].size
<1>1. f[k].size \in Nat
  BY DEF CacheEntry
<1>2. IsFiniteSet(1..f[k].size) /\ Cardinality(1..f[k].size) = f[k].size
  BY <1>1, FS_Interval
<1>3. IsFiniteSet({k}) /\ Cardinality({k}) = 1
  BY FS_Singleton
<1> QED
  BY <1>1, <1>2, <1>3, FS_Product DEF Extent

LEMMA TotalFacts ==
  ASSUME NEW f \in [Keys -> CacheEntry], NEW S \in SUBSET Keys
  PROVE  IsFiniteSet(UNION {Extent(f, k) : k \in S}) /\ Total(f, S) \in Nat
<1> DEFINE T == {Extent(f, k) : k \in S}
           g == [k \in S |-> Extent(f, k)]
<1>1. IsFiniteSet(S)
  BY CacheAssumption, FS_Subset
<1>2. g \in Surjection(S, T)
  BY DEF Surjection
<1>3. IsFiniteSet(T)
  BY <1>1, <1>2, FS_Surjection
<1>4. \A E \in T : IsFiniteSet(E)
  BY ExtentFacts
<1>5. IsFiniteSet(UNION T)
  BY <1>3, <1>4, FS_UNION
<1> QED
  BY <1>5, FS_CardinalityType DEF Total

LEMMA TotalOfOneMore ==
  ASSUME NEW f \in [Keys -> CacheEntry], NEW S \in SUBSET Keys, NEW k \in Keys \ S
  PROVE  Total(f, S \cup {k}) = Total(f, S) + f[k].size
<1> DEFINE U == UNION {Extent(f, j) : j \in S}
<1>1. UNION {Extent(f, j) : j \in S \cup {k}} = U \cup Extent(f, k)
  OBVIOUS
<1>2. U \cap Extent(f, k) = {}
  BY DEF Extent
<1>3. /\ IsFiniteSet(U) /\ Cardinality(U) \in Nat
      /\ IsFiniteSet(Extent(f, k)) /\ Cardinality(Extent(f, k)) = f[k].size /\ f[k].size \in Nat
  BY TotalFacts, ExtentFacts DEF Total, CacheEntry
<1> HIDE DEF U
<1>4. Cardinality(U \cup Extent(f, k)) = Cardinality(U) + f[k].size - Cardinality({})
  BY <1>2, <1>3, FS_Union
<1>5. Cardinality({}) = 0
  BY FS_EmptySet
<1>6. Cardinality(U \cup Extent(f, k)) = Cardinality(U) + f[k].size
  BY <1>3, <1>4, <1>5
<1> QED
  BY <1>1, <1>6 DEF Total, U

LEMMA TotalOfAlike ==
  ASSUME NEW f, NEW g, NEW S, \A k \in S : f[k].size = g[k].size
  PROVE  Total(f, S) = Total(g, S)
<1>1. \A k \in S : Extent(f, k) = Extent(g, k)
  BY DEF Extent
<1>2. {Extent(f, k) : k \in S} = {Extent(g, k) : k \in S}
  BY <1>1
<1> QED
  BY <1>2 DEF Total

(* The usage when the size and the presence of each entry stay.            *)
LEMMA UsageKept ==
  ASSUME \A k \in Keys : entry'[k].meta = entry[k].meta /\ entry'[k].size = entry[k].size
  PROVE  Listed' = Listed /\ Bytes(Listed)' = Bytes(Listed)
<1>1. Listed' = Listed /\ Listed \subseteq Keys
  BY DEF Listed
<1>2. Total(entry', Listed') = Total(entry, Listed)
  BY <1>1, TotalOfAlike
<1> QED
  BY <1>1, <1>2 DEF Bytes, Total, Extent

(* The usage without entry k.                                              *)
LEMMA UsageWithout ==
  ASSUME NEW f \in [Keys -> CacheEntry], NEW S \in SUBSET Keys, NEW k \in Keys
  PROVE  LET size == IF k \in S THEN f[k].size ELSE 0
             one  == IF k \in S THEN 1 ELSE 0
         IN /\ Total(f, S) = Total(f, S \ {k}) + size
            /\ Cardinality(S) = Cardinality(S \ {k}) + one
            /\ Total(f, S \ {k}) \in Nat /\ Cardinality(S \ {k}) \in Nat
<1>1. IsFiniteSet(S) /\ IsFiniteSet(S \ {k})
  BY CacheAssumption, FS_Subset
<1>2. Total(f, S \ {k}) \in Nat /\ Cardinality(S \ {k}) \in Nat /\ Cardinality(S) \in Nat
  BY <1>1, TotalFacts, FS_CardinalityType
<1>3. CASE k \in S
  <2>1. (S \ {k}) \cup {k} = S
    BY <1>3
  <2>2. Total(f, S) = Total(f, S \ {k}) + f[k].size
    BY <2>1, TotalOfOneMore
  <2>3. Cardinality(S \ {k}) = Cardinality(S) - 1
    BY <1>1, <1>3, FS_RemoveElement
  <2> QED
    BY <1>2, <1>3, <2>2, <2>3
<1>4. CASE k \notin S
  <2>1. S \ {k} = S
    BY <1>4
  <2>2. Total(f, S) = Total(f, S \ {k}) /\ Cardinality(S) = Cardinality(S \ {k})
    BY <2>1
  <2> QED
    BY <1>2, <1>4, <2>2
<1> QED
  BY <1>3, <1>4

-----------------------------------------------------------------------------
(* A process goes on in a way that matters to nobody's measures.           *)
LEMMA OthersAreNotAlone ==
  ASSUME QuotaInv, NEW p \in Procs, NEW q \in Procs, q # p, ~Is(p, "free")
  PROVE  ~proc[q].alone
BY DEF QuotaInv, Quota

LEMMA QuotaOfGoing ==
  ASSUME TypedInv, QuotaInv, NEW p \in Procs, NEW u, Goes(p, u), UNCHANGED entry,
         ~Is(p, "free"),
         u.alone =>
           /\ proc[p].alone
           /\ u.pc = "evict" => u.key \notin u.victims
           /\ u.pc \in {"evict", "raw", "content", "meta"} /\ u.verb # "drain" => Measured(u)
           /\ u.pc \in {"raw", "content", "meta"} => Fits(u)
  PROVE  QuotaInv'
<1>2. \A q \in Procs : proc'[q] = IF q = p THEN u ELSE proc[q]
  BY DEF Goes, TypedInv, CacheTypeOK
<1>3. Quota(p)'
  <2>1. u.alone => \A q \in Procs : q # p => Is(q, "free")'
    BY <1>2 DEF QuotaInv, Quota, Is
  <2>2. Listed' = Listed
    BY DEF Listed
  <2>3. Measured(u) => Measured(u)'
    BY <2>2 DEF Measured
  <2>4. Fits(u) => Fits(u)'
    BY <2>2 DEF Fits, Bytes
  <2> QED
    BY <1>2, <2>1, <2>3, <2>4 DEF Quota, Measured, Fits
<1>4. \A q \in Procs : q # p => Quota(q)'
  BY <1>2, OthersAreNotAlone DEF Quota
<1> QED
  BY <1>3, <1>4 DEF QuotaInv

LEMMA QuotaOfStore ==
  ASSUME TypedInv, QuotaInv, NEW p \in Procs, NEW k, NEW e, NEW u, Store(p, k, e, u),
         ~Is(p, "free"),
         u.alone =>
           /\ proc[p].alone
           /\ u.pc = "evict" => u.key \notin u.victims
           /\ u.pc \in {"evict", "raw", "content", "meta"} /\ u.verb # "drain" => Measured(u)'
           /\ u.pc \in {"raw", "content", "meta"} => Fits(u)'
  PROVE  QuotaInv'
<1>1. DOMAIN Noticed(p, k) = Procs
  BY DEF Noticed
<1>2. proc'[p] = u /\ \A q \in Procs : q # p => proc'[q] = Noticed(p, k)[q]
  BY <1>1 DEF Store
<1>3. \A q \in Procs : q # p => proc'[q].pc = proc[q].pc /\ proc'[q].alone = proc[q].alone
  <2> SUFFICES ASSUME NEW q \in Procs, q # p
               PROVE  proc'[q].pc = proc[q].pc /\ proc'[q].alone = proc[q].alone
    OBVIOUS
  <2> PICK w \in Proc : w = proc[q]
    BY DEF TypedInv, CacheTypeOK
  <2>1. proc'[q] \in {w, [w EXCEPT !.others = IF w.verb = "refresh" THEN @ \cup {k} ELSE @,
                                   !.sole = @ /\ w.key # k]}
    BY <1>2 DEF Noticed
  <2> QED
    BY <2>1 DEF Proc
<1>4. Quota(p)'
  <2>1. u.alone => \A q \in Procs : q # p => Is(q, "free")'
    BY <1>3 DEF QuotaInv, Quota, Is
  <2> QED
    BY <1>2, <2>1 DEF Quota
<1>5. \A q \in Procs : q # p => Quota(q)'
  BY <1>3, OthersAreNotAlone DEF Quota
<1> QED
  BY <1>4, <1>5 DEF QuotaInv

LEMMA QuotaOfStart ==
  ASSUME TypedInv, NEW p \in Procs, Commanding(p)
  PROVE  QuotaInv'
<1> PICK w \in Proc : StartCommand(p, w) /\ w.pc \in {"scan", "fetch", "enumerate"}
  BY Beginnings
<1> DEFINE u == [w EXCEPT !.alone = (Busy = {}),
                         !.seen = IF w.verb = "refresh" THEN {k \in Keys : issue[k].open}
                                  ELSE {}]
<1>1. proc' = [q \in Procs |-> IF q = p THEN u ELSE [proc[q] EXCEPT !.alone = FALSE]]
  BY DEF StartCommand
<1>2. u.pc = w.pc /\ u.alone = (Busy = {})
  BY DEF Proc
<1>3. \A q \in Procs : q # p => proc'[q].pc = proc[q].pc /\ ~proc'[q].alone
  BY <1>1 DEF TypedInv, CacheTypeOK, Proc
<1>4. proc'[p] = u
  BY <1>1
<1> HIDE DEF u
<1>5. u.alone => \A q \in Procs : q # p => Is(q, "free")'
  BY <1>2, <1>3 DEF Busy, Is
<1>6. Quota(p)'
  BY <1>2, <1>4, <1>5 DEF Quota
<1> QED
  BY <1>3, <1>6 DEF QuotaInv, Quota

LEMMA QuotaOfFetchNext ==
  ASSUME TypedInv, QuotaInv, NEW p \in Procs, FetchNext(p)
  PROVE  QuotaInv'
<1> DEFINE w == proc[p]
<1>1. w \in Proc /\ w.pc = "fetch" /\ ~Is(p, "free") /\ UNCHANGED entry
  BY DEF TypedInv, CacheTypeOK, FetchNext, Is
<1>2. CASE Goes(p, NoProc)
  BY <1>1, <1>2, QuotaOfGoing DEF NoProc
<1>3. ASSUME NEW k \in w.todo,
             LET rest == [w EXCEPT !.todo = @ \ {k}, !.list[k] = NoLoad]
             IN Goes(p, IF IsFresh(k) THEN rest ELSE PutOf(rest, k, w.list[k]))
      PROVE  QuotaInv'
  <2> DEFINE rest == [w EXCEPT !.todo = @ \ {k}, !.list[k] = NoLoad]
             load == w.list[k]
  <2>1. k \in Keys /\ load \in Load
    BY <1>1, <1>3 DEF Proc
  <2>2. rest \in Proc /\ rest.pc = "fetch" /\ rest.alone = w.alone
    <3>1. [w.list EXCEPT ![k] = NoLoad] \in [Keys -> Load]
      BY <1>1, TypesAtRest DEF Proc
    <3> QED
      BY <1>1, <3>1 DEF Proc
  <2>3. Goes(p, rest) \/ Goes(p, PutOf(rest, k, load))
    BY <1>3
  <2> HIDE DEF rest, load
  <2>4. CASE Goes(p, rest)
    BY <1>1, <2>2, <2>4, QuotaOfGoing
  <2>5. CASE Goes(p, PutOf(rest, k, load))
    BY <1>1, <2>1, <2>2, <2>5, PutOfTyped, QuotaOfGoing
  <2> QED
    BY <2>3, <2>4, <2>5
<1> QED
  BY <1>2, <1>3 DEF FetchNext

LEMMA QuotaOfEnumerate ==
  ASSUME TypedInv, QuotaInv, NEW p \in Procs, Enumerate(p)
  PROVE  QuotaInv'
<1> DEFINE w == proc[p]
<1> PICK S \in SUBSET Keys : Goes(p, [w EXCEPT !.pc = "revisit", !.todo = @ \ OpenNumbers(S)])
  BY DEF Enumerate
<1> DEFINE u == [w EXCEPT !.pc = "revisit", !.todo = @ \ OpenNumbers(S)]
<1>1. w \in Proc /\ ~Is(p, "free") /\ UNCHANGED entry
  BY DEF TypedInv, CacheTypeOK, Enumerate, Is
<1>2. u.pc = "revisit" /\ u.alone = w.alone
  BY <1>1 DEF Proc
<1>3. Goes(p, u)
  OBVIOUS
<1> HIDE DEF u
<1> QED
  BY <1>1, <1>2, <1>3, QuotaOfGoing

LEMMA QuotaOfRevisit ==
  ASSUME TypedInv, QuotaInv, NEW p \in Procs, Revisit(p)
  PROVE  QuotaInv'
<1> DEFINE w == proc[p]
<1>1. w \in Proc /\ w.pc = "revisit" /\ ~Is(p, "free") /\ UNCHANGED entry
  BY DEF TypedInv, CacheTypeOK, Revisit, Is
<1>2. CASE Goes(p, NoProc)
  BY <1>1, <1>2, QuotaOfGoing DEF NoProc
<1>3. ASSUME NEW k \in w.todo,
             LET rest == [w EXCEPT !.todo = @ \ {k}]
             IN \/ Goes(p, [rest EXCEPT !.failed = @ \cup {k}])
                \/ issue[k].open /\ Goes(p, rest)
                \/ ~issue[k].open /\ Goes(p, PutOf(rest, k, issue[k]))
      PROVE  QuotaInv'
  <2> DEFINE rest == [w EXCEPT !.todo = @ \ {k}]
             gaveUp == [rest EXCEPT !.failed = @ \cup {k}]
  <2>1. k \in Keys /\ issue[k] \in Load
    BY <1>1, <1>3 DEF Proc, TypedInv, CacheTypeOK
  <2>2. rest \in Proc /\ rest.pc = "revisit" /\ rest.alone = w.alone
    BY <1>1 DEF Proc
  <2>3. Goes(p, gaveUp) \/ Goes(p, rest) \/ Goes(p, PutOf(rest, k, issue[k]))
    BY <1>3
  <2> HIDE DEF rest
  <2>4. gaveUp.pc = "revisit" /\ gaveUp.alone = w.alone
    BY <2>1, <2>2 DEF Proc
  <2> HIDE DEF gaveUp
  <2>5. CASE Goes(p, gaveUp)
    BY <1>1, <2>4, <2>5, QuotaOfGoing
  <2>6. CASE Goes(p, rest)
    BY <1>1, <2>2, <2>6, QuotaOfGoing
  <2>7. CASE Goes(p, PutOf(rest, k, issue[k]))
    BY <1>1, <2>1, <2>2, <2>7, PutOfTyped, QuotaOfGoing
  <2> QED
    BY <2>3, <2>5, <2>6, <2>7
<1> QED
  BY <1>2, <1>3 DEF Revisit

LEMMA QuotaOfScan ==
  ASSUME TypedInv, QuotaInv, NEW p \in Procs, Scan(p)
  PROVE  QuotaInv'
<1> DEFINE w == proc[p]
           there == w.verb # "drain" /\ entry[w.key].meta # 0
           was == IF there THEN entry[w.key].size ELSE 0
           new == IF w.verb # "drain" /\ ~there THEN 1 ELSE 0
           v == [w EXCEPT !.pc = "evict", !.sole = TRUE, !.was = was, !.new = new]
           victims == Victims({w.key}, Delta(v), v.new)
           order == LruOrder(victims)
           u == [v EXCEPT !.victims = victims, !.order = order]
<1>1. w \in Proc /\ KeyFits(w) /\ w.pc = "scan" /\ ~Is(p, "free") /\ UNCHANGED entry
  BY DEF TypedInv, CacheTypeOK, Scan, Is
<1>2. Goes(p, u)
  BY DEF Scan
<1>3. v.pc = "evict" /\ v.verb = w.verb /\ v.key = w.key /\ v.alone = w.alone
      /\ v.was = was /\ v.new = new /\ DOMAIN v = DOMAIN w
  BY <1>1 DEF Proc
<1>4. w.key \notin victims
  BY VictimsTyped
<1>5. DOMAIN w = ProcFields
  BY <1>1 DEF Proc, ProcFields
<1> HIDE DEF v
<1>6. u.pc = "evict" /\ u.verb = w.verb /\ u.key = w.key /\ u.alone = w.alone
      /\ u.was = was /\ u.new = new /\ u.victims = victims
  BY <1>3, <1>5 DEF ProcFields
<1> HIDE DEF victims, u
<1>7. u.verb # "drain" => Measured(u)
  BY <1>1, <1>6 DEF Measured, KeyFits, Listed
<1> QED
  BY <1>1, <1>2, <1>4, <1>6, <1>7, QuotaOfGoing

LEMMA UsageTyped ==
  ASSUME TypedInv
  PROVE  Listed \in SUBSET Keys /\ Bytes(Listed) \in Nat /\ Cardinality(Listed) \in Nat
<1>1. Listed \in SUBSET Keys /\ IsFiniteSet(Listed)
  BY CacheAssumption, FS_Subset DEF Listed
<1>2. Total(entry, Listed) \in Nat
  BY <1>1, TotalFacts DEF TypedInv, CacheTypeOK
<1> QED
  BY <1>1, <1>2, FS_CardinalityType, BytesAreTotal

LEMMA QuotaOfDecide ==
  ASSUME TypedInv, QuotaInv, NEW p \in Procs, Decide(p)
  PROVE  QuotaInv'
<1> DEFINE w == proc[p]
           u == [w EXCEPT !.pc = "raw", !.order = {}]
<1>1. w \in Proc /\ KeyFits(w) /\ w.pc = "evict" /\ ~Is(p, "free") /\ UNCHANGED entry
  BY DEF TypedInv, CacheTypeOK, Decide, Is
<1>2. \/ Goes(p, PutRaised(w))
      \/ w.verb # "drain" /\ ~Exceeds(Listed, Delta(w), w.new) /\ Goes(p, u)
  BY DEF Decide
<1>3. CASE Goes(p, PutRaised(w))
  BY <1>1, <1>3, FailedTyped, QuotaOfGoing DEF Putting
<1>4. CASE w.verb # "drain" /\ ~Exceeds(Listed, Delta(w), w.new) /\ Goes(p, u)
  <2>1. /\ u.pc = "raw" /\ u.key = w.key /\ u.verb = w.verb /\ u.alone = w.alone
        /\ u.was = w.was /\ u.new = w.new /\ u.load = w.load
    BY <1>1 DEF Proc
  <2> HIDE DEF u
  <2>2. w.alone => Measured(u)
    BY <1>1, <1>4, <2>1 DEF QuotaInv, Quota, Measured
  <2>3. Fits(u)
    <3>1. w.load.size \in Nat /\ w.was \in Nat /\ w.new \in Nat
      BY <1>1 DEF Proc, Load
    <3>2. Bytes(Listed) + (w.load.size - w.was) <= MaxBytes
          /\ Cardinality(Listed) + w.new <= MaxEntries
      BY <1>4, <3>1, UsageTyped, CacheAssumption DEF Exceeds, Delta
    <3> QED
      BY <2>1, <3>1, <3>2, UsageTyped DEF Fits
  <2> QED
    BY <1>1, <1>4, <2>1, <2>2, <2>3, QuotaOfGoing
<1> QED
  BY <1>2, <1>3, <1>4

LEMMA QuotaOfEvict ==
  ASSUME TypedInv, QuotaInv, NEW p \in Procs, Evict(p)
  PROVE  QuotaInv'
<1> DEFINE w == proc[p]
<1> PICK k \in Oldest(w) : Store(p, k, NoEntry, [w EXCEPT !.victims = @ \ {k}])
  BY DEF Evict
<1> PICK u : u = [w EXCEPT !.victims = @ \ {k}]
  OBVIOUS
<1>1. w \in Proc /\ KeyFits(w) /\ w.pc = "evict" /\ k \in w.victims /\ ~Is(p, "free")
  BY DEF TypedInv, CacheTypeOK, Evict, Is, Oldest
<1>2. /\ u.pc = "evict" /\ u.key = w.key /\ u.verb = w.verb /\ u.alone = w.alone
      /\ u.was = w.was /\ u.new = w.new /\ u.victims \subseteq w.victims
  BY <1>1 DEF Proc
<1>3. \A j \in Keys : j # k => entry'[j] = entry[j]
  BY DEF Store, TypedInv, CacheTypeOK
<1>4. w.alone => w.key # k /\ w.key \notin w.victims
  BY <1>1 DEF QuotaInv, Quota
<1>5. w.alone /\ w.verb # "drain" => Measured(u)'
  <2>1. w.alone /\ w.verb # "drain" => Measured(w) /\ w.key \in Keys
    BY <1>1 DEF QuotaInv, Quota, KeyFits
  <2> QED
    BY <1>2, <1>3, <1>4, <2>1 DEF Measured, Listed
<1> QED
  BY <1>1, <1>2, <1>4, <1>5, QuotaOfStore

(* A write that leaves meta.json alone.                                    *)
LEMMA QuotaOfWrite ==
  ASSUME TypedInv, QuotaInv, NEW p \in Procs, NEW k, NEW e, NEW u, Store(p, k, e, u),
         proc[p].pc \in {"raw", "content"}, u.pc \in {"content", "meta"},
         u.key = proc[p].key, u.verb = proc[p].verb, u.alone = proc[p].alone,
         u.was = proc[p].was, u.new = proc[p].new, u.load = proc[p].load,
         e.meta = entry[k].meta, e.size = entry[k].size
  PROVE  QuotaInv'
<1> DEFINE w == proc[p]
<1>1. ~Is(p, "free") /\ w.key \in Keys /\ w.verb # "drain"
  BY DEF Is, TypedInv, KeyFits
<1>2. \A j \in Keys : entry'[j].meta = entry[j].meta /\ entry'[j].size = entry[j].size
  BY DEF Store, TypedInv, CacheTypeOK
<1>3. Listed' = Listed /\ Bytes(Listed)' = Bytes(Listed)
  BY <1>2, UsageKept
<1>4. w.alone => Measured(w) /\ Fits(w)
  BY <1>1 DEF QuotaInv, Quota
<1>5. w.alone => Measured(u)' /\ Fits(u)'
  BY <1>1, <1>2, <1>3, <1>4 DEF Measured, Fits
<1> QED
  BY <1>1, <1>5, QuotaOfStore

LEMMA QuotaOfWriteRaw ==
  ASSUME TypedInv, QuotaInv, NEW p \in Procs, WriteRaw(p)
  PROVE  QuotaInv'
<1> DEFINE w == proc[p]
           k == w.key
           e == [entry[k] EXCEPT !.raw = w.load]
           u == [w EXCEPT !.pc = "content"]
<1>1. w \in Proc /\ KeyFits(w) /\ w.pc = "raw" /\ Store(p, k, e, u)
  BY DEF TypedInv, CacheTypeOK, WriteRaw, Is
<1>2. e.meta = entry[k].meta /\ e.size = entry[k].size
  BY <1>1 DEF KeyFits, TypedInv, CacheTypeOK, CacheEntry
<1>3. /\ u.pc = "content" /\ u.key = w.key /\ u.verb = w.verb /\ u.alone = w.alone
      /\ u.was = w.was /\ u.new = w.new /\ u.load = w.load
  BY <1>1 DEF Proc
<1> HIDE DEF e, u
<1> QED
  BY <1>1, <1>2, <1>3, QuotaOfWrite

LEMMA QuotaOfWriteContent ==
  ASSUME TypedInv, QuotaInv, NEW p \in Procs, WriteContent(p)
  PROVE  QuotaInv'
<1> DEFINE w == proc[p]
           k == w.key
           e == Scanned(entry[k], w.load)
           u == [w EXCEPT !.pc = "meta"]
<1>1. w \in Proc /\ KeyFits(w) /\ w.pc = "content" /\ Store(p, k, e, u)
  BY DEF TypedInv, CacheTypeOK, WriteContent, Is
<1>2. e.meta = entry[k].meta /\ e.size = entry[k].size
  BY <1>1 DEF KeyFits, TypedInv, CacheTypeOK, CacheEntry, Scanned
<1>3. /\ u.pc = "meta" /\ u.key = w.key /\ u.verb = w.verb /\ u.alone = w.alone
      /\ u.was = w.was /\ u.new = w.new /\ u.load = w.load
  BY <1>1 DEF Proc
<1> HIDE DEF e, u
<1> QED
  BY <1>1, <1>2, <1>3, QuotaOfWrite

LEMMA QuotaOfWriteMeta ==
  ASSUME TypedInv, QuotaInv, NEW p \in Procs, WriteMeta(p)
  PROVE  QuotaInv'
<1> PICK e, u : Store(p, proc[p].key, e, u) /\ u = After(proc[p])
  BY DEF WriteMeta
<1>1. proc[p] \in Proc /\ ~Is(p, "free")
  BY DEF TypedInv, CacheTypeOK, WriteMeta, Is
<1>2. u.pc \in {"free", "fetch", "revisit"} /\ (u.alone => proc[p].alone)
  BY <1>1, AfterTyped
<1> QED
  BY <1>1, <1>2, QuotaOfStore

LEMMA QuotaOfBreaks ==
  ASSUME TypedInv, QuotaInv, NEW p \in Procs, NEW u, Breaks(p, u), ~Is(p, "free"),
         u.pc \in {"free", "fetch", "revisit"}, u.alone => proc[p].alone
  PROVE  QuotaInv'
<1>1. CASE Goes(p, u) /\ UNCHANGED entry
  BY <1>1, QuotaOfGoing
<1>2. ASSUME NEW k, NEW left, Store(p, k, left, u)
      PROVE  QuotaInv'
  BY <1>2, QuotaOfStore
<1> QED
  BY <1>1, <1>2 DEF Breaks

LEMMA QuotaOfKill ==
  ASSUME TypedInv, QuotaInv, NEW p \in Procs, KillProc(p)
  PROVE  QuotaInv'
<1>1. NoProc.pc = "free" /\ ~NoProc.alone
  BY DEF NoProc
<1> QED
  BY <1>1, QuotaOfBreaks DEF KillProc

LEMMA QuotaOfFail ==
  ASSUME TypedInv, QuotaInv, NEW p \in Procs, FailPut(p)
  PROVE  QuotaInv'
<1> DEFINE w == proc[p]
<1>1. w \in Proc /\ KeyFits(w) /\ w.pc \in Putting /\ Breaks(p, PutRaised(w))
  BY DEF TypedInv, CacheTypeOK, FailPut, Putting
<1>2. ~Is(p, "free")
  BY <1>1 DEF Putting, Is
<1> QED
  BY <1>1, <1>2, FailedTyped, QuotaOfBreaks

LEMMA QuotaOfRemove ==
  ASSUME TypedInv, NEW p \in Procs, NEW k \in Keys, Remove(p, k)
  PROVE  QuotaInv'
<1>1. \A q \in Procs : Noticed(p, k)[q] \in Proc
  BY NoticedTyped
<1>2. \A q \in Procs : ~proc'[q].alone
  <2> SUFFICES ASSUME NEW q \in Procs PROVE ~proc'[q].alone
    OBVIOUS
  <2> PICK w \in Proc : w = Noticed(p, k)[q]
    BY <1>1
  <2>1. proc'[q] = [w EXCEPT !.alone = FALSE]
    BY DEF Remove
  <2> QED
    BY <2>1 DEF Proc
<1> QED
  BY <1>2 DEF QuotaInv, Quota

LEMMA QuotaOfOutside ==
  ASSUME TypedInv, QuotaInv, NEW k \in Keys, Get(k) \/ Change(k) \/ Expire(k)
  PROVE  QuotaInv'
<1>1. \A j \in Keys : entry'[j].meta = entry[j].meta /\ entry'[j].size = entry[j].size
  BY DEF Get, Change, Expire, TypedInv, CacheTypeOK, CacheEntry
<1>2. Listed' = Listed /\ Bytes(Listed)' = Bytes(Listed)
  BY <1>1, UsageKept
<1>3. \A q \in Procs :
        /\ proc'[q].pc = proc[q].pc /\ proc'[q].key = proc[q].key
        /\ proc'[q].verb = proc[q].verb /\ proc'[q].alone = proc[q].alone
        /\ proc'[q].was = proc[q].was /\ proc'[q].new = proc[q].new
        /\ proc'[q].load = proc[q].load /\ proc'[q].victims = proc[q].victims
  BY DEF Get, Change, Expire, TypedInv, CacheTypeOK, Proc
<1> SUFFICES ASSUME NEW q \in Procs PROVE Quota(q)'
  BY DEF QuotaInv
<1>4. Quota(q) /\ KeyFits(proc[q])
  BY DEF QuotaInv, TypedInv
<1> QED
  BY <1>1, <1>2, <1>3, <1>4 DEF Quota, Measured, Fits, Is, KeyFits

LEMMA InitQuota == CacheInit => QuotaInv
BY DEF CacheInit, QuotaInv, Quota, NoProc

LEMMA NextKeepsQuota == TypedInv /\ QuotaInv /\ [CacheNext]_cacheVars => QuotaInv'
<1> SUFFICES ASSUME TypedInv, QuotaInv, [CacheNext]_cacheVars PROVE QuotaInv'
  OBVIOUS
<1>1. ASSUME NEW p \in Procs,
             \/ Commanding(p) \/ FetchNext(p) \/ Enumerate(p) \/ Revisit(p)
             \/ Storing(p) \/ KillProc(p)
             \/ \E k \in Keys : Remove(p, k)
      PROVE  QuotaInv'
  BY <1>1, QuotaOfStart, QuotaOfFetchNext, QuotaOfEnumerate, QuotaOfRevisit, QuotaOfScan,
     QuotaOfEvict, QuotaOfDecide, QuotaOfWriteRaw, QuotaOfWriteContent, QuotaOfWriteMeta,
     QuotaOfFail, QuotaOfKill, QuotaOfRemove DEF Storing
<1>2. ASSUME NEW k \in Keys, Get(k) \/ Change(k) \/ Expire(k)
      PROVE  QuotaInv'
  BY <1>2, QuotaOfOutside
<1>3. CASE UNCHANGED cacheVars
  BY <1>3 DEF cacheVars, QuotaInv, Quota, Measured, Fits, Listed, Bytes, Is
<1> QED
  BY <1>1, <1>2, <1>3 DEF CacheNext

-----------------------------------------------------------------------------
(* The last write of a put that ran alone.                                 *)
LEMMA WriteMetaKeepsCaps ==
  ASSUME TypedInv, TypedInv', NEW p \in Procs, WriteMeta(p),
         Measured(proc[p]), Fits(proc[p])
  PROVE  ~Exceeds(Listed, 0, 0)'
<1> DEFINE w == proc[p]
           k == w.key
           S == Listed
           T == Listed'
           R == Listed \ {k}
<1>1. w \in Proc /\ k \in Keys /\ w.load.size \in Nat
  BY DEF TypedInv, CacheTypeOK, KeyFits, WriteMeta, Is, Proc, Load
<1>2. /\ entry \in [Keys -> CacheEntry] /\ entry' \in [Keys -> CacheEntry]
      /\ \A j \in Keys : j # k => entry'[j] = entry[j]
      /\ entry'[k].size = w.load.size
  BY <1>1 DEF TypedInv, CacheTypeOK, WriteMeta, Store, CacheEntry
<1>3. S \in SUBSET Keys /\ T \in SUBSET Keys /\ T \ {k} = R
  BY <1>2 DEF Listed
<1>4. Total(entry', R) = Total(entry, R)
  BY <1>2, TotalOfAlike DEF Listed
<1>5. /\ Total(entry, S) = Total(entry, R) + w.was
      /\ Cardinality(S) = Cardinality(R) + (1 - w.new)
      /\ Total(entry, R) \in Nat /\ Cardinality(R) \in Nat
      /\ w.was \in Nat /\ w.new \in {0, 1}
  <2>1. LET size == IF k \in S THEN entry[k].size ELSE 0
            one  == IF k \in S THEN 1 ELSE 0
        IN /\ Total(entry, S) = Total(entry, R) + size
           /\ Cardinality(S) = Cardinality(R) + one
           /\ Total(entry, R) \in Nat /\ Cardinality(R) \in Nat
    BY <1>1, <1>2, <1>3, UsageWithout
  <2>2. w.was \in Nat /\ w.new \in {0, 1}
    BY <1>1 DEF Proc
  <2> QED
    BY <2>1, <2>2 DEF Measured
<1>6. LET size == IF k \in T THEN entry'[k].size ELSE 0
          one  == IF k \in T THEN 1 ELSE 0
      IN Total(entry', T) = Total(entry', R) + size /\ Cardinality(T) = Cardinality(R) + one
  BY <1>1, <1>2, <1>3, UsageWithout
<1>7. Total(entry', T) <= Total(entry, R) + w.load.size /\ Total(entry', T) \in Nat
      /\ Cardinality(T) <= Cardinality(R) + 1 /\ Cardinality(T) \in Nat
  <2> HIDE DEF S, T, R
  <2> QED
    BY <1>1, <1>2, <1>4, <1>5, <1>6
<1>8. Total(entry, S) + w.load.size - w.was <= MaxBytes
      /\ Cardinality(S) + w.new <= MaxEntries
  BY BytesAreTotal DEF Fits
<1>9. Total(entry', T) <= MaxBytes /\ Cardinality(T) <= MaxEntries
  <2> HIDE DEF S, T, R
  <2> QED
    BY <1>1, <1>5, <1>7, <1>8, CacheAssumption
<1>10. Bytes(Listed)' <= MaxBytes /\ Cardinality(Listed)' <= MaxEntries
  BY <1>9, BytesAreTotal
<1> QED
  BY <1>7, <1>10, BytesAreTotal, CacheAssumption DEF Exceeds

LEMMA StepKeepsCaps ==
  ASSUME TypedInv, TypedInv', QuotaInv, [CacheNext]_cacheVars, NEW p \in Procs,
         Is(p, "meta"), proc[p].alone, proc'[p].pc # "meta", entry' # entry
  PROVE  ~Exceeds(Listed, 0, 0)'
<1>1. \A q \in Procs : q # p => Is(q, "free")
  BY DEF QuotaInv, Quota
<1>2. CASE \E q \in Procs : FetchNext(q) \/ Enumerate(q) \/ Revisit(q) \/ Commanding(q)
  BY <1>2 DEF FetchNext, Enumerate, Revisit, Commanding, StartPut, StartFetch, StartRefresh,
              StartDrain, StartCommand
<1>3. CASE \E q \in Procs : Storing(q) \/ KillProc(q)
  <2>1. PICK q \in Procs : Storing(q) \/ KillProc(q)
    BY <1>3
  <2>2. q = p
    BY <1>1, <2>1 DEF Storing, Scan, Evict, Decide, WriteRaw, WriteContent, WriteMeta, FailPut,
                      KillProc, Is
  <2>3. WriteMeta(p)
    BY <2>1, <2>2 DEF Storing, Scan, Evict, Decide, WriteRaw, WriteContent, FailPut, KillProc,
                      Breaks, Is
  <2>4. Measured(proc[p]) /\ Fits(proc[p])
    BY DEF TypedInv, KeyFits, QuotaInv, Quota, Is
  <2> QED
    BY <2>3, <2>4, WriteMetaKeepsCaps
<1>4. CASE \E q \in Procs : \E k \in Keys : Remove(q, k)
  <2>1. PICK q \in Procs, k \in Keys : Remove(q, k)
    BY <1>4
  <2> PICK w \in Proc : w = Noticed(q, k)[p]
    BY NoticedTyped
  <2>2. q # p /\ w.pc = proc[p].pc
    BY <2>1 DEF Noticed, Remove, Is, TypedInv, CacheTypeOK, Proc
  <2>3. proc'[p] = [w EXCEPT !.alone = FALSE]
    BY <2>1 DEF Remove
  <2> QED
    BY <2>2, <2>3 DEF Proc, Is
<1>5. CASE \E k \in Keys : Get(k) \/ Change(k) \/ Expire(k)
  BY <1>5 DEF Get, Change, Expire, Is
<1>6. CASE UNCHANGED cacheVars
  BY <1>6 DEF cacheVars
<1> QED
  BY <1>2, <1>3, <1>4, <1>5, <1>6 DEF CacheNext

-----------------------------------------------------------------------------
(* What a put may rely on between its writes, and what a refresh has       *)
(* accounted for, holds throughout (scripts/cache.py, _cache_refresh.py).  *)
THEOREM CacheInductive == CacheSpec => []CacheInv
BY InitCacheInv, NextKeepsCacheInv, PTL DEF CacheSpec

(* The three files of an entry are those of one version unless a put of it *)
(* is under way, was killed, or met another writer: cache_put replaces     *)
(* them one after the other (scripts/cache.py).                            *)
THEOREM FilesStayTogether == CacheSpec => []FilesAgree
<1>1. CacheInv => FilesAgree
  <2> SUFFICES ASSUME CacheInv, NEW k \in Keys, k \notin mixed, \A p \in Procs : ~Writes(p, k)
               PROVE  Agree(entry[k])
    BY DEF FilesAgree, Agree
  <2> QED
    BY DEF CacheInv, EntriesInv, EntriesSettled
<1> QED
  BY <1>1, CacheInductive, PTL

(* A refresh that ends leaves no entry that says open of an issue that was *)
(* closed all the while, but for those it failed on or others have written *)
(* (run_state_refresh of scripts/_cache_fetch.py).                         *)
THEOREM RefreshIsComplete == CacheSpec => []RefreshReconciles
<1>1. CacheInv => RefreshReconciles
  BY DEF RefreshReconciles, CacheInv, RefreshInv, Sound, HasAccount, Ahead, Is
<1> QED
  BY <1>1, CacheInductive, PTL

(* Every field of the cache, of its entries and of what the processes are  *)
(* doing keeps its type, and the order of use is one, total on what is     *)
(* listed (lru_order, scripts/_cache_quota.py).                            *)
THEOREM CacheTypes == CacheSpec => []CacheTypeOK
<1>1. TypedInv => CacheTypeOK
  BY DEF TypedInv
<1> QED
  BY <1>1, InitTyped, NextKeepsTyped, PTL DEF CacheSpec

(* A put during whose command no other one ran leaves the cache within its *)
(* caps, whatever was killed or run at once before: enforce_caps measures  *)
(* the entry that is replaced and the usage once, before its evictions and *)
(* three writes (scripts/_cache_quota.py).                                 *)
THEOREM CapsAreKept == CacheSpec => CapsHold
<1>1. CacheInit => TypedInv /\ QuotaInv
  BY InitTyped, InitQuota
<1>2. TypedInv /\ QuotaInv /\ [CacheNext]_cacheVars => (TypedInv /\ QuotaInv)'
  BY NextKeepsTyped, NextKeepsQuota
<1>3. TypedInv /\ QuotaInv /\ TypedInv' /\ [CacheNext]_cacheVars =>
        [\A p \in Procs :
           Is(p, "meta") /\ proc[p].alone /\ proc'[p].pc # "meta" /\ entry' # entry
             => ~Exceeds(Listed, 0, 0)']_cacheVars
  BY StepKeepsCaps
<1> QED
  BY <1>1, <1>2, <1>3, PTL DEF CacheSpec, CapsHold

-----------------------------------------------------------------------------
(* The five parts together (MCDeft).                                       *)
LEMMA PartsBegin ==
  DeftInit => /\ ScopesInit /\ TriageInit /\ ReleaseInit /\ RelocateInit /\ CacheInit
              /\ session \in Sessions
BY DEF DeftInit

LEMMA PartsStep ==
  [DeftNext]_deftVars =>
    /\ [ScopesNext]_scopeVars /\ [TriageNext]_triageVars /\ [ReleaseNext]_releaseVars
    /\ [RelocateNext]_relocateVars /\ [CacheNext]_cacheVars
BY DEF DeftNext, deftVars, InScopes, InTriage, InRelease, InRelocate, InCache

(* Whatever Deft does is a behaviour of each of its parts, so every theorem*)
(* about one of them is one about Deft.                                    *)
THEOREM DeftRunsItsParts ==
  DeftSpec => ScopesSpec /\ TriageSpec /\ ReleaseSpec /\ RelocateSpec /\ CacheSpec
BY PartsBegin, PartsStep, PTL DEF DeftSpec, ScopesSpec, TriageSpec, ReleaseSpec, RelocateSpec, CacheSpec

(* Each part keeps its types in a session of any of them.                  *)
THEOREM DeftTypes == DeftSpec => []DeftTypeOK
<1>1. ScopesTypeOK /\ TriageTypeOK /\ ReleaseTypeOK /\ RelocateTypeOK /\ CacheTypeOK => DeftTypeOK
  BY DEF DeftTypeOK
<1> QED
  BY <1>1, DeftRunsItsParts, ScopesTypes, TriageTypes, ReleaseTypes, RelocateTypes, CacheTypes, PTL
=============================================================================
