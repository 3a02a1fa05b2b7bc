------------------------- MODULE DeftScopesProofs -------------------------
(***************************************************************************)
(* Proofs about DeftScopes, for any stories, processes and commands.       *)
(*                                                                         *)
(* Nothing locks a scope.  What keeps one whole is that no two commands    *)
(* reach it: Reach, taken when a command begins, bounds every file it may  *)
(* write, and where the reaches of two commands meet the scope is          *)
(* contested.  A scope that is not contested is therefore as its only      *)
(* command has read it, from the reading to the writing, and the links of  *)
(* a pair of which neither is contested lag behind the files exactly as    *)
(* far as that command has come.                                           *)
(***************************************************************************)
EXTENDS DeftScopes, FiniteSetTheorems, TLAPS

StatusOnly == {"block", "unblock"}

(* What a command's stage says of its own fields.                          *)
Formed(w) ==
  /\ w.pc \in {"write", "fill", "move", "kin", "rewrite", "refill"} => w.page.links \in [Kin(w.scope) -> Folders]
  /\ w.pc \in {"kin", "rewrite", "refill"} => w.kin \subseteq Kin(w.scope) /\ w.verb \notin Unlinking
  /\ w.pc \in {"rewrite", "refill"} => w.of \in w.kin /\ w.leaf.links \in [Kin(w.of) -> Folders]
  /\ w.pc \in {"move", "kin", "rewrite", "refill"} => w.from # w.to
  /\ w.verb \in StatusOnly => w.from = w.to
  /\ w.pc = "audit" => ~w.sweeping /\ (w.verb \in Unlinking \/ w.force)
  /\ w.force => w.verb = "promote" /\ ~w.sweeping
  /\ w.pc = "sweep" => w.sweeping
  /\ w.sweeping => w.verb \in {"promote", "complete", "activate"}
  /\ w.sweeping /\ w.verb = "activate" => w.scope = Epic
  /\ w.verb = "undo" => w.to \in {"proposed", "pending"}

(* The scope whose file a process has open.                                *)
Writing(w) ==
  IF w.pc = "fill" THEN {w.scope} ELSE IF w.pc = "refill" THEN {w.of} ELSE {}

HeldOpen == \A p \in Workers : opened[p] \subseteq Writing(worker[p]) \X Folders

Shaped == ScopesTypeOK /\ HeldOpen /\ \A p \in Workers : Formed(worker[p])

(* Where two commands meet, the scope is contested.                        *)
Exclusive ==
  \A p, q \in Workers :
    p # q => Reach(worker[p]) \cap Reach(worker[q]) \subseteq contested

Placed ==
  \A s \in Scopes :
    /\ DOMAIN disk[s] # {}
    /\ s \notin contested => \E f \in Folders : DOMAIN disk[s] = {f}

(* What a command has read is still there; and a sweep that works on the   *)
(* epic has found the stories settled.                                     *)
Current(w) ==
  /\ w.pc \in {"write", "fill", "move"} /\ w.scope \notin contested =>
       Has(w.scope, w.from) /\ w.page.links = disk[w.scope][w.from].links
  /\ w.pc \in {"rewrite", "refill"} /\ w.of \notin contested =>
       LET f == w.page.links[w.of]
       IN Has(w.of, f) /\ w.leaf.links = disk[w.of][f].links
  /\ w.sweeping /\ w.scope = Epic /\ w.pc \notin {"free", "sweep"} =>
       \A s \in Stories \ contested : DOMAIN disk[s] \subseteq Finished

(* The file it has open is the one it has emptied.                         *)
Open(p) ==
  LET w == worker[p]
  IN /\ w.pc = "fill" /\ w.scope \notin contested =>
          opened[p] = {<<w.scope, w.from>>} /\ disk[w.scope][w.from].text = "empty"
     /\ w.pc = "refill" /\ w.of \notin contested =>
          LET f == w.page.links[w.of]
          IN opened[p] = {<<w.of, f>>} /\ disk[w.of][f].text = "empty"

(* A text that is not whole is being written, or its writing was cut off.  *)
Texts ==
  \A s \in Scopes \ (contested \cup cut) : \A f \in DOMAIN disk[s] :
    disk[s][f].text = "whole" \/ \E p \in Workers : <<s, f>> \in opened[p]

FilesInv ==
  Exclusive /\ Placed /\ Texts /\ \A p \in Workers : Current(worker[p]) /\ Open(p)

(* The entries of the audit log, and the undo that is under way.           *)
Undoes(w) ==
  \E k \in DOMAIN audit : w.undoes = {audit[k].id} /\ w.scope = audit[k].scope

Numbered ==
  /\ moves <= MaxMoves
  /\ \A j, k \in DOMAIN audit : audit[j].id = audit[k].id => j = k
  /\ \A k \in DOMAIN audit : audit[k].id \in 1..moves \/ audit[k].id > MaxMoves
  /\ \A p \in Workers :
       ~On(p, "free") =>
         /\ worker[p].id \in 0..moves
         /\ ~worker[p].sweeping =>
              /\ worker[p].id # 0
              /\ \A k \in DOMAIN audit : audit[k].id # worker[p].id
              /\ \A q \in Workers : ~On(q, "free") /\ worker[q].id = worker[p].id => p = q

Undoing ==
  /\ \A k \in DOMAIN audit : audit[k].verb = "undo" => Undoes(audit[k])
  /\ \A p \in Workers :
       ~On(p, "free") /\ worker[p].verb = "undo" =>
         /\ Undoes(worker[p])
         /\ worker[p].scope \notin contested =>
              \A k \in DOMAIN audit :
                audit[k].verb = "undo" => audit[k].undoes # worker[p].undoes

UndoInv == Numbered /\ Undoing /\ UndoOnce

(* The links of a story and its epic, while command w has moved one of the *)
(* two and not yet repaired the other's file.                              *)
Clean(s) == {s, Epic} \cap (contested \cup unlinked \cup cut) = {}

Midway(w, s) == w.pc \in {"kin", "rewrite", "refill"} /\ w.scope \in {s, Epic}

Linked(s) ==
  \A f \in DOMAIN disk[s], g \in DOMAIN disk[Epic] :
    /\ disk[s][f].links[Epic] = g /\ disk[Epic][g].links[s] = f
    /\ registry[s] = f /\ registry[Epic] = g

HalfLinked(w, s) ==
  \A f \in DOMAIN disk[s], g \in DOMAIN disk[Epic] :
    /\ disk[s][f].links[Epic] = IF w.scope = Epic /\ s \in w.kin THEN w.from ELSE g
    /\ disk[Epic][g].links[s] = IF w.scope = s /\ Epic \in w.kin THEN w.from ELSE f
    /\ w.scope = s => registry[s] = w.from /\ registry[Epic] = g
                      /\ w.to = f /\ w.page.links[Epic] = g
    /\ w.scope = Epic => registry[s] = f /\ registry[Epic] = w.from
                         /\ w.to = g /\ w.page.links[s] = f

PairLinked(s) ==
  Clean(s) =>
    /\ (\A p \in Workers : ~Midway(worker[p], s)) => Linked(s)
    /\ \A p \in Workers : Midway(worker[p], s) => HalfLinked(worker[p], s)

LinksInv == \A s \in Stories : PairLinked(s)

ScopesInv == Shaped /\ FilesInv /\ UndoInv /\ LinksInv

-----------------------------------------------------------------------------
LEMMA KinFacts ==
  /\ Epic \in Scopes /\ Stories \subseteq Scopes /\ Epic \notin Stories
  /\ Kin(Epic) = Stories /\ \A s \in Stories : Kin(s) = {Epic}
  /\ \A s \in Scopes : s = Epic \/ s \in Stories
  /\ \A s \in Scopes : \A k \in Kin(s) : k \in Scopes /\ k # s /\ s \in Kin(k)
  /\ \A s \in Scopes : [Kin(s) -> Folders] \subseteq Links
BY ScopesAssumption DEF Scopes, Kin, Links

LEMMA TransitionFacts ==
  \A verb \in DOMAIN Transitions :
    /\ Transitions[verb].to \in Folders /\ Transitions[verb].from \subseteq Folders
    /\ Transitions[verb].status \in Statuses
    /\ verb \in StatusOnly => Transitions[verb].from = {Transitions[verb].to}
BY DEF Transitions, Folders, Statuses, StatusOnly

LEMMA FreeFacts ==
  /\ Free \in Worker /\ Formed(Free) /\ Reach(Free) = {}
  /\ Free.pc = "free" /\ Free.sweeping = FALSE /\ Free.verb = "promote" /\ Free.force = FALSE
<1>1. NoPage \in Content
  BY KinFacts DEF NoPage, Content, Statuses, Links, Folders
<1>2. Free \in Worker
  BY <1>1, KinFacts DEF Free, Worker, Transitions, Folders
<1>3. Free.pc = "free" /\ Free.sweeping = FALSE /\ Free.verb = "promote" /\ Free.force = FALSE
  BY DEF Free
<1>4. Formed(Free)
  BY <1>3 DEF Formed, StatusOnly
<1>5. Reach(Free) = {}
  BY <1>3 DEF Reach
<1> QED
  BY <1>2, <1>3, <1>4, <1>5

(* Where a command is, is a matter of its fields.                          *)
LEMMA ReachFacts ==
  ASSUME NEW w \in Worker, Formed(w)
  PROVE  /\ w.pc = "free" => Reach(w) = {}
         /\ w.pc # "free" /\ w.sweeping => Reach(w) = Scopes
         /\ w.pc # "free" => w.scope \in Reach(w)
         /\ w.pc # "free" /\ w.verb \notin Unlinking \cup StatusOnly =>
              {w.scope} \cup Kin(w.scope) \subseteq Reach(w)
         /\ w.pc \in {"kin", "rewrite", "refill"} => {w.scope} \cup Kin(w.scope) \subseteq Reach(w)
         /\ w.pc \in {"rewrite", "refill"} => w.of \in Reach(w)
<1>1. w.scope \in Scopes /\ {w.scope} \cup Kin(w.scope) \subseteq Scopes
  BY KinFacts DEF Worker
<1>2. CASE w.pc = "free"
  BY <1>2 DEF Reach
<1>3. CASE w.pc # "free" /\ w.sweeping
  <2>1. Reach(w) = Scopes
    BY <1>3 DEF Reach
  <2> QED
    BY <1>1, <1>3, <2>1 DEF Formed
<1>4. CASE w.pc # "free" /\ ~w.sweeping /\ w.verb \in Unlinking \cup StatusOnly
  <2>1. Reach(w) = {w.scope}
    BY <1>4 DEF Reach, StatusOnly
  <2>2. w.pc \notin {"kin", "rewrite", "refill"}
    BY <1>4 DEF Formed
  <2> QED
    BY <1>4, <2>1, <2>2
<1>5. CASE w.pc # "free" /\ ~w.sweeping /\ w.verb \notin Unlinking \cup StatusOnly
  <2>1. Reach(w) = {w.scope} \cup Kin(w.scope)
    BY <1>5 DEF Reach, StatusOnly
  <2> QED
    BY <1>5, <2>1 DEF Formed
<1> QED
  BY <1>2, <1>3, <1>4, <1>5 DEF Worker

LEMMA EndedFacts ==
  ASSUME Shaped, NEW p \in Workers
  PROVE  LET w == Ended(p)
         IN /\ w \in Worker /\ Formed(w)
            /\ w.sweeping = worker[p].sweeping
            /\ w.pc = IF worker[p].sweeping THEN "sweep" ELSE "free"
            /\ w.verb = "promote" /\ w.force = FALSE
<1>1. worker[p] \in Worker
  BY DEF Shaped, ScopesTypeOK
<1>2. /\ Ended(p).sweeping = worker[p].sweeping
      /\ Ended(p).pc = IF worker[p].sweeping THEN "sweep" ELSE "free"
      /\ Ended(p).verb = "promote" /\ Ended(p).force = FALSE
  BY DEF Ended, Free
<1>3. Ended(p) \in Worker
  BY <1>1, FreeFacts DEF Ended, Worker
<1>4. Formed(Ended(p))
  BY <1>2 DEF Formed, StatusOnly
<1> QED
  BY <1>2, <1>3, <1>4

(* Process p goes on as w.                                                 *)
LEMMA GoingOn ==
  ASSUME Shaped, NEW p \in Workers, NEW w \in Worker, Formed(w),
         worker' = [worker EXCEPT ![p] = w]
  PROVE  /\ worker' \in [Workers -> Worker] /\ worker'[p] = w
         /\ \A q \in Workers : q # p => worker'[q] = worker[q]
         /\ \A q \in Workers : Formed(worker'[q])
BY DEF Shaped, ScopesTypeOK

Proper(d) ==
  /\ DOMAIN d = Scopes
  /\ \A s \in Scopes : DOMAIN d[s] \subseteq Folders
  /\ \A s \in Scopes : \A f \in DOMAIN d[s] :
       d[s][f] \in Content /\ d[s][f].links \in [Kin(s) -> Folders]

LEMMA PutFacts ==
  ASSUME DOMAIN disk = Scopes, NEW s \in Scopes, NEW f, NEW c
  PROVE  /\ DOMAIN Put(s, f, c) = Scopes
         /\ \A x \in Scopes : x # s => Put(s, f, c)[x] = disk[x]
         /\ DOMAIN Put(s, f, c)[s] = DOMAIN disk[s] \cup {f}
         /\ Put(s, f, c)[s][f] = c
         /\ \A g \in DOMAIN disk[s] : g # f => Put(s, f, c)[s][g] = disk[s][g]
<1> DEFINE files == [g \in DOMAIN disk[s] \cup {f} |-> IF g = f THEN c ELSE disk[s][g]]
<1>1. /\ DOMAIN files = DOMAIN disk[s] \cup {f} /\ files[f] = c
      /\ \A g \in DOMAIN disk[s] : g # f => files[g] = disk[s][g]
  OBVIOUS
<1>2. Put(s, f, c) = [disk EXCEPT ![s] = files]
  BY DEF Put
<1> HIDE DEF files
<1> QED
  BY <1>1, <1>2

LEMMA MovedFacts ==
  ASSUME DOMAIN disk = Scopes, NEW s \in Scopes, NEW f, NEW g, f \in DOMAIN disk[s], f # g
  PROVE  /\ DOMAIN Moved(s, f, g) = Scopes
         /\ \A x \in Scopes : x # s => Moved(s, f, g)[x] = disk[x]
         /\ DOMAIN Moved(s, f, g)[s] = (DOMAIN disk[s] \ {f}) \cup {g}
         /\ Moved(s, f, g)[s][g] = disk[s][f]
         /\ \A h \in DOMAIN disk[s] : h # f /\ h # g => Moved(s, f, g)[s][h] = disk[s][h]
<1> DEFINE files == [h \in (DOMAIN disk[s] \ {f}) \cup {g} |->
                       IF h = g THEN disk[s][f] ELSE disk[s][h]]
<1>1. /\ DOMAIN files = (DOMAIN disk[s] \ {f}) \cup {g} /\ files[g] = disk[s][f]
      /\ \A h \in DOMAIN disk[s] : h # f /\ h # g => files[h] = disk[s][h]
  OBVIOUS
<1>2. Moved(s, f, g) = [disk EXCEPT ![s] = files]
  BY DEF Moved
<1> HIDE DEF files
<1> QED
  BY <1>1, <1>2

LEMMA PutIsProper ==
  ASSUME Proper(disk), NEW s \in Scopes, NEW f \in Folders, NEW c \in Content,
         c.links \in [Kin(s) -> Folders]
  PROVE  Proper(Put(s, f, c))
<1>1. /\ DOMAIN Put(s, f, c) = Scopes
      /\ \A x \in Scopes : x # s => Put(s, f, c)[x] = disk[x]
      /\ DOMAIN Put(s, f, c)[s] = DOMAIN disk[s] \cup {f}
      /\ Put(s, f, c)[s][f] = c
      /\ \A g \in DOMAIN disk[s] : g # f => Put(s, f, c)[s][g] = disk[s][g]
  BY PutFacts DEF Proper
<1> QED
  BY <1>1 DEF Proper

LEMMA MovedIsProper ==
  ASSUME Proper(disk), NEW s \in Scopes, NEW f, NEW g \in Folders, f \in DOMAIN disk[s], f # g
  PROVE  Proper(Moved(s, f, g))
<1>1. /\ DOMAIN Moved(s, f, g) = Scopes
      /\ \A x \in Scopes : x # s => Moved(s, f, g)[x] = disk[x]
      /\ DOMAIN Moved(s, f, g)[s] = (DOMAIN disk[s] \ {f}) \cup {g}
      /\ Moved(s, f, g)[s][g] = disk[s][f]
      /\ \A h \in DOMAIN disk[s] : h # f /\ h # g => Moved(s, f, g)[s][h] = disk[s][h]
  BY MovedFacts DEF Proper
<1> QED
  BY <1>1 DEF Proper

-----------------------------------------------------------------------------
(* What a step of p leaves alone.                                          *)
LEMMA FilesFrame ==
  ASSUME Shaped, FilesInv, NEW p \in Workers, NEW w \in Worker, Formed(w),
         worker' = [worker EXCEPT ![p] = w],
         contested' = contested, Reach(w) \subseteq Reach(worker[p]),
         \A x \in Scopes \ Reach(worker[p]) : disk'[x] = disk[x],
         \A q \in Workers \ {p} :
           Writing(worker[q]) \cap Reach(worker[p]) = {} => opened'[q] = opened[q],
         Placed', Texts', Current(w)', Open(p)'
  PROVE  FilesInv'
<1>1. worker'[p] = w /\ \A q \in Workers : q # p => worker'[q] = worker[q]
  BY GoingOn
<1>2. Exclusive'
  BY <1>1 DEF FilesInv, Exclusive
<1>3. ASSUME NEW q \in Workers, q # p
      PROVE  Current(worker[q])'
  <2> DEFINE u == worker[q]
  <2>1. u \in Worker /\ Formed(u) /\ Current(u)
    BY DEF Shaped, ScopesTypeOK, FilesInv
  <2>2. \A x \in Reach(u) \ contested : x \in Scopes => disk'[x] = disk[x]
    BY <1>3 DEF FilesInv, Exclusive
  <2>3. /\ u.pc # "free" /\ u.sweeping => Reach(u) = Scopes
        /\ u.pc # "free" => u.scope \in Reach(u)
        /\ u.pc \in {"rewrite", "refill"} => u.of \in Reach(u)
    BY <2>1, ReachFacts
  <2>4. u.scope \in Scopes /\ u.of \in Scopes /\ Stories \subseteq Scopes
    BY <2>1, KinFacts DEF Worker
  <2>5. worker'[q] = u
    BY <1>1, <1>3
  <2>6. PICK v : v = u
    OBVIOUS
  <2>7. Current(v)'
    <3>1. v.pc \in {"write", "fill", "move"} /\ v.scope \notin contested => disk'[v.scope] = disk[v.scope]
      BY <2>2, <2>3, <2>4, <2>6
    <3>2. v.pc \in {"rewrite", "refill"} /\ v.of \notin contested => disk'[v.of] = disk[v.of]
      BY <2>2, <2>3, <2>4, <2>6
    <3>3. v.sweeping /\ v.pc # "free" => \A x \in Stories \ contested : disk'[x] = disk[x]
      BY <2>2, <2>3, <2>4, <2>6
    <3> QED
      BY <2>1, <2>6, <3>1, <3>2, <3>3 DEF Current, Has
  <2> QED
    BY <2>5, <2>6, <2>7
<1>4. ASSUME NEW q \in Workers, q # p
      PROVE  Open(q)'
  <2> DEFINE u == worker[q]
  <2>1. u \in Worker /\ Formed(u) /\ Open(q)
    BY DEF Shaped, ScopesTypeOK, FilesInv
  <2>2. \A x \in Reach(u) \ contested : x \notin Reach(worker[p])
    BY <1>4 DEF FilesInv, Exclusive
  <2>3. u.scope \in Scopes /\ u.of \in Scopes
    BY <2>1 DEF Worker
  <2>4. worker'[q] = u /\ contested' = contested
    BY <1>1, <1>4
  <2>5. CASE u.pc = "fill" /\ u.scope \notin contested
    <3>1. u.scope \notin Reach(worker[p])
      BY <2>1, <2>2, <2>5, ReachFacts
    <3>2. disk'[u.scope] = disk[u.scope]
      BY <2>3, <3>1
    <3>3. opened'[q] = opened[q]
      BY <1>4, <2>5, <3>1 DEF Writing
    <3> QED
      BY <2>1, <2>4, <2>5, <3>2, <3>3 DEF Open
  <2>6. CASE u.pc = "refill" /\ u.of \notin contested
    <3>1. u.of \notin Reach(worker[p])
      BY <2>1, <2>2, <2>6, ReachFacts
    <3>2. disk'[u.of] = disk[u.of]
      BY <2>3, <3>1
    <3>3. opened'[q] = opened[q]
      BY <1>4, <2>6, <3>1 DEF Writing
    <3> QED
      BY <2>1, <2>4, <2>6, <3>2, <3>3 DEF Open
  <2>7. CASE ~(u.pc = "fill" /\ u.scope \notin contested)
             /\ ~(u.pc = "refill" /\ u.of \notin contested)
    BY <2>4, <2>7 DEF Open
  <2> QED
    BY <2>5, <2>6, <2>7
<1> QED
  BY <1>1, <1>2, <1>3, <1>4 DEF FilesInv

(* A step that opens and writes no file.                                   *)
LEMMA TextsFrame ==
  ASSUME Texts, UNCHANGED <<disk, opened>>, contested \subseteq contested', cut \subseteq cut'
  PROVE  Texts'
BY DEF Texts

(* What write_text does to the file of k.                                  *)
LEMMA EmptyFacts ==
  ASSUME Shaped, FilesInv, NEW p \in Workers, Writing(worker[p]) = {},
         NEW k \in Scopes, NEW f \in Folders, NEW c \in Content,
         c.links \in [Kin(k) -> Folders], EmptyText(p, k, f, c),
         contested' = contested, cut' = cut
  PROVE  /\ Proper(disk') /\ Texts'
         /\ \A x \in Scopes : x # k => disk'[x] = disk[x]
         /\ DOMAIN disk'[k] = DOMAIN disk[k] \cup {f}
         /\ disk'[k][f].links = c.links /\ disk'[k][f].text = "empty"
         /\ \A g \in DOMAIN disk[k] : g # f => disk'[k][g] = disk[k][g]
         /\ opened' \in [Workers -> SUBSET (Scopes \X Folders)]
         /\ opened'[p] = {<<k, f>>} /\ \A q \in Workers : q # p => opened'[q] = opened[q]
<1> PICK d : d = [c EXCEPT !.text = "empty"]
  OBVIOUS
<1>1. d \in Content /\ d.links = c.links /\ d.text = "empty"
  BY DEF Content
<1>2. Proper(disk) /\ opened \in [Workers -> SUBSET (Scopes \X Folders)]
  BY DEF Shaped, ScopesTypeOK, Proper
<1>3. disk' = Put(k, f, d) /\ opened' = [opened EXCEPT ![p] = {<<k, f>>}]
  BY DEF EmptyText
<1>4. Proper(disk')
  <2>1. Proper(Put(k, f, d))
    BY <1>1, <1>2, PutIsProper
  <2> QED
    BY <1>3, <2>1
<1>5. /\ \A x \in Scopes : x # k => disk'[x] = disk[x]
      /\ DOMAIN disk'[k] = DOMAIN disk[k] \cup {f}
      /\ disk'[k][f] = d
      /\ \A g \in DOMAIN disk[k] : g # f => disk'[k][g] = disk[k][g]
  BY <1>2, <1>3, PutFacts DEF Proper
<1>6. /\ opened' \in [Workers -> SUBSET (Scopes \X Folders)]
      /\ opened'[p] = {<<k, f>>} /\ \A q \in Workers : q # p => opened'[q] = opened[q]
  BY <1>2, <1>3
<1>7. opened[p] = {}
  BY DEF Shaped, HeldOpen
<1>8. Texts'
  <2> SUFFICES ASSUME NEW s \in Scopes \ (contested \cup cut), NEW g \in DOMAIN disk'[s],
                      disk'[s][g].text # "whole"
               PROVE  \E q \in Workers : <<s, g>> \in opened'[q]
    BY DEF Texts
  <2>1. CASE s = k /\ g = f
    BY <1>6, <2>1
  <2>2. CASE ~(s = k /\ g = f)
    <3>1. g \in DOMAIN disk[s] /\ disk'[s][g] = disk[s][g]
      BY <1>5, <2>2
    <3>2. PICK q \in Workers : <<s, g>> \in opened[q]
      BY <3>1 DEF FilesInv, Texts
    <3> QED
      BY <1>6, <1>7, <3>2
  <2> QED
    BY <2>1, <2>2
<1> QED
  BY <1>1, <1>4, <1>5, <1>6, <1>8

LEMMA FillFacts ==
  ASSUME Shaped, FilesInv, NEW p \in Workers, NEW k \in Scopes, Writing(worker[p]) = {k},
         NEW c \in Content, c.links \in [Kin(k) -> Folders], FillText(p, c),
         NEW f, k \notin contested =>
           f \in DOMAIN disk[k] /\ opened[p] = {<<k, f>>} /\ disk[k][f].text = "empty",
         contested' = contested, cut' = cut
  PROVE  /\ Proper(disk') /\ Texts'
         /\ \A x \in Scopes : x # k => disk'[x] = disk[x]
         /\ DOMAIN disk[k] \subseteq DOMAIN disk'[k]
         /\ k \notin contested => DOMAIN disk'[k] = DOMAIN disk[k] /\ disk'[k][f].links = c.links
         /\ opened' \in [Workers -> SUBSET (Scopes \X Folders)]
         /\ opened'[p] = {} /\ \A q \in Workers : q # p => opened'[q] = opened[q]
<1>1. /\ Proper(disk) /\ opened \in [Workers -> SUBSET (Scopes \X Folders)]
      /\ opened[p] \subseteq {k} \X Folders
  BY DEF Shaped, ScopesTypeOK, Proper, HeldOpen
<1>2. opened' = [opened EXCEPT ![p] = {}]
  BY DEF FillText
<1>3. /\ opened' \in [Workers -> SUBSET (Scopes \X Folders)]
      /\ opened'[p] = {} /\ \A q \in Workers : q # p => opened'[q] = opened[q]
  BY <1>1, <1>2
<1>4. CASE opened[p] = {} /\ disk' = disk
  <2>1. k \in contested
    BY <1>4
  <2>2. Texts'
    <3>1. \A s, g : (\E q \in Workers : <<s, g>> \in opened[q])
                      => \E q \in Workers : <<s, g>> \in opened'[q]
      BY <1>3, <1>4
    <3> QED
      BY <1>4, <3>1 DEF FilesInv, Texts
  <2> QED
    BY <1>1, <1>3, <1>4, <2>1, <2>2
<1>5. ASSUME NEW x \in opened[p], NEW text \in {"whole", "mixed"},
             text = "mixed" => disk[x[1]][x[2]].text # "empty",
             disk' = Put(x[1], x[2], [c EXCEPT !.text = text])
      PROVE  /\ Proper(disk') /\ Texts'
             /\ \A s \in Scopes : s # k => disk'[s] = disk[s]
             /\ DOMAIN disk[k] \subseteq DOMAIN disk'[k]
             /\ k \notin contested => DOMAIN disk'[k] = DOMAIN disk[k] /\ disk'[k][f].links = c.links
  <2> PICK d : d = [c EXCEPT !.text = text]
    OBVIOUS
  <2>1. d \in Content /\ d.links = c.links /\ d.text = text
    BY DEF Content
  <2>2. PICK g \in Folders : x = <<k, g>>
    BY <1>1, <1>5
  <2>3. disk' = Put(k, g, d)
    BY <1>5, <2>2
  <2>4. Proper(disk')
    <3>1. Proper(Put(k, g, d))
      BY <1>1, <2>1, PutIsProper
    <3> QED
      BY <2>3, <3>1
  <2>5. /\ \A s \in Scopes : s # k => disk'[s] = disk[s]
        /\ DOMAIN disk'[k] = DOMAIN disk[k] \cup {g}
        /\ disk'[k][g] = d
        /\ \A h \in DOMAIN disk[k] : h # g => disk'[k][h] = disk[k][h]
    BY <1>1, <2>3, PutFacts DEF Proper
  <2>6. k \notin contested => g = f /\ text = "whole" /\ opened[p] = {<<k, g>>}
    BY <1>5, <2>2
  <2>7. Texts'
    <3> SUFFICES ASSUME NEW s \in Scopes \ (contested \cup cut), NEW h \in DOMAIN disk'[s],
                        disk'[s][h].text # "whole"
                 PROVE  \E q \in Workers : <<s, h>> \in opened'[q]
      BY DEF Texts
    <3>1. ~(s = k /\ h = g)
      BY <2>1, <2>5, <2>6
    <3>2. h \in DOMAIN disk[s] /\ disk'[s][h] = disk[s][h]
      BY <2>5, <3>1
    <3>3. PICK q \in Workers : <<s, h>> \in opened[q]
      BY <3>2 DEF FilesInv, Texts
    <3>4. q # p
      <4>1. CASE s = k
        BY <2>6, <3>1, <3>3, <4>1
      <4>2. CASE s # k
        BY <1>1, <3>3, <4>2
      <4> QED
        BY <4>1, <4>2
    <3> QED
      BY <1>3, <3>3, <3>4
  <2> QED
    BY <2>1, <2>4, <2>5, <2>6, <2>7
<1> QED
  BY <1>3, <1>4, <1>5 DEF FillText

LEMMA UndoFrame ==
  ASSUME Shaped, UndoInv, NEW p \in Workers, NEW w \in Worker, Formed(w),
         worker' = [worker EXCEPT ![p] = w],
         UNCHANGED <<contested, audit, moves>>,
         w.pc # "free" =>
           /\ worker[p].pc # "free" /\ w.sweeping = worker[p].sweeping
           /\ w.id = worker[p].id \/ (w.sweeping /\ w.id = 0)
           /\ w.verb = "undo" => /\ worker[p].verb = "undo" /\ w.scope = worker[p].scope
                                 /\ w.undoes = worker[p].undoes
  PROVE  UndoInv'
<1>1. worker'[p] = w /\ \A q \in Workers : q # p => worker'[q] = worker[q]
  BY GoingOn
<1>2. moves \in Nat
  BY DEF Shaped, ScopesTypeOK
<1>3. Numbered'
  BY <1>1, <1>2 DEF UndoInv, Numbered, On
<1>4. Undoing'
  <2>1. \A q \in Workers : Undoes(worker[q]) /\ worker'[q].undoes = worker[q].undoes
                           /\ worker'[q].scope = worker[q].scope => Undoes(worker'[q])
    BY DEF Undoes
  <2>2. \A q \in Workers : ~On(q, "free")' /\ worker'[q].verb = "undo" =>
          /\ ~On(q, "free") /\ worker[q].verb = "undo"
          /\ worker'[q].undoes = worker[q].undoes /\ worker'[q].scope = worker[q].scope
    BY <1>1 DEF On
  <2> QED
    BY <2>1, <2>2 DEF UndoInv, Undoing, Undoes
<1>5. UndoOnce'
  BY DEF UndoInv, UndoOnce
<1> QED
  BY <1>3, <1>4, <1>5 DEF UndoInv

LEMMA PairFrame ==
  ASSUME NEW s \in Stories, PairLinked(s),
         Clean(s)' =>
           /\ Clean(s)
           /\ DOMAIN disk'[s] = DOMAIN disk[s] /\ DOMAIN disk'[Epic] = DOMAIN disk[Epic]
           /\ \A f \in DOMAIN disk[s] : disk'[s][f].links[Epic] = disk[s][f].links[Epic]
           /\ \A g \in DOMAIN disk[Epic] : disk'[Epic][g].links[s] = disk[Epic][g].links[s]
           /\ registry'[s] = registry[s] /\ registry'[Epic] = registry[Epic]
           /\ \A q \in Workers :
                /\ Midway(worker'[q], s) <=> Midway(worker[q], s)
                /\ Midway(worker[q], s) =>
                     /\ worker'[q].scope = worker[q].scope /\ worker'[q].page = worker[q].page
                     /\ worker'[q].from = worker[q].from /\ worker'[q].to = worker[q].to
                     /\ \A k \in {s, Epic} : k \in worker'[q].kin <=> k \in worker[q].kin
  PROVE  PairLinked(s)'
<1> SUFFICES ASSUME Clean(s)'
             PROVE  /\ (\A p \in Workers : ~Midway(worker'[p], s)) => Linked(s)'
                    /\ \A p \in Workers : Midway(worker'[p], s) => HalfLinked(worker[p], s)'
  BY DEF PairLinked, Midway
<1>1. ASSUME \A p \in Workers : ~Midway(worker'[p], s)
      PROVE  Linked(s)'
  BY <1>1 DEF PairLinked, Linked
<1>2. ASSUME NEW p \in Workers, Midway(worker'[p], s)
      PROVE  HalfLinked(worker[p], s)'
  <2>1. HalfLinked(worker[p], s)
    BY <1>2 DEF PairLinked
  <2>2. Midway(worker[p], s)
    BY <1>2
  <2> QED
    BY <2>1, <2>2 DEF HalfLinked
<1> QED
  BY <1>1, <1>2

LEMMA PairAway ==
  ASSUME NEW s \in Stories, PairLinked(s), Clean(s)' => Clean(s),
         disk'[s] = disk[s], disk'[Epic] = disk[Epic],
         registry'[s] = registry[s], registry'[Epic] = registry[Epic],
         \A q \in Workers : Midway(worker'[q], s) <=> Midway(worker[q], s),
         \A q \in Workers : Midway(worker[q], s) => worker'[q] = worker[q]
  PROVE  PairLinked(s)'
<1>1. \A q \in Workers :
        Midway(worker[q], s) =>
          /\ worker'[q].scope = worker[q].scope /\ worker'[q].page = worker[q].page
          /\ worker'[q].from = worker[q].from /\ worker'[q].to = worker[q].to
          /\ \A k \in {s, Epic} : k \in worker'[q].kin <=> k \in worker[q].kin
  OBVIOUS
<1> QED
  BY <1>1, PairFrame

LEMMA PairHalf ==
  ASSUME NEW s \in Stories, NEW p \in Workers, NEW u, worker'[p] = u, Midway(u, s),
         Clean(s)' =>
           /\ HalfLinked(u, s)'
           /\ \A q \in Workers : q # p => ~Midway(worker'[q], s)
  PROVE  PairLinked(s)'
<1>1. ASSUME Clean(s)', NEW q \in Workers, Midway(worker'[q], s)
      PROVE  HalfLinked(worker[q], s)'
  BY <1>1 DEF HalfLinked
<1>2. (\A q \in Workers : ~Midway(worker'[q], s)) => FALSE
  OBVIOUS
<1> QED
  BY <1>1, <1>2 DEF PairLinked, Midway

(* A command that repairs no link, neither before its step nor after it.   *)
LEMMA QuietLinks ==
  ASSUME Shaped, LinksInv, NEW p \in Workers, NEW w \in Worker, Formed(w),
         worker' = [worker EXCEPT ![p] = w],
         worker[p].pc \notin {"kin", "rewrite", "refill"}, w.pc \notin {"kin", "rewrite", "refill"},
         contested \subseteq contested', unlinked \subseteq unlinked', cut \subseteq cut',
         registry' = registry,
         \A x \in Scopes \ (contested' \cup unlinked' \cup cut') :
           /\ DOMAIN disk'[x] = DOMAIN disk[x]
           /\ \A f \in DOMAIN disk[x] : disk'[x][f].links = disk[x][f].links
  PROVE  LinksInv'
<1> SUFFICES ASSUME NEW s \in Stories PROVE PairLinked(s)'
  BY DEF LinksInv
<1>1. worker'[p] = w /\ \A q \in Workers : q # p => worker'[q] = worker[q]
  BY GoingOn
<1>2. PairLinked(s)
  BY DEF LinksInv
<1>3. Clean(s)' =>
           /\ Clean(s)
           /\ DOMAIN disk'[s] = DOMAIN disk[s] /\ DOMAIN disk'[Epic] = DOMAIN disk[Epic]
           /\ \A f \in DOMAIN disk[s] : disk'[s][f].links[Epic] = disk[s][f].links[Epic]
           /\ \A g \in DOMAIN disk[Epic] : disk'[Epic][g].links[s] = disk[Epic][g].links[s]
  BY KinFacts DEF Clean
<1>4. \A q \in Workers :
        /\ Midway(worker'[q], s) <=> Midway(worker[q], s)
        /\ Midway(worker[q], s) => worker'[q] = worker[q]
  BY <1>1 DEF Midway
<1> QED
  BY <1>2, <1>3, <1>4, PairFrame

LEMMA BeginKeepsInv ==
  ASSUME ScopesInv, NEW p \in Workers, NEW w \in Worker, Formed(w), Begin(p, w),
         w.pc \in {"read", "sweep"}, w.pc = "read" => ~w.sweeping,
         w.verb = "undo" =>
           Undoes(w) /\ \A k \in DOMAIN audit : audit[k].undoes # w.undoes
  PROVE  ScopesInv'
<1> DEFINE v == [w EXCEPT !.id = moves']
<1>1. moves \in Nat /\ MaxMoves \in Nat /\ moves < MaxMoves /\ moves' = moves + 1
  BY ScopesAssumption DEF ScopesInv, Shaped, ScopesTypeOK, Begin
<1>2. /\ v \in Worker /\ v.id = moves' /\ v.pc = w.pc /\ v.verb = w.verb /\ v.scope = w.scope
      /\ v.sweeping = w.sweeping /\ v.undoes = w.undoes /\ v.force = w.force /\ v.from = w.from
      /\ v.to = w.to
  BY <1>1 DEF Worker
<1>3. Formed(v) /\ Reach(v) = Reach(w)
  BY <1>2 DEF Formed, Reach
<1>4. /\ worker' = [worker EXCEPT ![p] = v]
      /\ UNCHANGED <<disk, registry, audit, opened, unlinked, cut>>
  BY DEF Begin
<1> HIDE DEF v
<1>5. /\ worker' \in [Workers -> Worker] /\ worker'[p] = v
      /\ \A q \in Workers : q # p => worker'[q] = worker[q]
      /\ \A q \in Workers : Formed(worker'[q])
  BY <1>2, <1>3, <1>4, GoingOn DEF ScopesInv
<1>6. /\ worker[p].pc = "free" /\ contested \subseteq contested' /\ contested' \subseteq Scopes
      /\ \A q \in Workers \ {p} : Reach(v) \cap Reach(worker[q]) \subseteq contested'
  <2>1. Reach(w) \subseteq Scopes
    BY KinFacts DEF Reach, Worker
  <2> QED
    BY <1>3, <2>1 DEF Begin, On, ScopesInv, Shaped, ScopesTypeOK
<1>7. Shaped'
  <2>1. HeldOpen'
    BY <1>2, <1>4, <1>5, <1>6 DEF ScopesInv, Shaped, HeldOpen, Writing
  <2> QED
    BY <1>1, <1>4, <1>5, <1>6, <2>1 DEF ScopesInv, Shaped, ScopesTypeOK
<1>8. FilesInv'
  <2>0. Texts'
    BY <1>4, <1>6, TextsFrame DEF ScopesInv, FilesInv
  <2>1. Exclusive'
    BY <1>5, <1>6 DEF ScopesInv, FilesInv, Exclusive
  <2>2. Placed'
    BY <1>4, <1>6 DEF ScopesInv, FilesInv, Placed
  <2>3. ASSUME NEW q \in Workers
        PROVE  Current(worker[q])' /\ Open(q)'
    <3>1. CASE q = p
      BY <1>2, <1>5, <3>1 DEF Current, Open
    <3>2. CASE q # p
      <4>1. Current(worker[q])'
        BY <1>4, <1>5, <1>6, <3>2 DEF ScopesInv, FilesInv, Current, Has
      <4>2. Open(q)'
        BY <1>4, <1>5, <1>6, <3>2 DEF ScopesInv, FilesInv, Open
      <4> QED
        BY <4>1, <4>2
    <3> QED
      BY <3>1, <3>2
  <2> QED
    BY <2>0, <2>1, <2>2, <2>3 DEF FilesInv
<1>9. UndoInv'
  <2>1. Numbered'
    BY <1>1, <1>2, <1>4, <1>5, <1>6 DEF ScopesInv, UndoInv, Numbered, On
  <2>2. Undoing'
    <3>1. \A k \in DOMAIN audit : audit[k].verb = "undo" => Undoes(audit[k])'
      BY <1>4 DEF ScopesInv, UndoInv, Undoing, Undoes
    <3>2. ASSUME NEW q \in Workers, worker'[q].pc # "free", worker'[q].verb = "undo"
          PROVE  /\ Undoes(worker[q])'
                 /\ worker'[q].scope \notin contested' =>
                      \A k \in DOMAIN audit :
                        audit[k].verb = "undo" => audit[k].undoes # worker'[q].undoes
      <4>1. CASE q = p
        BY <1>2, <1>4, <1>5, <4>1, <3>2 DEF Undoes
      <4>2. CASE q # p
        BY <1>4, <1>5, <1>6, <4>2, <3>2 DEF ScopesInv, UndoInv, Undoing, Undoes, On
      <4> QED
        BY <4>1, <4>2
    <3> QED
      BY <1>4, <3>1, <3>2 DEF Undoing, On
  <2>3. UndoOnce'
    BY <1>4, <1>6 DEF ScopesInv, UndoInv, UndoOnce
  <2> QED
    BY <2>1, <2>2, <2>3 DEF UndoInv
<1>10. LinksInv'
  BY <1>2, <1>3, <1>4, <1>6, QuietLinks DEF ScopesInv
<1> QED
  BY <1>7, <1>8, <1>9, <1>10 DEF ScopesInv

LEMMA StartsKeepInv ==
  ASSUME ScopesInv, NEW p \in Workers, Starting(p)
  PROVE  ScopesInv'
<1>1. ASSUME NEW verb \in DOMAIN Transitions, NEW s \in Scopes, NEW force \in BOOLEAN,
             StartMove(p, verb, s, force)
      PROVE  ScopesInv'
  <2> PICK f \in DOMAIN disk[s] \cap Transitions[verb].from :
        /\ force => verb = "promote"
        /\ Begin(p, [Command(verb, s, f) EXCEPT !.force = force])
    BY <1>1 DEF StartMove
  <2> DEFINE c == Command(verb, s, f)
             w == [c EXCEPT !.force = force]
  <2>1. f \in Folders
    BY TransitionFacts
  <2>2. verb # "undo"
    BY DEF Transitions
  <2>3. /\ c \in Worker /\ c.pc = "read" /\ c.verb = verb /\ c.from = f /\ c.sweeping = FALSE
        /\ c.to = Transitions[verb].to
    BY <2>1, TransitionFacts, FreeFacts DEF Command, Worker
  <2>4. Begin(p, w)
    OBVIOUS
  <2> HIDE DEF c
  <2>5. /\ w \in Worker /\ w.pc = "read" /\ w.verb = verb /\ w.from = f /\ w.sweeping = FALSE
        /\ w.to = Transitions[verb].to /\ w.force = force
    BY <2>3 DEF Worker
  <2> HIDE DEF w
  <2>6. Formed(w)
    BY <2>2, <2>5, TransitionFacts DEF Formed
  <2> QED
    BY <2>2, <2>4, <2>5, <2>6, BeginKeepsInv
<1>2. CASE StartUndo(p)
  <2> PICK k \in DOMAIN audit : CanUndo(k) /\ \E f \in Opposite(k) :
         Begin(p, [Free EXCEPT !.pc = "read", !.verb = "undo", !.undoes = {audit[k].id},
                     !.scope = audit[k].scope, !.from = audit[k].in, !.to = f])
    BY <1>2 DEF StartUndo
  <2> PICK f \in Opposite(k) :
         Begin(p, [Free EXCEPT !.pc = "read", !.verb = "undo", !.undoes = {audit[k].id},
                     !.scope = audit[k].scope, !.from = audit[k].in, !.to = f])
    OBVIOUS
  <2> DEFINE w == [Free EXCEPT !.pc = "read", !.verb = "undo", !.undoes = {audit[k].id},
                     !.scope = audit[k].scope, !.from = audit[k].in, !.to = f]
  <2>1. audit[k] \in Line
    BY DEF ScopesInv, Shaped, ScopesTypeOK
  <2>2. f \in {"proposed", "pending"} /\ f \in Folders
    BY DEF Opposite, Folders
  <2>3. Begin(p, w)
    OBVIOUS
  <2>4. /\ w \in Worker /\ w.pc = "read" /\ w.verb = "undo" /\ w.sweeping = FALSE /\ w.to = f
        /\ w.force = FALSE /\ w.undoes = {audit[k].id} /\ w.scope = audit[k].scope
    BY <2>1, <2>2, FreeFacts DEF Worker, Line
  <2> HIDE DEF w
  <2>5. Formed(w)
    BY <2>2, <2>4 DEF Formed, StatusOnly
  <2>6. Undoes(w) /\ \A j \in DOMAIN audit : audit[j].undoes # w.undoes
    BY <2>4 DEF Undoes, CanUndo
  <2> QED
    BY <2>3, <2>4, <2>5, <2>6, BeginKeepsInv
<1>3. CASE StartSweep(p)
  <2> PICK named \in SUBSET Stories : \E f \in [named -> Folders] :
         Begin(p, [Free EXCEPT !.pc = "sweep", !.sweeping = TRUE,
                             !.cohort = {<<s, f[s]>> : s \in named}])
    BY <1>3 DEF StartSweep
  <2> PICK f \in [named -> Folders] :
         Begin(p, [Free EXCEPT !.pc = "sweep", !.sweeping = TRUE,
                             !.cohort = {<<s, f[s]>> : s \in named}])
    OBVIOUS
  <2> DEFINE w == [Free EXCEPT !.pc = "sweep", !.sweeping = TRUE,
                             !.cohort = {<<s, f[s]>> : s \in named}]
  <2>1. {<<s, f[s]>> : s \in named} \subseteq Stories \X Folders
    OBVIOUS
  <2>2. w \in Worker /\ w.pc = "sweep" /\ w.verb = "promote" /\ w.sweeping = TRUE /\ w.force = FALSE
    BY <2>1, FreeFacts DEF Worker
  <2>3. Begin(p, w)
    OBVIOUS
  <2> HIDE DEF w
  <2>4. Formed(w)
    BY <2>2 DEF Formed, StatusOnly
  <2> QED
    BY <2>2, <2>3, <2>4, BeginKeepsInv
<1>4. Verbs \subseteq DOMAIN Transitions
  BY ScopesAssumption DEF Transitions
<1> QED
  BY <1>1, <1>2, <1>3, <1>4 DEF Starting

-----------------------------------------------------------------------------
(* The steps of a command that has begun.                                  *)
Continues(u, w) ==
  w.pc # "free" =>
    /\ u.pc # "free" /\ w.sweeping = u.sweeping
    /\ w.id = u.id \/ (w.sweeping /\ w.id = 0)
    /\ w.sweeping \/ (w.verb = u.verb /\ w.scope = u.scope /\ w.undoes = u.undoes)

LEMMA Continuing ==
  ASSUME ScopesInv, NEW p \in Workers, NEW w \in Worker, Formed(w), Continues(worker[p], w),
         worker' = [worker EXCEPT ![p] = w], UNCHANGED <<contested, audit, moves>>,
         Proper(disk'), registry' \in [Scopes -> Folders], unlinked' \subseteq Scopes,
         cut' \subseteq Scopes, opened' \in [Workers -> SUBSET (Scopes \X Folders)],
         opened'[p] \subseteq Writing(w) \X Folders,
         \A q \in Workers \ {p} :
           /\ opened'[q] \subseteq Writing(worker[q]) \X Folders
           /\ Writing(worker[q]) \cap Reach(worker[p]) = {} => opened'[q] = opened[q],
         \A x \in Scopes \ Reach(worker[p]) : disk'[x] = disk[x],
         Placed', Texts', Current(w)', Open(p)', LinksInv'
  PROVE  ScopesInv'
<1>1. worker[p] \in Worker /\ Formed(worker[p])
  BY DEF ScopesInv, Shaped, ScopesTypeOK
<1>2. Reach(w) \subseteq Reach(worker[p])
  BY DEF Continues, Reach
<1>3. /\ worker' \in [Workers -> Worker] /\ worker'[p] = w
      /\ \A q \in Workers : q # p => worker'[q] = worker[q]
      /\ \A q \in Workers : Formed(worker'[q])
  BY GoingOn DEF ScopesInv
<1>4. Shaped'
  <2>1. HeldOpen'
    BY <1>3 DEF HeldOpen
  <2> QED
    BY <1>3, <2>1 DEF ScopesInv, Shaped, ScopesTypeOK, Proper
<1>5. FilesInv'
  BY <1>2, FilesFrame DEF ScopesInv
<1>6. UndoInv'
  <2>1. w.sweeping => w.verb # "undo"
    BY DEF Formed
  <2>2. w.pc # "free" =>
           /\ worker[p].pc # "free" /\ w.sweeping = worker[p].sweeping
           /\ w.id = worker[p].id \/ (w.sweeping /\ w.id = 0)
           /\ w.verb = "undo" => /\ worker[p].verb = "undo" /\ w.scope = worker[p].scope
                                 /\ w.undoes = worker[p].undoes
    BY <2>1 DEF Continues
  <2> QED
    BY <2>2, UndoFrame DEF ScopesInv
<1> QED
  BY <1>4, <1>5, <1>6 DEF ScopesInv

(* A step between the writings of a command, which leaves the files alone. *)
LEMMA CalmStep ==
  ASSUME ScopesInv, NEW p \in Workers, NEW w \in Worker, Formed(w), Continues(worker[p], w),
         worker' = [worker EXCEPT ![p] = w],
         UNCHANGED <<disk, audit, moves, opened, contested, cut>>,
         registry' \in [Scopes -> Folders], unlinked' \subseteq Scopes,
         Writing(worker[p]) = {}, w.pc \notin {"fill", "refill"}, Current(w), LinksInv'
  PROVE  ScopesInv'
<1>1. Placed' /\ Current(w)'
  BY DEF ScopesInv, FilesInv, Placed, Current, Has
<1>2. Texts'
  BY TextsFrame DEF ScopesInv, FilesInv
<1>3. /\ Proper(disk') /\ cut' \subseteq Scopes
      /\ opened' \in [Workers -> SUBSET (Scopes \X Folders)]
      /\ opened'[p] \subseteq Writing(w) \X Folders
      /\ \A q \in Workers \ {p} : /\ opened'[q] \subseteq Writing(worker[q]) \X Folders
                                  /\ opened'[q] = opened[q]
  BY DEF ScopesInv, Shaped, ScopesTypeOK, Proper, HeldOpen, Writing
<1>4. Open(p)'
  <2>1. worker'[p] = w
    BY GoingOn DEF ScopesInv
  <2> QED
    BY <2>1 DEF Open
<1> QED
  BY <1>1, <1>2, <1>3, <1>4, Continuing

LEMMA QuietStep ==
  ASSUME ScopesInv, NEW p \in Workers, NEW w \in Worker, Formed(w), Continues(worker[p], w),
         worker' = [worker EXCEPT ![p] = w],
         UNCHANGED <<disk, registry, audit, moves, opened, histVars>>,
         worker[p].pc \notin {"fill", "kin", "rewrite", "refill"},
         w.pc \notin {"fill", "kin", "rewrite", "refill"},
         Current(w)
  PROVE  ScopesInv'
<1>1. /\ registry' = registry /\ unlinked' = unlinked /\ contested' = contested /\ cut' = cut
      /\ disk' = disk /\ Writing(worker[p]) = {}
  BY DEF histVars, Writing
<1>2. LinksInv'
  BY <1>1, QuietLinks DEF ScopesInv
<1>3. registry' \in [Scopes -> Folders] /\ unlinked' \subseteq Scopes
  BY <1>1 DEF ScopesInv, Shaped, ScopesTypeOK
<1> QED
  BY <1>1, <1>2, <1>3, CalmStep

(* A command that ends, or goes on with its sweep.                         *)
LEMMA EndingFacts ==
  ASSUME ScopesInv, NEW p \in Workers, worker[p].pc # "free", NEW w, w = Ended(p)
  PROVE  /\ w \in Worker /\ Formed(w) /\ Continues(worker[p], w)
         /\ w.pc \in {"free", "sweep"} /\ Current(w) /\ Current(w)'
<1>1. w \in Worker /\ Formed(w)
  BY EndedFacts DEF ScopesInv
<1>2. /\ w.pc = IF worker[p].sweeping THEN "sweep" ELSE "free"
      /\ w.sweeping = worker[p].sweeping /\ w.id = 0
  BY DEF Ended, Free
<1>3. worker[p].sweeping \in BOOLEAN
  BY DEF ScopesInv, Shaped, ScopesTypeOK, Worker
<1> QED
  BY <1>1, <1>2, <1>3 DEF Continues, Current

LEMMA FreeingFacts ==
  ASSUME NEW w, w = Free
  PROVE  /\ w \in Worker /\ Formed(w) /\ Reach(w) = {} /\ w.pc = "free"
         /\ \A u \in Worker : Continues(u, w)
         /\ Current(w) /\ Current(w)'
BY FreeFacts DEF Continues, Current

(* What stays of a command that only advances.                             *)
Advances(u, w, stage) ==
  /\ w.pc = stage /\ w.verb = u.verb /\ w.scope = u.scope /\ w.from = u.from /\ w.to = u.to
  /\ w.force = u.force /\ w.id = u.id /\ w.undoes = u.undoes /\ w.sweeping = u.sweeping

LEMMA AdvancingFacts ==
  ASSUME NEW u \in Worker, NEW w \in Worker, NEW stage, Advances(u, w, stage), u.pc # "free"
  PROVE  Continues(u, w)
BY DEF Advances, Continues

LEMMA ReadScopeKeepsInv ==
  ASSUME ScopesInv, NEW p \in Workers, ReadScope(p)
  PROVE  ScopesInv'
<1> DEFINE w == worker[p]
<1>1. /\ w \in Worker /\ Formed(w) /\ Current(w) /\ w.pc = "read"
      /\ UNCHANGED <<disk, registry, audit, moves, opened, histVars>>
  BY DEF ScopesInv, Shaped, ScopesTypeOK, FilesInv, ReadScope, On
<1>2. CASE worker' = [worker EXCEPT ![p] = Ended(p)]
  <2> PICK e : e = Ended(p)
    OBVIOUS
  <2> QED
    BY <1>1, <1>2, EndingFacts, QuietStep
<1>3. CASE /\ Has(w.scope, w.from)
           /\ worker' = [worker EXCEPT ![p] = [w EXCEPT !.pc = "write", !.page = disk[w.scope][w.from]]]
  <2> PICK page : page = disk[w.scope][w.from]
    OBVIOUS
  <2> PICK u : u = [w EXCEPT !.pc = "write", !.page = page]
    OBVIOUS
  <2>1. page \in Content /\ page.links \in [Kin(w.scope) -> Folders]
    BY <1>1, <1>3 DEF ScopesInv, Shaped, ScopesTypeOK, Has, Worker
  <2>2. u \in Worker /\ Advances(w, u, "write") /\ u.page = page
    BY <1>1, <2>1 DEF Worker, Advances
  <2>3. Formed(u)
    BY <1>1, <2>1, <2>2 DEF Formed, Advances
  <2>4. Current(u)
    BY <1>1, <1>3, <2>2 DEF Current, Advances
  <2> QED
    BY <1>1, <1>3, <2>2, <2>3, <2>4, AdvancingFacts, QuietStep DEF Advances
<1> QED
  BY <1>2, <1>3 DEF ReadScope, Readable

(* A writing of the command's own file, which leaves its links as they     *)
(* are; h is the file the command has open afterwards.                     *)
LEMMA OwnWriting ==
  ASSUME ScopesInv, NEW p \in Workers, NEW u \in Worker, Formed(u), Continues(worker[p], u),
         worker[p].pc \in {"write", "fill"}, u.pc \in {"free", "sweep", "move", "fill"},
         worker' = [worker EXCEPT ![p] = u],
         UNCHANGED <<registry, audit, moves, contested, unlinked, cut>>,
         NEW s, s = worker[p].scope,
         Proper(disk'), Texts', \A x \in Scopes : x # s => disk'[x] = disk[x],
         DOMAIN disk[s] \subseteq DOMAIN disk'[s],
         s \notin contested =>
           /\ DOMAIN disk'[s] = DOMAIN disk[s]
           /\ \A f \in DOMAIN disk[s] : disk'[s][f].links = disk[s][f].links,
         opened' \in [Workers -> SUBSET (Scopes \X Folders)],
         opened'[p] \subseteq Writing(u) \X Folders,
         \A q \in Workers : q # p => opened'[q] = opened[q],
         Current(u)', Open(p)'
  PROVE  ScopesInv'
<1>1. worker[p] \in Worker /\ Formed(worker[p]) /\ worker[p].pc # "free"
  BY DEF ScopesInv, Shaped, ScopesTypeOK
<1>2. s \in Scopes /\ s \in Reach(worker[p])
  BY <1>1, ReachFacts DEF Worker
<1>3. Placed'
  BY <1>2 DEF ScopesInv, FilesInv, Placed
<1>4. LinksInv'
  <2>1. \A x \in Scopes \ (contested' \cup unlinked' \cup cut') :
           /\ DOMAIN disk'[x] = DOMAIN disk[x]
           /\ \A f \in DOMAIN disk[x] : disk'[x][f].links = disk[x][f].links
    BY <1>2
  <2> QED
    BY <2>1, QuietLinks DEF ScopesInv
<1>5. \A x \in Scopes \ Reach(worker[p]) : disk'[x] = disk[x]
  BY <1>2
<1>6. registry' \in [Scopes -> Folders] /\ unlinked' \subseteq Scopes /\ cut' \subseteq Scopes
  BY DEF ScopesInv, Shaped, ScopesTypeOK
<1>7. \A q \in Workers \ {p} : opened'[q] \subseteq Writing(worker[q]) \X Folders
  BY DEF ScopesInv, Shaped, HeldOpen
<1> QED
  BY <1>3, <1>4, <1>5, <1>6, <1>7, Continuing

LEMMA EmptyScopeKeepsInv ==
  ASSUME ScopesInv, NEW p \in Workers, EmptyScope(p)
  PROVE  ScopesInv'
<1> DEFINE w == worker[p]
<1> PICK s, f, c : s = w.scope /\ f = w.from /\ c = w.page
  OBVIOUS
<1>1. /\ w \in Worker /\ Formed(w) /\ Current(w) /\ w.pc = "write" /\ Writing(w) = {}
      /\ UNCHANGED <<registry, audit, moves, contested, unlinked, cut>>
      /\ s \in Scopes /\ f \in Folders /\ c \in Content /\ c.links \in [Kin(s) -> Folders]
  BY DEF ScopesInv, Shaped, ScopesTypeOK, FilesInv, EmptyScope, On, Worker, histVars, Writing,
         Formed
<1>2. EmptyText(p, s, f, c)
  BY DEF EmptyScope
<1>3. /\ Proper(disk') /\ Texts'
      /\ \A x \in Scopes : x # s => disk'[x] = disk[x]
      /\ DOMAIN disk'[s] = DOMAIN disk[s] \cup {f}
      /\ disk'[s][f].links = c.links /\ disk'[s][f].text = "empty"
      /\ \A g \in DOMAIN disk[s] : g # f => disk'[s][g] = disk[s][g]
      /\ opened' \in [Workers -> SUBSET (Scopes \X Folders)]
      /\ opened'[p] = {<<s, f>>} /\ \A q \in Workers : q # p => opened'[q] = opened[q]
  BY <1>1, <1>2, EmptyFacts DEF ScopesInv
<1>4. s \notin contested =>
        /\ DOMAIN disk'[s] = DOMAIN disk[s]
        /\ \A g \in DOMAIN disk[s] : disk'[s][g].links = disk[s][g].links
  BY <1>1, <1>3 DEF Current, Has
<1> PICK u : u = [w EXCEPT !.pc = "fill"]
  OBVIOUS
<1>5. u \in Worker /\ Advances(w, u, "fill") /\ u.page = w.page
  BY <1>1 DEF Worker, Advances
<1>6. Formed(u) /\ Continues(w, u) /\ Writing(u) = {s}
  BY <1>1, <1>5, AdvancingFacts DEF Formed, Advances, Writing
<1>7. worker' = [worker EXCEPT ![p] = u] /\ worker'[p] = u
  BY <1>5, <1>6, GoingOn DEF EmptyScope, Become, ScopesInv
<1>8. Current(u)'
  <2>1. s = Epic => \A x \in Stories : disk'[x] = disk[x]
    BY <1>3, KinFacts
  <2> QED
    BY <1>1, <1>3, <1>5, <2>1 DEF Current, Advances, Has
<1>9. Open(p)'
  BY <1>3, <1>5, <1>7 DEF Open, Advances
<1>10. opened'[p] \subseteq Writing(u) \X Folders
  BY <1>1, <1>3, <1>6
<1>11. /\ DOMAIN disk[s] \subseteq DOMAIN disk'[s]
       /\ u.pc \in {"free", "sweep", "move", "fill"} /\ worker[p].pc \in {"write", "fill"}
       /\ u \in Worker /\ Formed(u) /\ Continues(worker[p], u) /\ s = worker[p].scope
       /\ worker' = [worker EXCEPT ![p] = u]
       /\ UNCHANGED <<registry, audit, moves, contested, unlinked, cut>>
  BY <1>1, <1>3, <1>5, <1>6, <1>7 DEF Advances
<1>12. /\ Proper(disk') /\ Texts' /\ \A x \in Scopes : x # s => disk'[x] = disk[x]
       /\ opened' \in [Workers -> SUBSET (Scopes \X Folders)]
       /\ \A q \in Workers : q # p => opened'[q] = opened[q]
  BY <1>3
<1> QED
  BY <1>4, <1>8, <1>9, <1>10, <1>11, <1>12, OwnWriting

LEMMA WriteScopeKeepsInv ==
  ASSUME ScopesInv, NEW p \in Workers, WriteScope(p)
  PROVE  ScopesInv'
<1> DEFINE w == worker[p]
<1> PICK s, f, c : s = w.scope /\ f = w.from /\ c = [w.page EXCEPT !.status = StatusAfter(w)]
  OBVIOUS
<1>1. /\ w \in Worker /\ Formed(w) /\ Current(w) /\ Open(p) /\ w.pc = "fill"
      /\ Writing(w) = {s} /\ s \in Scopes /\ f \in Folders
      /\ UNCHANGED <<registry, audit, moves, contested, unlinked, cut>>
  BY DEF ScopesInv, Shaped, ScopesTypeOK, FilesInv, WriteScope, On, Worker, histVars, Writing
<1>2. c \in Content /\ c.links = w.page.links /\ c.links \in [Kin(s) -> Folders]
  <2>1. StatusAfter(w) \in Statuses
    BY <1>1, TransitionFacts DEF StatusAfter, Formed, Statuses, Worker
  <2> QED
    BY <1>1, <2>1 DEF Content, Formed, Worker
<1>3. s \notin contested =>
        f \in DOMAIN disk[s] /\ opened[p] = {<<s, f>>} /\ disk[s][f].text = "empty"
  BY <1>1 DEF Current, Open, Has
<1>4. FillText(p, c)
  BY DEF WriteScope
<1>5. /\ Proper(disk') /\ Texts'
      /\ \A x \in Scopes : x # s => disk'[x] = disk[x]
      /\ DOMAIN disk[s] \subseteq DOMAIN disk'[s]
      /\ s \notin contested => DOMAIN disk'[s] = DOMAIN disk[s] /\ disk'[s][f].links = c.links
      /\ opened' \in [Workers -> SUBSET (Scopes \X Folders)]
      /\ opened'[p] = {} /\ \A q \in Workers : q # p => opened'[q] = opened[q]
  <2>1. /\ Shaped /\ FilesInv /\ s \in Scopes /\ Writing(worker[p]) = {s}
        /\ c \in Content /\ c.links \in [Kin(s) -> Folders] /\ FillText(p, c)
        /\ contested' = contested /\ cut' = cut
    BY <1>1, <1>2, <1>4 DEF ScopesInv
  <2>2. s \notin contested =>
          f \in DOMAIN disk[s] /\ opened[p] = {<<s, f>>} /\ disk[s][f].text = "empty"
    BY <1>3
  <2>3. PICK k \in Scopes, d \in Content, g \in Folders : k = s /\ d = c /\ g = f
    BY <1>1, <2>1
  <2>4. /\ Shaped /\ FilesInv /\ Writing(worker[p]) = {k}
        /\ d.links \in [Kin(k) -> Folders] /\ FillText(p, d)
        /\ contested' = contested /\ cut' = cut
        /\ k \notin contested =>
             g \in DOMAIN disk[k] /\ opened[p] = {<<k, g>>} /\ disk[k][g].text = "empty"
    BY <2>1, <2>2, <2>3
  <2>5. Proper(disk')
    BY <2>4, FillFacts
  <2>6. Texts'
    BY <2>4, FillFacts
  <2>7. /\ \A x \in Scopes : x # k => disk'[x] = disk[x]
      /\ DOMAIN disk[k] \subseteq DOMAIN disk'[k]
    BY <2>4, FillFacts
  <2>8. k \notin contested => DOMAIN disk'[k] = DOMAIN disk[k] /\ disk'[k][g].links = d.links
    BY <2>4, FillFacts
  <2>9. opened' \in [Workers -> SUBSET (Scopes \X Folders)]
      /\ opened'[p] = {} /\ \A q \in Workers : q # p => opened'[q] = opened[q]
    BY <2>4, FillFacts
  <2> QED
    BY <2>3, <2>5, <2>6, <2>7, <2>8, <2>9
<1>6. s \notin contested =>
        /\ DOMAIN disk[s] = {f} /\ DOMAIN disk'[s] = DOMAIN disk[s]
        /\ disk[s][f].links = w.page.links /\ disk'[s][f].links = w.page.links
  BY <1>1, <1>2, <1>3, <1>5 DEF ScopesInv, FilesInv, Placed, Current
<1>7. ASSUME NEW u \in Worker, Formed(u), Continues(w, u), Current(u)',
             u.pc \in {"free", "sweep", "move"}, worker' = [worker EXCEPT ![p] = u]
      PROVE  ScopesInv'
  <2>1. worker'[p] = u
    BY <1>7, GoingOn DEF ScopesInv
  <2>2. Open(p)'
    BY <1>7, <2>1 DEF Open
  <2>3. /\ s \notin contested =>
              /\ DOMAIN disk'[s] = DOMAIN disk[s]
              /\ \A g \in DOMAIN disk[s] : disk'[s][g].links = disk[s][g].links
        /\ opened'[p] \subseteq Writing(u) \X Folders
    BY <1>5, <1>6
  <2>4. /\ Proper(disk') /\ Texts' /\ \A x \in Scopes : x # s => disk'[x] = disk[x]
        /\ DOMAIN disk[s] \subseteq DOMAIN disk'[s]
        /\ opened' \in [Workers -> SUBSET (Scopes \X Folders)]
        /\ \A q \in Workers : q # p => opened'[q] = opened[q]
    BY <1>5
  <2> QED
    BY <1>1, <1>7, <2>2, <2>3, <2>4, OwnWriting
<1>8. CASE w.to = w.from
  <2> PICK e : e = Ended(p)
    OBVIOUS
  <2> QED
    BY <1>1, <1>7, <1>8, EndingFacts DEF WriteScope, Become
<1>9. CASE w.to # w.from
  <2> PICK u : u = [w EXCEPT !.pc = "move"]
    OBVIOUS
  <2>1. u \in Worker /\ Advances(w, u, "move") /\ u.page = w.page
    BY <1>1 DEF Worker, Advances
  <2>2. Formed(u)
    BY <1>1, <1>9, <2>1 DEF Formed, Advances
  <2>3. Current(u)'
    <3>1. s = Epic => \A x \in Stories : disk'[x] = disk[x]
      BY <1>5, KinFacts
    <3> QED
      BY <1>1, <1>3, <1>6, <2>1, <3>1 DEF Current, Advances, Has
  <2>4. worker' = [worker EXCEPT ![p] = u]
    BY <1>9 DEF WriteScope, Become
  <2> QED
    BY <1>1, <1>7, <2>1, <2>2, <2>3, <2>4, AdvancingFacts DEF Advances
<1> QED
  BY <1>8, <1>9

-----------------------------------------------------------------------------
(* While a command may repair links, no other one is near the epic.        *)
LEMMA OneRepairer ==
  ASSUME ScopesInv, NEW p \in Workers, NEW q \in Workers, NEW s \in Stories, Clean(s),
         {worker[p].scope} \cup Kin(worker[p].scope) \subseteq Reach(worker[p]),
         worker[p].scope \in {s, Epic}, Midway(worker[q], s)
  PROVE  q = p
<1>1. worker[q] \in Worker /\ Formed(worker[q])
  BY DEF ScopesInv, Shaped, ScopesTypeOK
<1>2. Epic \in Reach(worker[q])
  BY <1>1, ReachFacts, KinFacts DEF Midway
<1>3. Epic \in Reach(worker[p])
  BY KinFacts
<1> QED
  BY <1>2, <1>3 DEF ScopesInv, FilesInv, Exclusive, Clean

LEMMA FollowedFacts ==
  ASSUME NEW o, NEW K, o \subseteq K \X Folders, NEW s, NEW f, NEW g \in Folders
  PROVE  /\ Followed(o, s, f, g) \subseteq K \X Folders
         /\ s \notin K => Followed(o, s, f, g) = o
         /\ \A x \in o : x[1] # s => x \in Followed(o, s, f, g)
         /\ <<s, f>> \in o /\ f # g => <<s, g>> \in Followed(o, s, f, g)
<1>1. \A x \in o : \E k \in K, h \in Folders : x = <<k, h>>
  OBVIOUS
<1>2. Followed(o, s, f, g) \subseteq K \X Folders
  BY <1>1 DEF Followed
<1>3. \A x \in o : x[1] # s => x \in Followed(o, s, f, g)
  BY <1>1 DEF Followed
<1>4. s \notin K => Followed(o, s, f, g) = o
  BY <1>1 DEF Followed
<1>5. <<s, f>> \in o /\ f # g => <<s, g>> \in Followed(o, s, f, g)
  BY DEF Followed
<1> QED
  BY <1>2, <1>3, <1>4, <1>5

(* The file is moved: the links of its pairs are now half way.             *)
LEMMA MoveScopeKeepsInv ==
  ASSUME ScopesInv, NEW p \in Workers, MoveScope(p)
  PROVE  ScopesInv'
<1> DEFINE w == worker[p]
<1>1. /\ w \in Worker /\ Formed(w) /\ Current(w) /\ w.pc = "move" /\ Writing(w) = {}
      /\ UNCHANGED <<registry, audit, moves, contested, cut>>
      /\ w.scope \in Scopes /\ w.from \in Folders /\ w.to \in Folders /\ w.from # w.to
      /\ w.scope \in Reach(w)
  BY ReachFacts DEF ScopesInv, Shaped, ScopesTypeOK, FilesInv, MoveScope, On, Worker, Formed,
                    Writing
<1>2. CASE ~Has(w.scope, w.from)
  <2>1. worker' = [worker EXCEPT ![p] = Free] /\ UNCHANGED <<disk, opened, unlinked>>
    BY <1>2 DEF MoveScope
  <2> PICK e : e = Free
    OBVIOUS
  <2> QED
    BY <1>1, <2>1, FreeingFacts, QuietStep DEF histVars
<1>3. CASE Has(w.scope, w.from)
  <2> PICK s \in Scopes, f \in Folders, g \in Folders : s = w.scope /\ f = w.from /\ g = w.to
    BY <1>1
  <2>1. disk' = Moved(s, f, g) /\ f \in DOMAIN disk[s] /\ f # g
    BY <1>1, <1>3 DEF MoveScope, Has
  <2>2. Proper(disk) /\ unlinked \subseteq Scopes /\ registry \in [Scopes -> Folders]
    BY DEF ScopesInv, Shaped, ScopesTypeOK, Proper
  <2>3. /\ \A x \in Scopes : x # s => disk'[x] = disk[x]
        /\ DOMAIN disk'[s] = (DOMAIN disk[s] \ {f}) \cup {g}
        /\ disk'[s][g] = disk[s][f]
    BY <2>1, <2>2, MovedFacts DEF Proper
  <2>4. Proper(disk')
    BY <2>1, <2>2, MovedIsProper
  <2>5. s \notin contested =>
          /\ DOMAIN disk[s] = {f} /\ DOMAIN disk'[s] = {g}
          /\ disk[s][f].links = w.page.links /\ disk'[s][g].links = w.page.links
    BY <1>1, <2>1, <2>3 DEF ScopesInv, FilesInv, Placed, Current
  <2>6. Placed'
    BY <1>1, <2>3, <2>5 DEF ScopesInv, FilesInv, Placed
  <2>0. /\ opened' = [q \in Workers |-> Followed(opened[q], s, f, g)]
        /\ \A q \in Workers : opened[q] \subseteq Writing(worker[q]) \X Folders
        /\ opened \in [Workers -> SUBSET (Scopes \X Folders)]
    BY <1>3 DEF MoveScope, ScopesInv, Shaped, ScopesTypeOK, HeldOpen
  <2>a. /\ opened' \in [Workers -> SUBSET (Scopes \X Folders)]
        /\ \A q \in Workers :
             /\ opened'[q] \subseteq Writing(worker[q]) \X Folders
             /\ s \notin Writing(worker[q]) => opened'[q] = opened[q]
             /\ \A x \in opened[q] : x[1] # s => x \in opened'[q]
             /\ <<s, f>> \in opened[q] => <<s, g>> \in opened'[q]
    <3>1. \A q \in Workers : opened'[q] = Followed(opened[q], s, f, g)
      BY <2>0
    <3>2. ASSUME NEW q \in Workers
          PROVE  Followed(opened[q], s, f, g) \in SUBSET (Scopes \X Folders)
      <4>1. opened[q] \subseteq Scopes \X Folders
        BY <2>0
      <4>2. Followed(opened[q], s, f, g) \subseteq Scopes \X Folders
        <5> PICK o, K : o = opened[q] /\ K = Scopes
          OBVIOUS
        <5>1. o \subseteq K \X Folders
          BY <4>1
        <5>2. Followed(o, s, f, g) \subseteq K \X Folders
          <6>1. ASSUME NEW x \in o
                PROVE  \E k \in K, h \in Folders : x = <<k, h>>
            BY <5>1
          <6> QED
            BY <6>1 DEF Followed
        <5> QED
          BY <5>2
      <4> QED
        BY <4>2
    <3>3. \A q \in Workers :
             /\ Followed(opened[q], s, f, g) \subseteq Writing(worker[q]) \X Folders
             /\ s \notin Writing(worker[q]) => Followed(opened[q], s, f, g) = opened[q]
             /\ \A x \in opened[q] : x[1] # s => x \in Followed(opened[q], s, f, g)
             /\ <<s, f>> \in opened[q] => <<s, g>> \in Followed(opened[q], s, f, g)
      BY <2>0, <2>1, FollowedFacts
    <3> QED
      BY <2>0, <3>1, <3>2, <3>3
  <2>b. Texts'
    <3> SUFFICES ASSUME NEW x \in Scopes \ (contested \cup cut), NEW h \in DOMAIN disk'[x],
                        disk'[x][h].text # "whole"
                 PROVE  \E q \in Workers : <<x, h>> \in opened'[q]
      BY <1>1 DEF Texts
    <3>1. CASE x = s
      <4>1. h = g /\ disk[s][f].text # "whole"
        BY <2>3, <2>5, <3>1
      <4>2. PICK q \in Workers : <<s, f>> \in opened[q]
        BY <2>1, <3>1, <4>1 DEF ScopesInv, FilesInv, Texts
      <4> QED
        BY <2>a, <3>1, <4>1, <4>2
    <3>2. CASE x # s
      <4>1. PICK q \in Workers : <<x, h>> \in opened[q]
        BY <2>3, <3>2 DEF ScopesInv, FilesInv, Texts
      <4> QED
        BY <2>a, <3>2, <4>1
    <3> QED
      BY <3>1, <3>2
  <2>7. s = Epic => \A x \in Stories : disk'[x] = disk[x]
    BY <2>3, KinFacts
  <2>8. ASSUME NEW u \in Worker, Formed(u), Continues(w, u), Current(u)',
               u.pc \in {"audit", "kin"},
               worker' = [worker EXCEPT ![p] = u], LinksInv', unlinked' \subseteq Scopes
        PROVE  ScopesInv'
    <3>1. \A x \in Scopes \ Reach(w) : disk'[x] = disk[x]
      BY <1>1, <2>3
    <3>2. registry' \in [Scopes -> Folders] /\ cut' \subseteq Scopes
      BY <1>1, <2>2 DEF ScopesInv, Shaped, ScopesTypeOK
    <3>3. \A q \in Workers \ {p} :
            /\ opened'[q] \subseteq Writing(worker[q]) \X Folders
            /\ Writing(worker[q]) \cap Reach(w) = {} => opened'[q] = opened[q]
      BY <1>1, <2>a
    <3>4. opened'[p] \subseteq Writing(u) \X Folders
      BY <1>1, <2>a
    <3>5. Open(p)'
      <4>1. worker'[p] = u
        BY <2>8, GoingOn DEF ScopesInv
      <4> QED
        BY <2>8, <4>1 DEF Open
    <3> QED
      BY <1>1, <2>4, <2>6, <2>a, <2>b, <2>8, <3>1, <3>2, <3>3, <3>4, <3>5, Continuing
  <2>9. CASE w.verb \in Unlinking
    <3> PICK u : u = [w EXCEPT !.pc = "audit"]
      OBVIOUS
    <3>1. u \in Worker /\ Advances(w, u, "audit")
      BY <1>1 DEF Worker, Advances
    <3>2. worker' = [worker EXCEPT ![p] = u] /\ unlinked' = unlinked \cup {s}
      BY <1>3, <2>9 DEF MoveScope, Become
    <3>3. Formed(u)
      BY <1>1, <2>9, <3>1 DEF Formed, Advances, Unlinking
    <3>4. Current(u)'
      BY <1>1, <2>7, <3>1 DEF Current, Advances
    <3>5. LinksInv'
      <4>1. \A x \in Scopes \ (contested' \cup unlinked' \cup cut') :
              /\ DOMAIN disk'[x] = DOMAIN disk[x]
              /\ \A h \in DOMAIN disk[x] : disk'[x][h].links = disk[x][h].links
        BY <2>3, <3>2
      <4> QED
        BY <1>1, <3>1, <3>2, <3>3, <4>1, QuietLinks DEF ScopesInv, Advances
    <3> QED
      BY <1>1, <2>2, <2>8, <3>1, <3>2, <3>3, <3>4, <3>5, AdvancingFacts DEF Advances
  <2>10. CASE w.verb \notin Unlinking
    <3> PICK u : u = [w EXCEPT !.pc = "kin", !.kin = DOMAIN w.page.links]
      OBVIOUS
    <3>1. DOMAIN w.page.links = Kin(s) /\ Kin(s) \subseteq Scopes
      BY <1>1, KinFacts DEF Formed
    <3>2. u \in Worker /\ Advances(w, u, "kin") /\ u.page = w.page /\ u.kin = Kin(s)
      BY <1>1, <3>1 DEF Worker, Advances
    <3>3. worker' = [worker EXCEPT ![p] = u] /\ unlinked' = unlinked
      BY <1>3, <2>10 DEF MoveScope, Become
    <3>4. Formed(u)
      BY <1>1, <2>10, <3>1, <3>2 DEF Formed, Advances
    <3>5. Current(u)'
      BY <1>1, <2>7, <3>2 DEF Current, Advances
    <3>6. /\ worker'[p] = u /\ \A q \in Workers : q # p => worker'[q] = worker[q]
      BY <3>2, <3>3, <3>4, GoingOn DEF ScopesInv
    <3>7. {w.scope} \cup Kin(w.scope) \subseteq Reach(w)
      BY <1>1, <2>10, ReachFacts DEF Formed
    <3>8. ASSUME NEW x \in Stories
          PROVE  PairLinked(x)'
      <4>1. PairLinked(x)
        BY DEF ScopesInv, LinksInv
      <4>2. CASE s \notin {x, Epic}
        <5>1. disk'[x] = disk[x] /\ disk'[Epic] = disk[Epic]
          BY <2>3, <4>2, KinFacts
        <5>2. ~Midway(u, x) /\ ~Midway(w, x)
          BY <1>1, <3>2, <4>2 DEF Midway, Advances
        <5>3. \A q \in Workers :
                /\ Midway(worker'[q], x) <=> Midway(worker[q], x)
                /\ Midway(worker[q], x) => worker'[q] = worker[q]
          BY <3>6, <5>2
        <5>4. PairLinked(x) /\ (Clean(x)' => Clean(x))
          BY <1>1, <3>3 DEF ScopesInv, LinksInv, Clean
        <5>5. registry' = registry
          BY <1>1
        <5> QED
          BY <5>1, <5>3, <5>4, <5>5, PairAway
      <4>3. CASE s \in {x, Epic}
        <5>1. ASSUME Clean(x)
              PROVE  /\ HalfLinked(u, x)'
                     /\ \A q \in Workers : q # p => ~Midway(worker[q], x)
          <6>1. Midway(u, x) /\ ~Midway(w, x)
            BY <1>1, <3>2, <4>3 DEF Midway, Advances
          <6>2. \A q \in Workers : q # p => ~Midway(worker[q], x)
            BY <3>7, <4>3, <5>1, OneRepairer
          <6>3. Linked(x)
            BY <4>1, <5>1, <6>1, <6>2 DEF PairLinked
          <6>4. s \notin contested
            BY <4>3, <5>1 DEF Clean
          <6>5. HalfLinked(u, x)'
            <7>1. CASE s = x
              <8>1. disk'[Epic] = disk[Epic] /\ s # Epic /\ Kin(s) = {Epic}
                BY <2>3, <7>1, KinFacts
              <8> QED
                BY <1>1, <2>5, <3>2, <6>3, <6>4, <7>1, <8>1 DEF Linked, HalfLinked, Advances
            <7>2. CASE s = Epic
              <8>1. disk'[x] = disk[x] /\ s # x /\ Kin(s) = Stories
                BY <2>3, <7>2, KinFacts
              <8> QED
                BY <1>1, <2>5, <3>2, <6>3, <6>4, <7>2, <8>1 DEF Linked, HalfLinked, Advances
            <7> QED
              BY <4>3, <7>1, <7>2
          <6> QED
            BY <6>1, <6>2, <6>5
        <5>2. Midway(u, x) /\ (Clean(x)' => Clean(x))
          BY <1>1, <3>2, <3>3, <4>3 DEF Midway, Advances, Clean
        <5> QED
          BY <3>6, <5>1, <5>2, PairHalf
      <4> QED
        BY <4>2, <4>3
    <3> QED
      BY <1>1, <2>2, <2>8, <3>2, <3>3, <3>4, <3>5, <3>8, AdvancingFacts DEF LinksInv, Advances
  <2> QED
    BY <2>9, <2>10
<1> QED
  BY <1>2, <1>3

LEMMA ReadKinKeepsInv ==
  ASSUME ScopesInv, NEW p \in Workers, ReadKin(p)
  PROVE  ScopesInv'
<1> DEFINE w == worker[p]
<1>1. /\ w \in Worker /\ Formed(w) /\ Current(w) /\ w.pc = "kin"
      /\ UNCHANGED <<disk, registry, audit, moves, opened, contested, unlinked, cut>>
      /\ Writing(w) = {}
      /\ {w.scope} \cup Kin(w.scope) \subseteq Reach(w) /\ w.scope \in Scopes
      /\ w.kin \subseteq Kin(w.scope) /\ w.page.links \in [Kin(w.scope) -> Folders]
  BY ReachFacts DEF ScopesInv, Shaped, ScopesTypeOK, FilesInv, ReadKin, On, Formed, Worker,
                    histVars, Writing
<1>2. PICK k \in w.kin :
          \/ /\ Readable(k, w.page.links[k]) /\ disk[k][w.page.links[k]].links[w.scope] = w.from
             /\ worker' = [worker EXCEPT ![p] =
                  [w EXCEPT !.pc = "rewrite", !.of = k, !.leaf = disk[k][w.page.links[k]]]]
          \/ /\ ~(Readable(k, w.page.links[k]) /\ disk[k][w.page.links[k]].links[w.scope] = w.from)
             /\ worker' = [worker EXCEPT ![p].kin = @ \ {k}]
  BY DEF ReadKin
<1>3. k \in Scopes /\ k \in Kin(w.scope) /\ w.page.links[k] \in Folders
  BY <1>1, KinFacts
<1>4. Proper(disk) /\ unlinked \subseteq Scopes /\ registry \in [Scopes -> Folders]
  BY DEF ScopesInv, Shaped, ScopesTypeOK, Proper
<1>5. ASSUME NEW u \in Worker, Formed(u), Continues(w, u), Current(u),
             u.pc \in {"kin", "rewrite"},
             worker' = [worker EXCEPT ![p] = u], \A x \in Stories : PairLinked(x)'
      PROVE  ScopesInv'
  <2>1. LinksInv'
    BY <1>5 DEF LinksInv
  <2>2. unlinked' \subseteq Scopes /\ registry' \in [Scopes -> Folders]
    BY <1>1, <1>4
  <2> QED
    BY <1>1, <1>5, <2>1, <2>2, CalmStep
<1>6. CASE /\ Has(k, w.page.links[k])
           /\ worker' = [worker EXCEPT ![p] =
                [w EXCEPT !.pc = "rewrite", !.of = k, !.leaf = disk[k][w.page.links[k]]]]
  <2> PICK leaf : leaf = disk[k][w.page.links[k]]
    OBVIOUS
  <2> PICK u : u = [w EXCEPT !.pc = "rewrite", !.of = k, !.leaf = leaf]
    OBVIOUS
  <2>1. leaf \in Content /\ leaf.links \in [Kin(k) -> Folders]
    BY <1>3, <1>4, <1>6 DEF Proper, Has
  <2>2. /\ u \in Worker /\ Advances(w, u, "rewrite") /\ u.page = w.page /\ u.kin = w.kin
        /\ u.of = k /\ u.leaf = leaf
    BY <1>1, <1>3, <2>1 DEF Worker, Advances
  <2>3. Formed(u)
    BY <1>1, <2>1, <2>2 DEF Formed, Advances
  <2>4. Current(u)
    BY <1>1, <1>6, <2>2 DEF Current, Advances
  <2>5. worker' = [worker EXCEPT ![p] = u]
    BY <1>6
  <2>6. worker'[p] = u /\ \A q \in Workers : q # p => worker'[q] = worker[q]
    BY <2>2, <2>3, <2>5, GoingOn DEF ScopesInv
  <2>7. ASSUME NEW x \in Stories
        PROVE  PairLinked(x)'
    <3>1. \A q \in Workers :
            /\ Midway(worker'[q], x) <=> Midway(worker[q], x)
            /\ Midway(worker[q], x) =>
                 /\ worker'[q].scope = worker[q].scope /\ worker'[q].page = worker[q].page
                 /\ worker'[q].from = worker[q].from /\ worker'[q].to = worker[q].to
                 /\ \A j \in {x, Epic} : j \in worker'[q].kin <=> j \in worker[q].kin
      BY <1>1, <2>2, <2>6 DEF Midway, Advances
    <3>2. PairLinked(x) /\ (Clean(x)' => Clean(x))
      BY <1>1 DEF ScopesInv, LinksInv, Clean
    <3>3. disk' = disk /\ registry' = registry
      BY <1>1
    <3> QED
      BY <3>1, <3>2, <3>3, PairFrame
  <2> QED
    BY <1>1, <1>5, <2>2, <2>3, <2>4, <2>5, <2>7, AdvancingFacts DEF Advances
<1>7. CASE /\ ~(Readable(k, w.page.links[k]) /\ disk[k][w.page.links[k]].links[w.scope] = w.from)
           /\ worker' = [worker EXCEPT ![p].kin = @ \ {k}]
  <2> PICK u : u = [w EXCEPT !.kin = @ \ {k}]
    OBVIOUS
  <2>1. /\ u \in Worker /\ Advances(w, u, "kin") /\ u.page = w.page /\ u.kin = w.kin \ {k}
    BY <1>1 DEF Worker, Advances
  <2>2. Formed(u)
    BY <1>1, <2>1 DEF Formed, Advances
  <2>3. Current(u)
    BY <1>1, <2>1 DEF Current, Advances
  <2>4. worker' = [worker EXCEPT ![p] = u]
    BY <1>7
  <2>5. worker'[p] = u /\ \A q \in Workers : q # p => worker'[q] = worker[q]
    BY <2>1, <2>2, <2>4, GoingOn DEF ScopesInv
  <2>6. ASSUME NEW x \in Stories
        PROVE  PairLinked(x)'
    <3>1. PairLinked(x) /\ (Clean(x)' => Clean(x))
      BY <1>1 DEF ScopesInv, LinksInv, Clean
    <3>2. Clean(x) => ~(w.scope = x /\ k = Epic) /\ ~(w.scope = Epic /\ k = x)
      <4> SUFFICES ASSUME Clean(x), (w.scope = x /\ k = Epic) \/ (w.scope = Epic /\ k = x)
                   PROVE  FALSE
        OBVIOUS
      <4>1. HalfLinked(w, x)
        BY <1>1, <3>1 DEF PairLinked, Midway
      <4>2. PICK f \in DOMAIN disk[x], g \in DOMAIN disk[Epic] : TRUE
        BY KinFacts DEF ScopesInv, FilesInv, Placed
      <4>3. x # Epic
        BY KinFacts
      <4>4. \A h \in DOMAIN disk[k] : disk[k][h].text = "whole"
        <5>1. k \notin contested \cup cut /\ k \in Reach(w)
          BY <1>1, <1>3 DEF Clean
        <5>2. ASSUME NEW q \in Workers, NEW h, <<k, h>> \in opened[q]
              PROVE  FALSE
          <6>1. k \in Writing(worker[q])
            BY <5>2 DEF ScopesInv, Shaped, HeldOpen
          <6>2. worker[q] \in Worker /\ Formed(worker[q])
            BY DEF ScopesInv, Shaped, ScopesTypeOK
          <6>3. k \in Reach(worker[q]) /\ q # p
            BY <1>1, <6>1, <6>2, ReachFacts DEF Writing
          <6> QED
            BY <5>1, <6>3 DEF ScopesInv, FilesInv, Exclusive
        <5> QED
          BY <1>3, <5>1, <5>2 DEF ScopesInv, FilesInv, Texts
      <4> QED
        BY <1>7, <4>1, <4>2, <4>3, <4>4 DEF HalfLinked, Has, Readable
    <3>3. Clean(x)' => \A q \in Workers :
            /\ Midway(worker'[q], x) <=> Midway(worker[q], x)
            /\ Midway(worker[q], x) =>
                 /\ worker'[q].scope = worker[q].scope /\ worker'[q].page = worker[q].page
                 /\ worker'[q].from = worker[q].from /\ worker'[q].to = worker[q].to
                 /\ \A j \in {x, Epic} : j \in worker'[q].kin <=> j \in worker[q].kin
      <4>1. Midway(u, x) <=> Midway(w, x)
        BY <1>1, <2>1 DEF Midway, Advances
      <4>2. Clean(x) /\ Midway(w, x) => \A j \in {x, Epic} : j \in u.kin <=> j \in w.kin
        <5>1. w.scope \notin Kin(w.scope)
          BY <1>1, KinFacts
        <5> QED
          BY <1>1, <1>3, <2>1, <3>2, <5>1 DEF Midway
      <4> QED
        BY <2>1, <2>5, <3>1, <4>1, <4>2 DEF Advances
    <3>4. disk' = disk /\ registry' = registry
      BY <1>1
    <3> QED
      BY <3>1, <3>3, <3>4, PairFrame
  <2> QED
    BY <1>1, <1>5, <2>1, <2>2, <2>3, <2>4, <2>6, AdvancingFacts DEF Advances
<1> QED
  BY <1>2, <1>6, <1>7 DEF Readable

(* The pairs of a command that gives up a repair are not vouched for.      *)
LEMMA GivingUp ==
  ASSUME ScopesInv, NEW p \in Workers, NEW u \in Worker, Formed(u),
         worker' = [worker EXCEPT ![p] = u], UNCHANGED <<disk, registry, contested>>,
         unlinked \subseteq unlinked', cut \subseteq cut',
         worker[p].pc \in {"kin", "rewrite", "refill"} => worker[p].scope \in unlinked',
         u.pc \in {"kin", "rewrite", "refill"} =>
           worker[p].pc \in {"kin", "rewrite", "refill"} /\ u.scope = worker[p].scope
  PROVE  LinksInv'
<1>1. worker'[p] = u /\ \A q \in Workers : q # p => worker'[q] = worker[q]
  BY GoingOn DEF ScopesInv
<1> SUFFICES ASSUME NEW x \in Stories PROVE PairLinked(x)'
  BY DEF LinksInv
<1>2. CASE Midway(worker[p], x)
  <2>1. ~Clean(x)'
    BY <1>2 DEF Midway, Clean
  <2> QED
    BY <2>1 DEF PairLinked
<1>3. CASE ~Midway(worker[p], x)
  <2>1. ~Midway(u, x)
    BY <1>3 DEF Midway
  <2>2. \A q \in Workers :
          /\ Midway(worker'[q], x) <=> Midway(worker[q], x)
          /\ Midway(worker[q], x) => worker'[q] = worker[q]
    BY <1>1, <1>3, <2>1
  <2>3. PairLinked(x) /\ (Clean(x)' => Clean(x))
    BY DEF ScopesInv, LinksInv, Clean
  <2> QED
    BY <2>2, <2>3, PairAway
<1> QED
  BY <1>2, <1>3

(* The command after it is done with the file of a relative.               *)
LEMMA KinDoneFacts ==
  ASSUME NEW w \in Worker, Formed(w), w.pc \in {"kin", "rewrite", "refill"}, NEW k,
         NEW u, u = KinDone(w, k)
  PROVE  /\ u \in Worker /\ Advances(w, u, "kin") /\ u.page = w.page /\ u.kin = w.kin \ {k}
         /\ Formed(u) /\ Continues(w, u)
<1>1. NoPage \in Content
  BY FreeFacts DEF Free, Worker
<1>2. u \in Worker /\ Advances(w, u, "kin") /\ u.page = w.page /\ u.kin = w.kin \ {k}
  BY <1>1 DEF KinDone, Worker, Advances
<1>3. Formed(u)
  BY <1>2 DEF Formed, Advances
<1> QED
  BY <1>2, <1>3, AdvancingFacts

LEMMA SkipKinKeepsInv ==
  ASSUME ScopesInv, NEW p \in Workers, SkipKin(p)
  PROVE  ScopesInv'
<1> DEFINE w == worker[p]
<1>1. /\ w \in Worker /\ Formed(w) /\ Current(w) /\ w.pc \in {"kin", "rewrite"}
      /\ UNCHANGED <<disk, registry, audit, moves, opened, contested, cut>>
      /\ unlinked' = unlinked \cup {w.scope} /\ w.scope \in Scopes /\ Writing(w) = {}
  BY DEF ScopesInv, Shaped, ScopesTypeOK, FilesInv, SkipKin, On, Worker, Writing
<1>2. PICK k, u : u = KinDone(w, k) /\ worker' = [worker EXCEPT ![p] = u]
  BY DEF SkipKin, Become
<1>3. u \in Worker /\ Advances(w, u, "kin") /\ Formed(u) /\ Continues(w, u)
  BY <1>1, <1>2, KinDoneFacts
<1>4. Current(u)
  BY <1>1, <1>3 DEF Current, Advances
<1>5. LinksInv'
  BY <1>1, <1>2, <1>3, GivingUp DEF Advances
<1>6. registry' \in [Scopes -> Folders] /\ unlinked' \subseteq Scopes
  BY <1>1 DEF ScopesInv, Shaped, ScopesTypeOK
<1> QED
  BY <1>1, <1>2, <1>3, <1>4, <1>5, <1>6, CalmStep DEF Advances

LEMMA EmptyKinKeepsInv ==
  ASSUME ScopesInv, NEW p \in Workers, EmptyKin(p)
  PROVE  ScopesInv'
<1> DEFINE w == worker[p]
<1> PICK k, f, c : k = w.of /\ f = w.page.links[w.of] /\ c = w.leaf
  OBVIOUS
<1>1. /\ w \in Worker /\ Formed(w) /\ Current(w) /\ w.pc = "rewrite" /\ Writing(w) = {}
      /\ UNCHANGED <<registry, audit, moves, contested, unlinked, cut>>
      /\ k \in w.kin /\ k \in Reach(w) /\ c \in Content /\ c.links \in [Kin(k) -> Folders]
      /\ w.kin \subseteq Kin(w.scope) /\ w.page.links \in [Kin(w.scope) -> Folders]
      /\ w.scope \in Scopes
  BY ReachFacts DEF ScopesInv, Shaped, ScopesTypeOK, FilesInv, EmptyKin, On, Worker, histVars,
         Writing, Formed
<1>2. k \in Scopes /\ f \in Folders
  BY <1>1, KinFacts
<1>3. EmptyText(p, k, f, c)
  BY DEF EmptyKin
<1>4. /\ Proper(disk') /\ Texts'
      /\ \A x \in Scopes : x # k => disk'[x] = disk[x]
      /\ DOMAIN disk'[k] = DOMAIN disk[k] \cup {f}
      /\ disk'[k][f].links = c.links /\ disk'[k][f].text = "empty"
      /\ \A g \in DOMAIN disk[k] : g # f => disk'[k][g] = disk[k][g]
      /\ opened' \in [Workers -> SUBSET (Scopes \X Folders)]
      /\ opened'[p] = {<<k, f>>} /\ \A q \in Workers : q # p => opened'[q] = opened[q]
  BY <1>1, <1>2, <1>3, EmptyFacts DEF ScopesInv
<1>5. k \notin contested =>
        /\ DOMAIN disk'[k] = DOMAIN disk[k] /\ f \in DOMAIN disk[k]
        /\ \A g \in DOMAIN disk[k] : disk'[k][g].links = disk[k][g].links
  BY <1>1, <1>4 DEF Current, Has
<1> PICK u : u = [w EXCEPT !.pc = "refill"]
  OBVIOUS
<1>6. /\ u \in Worker /\ Advances(w, u, "refill") /\ u.page = w.page /\ u.kin = w.kin
      /\ u.of = k /\ u.leaf = c
  BY <1>1 DEF Worker, Advances
<1>7. Formed(u) /\ Continues(w, u) /\ Writing(u) = {k}
  BY <1>1, <1>6, AdvancingFacts DEF Formed, Advances, Writing
<1>8. /\ worker' = [worker EXCEPT ![p] = u] /\ worker'[p] = u
      /\ \A q \in Workers : q # p => worker'[q] = worker[q]
  BY <1>6, <1>7, GoingOn DEF EmptyKin, Become, ScopesInv
<1>9. Placed'
  <2>1. \A x \in Scopes : x \notin contested => DOMAIN disk'[x] = DOMAIN disk[x]
    BY <1>4, <1>5
  <2>2. Placed /\ contested' = contested
    BY <1>1 DEF ScopesInv, FilesInv
  <2>3. \A x \in Scopes : DOMAIN disk[x] \subseteq DOMAIN disk'[x]
    BY <1>2, <1>4
  <2>4. ASSUME NEW x \in Scopes
        PROVE  /\ DOMAIN disk'[x] # {}
               /\ x \notin contested' => \E g \in Folders : DOMAIN disk'[x] = {g}
    BY <2>1, <2>2, <2>3 DEF Placed
  <2> QED
    BY <2>4 DEF Placed
<1>10. Current(u)'
  <2>1. \A x \in Stories \ contested : DOMAIN disk'[x] = DOMAIN disk[x]
    BY <1>4, <1>5, KinFacts
  <2>2. /\ u.pc = "refill" /\ u.of = k /\ u.page.links[u.of] = f /\ u.leaf = c
        /\ u.scope = w.scope /\ u.sweeping = w.sweeping
    BY <1>6 DEF Advances
  <2>3. f \in DOMAIN disk'[k] /\ c.links = disk'[k][f].links
    BY <1>4
  <2>4. u.sweeping /\ u.scope = Epic => \A x \in Stories \ contested' : DOMAIN disk'[x] \subseteq Finished
    BY <1>1, <2>1, <2>2 DEF Current
  <2> QED
    BY <2>2, <2>3, <2>4 DEF Current, Has
<1>11. Open(p)'
  <2>1. u.pc = "refill" /\ u.of = k /\ u.page.links[u.of] = f
    BY <1>6 DEF Advances
  <2>2. opened'[p] = {<<k, f>>} /\ disk'[k][f].text = "empty"
    BY <1>4
  <2> QED
    BY <1>8, <2>1, <2>2 DEF Open
<1>12. LinksInv'
  <2> SUFFICES ASSUME NEW x \in Stories PROVE PairLinked(x)'
    BY DEF LinksInv
  <2>1. PairLinked(x) /\ (Clean(x)' => Clean(x)) /\ x \in Scopes /\ Epic \in Scopes
    BY <1>1, KinFacts DEF ScopesInv, LinksInv, Clean
  <2>2. \A q \in Workers :
          /\ Midway(worker'[q], x) <=> Midway(worker[q], x)
          /\ Midway(worker[q], x) =>
               /\ worker'[q].scope = worker[q].scope /\ worker'[q].page = worker[q].page
               /\ worker'[q].from = worker[q].from /\ worker'[q].to = worker[q].to
               /\ \A j \in {x, Epic} : j \in worker'[q].kin <=> j \in worker[q].kin
    BY <1>1, <1>6, <1>8 DEF Midway, Advances
  <2>3. \A y \in Scopes \ contested :
          /\ DOMAIN disk'[y] = DOMAIN disk[y]
          /\ \A g \in DOMAIN disk[y] : disk'[y][g].links = disk[y][g].links
    BY <1>4, <1>5
  <2>4. Clean(x)' => x \notin contested /\ Epic \notin contested
    BY <2>1 DEF Clean
  <2>5. registry' = registry
    BY <1>1
  <2> QED
    BY <2>1, <2>2, <2>3, <2>4, <2>5, PairFrame
<1>13. /\ registry' \in [Scopes -> Folders] /\ unlinked' \subseteq Scopes /\ cut' \subseteq Scopes
       /\ \A q \in Workers \ {p} : opened'[q] \subseteq Writing(worker[q]) \X Folders
       /\ opened'[p] \subseteq Writing(u) \X Folders
       /\ \A x \in Scopes \ Reach(w) : disk'[x] = disk[x]
  BY <1>1, <1>2, <1>4, <1>7 DEF ScopesInv, Shaped, ScopesTypeOK, HeldOpen
<1> QED
  BY <1>1, <1>4, <1>6, <1>7, <1>8, <1>9, <1>10, <1>11, <1>12, <1>13, Continuing

LEMMA FillKinKeepsInv ==
  ASSUME ScopesInv, NEW p \in Workers, RewriteKin(p), UNCHANGED cut,
         FillText(p, Relinked(worker[p].leaf, worker[p].scope, worker[p].to))
  PROVE  ScopesInv'
<1> DEFINE w == worker[p]
<1>1. /\ w \in Worker /\ Formed(w) /\ Current(w) /\ Open(p) /\ w.pc = "refill"
      /\ UNCHANGED <<registry, audit, moves, contested, unlinked, cut>> /\ Writing(w) = {w.of}
      /\ {w.scope} \cup Kin(w.scope) \subseteq Reach(w) /\ w.scope \in Scopes /\ w.to \in Folders
      /\ w.kin \subseteq Kin(w.scope) /\ w.page.links \in [Kin(w.scope) -> Folders]
      /\ w.of \in w.kin /\ w.leaf \in Content /\ w.leaf.links \in [Kin(w.of) -> Folders]
  BY ReachFacts DEF ScopesInv, Shaped, ScopesTypeOK, FilesInv, RewriteKin, On, Formed, Worker,
                    Writing
<1> PICK k, f, c : k = w.of /\ f = w.page.links[w.of] /\ c = Relinked(w.leaf, w.scope, w.to)
  OBVIOUS
<1>2. k \in Scopes /\ k \in Kin(w.scope) /\ w.scope \in Kin(k) /\ f \in Folders /\ k # w.scope
  BY <1>1, KinFacts
<1>3. /\ c \in Content /\ c.links \in [Kin(k) -> Folders] /\ c.links[w.scope] = w.to
      /\ \A x \in Kin(k) : x # w.scope => c.links[x] = w.leaf.links[x]
  <2>1. c = [w.leaf EXCEPT !.links = [w.leaf.links EXCEPT ![w.scope] = w.to]]
    BY DEF Relinked
  <2> PICK links : links = [w.leaf.links EXCEPT ![w.scope] = w.to]
    OBVIOUS
  <2>2. /\ links \in [Kin(k) -> Folders] /\ links[w.scope] = w.to
        /\ \A x \in Kin(k) : x # w.scope => links[x] = w.leaf.links[x]
    BY <1>1, <1>2
  <2>3. links \in Links
    BY <1>2, <2>2, KinFacts
  <2>4. c \in Content /\ c.links = links
    BY <1>1, <2>1, <2>3 DEF Content
  <2> QED
    BY <2>2, <2>4
<1>4. Proper(disk) /\ unlinked \subseteq Scopes /\ registry \in [Scopes -> Folders]
  BY DEF ScopesInv, Shaped, ScopesTypeOK, Proper
<1>5. k \notin contested =>
        f \in DOMAIN disk[k] /\ opened[p] = {<<k, f>>} /\ disk[k][f].text = "empty"
  BY <1>1 DEF Current, Open, Has
<1>6. /\ Proper(disk') /\ Texts'
      /\ \A x \in Scopes : x # k => disk'[x] = disk[x]
      /\ DOMAIN disk[k] \subseteq DOMAIN disk'[k]
      /\ k \notin contested => DOMAIN disk'[k] = DOMAIN disk[k] /\ disk'[k][f].links = c.links
      /\ opened' \in [Workers -> SUBSET (Scopes \X Folders)]
      /\ opened'[p] = {} /\ \A q \in Workers : q # p => opened'[q] = opened[q]
  <2>1. FillText(p, c) /\ Writing(w) = {k}
    BY <1>1
  <2> QED
    BY <1>1, <1>2, <1>3, <1>5, <2>1, FillFacts DEF ScopesInv
<1>7. \A x \in Scopes : x # k => disk'[x] = disk[x]
  BY <1>6
<1>8. k \notin contested =>
        /\ DOMAIN disk[k] = {f} /\ DOMAIN disk'[k] = {f}
        /\ disk'[k][f].links[w.scope] = w.to
        /\ \A x \in Kin(k) : x # w.scope => disk'[k][f].links[x] = disk[k][f].links[x]
  <2>1. k \notin contested => DOMAIN disk[k] = {f} /\ w.leaf.links = disk[k][f].links
    BY <1>1, <1>2, <1>5 DEF Current, ScopesInv, FilesInv, Placed
  <2> QED
    BY <1>3, <1>6, <2>1
<1>9. Placed'
  <2>1. \A x \in Scopes :
          /\ DOMAIN disk[x] # {}
          /\ x \notin contested => \E g \in Folders : DOMAIN disk[x] = {g}
    BY DEF ScopesInv, FilesInv, Placed
  <2>2. DOMAIN disk'[k] # {} /\ (k \notin contested => DOMAIN disk'[k] = {f})
    BY <1>2, <1>6, <1>8, <2>1
  <2>3. \A x \in Scopes :
          /\ DOMAIN disk'[x] # {}
          /\ x \notin contested => \E g \in Folders : DOMAIN disk'[x] = {g}
    <3> TAKE x \in Scopes
    <3>1. CASE x = k
      BY <1>2, <2>2, <3>1
    <3>2. CASE x # k
      BY <1>7, <2>1, <3>2
    <3> QED
      BY <3>1, <3>2
  <2> QED
    BY <1>1, <2>3 DEF Placed
<1> PICK u : u = KinDone(w, k)
  OBVIOUS
<1>10. /\ u \in Worker /\ Advances(w, u, "kin") /\ u.page = w.page /\ u.kin = w.kin \ {k}
       /\ Formed(u) /\ Continues(w, u)
  BY <1>1, KinDoneFacts
<1>11. Formed(u)
  BY <1>10
<1>12. Current(u)'
  <2>1. \A x \in Stories \ contested : DOMAIN disk'[x] = DOMAIN disk[x]
    BY <1>7, <1>8, KinFacts
  <2> QED
    BY <1>1, <1>10, <2>1 DEF Current, Advances
<1>13. worker' = [worker EXCEPT ![p] = u]
  BY DEF RewriteKin, Become
<1>14. worker'[p] = u /\ \A q \in Workers : q # p => worker'[q] = worker[q]
  BY <1>10, <1>11, <1>13, GoingOn DEF ScopesInv
<1>15. ASSUME NEW x \in Stories
       PROVE  PairLinked(x)'
  <2>1. PairLinked(x) /\ (Clean(x)' => Clean(x))
    BY <1>1 DEF ScopesInv, LinksInv, Clean
  <2>2. Midway(u, x) <=> Midway(w, x)
    BY <1>1, <1>10 DEF Midway, Advances
  <2>3. CASE (w.scope = Epic /\ k = x) \/ (w.scope = x /\ k = Epic)
    <3>1. Midway(w, x)
      BY <1>1, <2>3 DEF Midway
    <3>2. ASSUME Clean(x)
          PROVE  /\ HalfLinked(u, x)'
                 /\ \A q \in Workers : q # p => ~Midway(worker'[q], x)
      <4>1. \A q \in Workers : q # p => ~Midway(worker'[q], x)
        BY <1>1, <1>14, <2>3, <3>2, OneRepairer
      <4>2. HalfLinked(w, x)
        BY <2>1, <3>1, <3>2 DEF PairLinked
      <4>3. k \notin contested
        BY <2>3, <3>2 DEF Clean
      <4>4. x # Epic /\ x \in Scopes /\ Epic \in Scopes /\ x \in Kin(Epic) /\ Epic \in Kin(x)
        BY KinFacts
      <4>5. HalfLinked(u, x)'
        <5> PICK v : v = w
          OBVIOUS
        <5>0. /\ u.scope = v.scope /\ u.from = v.from /\ u.to = v.to /\ u.page = v.page
              /\ u.kin = v.kin \ {k} /\ k \in v.kin /\ HalfLinked(v, x) /\ registry' = registry
          BY <1>1, <1>10, <4>2 DEF Advances
        <5>1. CASE w.scope = Epic /\ k = x
          <6>1. /\ DOMAIN disk'[x] = {f} /\ DOMAIN disk[x] = {f} /\ disk'[Epic] = disk[Epic]
                /\ disk'[x][f].links[Epic] = v.to
            BY <1>7, <1>8, <4>3, <4>4, <5>1
          <6>2. ASSUME NEW g \in DOMAIN disk[Epic]
                PROVE  /\ disk[Epic][g].links[x] = f /\ registry[x] = f
                       /\ registry[Epic] = v.from /\ v.to = g /\ v.page.links[x] = f
            BY <4>4, <5>0, <5>1, <6>1 DEF HalfLinked
          <6> QED
            BY <4>4, <5>0, <5>1, <6>1, <6>2 DEF HalfLinked
        <5>2. CASE w.scope = x /\ k = Epic
          <6>1. /\ DOMAIN disk'[Epic] = {f} /\ DOMAIN disk[Epic] = {f} /\ disk'[x] = disk[x]
                /\ disk'[Epic][f].links[x] = v.to
            BY <1>7, <1>8, <4>3, <4>4, <5>2
          <6>2. ASSUME NEW h \in DOMAIN disk[x]
                PROVE  /\ disk[x][h].links[Epic] = f /\ registry[x] = v.from
                       /\ registry[Epic] = f /\ v.to = h /\ v.page.links[Epic] = f
            BY <4>4, <5>0, <5>2, <6>1 DEF HalfLinked
          <6> QED
            BY <4>4, <5>0, <5>2, <6>1, <6>2 DEF HalfLinked
        <5> QED
          BY <2>3, <5>1, <5>2
      <4> QED
        BY <4>1, <4>5
    <3> QED
      BY <1>14, <2>1, <2>2, <3>1, <3>2, PairHalf
  <2>4. CASE ~((w.scope = Epic /\ k = x) \/ (w.scope = x /\ k = Epic))
    <3>1. (k # x /\ k # Epic) \/ (k = Epic /\ w.scope # x) \/ (k = x /\ w.scope # Epic)
      BY <2>4
    <3>2. k = x => w.scope = Epic
      BY <1>2, KinFacts
    <3>3. disk'[x] = disk[x]
      BY <1>7, <2>4, <3>2, KinFacts
    <3>4. Clean(x)' =>
           /\ DOMAIN disk'[Epic] = DOMAIN disk[Epic]
           /\ \A g \in DOMAIN disk[Epic] : disk'[Epic][g].links[x] = disk[Epic][g].links[x]
      <4>1. CASE k # Epic
        BY <1>7, <4>1, KinFacts
      <4>2. CASE k = Epic
        <5>1. x \in Kin(k) /\ x # w.scope
          BY <2>4, <4>2, KinFacts
        <5>2. Clean(x)' => k \notin contested
          BY <2>1, <4>2 DEF Clean
        <5>3. Clean(x)' => /\ DOMAIN disk[k] = {f} /\ DOMAIN disk'[k] = {f}
                           /\ disk'[k][f].links[x] = disk[k][f].links[x]
          BY <1>8, <5>1, <5>2
        <5> QED
          BY <4>2, <5>3
      <4> QED
        BY <4>1, <4>2
    <3>5. \A q \in Workers :
            /\ Midway(worker'[q], x) <=> Midway(worker[q], x)
            /\ Midway(worker[q], x) =>
                 /\ worker'[q].scope = worker[q].scope /\ worker'[q].page = worker[q].page
                 /\ worker'[q].from = worker[q].from /\ worker'[q].to = worker[q].to
                 /\ \A j \in {x, Epic} : j \in worker'[q].kin <=> j \in worker[q].kin
      <4>1. Midway(w, x) => \A j \in {x, Epic} : j \in u.kin <=> j \in w.kin
        <5>1. w.scope \notin w.kin
          BY <1>1, KinFacts
        <5> QED
          BY <1>10, <2>4, <5>1 DEF Midway
      <4> QED
        BY <1>10, <1>14, <2>2, <4>1 DEF Advances
    <3>6. registry'[x] = registry[x] /\ registry'[Epic] = registry[Epic]
      BY <1>1
    <3> QED
      BY <2>1, <3>3, <3>4, <3>5, <3>6, PairFrame
  <2> QED
    BY <2>3, <2>4
<1>16. /\ LinksInv' /\ unlinked' \subseteq Scopes /\ registry' \in [Scopes -> Folders]
       /\ cut' \subseteq Scopes
       /\ \A q \in Workers \ {p} : opened'[q] \subseteq Writing(worker[q]) \X Folders
       /\ opened'[p] \subseteq Writing(u) \X Folders
  BY <1>1, <1>4, <1>6, <1>15 DEF LinksInv, ScopesInv, Shaped, ScopesTypeOK, HeldOpen
<1>17. \A x \in Scopes \ Reach(w) : disk'[x] = disk[x]
  BY <1>1, <1>2, <1>7
<1>18. Open(p)'
  BY <1>10, <1>14 DEF Open, Advances
<1> QED
  BY <1>1, <1>6, <1>9, <1>10, <1>11, <1>12, <1>13, <1>16, <1>17, <1>18, Continuing

(* A relative whose writing failed is cut; the command goes on.            *)
LEMMA CutKinKeepsInv ==
  ASSUME ScopesInv, NEW p \in Workers, RewriteKin(p), LeaveCut(p), UNCHANGED disk
  PROVE  ScopesInv'
<1> DEFINE w == worker[p]
<1> PICK k, f : k = w.of /\ f = w.page.links[w.of]
  OBVIOUS
<1>1. /\ w \in Worker /\ Formed(w) /\ Current(w) /\ Open(p) /\ w.pc = "refill"
      /\ UNCHANGED <<registry, audit, moves, contested, unlinked>>
      /\ w.scope \in Scopes /\ w.kin \subseteq Kin(w.scope) /\ k \in w.kin
      /\ opened[p] \subseteq {k} \X Folders
      /\ opened \in [Workers -> SUBSET (Scopes \X Folders)] /\ cut \subseteq Scopes
  BY DEF ScopesInv, Shaped, ScopesTypeOK, FilesInv, RewriteKin, On, Worker, Formed, HeldOpen, Writing
<1>2. k \in Scopes /\ k \in Kin(w.scope)
  BY <1>1, KinFacts
<1>3. /\ cut' = cut \cup {x[1] : x \in opened[p]}
      /\ opened' = [opened EXCEPT ![p] = {}]
  BY DEF LeaveCut
<1>4. /\ cut \subseteq cut' /\ cut' \subseteq Scopes /\ \A x \in opened[p] : x[1] \in cut'
      /\ opened' \in [Workers -> SUBSET (Scopes \X Folders)]
      /\ opened'[p] = {} /\ \A q \in Workers : q # p => opened'[q] = opened[q]
  BY <1>1, <1>2, <1>3
<1>5. k \in contested \cup cut'
  BY <1>1, <1>4 DEF Open
<1> PICK u : u = KinDone(w, k)
  OBVIOUS
<1>6. /\ u \in Worker /\ Advances(w, u, "kin") /\ u.page = w.page /\ u.kin = w.kin \ {k}
      /\ Formed(u) /\ Continues(w, u)
  BY <1>1, KinDoneFacts
<1>7. /\ worker' = [worker EXCEPT ![p] = u] /\ worker'[p] = u
      /\ \A q \in Workers : q # p => worker'[q] = worker[q]
  BY <1>6, GoingOn DEF RewriteKin, Become, ScopesInv
<1>8. Placed' /\ Current(u)' /\ Open(p)'
  <2>1. Placed'
    BY <1>1 DEF ScopesInv, FilesInv, Placed
  <2>2. Current(u)'
    BY <1>1, <1>6 DEF Current, Advances
  <2>3. Open(p)'
    BY <1>6, <1>7 DEF Open, Advances
  <2> QED
    BY <2>1, <2>2, <2>3
<1>9. Texts'
  <2>1. contested' = contested
    BY <1>1
  <2>2. ASSUME NEW s \in Scopes \ (contested \cup cut'), NEW h \in DOMAIN disk[s],
               disk[s][h].text # "whole"
        PROVE  \E q \in Workers : <<s, h>> \in opened'[q]
    <3>1. PICK q \in Workers : <<s, h>> \in opened[q]
      BY <1>4, <2>2 DEF ScopesInv, FilesInv, Texts
    <3>2. q # p
      BY <1>4, <3>1
    <3> QED
      BY <1>4, <3>1, <3>2
  <2> QED
    BY <2>1, <2>2 DEF Texts
<1>10. LinksInv'
  <2> SUFFICES ASSUME NEW x \in Stories, Clean(x)' PROVE PairLinked(x)'
    BY DEF LinksInv, PairLinked
  <2>1. PairLinked(x) /\ Clean(x)
    BY <1>1, <1>4 DEF ScopesInv, LinksInv, Clean
  <2>2. k \notin {x, Epic}
    BY <1>1, <1>5 DEF Clean
  <2>3. \A q \in Workers :
          /\ Midway(worker'[q], x) <=> Midway(worker[q], x)
          /\ Midway(worker[q], x) =>
               /\ worker'[q].scope = worker[q].scope /\ worker'[q].page = worker[q].page
               /\ worker'[q].from = worker[q].from /\ worker'[q].to = worker[q].to
               /\ \A j \in {x, Epic} : j \in worker'[q].kin <=> j \in worker[q].kin
    BY <1>1, <1>6, <1>7, <2>2 DEF Midway, Advances
  <2>4. disk' = disk /\ registry' = registry
    BY <1>1
  <2> QED
    BY <2>1, <2>3, <2>4, PairFrame
<1>11. /\ registry' \in [Scopes -> Folders] /\ unlinked' \subseteq Scopes /\ Proper(disk')
       /\ \A q \in Workers \ {p} : opened'[q] \subseteq Writing(worker[q]) \X Folders
       /\ opened'[p] \subseteq Writing(u) \X Folders
  BY <1>1, <1>4 DEF ScopesInv, Shaped, ScopesTypeOK, HeldOpen, Proper
<1> QED
  BY <1>1, <1>4, <1>6, <1>7, <1>8, <1>9, <1>10, <1>11, Continuing

LEMMA RewriteKinKeepsInv ==
  ASSUME ScopesInv, NEW p \in Workers, RewriteKin(p)
  PROVE  ScopesInv'
BY FillKinKeepsInv, CutKinKeepsInv DEF RewriteKin


(* The row follows: the command's pairs are in order again.                *)
LEMMA RowLinks ==
  ASSUME ScopesInv, NEW p \in Workers, Register(p), NEW u \in Worker, Formed(u),
         u.pc \notin {"kin", "rewrite", "refill"}, worker' = [worker EXCEPT ![p] = u],
         registry' = [registry EXCEPT ![worker[p].scope] = RowOf(worker[p])], UNCHANGED unlinked
  PROVE  LinksInv'
<1> DEFINE w == worker[p]
<1>1. /\ w \in Worker /\ Formed(w) /\ Current(w) /\ w.pc = "kin" /\ w.kin = {}
      /\ UNCHANGED <<disk, audit, moves, contested, unlinked, cut>>
      /\ {w.scope} \cup Kin(w.scope) \subseteq Reach(w) /\ w.scope \in Scopes /\ w.to \in Folders
      /\ registry' = [registry EXCEPT ![w.scope] = w.to]
  BY ReachFacts DEF ScopesInv, Shaped, ScopesTypeOK, FilesInv, Register, RowOf, On, Worker
<1>2. Proper(disk) /\ unlinked \subseteq Scopes /\ registry \in [Scopes -> Folders]
  BY DEF ScopesInv, Shaped, ScopesTypeOK, Proper
<1>3. /\ registry' \in [Scopes -> Folders] /\ registry'[w.scope] = w.to
      /\ \A x \in Scopes : x # w.scope => registry'[x] = registry[x]
  BY <1>1, <1>2
<1>4. \A x \in Stories : PairLinked(x)'
  <2>1. worker'[p] = u /\ \A q \in Workers : q # p => worker'[q] = worker[q]
    BY GoingOn DEF ScopesInv
  <2>2. ~\E x \in Stories : Midway(u, x)
    BY DEF Midway
  <2>3. ASSUME NEW x \in Stories
        PROVE  PairLinked(x)'
    <3>1. PairLinked(x) /\ (Clean(x)' => Clean(x)) /\ x # Epic /\ x \in Scopes /\ Epic \in Scopes
      BY <1>1, KinFacts DEF ScopesInv, LinksInv, Clean
    <3>2. CASE w.scope \in {x, Epic}
      <4>1. Midway(w, x)
        BY <1>1, <3>2 DEF Midway
      <4>2. ASSUME Clean(x)'
            PROVE  Linked(x)' /\ \A q \in Workers : ~Midway(worker'[q], x)
        <5>1. \A q \in Workers : q # p => ~Midway(worker[q], x)
          BY <1>1, <3>1, <3>2, <4>2, OneRepairer
        <5>2. HalfLinked(w, x)
          BY <3>1, <4>1, <4>2 DEF PairLinked
        <5>3. Linked(x)'
          BY <1>1, <1>3, <3>1, <3>2, <5>2 DEF HalfLinked, Linked
        <5> QED
          BY <2>1, <2>2, <5>1, <5>3
      <4> QED
        BY <4>2 DEF PairLinked
    <3>3. CASE w.scope \notin {x, Epic}
      <4>1. ~Midway(w, x)
        BY <3>3 DEF Midway
      <4>2. \A q \in Workers :
              /\ Midway(worker'[q], x) <=> Midway(worker[q], x)
              /\ Midway(worker[q], x) => worker'[q] = worker[q]
        BY <2>1, <2>2, <4>1
      <4>3. /\ disk'[x] = disk[x] /\ disk'[Epic] = disk[Epic]
            /\ registry'[x] = registry[x] /\ registry'[Epic] = registry[Epic]
        BY <1>1, <1>3, <3>1, <3>3
      <4> QED
        BY <3>1, <4>2, <4>3, PairAway
    <3> QED
      BY <3>2, <3>3
  <2> QED
    BY <2>3
<1> QED
  BY <1>4 DEF LinksInv

LEMMA RegisterKeepsInv ==
  ASSUME ScopesInv, NEW p \in Workers, Register(p)
  PROVE  ScopesInv'
<1> DEFINE w == worker[p]
<1>1. /\ w \in Worker /\ Formed(w) /\ Current(w) /\ w.pc = "kin" /\ Writing(w) = {}
      /\ UNCHANGED <<disk, audit, moves, opened, contested, cut>>
      /\ w.scope \in Scopes /\ w.to \in Folders
      /\ \/ registry' = [registry EXCEPT ![w.scope] = RowOf(w)] /\ UNCHANGED unlinked
         \/ unlinked' = unlinked \cup {w.scope} /\ UNCHANGED registry
  BY DEF ScopesInv, Shaped, ScopesTypeOK, FilesInv, Register, On, Worker, Writing
<1>2. registry' \in [Scopes -> Folders] /\ unlinked' \subseteq Scopes
  BY <1>1 DEF ScopesInv, Shaped, ScopesTypeOK, RowOf
<1>4. ASSUME NEW u \in Worker, Formed(u), Continues(w, u), Current(u),
             u.pc \notin {"fill", "kin", "rewrite", "refill"},
             worker' = [worker EXCEPT ![p] = u]
      PROVE  ScopesInv'
  <2>1. LinksInv'
    <3>1. CASE registry' = [registry EXCEPT ![w.scope] = RowOf(w)] /\ UNCHANGED unlinked
      BY <1>4, <3>1, RowLinks
    <3>2. CASE unlinked' = unlinked \cup {w.scope} /\ UNCHANGED registry
      BY <1>1, <1>4, <3>2, GivingUp
    <3> QED
      BY <1>1, <3>1, <3>2
  <2> QED
    BY <1>1, <1>2, <1>4, <2>1, CalmStep
<1>5. w.force => ~(w.sweeping /\ w.verb = "activate")
  BY <1>1 DEF Formed
<1>6. CASE w.force
  <2> PICK u : u = [w EXCEPT !.pc = "audit"]
    OBVIOUS
  <2>1. u \in Worker /\ Advances(w, u, "audit")
    BY <1>1 DEF Worker, Advances
  <2>2. Formed(u) /\ Current(u)
    BY <1>1, <1>6, <2>1 DEF Formed, Current, Advances
  <2>3. worker' = [worker EXCEPT ![p] = u]
    BY <1>5, <1>6 DEF Register
  <2> QED
    BY <1>1, <1>4, <2>1, <2>2, <2>3, AdvancingFacts DEF Advances
<1>7. CASE w.sweeping /\ w.verb = "activate"
  <2> PICK e : e = Ended(p)
    OBVIOUS
  <2> PICK u : u = [e EXCEPT !.pc = "read", !.verb = "complete", !.scope = Epic,
                             !.from = "active", !.to = "completed"]
    OBVIOUS
  <2>1. e \in Worker /\ e.sweeping = w.sweeping /\ e.force = FALSE /\ e.id = 0
    BY EndedFacts DEF ScopesInv, Ended, Free
  <2>2. "complete" \in DOMAIN Transitions /\ {"active", "completed"} \subseteq Folders
    BY DEF Transitions, Folders
  <2>3. u \in Worker
    BY <2>1, <2>2, KinFacts DEF Worker
  <2>4. /\ u.pc = "read" /\ u.verb = "complete" /\ u.scope = Epic /\ u.id = 0
        /\ u.sweeping = w.sweeping /\ u.force = FALSE
    BY <2>1 DEF Worker
  <2>5. Formed(u) /\ Current(u) /\ Continues(w, u)
    BY <1>1, <1>7, <2>4 DEF Formed, Current, Continues, StatusOnly, Unlinking
  <2>6. worker' = [worker EXCEPT ![p] = u]
    BY <1>5, <1>7 DEF Register
  <2> QED
    BY <1>4, <2>3, <2>4, <2>5, <2>6
<1>8. CASE ~w.force /\ ~(w.sweeping /\ w.verb = "activate")
  <2> PICK e : e = Ended(p)
    OBVIOUS
  <2>1. worker' = [worker EXCEPT ![p] = e]
    BY <1>8 DEF Register
  <2> QED
    BY <1>1, <1>4, <2>1, EndingFacts
<1> QED
  BY <1>6, <1>7, <1>8

(* The entry of a command that has moved its file.                         *)
LEMMA RecordMoveKeepsInv ==
  ASSUME ScopesInv, NEW p \in Workers, RecordMove(p)
  PROVE  ScopesInv'
<1> DEFINE w == worker[p]
<1> PICK l : l = [id |-> w.id, verb |-> w.verb, scope |-> w.scope, in |-> w.to,
                  undoes |-> w.undoes]
  OBVIOUS
<1> PICK e : e = Ended(p)
  OBVIOUS
<1>1. /\ w \in Worker /\ Formed(w) /\ w.pc = "audit" /\ ~w.sweeping
      /\ UNCHANGED <<disk, registry, moves, opened, contested, unlinked, cut>>
      /\ Writing(w) = {} /\ worker' = [worker EXCEPT ![p] = e] /\ audit' = Append(audit, l)
  BY DEF ScopesInv, Shaped, ScopesTypeOK, RecordMove, On, Formed, histVars, Writing
<1>2. /\ l \in Line /\ l.id = w.id /\ l.verb = w.verb /\ l.scope = w.scope
      /\ l.undoes = w.undoes
  BY <1>1 DEF Line, Worker, Formed, Unlinking
<1>3. e \in Worker /\ Formed(e) /\ e.pc = "free" /\ Current(e)'
  BY <1>1, EndingFacts, EndedFacts DEF ScopesInv
<1>4. /\ worker' \in [Workers -> Worker] /\ worker'[p] = e
      /\ \A q \in Workers : q # p => worker'[q] = worker[q]
      /\ \A q \in Workers : Formed(worker'[q])
  BY <1>1, <1>3, GoingOn DEF ScopesInv
<1>5. audit \in Seq(Line) /\ moves \in Nat
  BY DEF ScopesInv, Shaped, ScopesTypeOK
<1> PICK n \in Nat : n = Len(audit) + 1
  BY <1>5
<1>6. /\ audit' \in Seq(Line) /\ DOMAIN audit' = DOMAIN audit \cup {n} /\ n \notin DOMAIN audit
      /\ audit'[n] = l /\ \A k \in DOMAIN audit : audit'[k] = audit[k]
  BY <1>1, <1>2, <1>5
<1>7. Shaped'
  <2>1. HeldOpen'
    BY <1>1, <1>4 DEF ScopesInv, Shaped, HeldOpen
  <2> QED
    BY <1>1, <1>4, <1>6, <2>1 DEF ScopesInv, Shaped, ScopesTypeOK
<1>8. FilesInv'
  <2>1. Placed' /\ Texts' /\ Open(p)'
    <3>1. Placed' /\ Texts'
      BY <1>1, TextsFrame DEF ScopesInv, FilesInv, Placed
    <3>2. Open(p)'
      BY <1>3, <1>4 DEF Open
    <3> QED
      BY <3>1, <3>2
  <2>2. Reach(e) \subseteq Reach(w)
    BY <1>3 DEF Reach
  <2> QED
    BY <1>1, <1>3, <2>1, <2>2, FilesFrame DEF ScopesInv
<1>9. UndoInv'
  <2>1. /\ w.id \in 0..moves /\ w.id # 0 /\ \A k \in DOMAIN audit : audit[k].id # w.id
        /\ \A q \in Workers : q # p /\ worker[q].pc # "free" /\ ~worker[q].sweeping => worker[q].id # w.id
        /\ moves <= MaxMoves
        /\ \A j, k \in DOMAIN audit : audit[j].id = audit[k].id => j = k
        /\ \A k \in DOMAIN audit : audit[k].id \in 1..moves \/ audit[k].id > MaxMoves
    BY <1>1 DEF ScopesInv, UndoInv, Numbered, On
  <2>2. Numbered'
    <3>1. ASSUME NEW q \in Workers, worker'[q].pc # "free"
          PROVE  /\ worker'[q].id \in 0..moves
                 /\ ~worker'[q].sweeping =>
                      /\ worker'[q].id # 0
                      /\ \A k \in DOMAIN audit' : audit'[k].id # worker'[q].id
                      /\ \A r \in Workers : worker'[r].pc # "free" /\ worker'[r].id = worker'[q].id
                                              => q = r
      <4>1. q # p /\ worker'[q] = worker[q]
        BY <1>3, <1>4, <3>1
      <4> QED
        BY <1>1, <1>2, <1>3, <1>4, <1>6, <2>1, <3>1, <4>1 DEF ScopesInv, UndoInv, Numbered, On
    <3>2. \A k \in DOMAIN audit' : audit'[k].id \in 1..moves \/ audit'[k].id > MaxMoves
      BY <1>2, <1>5, <1>6, <2>1
    <3>3. \A j, k \in DOMAIN audit' : audit'[j].id = audit'[k].id => j = k
      BY <1>2, <1>6, <2>1
    <3> QED
      BY <1>1, <2>1, <3>1, <3>2, <3>3 DEF Numbered, On
  <2>3. ASSUME NEW v, Undoes(v)
        PROVE  \E k \in DOMAIN audit' : v.undoes = {audit'[k].id} /\ v.scope = audit'[k].scope
    BY <1>6, <2>3 DEF Undoes
  <2>4. w.verb = "undo" => /\ Undoes(w)
                           /\ w.scope \notin contested =>
                                \A k \in DOMAIN audit :
                                  audit[k].verb = "undo" => audit[k].undoes # w.undoes
    BY <1>1 DEF ScopesInv, UndoInv, Undoing, On
  <2>5. Undoing'
    <3>1. ASSUME NEW k \in DOMAIN audit', audit'[k].verb = "undo"
          PROVE  \E j \in DOMAIN audit' : audit'[k].undoes = {audit'[j].id}
                                          /\ audit'[k].scope = audit'[j].scope
      <4>1. CASE k = n
        BY <1>2, <1>6, <2>3, <2>4, <3>1, <4>1 DEF Undoes
      <4>2. CASE k # n
        <5>1. k \in DOMAIN audit /\ audit'[k] = audit[k]
          BY <1>6, <4>2
        <5>2. Undoes(audit[k])
          BY <3>1, <5>1 DEF ScopesInv, UndoInv, Undoing
        <5> QED
          BY <2>3, <5>1, <5>2
      <4> QED
        BY <4>1, <4>2
    <3>2. ASSUME NEW q \in Workers, worker'[q].pc # "free", worker'[q].verb = "undo"
          PROVE  /\ \E j \in DOMAIN audit' : worker'[q].undoes = {audit'[j].id}
                                             /\ worker'[q].scope = audit'[j].scope
                 /\ worker'[q].scope \notin contested' =>
                      \A k \in DOMAIN audit' :
                        audit'[k].verb = "undo" => audit'[k].undoes # worker'[q].undoes
      <4>1. q # p /\ worker'[q] = worker[q]
        BY <1>3, <1>4, <3>2
      <4>2. /\ Undoes(worker[q])
            /\ worker[q].scope \notin contested =>
                 \A k \in DOMAIN audit :
                   audit[k].verb = "undo" => audit[k].undoes # worker[q].undoes
        BY <3>2, <4>1 DEF ScopesInv, UndoInv, Undoing, On
      <4>3. \E j \in DOMAIN audit' : worker'[q].undoes = {audit'[j].id}
                                     /\ worker'[q].scope = audit'[j].scope
        BY <2>3, <4>1, <4>2
      <4>4. ASSUME worker[q].scope \notin contested, l.verb = "undo", l.undoes = worker[q].undoes
            PROVE  FALSE
        <5>1. worker[q].scope = w.scope
          BY <1>2, <2>1, <2>4, <4>2, <4>4 DEF Undoes
        <5>2. worker[q] \in Worker /\ Formed(worker[q]) /\ worker[q].pc # "free"
          BY <3>2, <4>1 DEF ScopesInv, Shaped, ScopesTypeOK
        <5>3. w.scope \in Reach(w) /\ worker[q].scope \in Reach(worker[q])
          BY <1>1, <5>2, ReachFacts
        <5> QED
          BY <4>1, <4>4, <5>1, <5>3 DEF ScopesInv, FilesInv, Exclusive
      <4> QED
        BY <1>1, <1>2, <1>6, <4>1, <4>2, <4>3, <4>4
    <3> QED
      BY <3>1, <3>2 DEF Undoing, Undoes, On
  <2>6. ASSUME NEW k \in DOMAIN audit, l.verb = "undo", audit[k].verb = "undo",
               audit[k].undoes = l.undoes
        PROVE  l.scope \in contested /\ audit[k].scope \in contested
    <3>1. Undoes(audit[k])
      BY <2>6 DEF ScopesInv, UndoInv, Undoing
    <3>2. audit[k].scope = w.scope
      BY <1>2, <2>1, <2>4, <2>6, <3>1 DEF Undoes
    <3> QED
      BY <1>2, <2>4, <2>6, <3>2
  <2>7. UndoOnce'
    <3>1. contested' = contested
      BY <1>1
    <3>2. \A j, k \in DOMAIN audit :
            audit[j].verb = "undo" /\ audit[k].verb = "undo" /\ audit[j].undoes = audit[k].undoes
              => j = k \/ audit[j].scope \in contested
      BY DEF ScopesInv, UndoInv, UndoOnce
    <3> QED
      BY <1>6, <2>6, <3>1, <3>2 DEF UndoOnce
  <2> QED
    BY <2>2, <2>5, <2>7 DEF UndoInv
<1>10. LinksInv'
  BY <1>1, <1>3, QuietLinks DEF ScopesInv
<1> QED
  BY <1>7, <1>8, <1>9, <1>10 DEF ScopesInv

-----------------------------------------------------------------------------
LEMMA SweepsKeepInv ==
  ASSUME ScopesInv, NEW p \in Workers, SweepingOn(p)
  PROVE  ScopesInv'
<1> DEFINE w == worker[p]
<1>1. /\ w \in Worker /\ Formed(w) /\ w.pc = "sweep" /\ w.sweeping /\ ~w.force
      /\ UNCHANGED <<disk, registry, audit, moves, opened, histVars>>
  BY DEF ScopesInv, Shaped, ScopesTypeOK, SweepingOn, SweepStory, SweepEpic, EndSweep, Sweeping,
         On, Formed
<1>2. ASSUME NEW u \in Worker, worker' = [worker EXCEPT ![p] = u],
             u.sweeping = w.sweeping, u.force = w.force, u.id = w.id,
             \/ u.pc = "sweep" /\ u.verb = w.verb /\ u.scope = w.scope
             \/ /\ u.pc = "read" /\ u.verb \in {"complete", "activate"}
                /\ u.verb = "activate" => u.scope = Epic,
             u.pc = "read" /\ u.scope = Epic =>
               \A s \in Stories \ contested : DOMAIN disk[s] \subseteq Finished
      PROVE  ScopesInv'
  <2>1. Formed(u) /\ Current(u) /\ Continues(w, u)
    BY <1>1, <1>2 DEF Formed, Current, Continues, StatusOnly
  <2> QED
    BY <1>1, <1>2, <2>1, QuietStep
<1>3. "complete" \in DOMAIN Transitions /\ "activate" \in DOMAIN Transitions
  BY DEF Transitions
<1>4. CASE SweepStory(p)
  <2> PICK c \in w.cohort, epics \in SUBSET Folders :
        LET rest == [w EXCEPT !.cohort = @ \ {c}, !.epics = @ \cup epics]
        IN worker' = [worker EXCEPT ![p] =
             IF c[2] = "active"
             THEN [rest EXCEPT !.pc = "read", !.verb = "complete", !.scope = c[1],
                               !.from = "active", !.to = "completed"]
             ELSE rest]
    BY <1>4 DEF SweepStory
  <2> PICK rest : rest = [w EXCEPT !.cohort = @ \ {c}, !.epics = @ \cup epics]
    OBVIOUS
  <2>1. c[1] \in Stories /\ c[1] \in Scopes /\ c[1] # Epic
    BY <1>1, KinFacts DEF Worker
  <2>2. /\ rest \in Worker /\ rest.pc = "sweep" /\ rest.verb = w.verb /\ rest.scope = w.scope
        /\ rest.sweeping = w.sweeping /\ rest.force = w.force /\ rest.id = w.id
    BY <1>1 DEF Worker
  <2>3. CASE c[2] = "active"
    <3> PICK u : u = [rest EXCEPT !.pc = "read", !.verb = "complete", !.scope = c[1],
                                  !.from = "active", !.to = "completed"]
      OBVIOUS
    <3>1. {"active", "completed"} \subseteq Folders
      BY DEF Folders
    <3>2. /\ u \in Worker /\ u.pc = "read" /\ u.verb = "complete" /\ u.scope = c[1]
          /\ u.sweeping = w.sweeping /\ u.force = w.force /\ u.id = w.id
      BY <1>3, <2>1, <2>2, <3>1 DEF Worker
    <3>3. worker' = [worker EXCEPT ![p] = u]
      BY <2>3
    <3> QED
      BY <1>2, <2>1, <3>2, <3>3
  <2>4. CASE c[2] # "active"
    <3>1. worker' = [worker EXCEPT ![p] = rest]
      BY <2>4
    <3> QED
      BY <1>2, <2>2, <3>1
  <2> QED
    BY <2>3, <2>4
<1>5. CASE SweepEpic(p)
  <2>1. PICK f \in w.epics :
        /\ Ready(f)
        /\ LET rest == [w EXCEPT !.epics = @ \ {f}]
               verb == IF f = "pending" THEN "activate" ELSE "complete"
           IN worker' = [worker EXCEPT ![p] =
                IF f \in {"pending", "active"}
                THEN [rest EXCEPT !.pc = "read", !.verb = verb, !.scope = Epic,
                                  !.from = f, !.to = Transitions[verb].to]
                ELSE rest]
    BY <1>5 DEF SweepEpic
  <2>2. PICK rest : rest = [w EXCEPT !.epics = @ \ {f}]
    OBVIOUS
  <2>3. PICK verb \in {"activate", "complete"} :
        verb = IF f = "pending" THEN "activate" ELSE "complete"
    OBVIOUS
  <2>4. worker' = [worker EXCEPT ![p] =
             IF f \in {"pending", "active"}
             THEN [rest EXCEPT !.pc = "read", !.verb = verb, !.scope = Epic,
                               !.from = f, !.to = Transitions[verb].to]
             ELSE rest]
    BY <2>1, <2>2, <2>3
  <2>5. f \in Folders /\ Transitions[verb].to \in Folders
    BY <1>1, <1>3, <2>1, TransitionFacts DEF Worker
  <2>6. /\ rest \in Worker /\ rest.pc = "sweep" /\ rest.verb = w.verb /\ rest.scope = w.scope
        /\ rest.sweeping = w.sweeping /\ rest.force = w.force /\ rest.id = w.id
    BY <1>1, <2>2 DEF Worker
  <2>7. ASSUME NEW s \in Stories \ contested
        PROVE  DOMAIN disk[s] \subseteq Finished
    <3>1. PICK g \in Finished : Has(s, g)
      BY <2>1 DEF Ready, ChildrenSettled
    <3>2. PICK h \in Folders : DOMAIN disk[s] = {h}
      BY KinFacts DEF ScopesInv, FilesInv, Placed
    <3> QED
      BY <3>1, <3>2 DEF Has
  <2>8. CASE f \in {"pending", "active"}
    <3>0. PICK to \in Folders : to = Transitions[verb].to
      BY <2>5
    <3> PICK u : u = [rest EXCEPT !.pc = "read", !.verb = verb, !.scope = Epic,
                                  !.from = f, !.to = to]
      OBVIOUS
    <3>1. verb \in DOMAIN Transitions \cup {"undo"} /\ Epic \in Scopes
      BY <1>3, KinFacts
    <3>2. u \in Worker
      BY <2>5, <2>6, <3>1 DEF Worker
    <3>3. /\ u.pc = "read" /\ u.verb = verb /\ u.scope = Epic
          /\ u.sweeping = w.sweeping /\ u.force = w.force /\ u.id = w.id
      BY <2>6 DEF Worker
    <3>4. worker' = [worker EXCEPT ![p] = u]
      BY <2>4, <2>8, <3>0
    <3> QED
      BY <1>2, <2>7, <3>2, <3>3, <3>4
  <2>9. CASE f \notin {"pending", "active"}
    <3>1. worker' = [worker EXCEPT ![p] = rest]
      BY <2>4, <2>9
    <3> QED
      BY <1>2, <2>6, <3>1
  <2> QED
    BY <2>8, <2>9
<1>6. CASE EndSweep(p)
  <2> PICK e : e = Free
    OBVIOUS
  <2>1. worker' = [worker EXCEPT ![p] = e]
    BY <1>6 DEF EndSweep
  <2> QED
    BY <1>1, <2>1, FreeingFacts, QuietStep
<1> QED
  BY <1>4, <1>5, <1>6 DEF SweepingOn

(* The pairs a killed command was repairing are given up.                  *)
LEMMA KillsKeepInv ==
  ASSUME ScopesInv, NEW p \in Workers, KillWorker(p)
  PROVE  ScopesInv'
<1> DEFINE w == worker[p]
<1> PICK e : e = Free
  OBVIOUS
<1>1. /\ w \in Worker /\ w.pc # "free" /\ worker' = [worker EXCEPT ![p] = e]
      /\ UNCHANGED <<disk, registry, audit, moves, contested>>
      /\ unlinked \subseteq unlinked'
      /\ w.pc \in {"kin", "rewrite", "refill"} => w.scope \in unlinked'
      /\ unlinked \subseteq Scopes /\ unlinked' \subseteq Scopes
      /\ registry \in [Scopes -> Folders] /\ Proper(disk)
      /\ opened \in [Workers -> SUBSET (Scopes \X Folders)] /\ cut \subseteq Scopes
      /\ LeaveCut(p)
  BY DEF ScopesInv, Shaped, ScopesTypeOK, KillWorker, On, Proper, Worker
<1>2. e \in Worker /\ Formed(e) /\ e.pc = "free" /\ Continues(w, e) /\ Current(e)'
  BY <1>1, FreeingFacts
<1>3. worker'[p] = e /\ \A q \in Workers : q # p => worker'[q] = worker[q]
  BY <1>1, <1>2, GoingOn DEF ScopesInv
<1>4. /\ cut \subseteq cut' /\ cut' \subseteq Scopes /\ \A x \in opened[p] : x[1] \in cut'
      /\ opened' \in [Workers -> SUBSET (Scopes \X Folders)]
      /\ opened'[p] = {} /\ \A q \in Workers : q # p => opened'[q] = opened[q]
  BY <1>1 DEF LeaveCut
<1>5. LinksInv'
  BY <1>1, <1>2, <1>4, GivingUp
<1>6. Texts'
  <2>1. ASSUME NEW s \in Scopes \ (contested \cup cut'), NEW h \in DOMAIN disk[s],
               disk[s][h].text # "whole"
        PROVE  \E q \in Workers : <<s, h>> \in opened'[q]
    <3>1. PICK q \in Workers : <<s, h>> \in opened[q]
      BY <1>4, <2>1 DEF ScopesInv, FilesInv, Texts
    <3>2. q # p
      BY <1>4, <2>1, <3>1
    <3> QED
      BY <1>4, <3>1, <3>2
  <2> QED
    BY <1>1, <2>1 DEF Texts
<1>7. Placed' /\ Proper(disk') /\ registry' \in [Scopes -> Folders] /\ Open(p)'
  <2>1. Open(p)'
    BY <1>2, <1>3 DEF Open
  <2> QED
    BY <1>1, <2>1 DEF ScopesInv, FilesInv, Placed
<1>8. /\ \A q \in Workers \ {p} : opened'[q] \subseteq Writing(worker[q]) \X Folders
      /\ opened'[p] \subseteq Writing(e) \X Folders
  BY <1>4 DEF ScopesInv, Shaped, HeldOpen
<1> QED
  BY <1>1, <1>2, <1>4, <1>5, <1>6, <1>7, <1>8, Continuing

LEMMA NextKeepsInv ==
  ASSUME ScopesInv, [ScopesNext]_scopeVars
  PROVE  ScopesInv'
<1>1. ASSUME NEW p \in Workers, MovingOn(p)
      PROVE  ScopesInv'
  BY <1>1, ReadScopeKeepsInv, EmptyScopeKeepsInv, WriteScopeKeepsInv, MoveScopeKeepsInv,
     RecordMoveKeepsInv DEF MovingOn
<1>2. ASSUME NEW p \in Workers, Relinking(p)
      PROVE  ScopesInv'
  BY <1>2, ReadKinKeepsInv, SkipKinKeepsInv, EmptyKinKeepsInv, RewriteKinKeepsInv,
     RegisterKeepsInv DEF Relinking
<1>3. CASE UNCHANGED scopeVars
  <2>1. UNCHANGED <<disk, registry, audit, worker, moves, opened, contested, unlinked, cut>>
    BY <1>3 DEF scopeVars, histVars
  <2>2. Shaped'
    BY <2>1 DEF ScopesInv, Shaped, ScopesTypeOK, HeldOpen
  <2>3. FilesInv'
    BY <2>1 DEF ScopesInv, FilesInv, Exclusive, Placed, Texts, Current, Open, Has
  <2>4. UndoInv' /\ LinksInv'
    BY <2>1 DEF ScopesInv, UndoInv, Numbered, Undoing, UndoOnce, Undoes, On, LinksInv,
                PairLinked, Clean, Midway, Linked, HalfLinked
  <2> QED
    BY <2>2, <2>3, <2>4 DEF ScopesInv
<1> QED
  BY <1>1, <1>2, <1>3, StartsKeepInv, SweepsKeepInv, KillsKeepInv DEF ScopesNext

LEMMA InitScopesInv ==
  ASSUME ScopesInit
  PROVE  ScopesInv
<1> DEFINE Entry(id, verb, s, f, undoes) ==
      [id |-> MaxMoves + id, verb |-> verb, scope |-> s, in |-> f, undoes |-> undoes]
<1>0. PICK home \in [Scopes -> Begun], demoted \in SUBSET Stories :
        LET linked == [s \in Scopes |-> IF s \in demoted THEN "pending" ELSE home[s]]
            line(id, verb, s, f, undoes) ==
              [id |-> MaxMoves + id, verb |-> verb, scope |-> s, in |-> f, undoes |-> undoes]
        IN /\ disk = [s \in Scopes |-> [f \in {home[s]} |->
                [status |-> StatusIn(f), links |-> [k \in Kin(s) |-> linked[k]],
                 text |-> "whole"]]]
           /\ registry = linked /\ unlinked = demoted
           /\ \/ demoted = {} /\ audit = <<>>
              \/ \E s \in demoted : audit = <<line(1, "demote", s, "proposed", {})>>
              \/ \E s \in demoted :
                   audit = <<line(1, "demote", s, "proposed", {}),
                             line(2, "undo", s, "pending", {MaxMoves + 1}),
                             line(3, "demote", s, "proposed", {})>>
  BY DEF ScopesInit
<1> PICK linked : linked = [s \in Scopes |-> IF s \in demoted THEN "pending" ELSE home[s]]
  OBVIOUS
<1>1. /\ disk = [s \in Scopes |-> [f \in {home[s]} |->
               [status |-> StatusIn(f), links |-> [k \in Kin(s) |-> linked[k]],
                 text |-> "whole"]]]
      /\ registry = linked /\ unlinked = demoted
      /\ \/ audit = <<>>
         \/ \E s \in Stories : audit = <<Entry(1, "demote", s, "proposed", {})>>
         \/ \E s \in Stories :
              audit = <<Entry(1, "demote", s, "proposed", {}),
                        Entry(2, "undo", s, "pending", {MaxMoves + 1}),
                        Entry(3, "demote", s, "proposed", {})>>
  BY <1>0
<1>2. /\ worker = [p \in Workers |-> Free] /\ moves = 0 /\ contested = {} /\ cut = {}
      /\ opened = [p \in Workers |-> {}]
  BY DEF ScopesInit
<1>3. Begun \subseteq Folders /\ MaxMoves \in Nat /\ linked \in [Scopes -> Folders]
  BY <1>1, ScopesAssumption DEF Folders
<1>4. \A s \in Scopes :
        /\ home[s] \in Folders /\ DOMAIN disk[s] = {home[s]}
        /\ disk[s][home[s]] = [status |-> StatusIn(home[s]),
                               links |-> [k \in Kin(s) |-> linked[k]], text |-> "whole"]
  BY <1>1, <1>3
<1>5. \A s \in Scopes : /\ [k \in Kin(s) |-> linked[k]] \in [Kin(s) -> Folders]
                        /\ [k \in Kin(s) |-> linked[k]] \in Links
  BY <1>3, KinFacts
<1>6. \A f \in Folders : StatusIn(f) \in Statuses
  BY DEF StatusIn, Folders, Statuses
<1>7. Proper(disk)
  <2>1. DOMAIN disk = Scopes
    BY <1>1
  <2>2. ASSUME NEW s \in Scopes
        PROVE  /\ DOMAIN disk[s] \subseteq Folders
               /\ \A f \in DOMAIN disk[s] :
                    disk[s][f] \in Content /\ disk[s][f].links \in [Kin(s) -> Folders]
    <3>1. home[s] \in Folders /\ DOMAIN disk[s] = {home[s]}
      BY <1>4
    <3>2. PICK links, status : /\ links = [k \in Kin(s) |-> linked[k]]
                               /\ status = StatusIn(home[s])
                               /\ disk[s][home[s]] =
                                    [status |-> status, links |-> links, text |-> "whole"]
      BY <1>4
    <3>3. links \in [Kin(s) -> Folders] /\ links \in Links /\ status \in Statuses
      BY <1>5, <1>6, <3>1, <3>2
    <3>4. [status |-> status, links |-> links, text |-> "whole"] \in Content
      BY <3>3 DEF Content
    <3> QED
      BY <3>1, <3>2, <3>3, <3>4
  <2> QED
    BY <2>1, <2>2 DEF Proper
<1>8. audit \in Seq(Line)
  <2>1. ASSUME NEW s \in Stories
        PROVE  /\ Entry(1, "demote", s, "proposed", {}) \in Line
               /\ Entry(2, "undo", s, "pending", {MaxMoves + 1}) \in Line
               /\ Entry(3, "demote", s, "proposed", {}) \in Line
    BY <1>3, KinFacts DEF Line, Folders
  <2> HIDE DEF Entry
  <2>2. ASSUME NEW a \in Line, NEW b \in Line, NEW c \in Line
        PROVE  <<a>> \in Seq(Line) /\ <<a, b, c>> \in Seq(Line)
    OBVIOUS
  <2>3. CASE audit = <<>>
    BY <2>3
  <2>4. CASE \E s \in Stories : audit = <<Entry(1, "demote", s, "proposed", {})>>
    BY <2>1, <2>2, <2>4
  <2>5. ASSUME NEW s \in Stories,
               audit = <<Entry(1, "demote", s, "proposed", {}),
                         Entry(2, "undo", s, "pending", {MaxMoves + 1}),
                         Entry(3, "demote", s, "proposed", {})>>
        PROVE  audit \in Seq(Line)
    BY <2>1, <2>2, <2>5
  <2> QED
    BY <1>1, <2>3, <2>4, <2>5
<1> PICK e : e = Free
  OBVIOUS
<1>9. /\ \A p \in Workers : worker[p] = e
       /\ worker \in [Workers -> Worker] /\ e.pc = "free" /\ Formed(e) /\ Reach(e) = {}
  BY <1>2, FreeFacts
<1>10. Shaped
  <2>1. HeldOpen
    BY <1>2 DEF HeldOpen
  <2> QED
    BY <1>1, <1>2, <1>3, <1>7, <1>8, <1>9, <2>1, KinFacts DEF Shaped, ScopesTypeOK, Proper
<1>11. FilesInv
  <2>1. Texts
    <3> SUFFICES ASSUME NEW s \in Scopes, NEW f \in DOMAIN disk[s]
                 PROVE  disk[s][f].text = "whole"
      BY DEF Texts
    <3>1. f = home[s]
      BY <1>4
    <3> PICK links, status : disk[s][home[s]] = [status |-> status, links |-> links, text |-> "whole"]
      BY <1>4
    <3> QED
      BY <3>1
  <2> QED
    BY <1>4, <1>9, <2>1 DEF FilesInv, Exclusive, Placed, Current, Open
<1>12. UndoInv
  <2>1. \A j, k \in DOMAIN audit : audit[j].id = audit[k].id => j = k
    BY <1>1, <1>3
  <2>2. \A k \in DOMAIN audit : audit[k].id > MaxMoves
    BY <1>1, <1>3
  <2>3. Numbered
    BY <1>2, <1>3, <1>9, <2>1, <2>2 DEF Numbered, On
  <2>4. \A k \in DOMAIN audit : audit[k].verb = "undo" => Undoes(audit[k])
    BY <1>1 DEF Undoes
  <2>5. Undoing
    BY <1>9, <2>4 DEF Undoing, On
  <2>6. UndoOnce
    BY <1>1 DEF UndoOnce
  <2> QED
    BY <2>3, <2>5, <2>6 DEF UndoInv
<1>13. LinksInv
  <2> SUFFICES ASSUME NEW s \in Stories PROVE PairLinked(s)
    BY DEF LinksInv
  <2>1. \A p \in Workers : ~Midway(worker[p], s)
    BY <1>9 DEF Midway
  <2>2. s \in Scopes /\ Epic \in Scopes /\ Epic \in Kin(s) /\ s \in Kin(Epic) /\ Epic \notin Stories
    BY KinFacts
  <2>3. Clean(s) => linked[s] = home[s] /\ linked[Epic] = home[Epic]
    BY <1>1, <2>2 DEF Clean
  <2>4. Clean(s) => Linked(s)
    BY <1>1, <1>4, <2>2, <2>3 DEF Linked
  <2> QED
    BY <2>1, <2>4 DEF PairLinked
<1> QED
  BY <1>10, <1>11, <1>12, <1>13 DEF ScopesInv

-----------------------------------------------------------------------------
(* What a command may rely on between its steps holds throughout, for any  *)
(* number of stories, processes and commands (scripts/scope_lifecycle.py,  *)
(* scope_demote.py, scope_undo.py, swarm_complete_cohort.py).              *)
THEOREM ScopesInductive == ScopesSpec => []ScopesInv
BY InitScopesInv, NextKeepsInv, PTL DEF ScopesSpec

(* Files, rows, entries and commands are of their types.                   *)
THEOREM ScopesTypes == ScopesSpec => []ScopesTypeOK
<1>1. ScopesInv => ScopesTypeOK
  BY DEF ScopesInv, Shaped
<1> QED
  BY <1>1, ScopesInductive, PTL

(* A scope keeps its file and, but where two commands met, one file only,  *)
(* whose text write_text leaves empty only while it runs and where it was  *)
(* cut short (run_transition of scripts/scope_lifecycle.py, and the        *)
(* write_text and Path.replace of scope_demote.py and scope_undo.py).      *)
THEOREM ScopesStayWhole == ScopesSpec => []NoScopeLost
<1>1. ScopesInv => NoScopeLost
  <2> SUFFICES ASSUME ScopesInv, NEW s \in Scopes
               PROVE  /\ DOMAIN disk[s] # {}
                      /\ s \notin contested => Cardinality(DOMAIN disk[s]) = 1
                      /\ s \notin contested \cup cut =>
                           \A f \in DOMAIN disk[s] :
                             \/ disk[s][f].text = "whole"
                             \/ \E p \in Workers : <<s, f>> \in opened[p]
    BY DEF NoScopeLost
  <2>1. DOMAIN disk[s] # {} /\ (s \notin contested => Cardinality(DOMAIN disk[s]) = 1)
    BY FS_Singleton DEF ScopesInv, FilesInv, Placed
  <2> QED
    BY <2>1 DEF ScopesInv, FilesInv, Texts
<1> QED
  BY <1>1, ScopesInductive, PTL

(* When every command has ended, epic and story name each other's folders  *)
(* (update_decomposed_parent_back_references and its sibling, and          *)
(* _sync_project_definition_after_scope_move of the same script), but for  *)
(* the scopes where a repair was cut short or passed over a failure.       *)
THEOREM LinksComeRight == ScopesSpec => []LinksFollow
<1>1. ScopesInv => LinksFollow
  BY DEF ScopesInv, LinksInv, PairLinked, LinksFollow, Linked, Clean, Midway, On
<1> QED
  BY <1>1, ScopesInductive, PTL

(* An entry is undone once: scripts/scope_undo.py refuses one that an      *)
(* entry undoes, although it records its own only after the move.          *)
THEOREM UndoneOnce == ScopesSpec => []UndoOnce
<1>1. ScopesInv => UndoOnce
  BY DEF ScopesInv, UndoInv
<1> QED
  BY <1>1, ScopesInductive, PTL

(* A sweep completes the epic after its stories (_all_children_settled of  *)
(* scripts/swarm_complete_cohort.py).                                      *)
THEOREM EpicCompletedLast == ScopesSpec => EpicLast
<1>1. ScopesInv =>
        \A p \in Workers :
          On(p, "move") /\ worker[p].sweeping /\ worker[p].scope = Epic
          /\ worker[p].verb = "complete" /\ disk' # disk =>
            \A s \in Stories \ contested : DOMAIN disk[s] \subseteq Finished
  BY DEF ScopesInv, FilesInv, Current, On
<1> QED
  BY <1>1, ScopesInductive, PTL DEF EpicLast
=============================================================================
