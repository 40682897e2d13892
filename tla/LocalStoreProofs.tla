-------------------------- MODULE LocalStoreProofs --------------------------
(***************************************************************************)
(* What a store in LocalStorage keeps through failed writes, the death of  *)
(* the process and crashes of the machine: for every finite set of parts   *)
(* and every number of operations and of changes that wait for the medium. *)
(***************************************************************************)
EXTENDS LocalStore, WellFoundedInduction, TLAPS

-----------------------------------------------------------------------------
(* The invariant. *)

\* The passwords of runs; Torn is not one of them.
Passwords == 0..MaxRuns
Records == [Parts -> Passwords]

Disk == [parts : Records, meta : Records, shards : SUBSET Parts]

DirChange == [what : {"shard"}, part : Parts, value : {Absent}] \cup
             [what : {"meta"}, part : {MetaObject}, value : Records] \cup
             [what : {"part"}, part : Parts, value : Passwords]

WriterStates == {"none", "start", "open", "synced", "renamed", "done", "failed"}

Operation == [kind : {"none", "ok", "backup", "delete", "gc"},
              phase : {"idle", "parts", "meta", "cleanup"},
              target : Records, todo : SUBSET Parts, drop : SUBSET Parts]

\* There is a latest change.
Timed(f) == /\ \E n \in Nat : DOMAIN f \subseteq 1..n
            /\ \A i \in DOMAIN f : f[i] \in DirChange

TypeOK == /\ ordered \in BOOLEAN
          /\ now \in Disk
          /\ stable \in Disk
          /\ Timed(pending)
          /\ runs \in Passwords
          /\ op \in Operation
          /\ writer \in [Objects -> WriterStates]
          /\ syncOK \in BOOLEAN

Ended == {"none", "done", "failed"}

\* Who writes when: the parts first, then ".tsync", and nobody after that.
PhaseInv ==
    /\ op.phase \in {"idle", "cleanup"} => \A o \in Objects : writer[o] \in Ended
    /\ op.phase = "parts" => /\ writer[MetaObject] = "none"
                             /\ \A p \in Parts \ op.todo : writer[p] = "none"
    /\ op.phase = "meta" => \A p \in Parts : writer[p] = IF p \in op.todo THEN "done" ELSE "none"

MetaRenamed == op.phase = "meta" /\ writer[MetaObject] \in {"renamed", "done"}

\* What the operation is about to record is there, or was recorded before; what it is about
\* to upload is not recorded, and what it is about to delete will not be.
TargetInv ==
    /\ op.phase # "idle" => \A p \in op.drop : op.target[p] = Absent
    /\ op.phase \in {"parts", "meta"} =>
          \A p \in Parts \ op.todo : op.target[p] \in {Absent, now.meta[p]}
    /\ op.phase \in {"parts", "meta"} /\ ~ MetaRenamed =>
          \A p \in op.todo : now.meta[p] = Absent
    /\ op.phase = "cleanup" \/ MetaRenamed => now.meta = op.target

\* A part that was written is there.
WrittenInv ==
    op.phase \in {"parts", "meta"} =>
        \A p \in op.todo :
            /\ writer[p] \in {"open", "synced", "renamed", "done"} => p \in now.shards
            /\ writer[p] \in {"renamed", "done"} => now.parts[p] = op.target[p]

\* What processes see is what all changes make of the medium.
SeenInv == now = Kept(DOMAIN pending)

\* A part is in its directory.
InDirs == \A p \in Parts : now.parts[p] # Absent => p \in now.shards

\* Every part that ".tsync" names is there, and so is its directory.
Sound(disk) == \A p \in Named(disk.meta) : disk.parts[p] = disk.meta[p] /\ p \in disk.shards

\* The changes an ordered file system may keep.
Prefixes == {I \in SUBSET DOMAIN pending : \A i \in I, j \in DOMAIN pending : j < i => j \in I}

\* An ordered file system is sound at every time a crash may throw it back to.
OrderInv == ordered => \A I \in Prefixes : Sound(Kept(I))

Waiting(what, p) == Of(DOMAIN pending, what, p) # {}

\* Where every syncDir worked nothing waits for the medium that a record in ".tsync"
\* depends on, except while ".tsync" itself does.
SyncInv ==
    syncOK => /\ \A p \in Named(now.meta) : ~ Waiting("part", p)
              /\ writer[MetaObject] # "renamed" =>
                    /\ ~ Waiting("meta", MetaObject)
                    /\ \A p \in Named(now.meta) : ~ Waiting("shard", p)
              /\ op.phase \in {"parts", "meta"} =>
                    \A p \in op.todo : writer[p] = "done" => ~ Waiting("part", p)

IInv == /\ TypeOK
        /\ PhaseInv
        /\ TargetInv
        /\ WrittenInv
        /\ InDirs
        /\ SeenInv
        /\ OrderInv
        /\ SyncInv

\* A store's directory that may be lost without anything after it is empty on the medium,
\* and nobody writes into one that is not there.
RootInv ==
    /\ root \in {"absent", "new", "durable"}
    /\ root = "absent" \/ (ordered /\ root = "new") => stable = EmptyDisk
    /\ root = "absent" => \A o \in Objects : writer[o] \notin {"open", "synced", "renamed"}

-----------------------------------------------------------------------------
(* Changes and what is left of them, of any changes f since the disk d. *)

OfIn(f, I, what, p) == {i \in I : f[i].what = what /\ f[i].part = p}

LastIn(f, I, before) == IF I = {} THEN before ELSE f[Max(I)].value

KeptOf(f, d, I) == [parts  |-> [p \in Parts |-> LastIn(f, OfIn(f, I, "part", p), d.parts[p])],
                    meta   |-> LastIn(f, OfIn(f, I, "meta", MetaObject), d.meta),
                    shards |-> d.shards \cup {p \in Parts : OfIn(f, I, "shard", p) # {}}]

\* Kept speaks of the changes that wait since the medium was last written.
LEMMA KeptIsOf ==
    ASSUME NEW I
    PROVE  Kept(I) = KeptOf(pending, stable, I)
BY DEF Kept, KeptOf, Of, OfIn, LastValue, LastIn

\* A set of numbers that is not empty has a smallest element.
LEMMA SmallestNumber ==
    ASSUME NEW T, T \subseteq Nat, T # {}
    PROVE  \E x \in T : \A y \in T : x <= y
<1>1. \E x \in T : \A y \in T : ~ (<<y, x>> \in OpToRel(<, Nat))
  BY NatLessThanWellFounded, WFMin
<1>2. \A x, y \in Nat : ~ (<<y, x>> \in OpToRel(<, Nat)) => x <= y
  BY DEF OpToRel
<1>3. QED
  BY <1>1, <1>2

\* A set of times has a latest one: Max, of which LastValue takes the change.
LEMMA LatestTime ==
    ASSUME NEW J, NEW n \in Nat, J \subseteq 0..n, J # {}
    PROVE  /\ Max(J) \in J
           /\ \A j \in J : j <= Max(J)
<1> DEFINE B == {m \in Nat : \A j \in J : j <= m}
<1>1. n \in B
  OBVIOUS
<1>2. PICK m \in B : \A y \in B : m <= y
  <2>1. B \subseteq Nat /\ B # {}
    BY <1>1
  <2>2. QED
    BY <2>1, SmallestNumber
<1>3. m \in J
  <2>1. SUFFICES ASSUME m \notin J PROVE FALSE
    OBVIOUS
  <2>2. PICK j \in J : TRUE
    OBVIOUS
  <2>3. m \in Nat /\ m > 0 /\ m - 1 \in Nat
    BY <2>1, <2>2
  <2>4. \A i \in J : i <= m - 1
    BY <2>1, <2>3
  <2>5. m - 1 \in B
    BY <2>3, <2>4
  <2>6. QED
    BY <1>2, <2>3, <2>5
<1>4. m \in J /\ \A j \in J : m >= j
  BY <1>2, <1>3
<1>5. Max(J) \in J /\ \A j \in J : Max(J) >= j
  BY <1>4 DEF Max
<1>6. QED
  BY <1>5

\* The latest of some times that are after all others is the latest of all.
LEMMA LatestOfBoth ==
    ASSUME NEW J, NEW K, NEW n \in Nat, J \cup K \subseteq 0..n, J # {},
           \A i \in J, j \in K : j < i
    PROVE  Max(J \cup K) = Max(J)
<1>1. Max(J) \in J /\ \A j \in J : j <= Max(J)
  BY LatestTime
<1>2. Max(J \cup K) \in J \cup K /\ \A j \in J \cup K : j <= Max(J \cup K)
  BY LatestTime
<1>3. Max(J) \in Nat /\ Max(J \cup K) \in Nat
  BY <1>1, <1>2
<1>4. Max(J \cup K) <= Max(J)
  BY <1>1, <1>2, <1>3
<1>5. Max(J) <= Max(J \cup K)
  BY <1>1, <1>2
<1>6. QED
  BY <1>3, <1>4, <1>5

\* The entry a change is of, and what it leaves there.
LEMMA ChangeTypes ==
    ASSUME NEW c \in DirChange
    PROVE  /\ c.what \in {"shard", "meta", "part"}
           /\ c.what \in {"shard", "part"} => c.part \in Parts
           /\ c.what = "meta" => c.part = MetaObject /\ c.value \in Records
           /\ c.what = "part" => c.value \in Passwords
BY DEF DirChange

\* A crash, or an fsync, leaves a disk.
LEMMA KeptType ==
    ASSUME NEW f, Timed(f), NEW d \in Disk, NEW I \in SUBSET DOMAIN f
    PROVE  KeptOf(f, d, I) \in Disk
<1>1. PICK n \in Nat : DOMAIN f \subseteq 1..n
  BY DEF Timed
<1>2. ASSUME NEW p \in Parts
      PROVE  LastIn(f, OfIn(f, I, "part", p), d.parts[p]) \in Passwords
  <2> DEFINE J == OfIn(f, I, "part", p)
  <2>1. CASE J = {}
    BY <2>1 DEF LastIn, Disk, Records
  <2>2. CASE J # {}
    <3>1. J \subseteq 0..n
      BY <1>1 DEF OfIn
    <3>2. Max(J) \in J
      BY <2>2, <3>1, LatestTime
    <3>3. f[Max(J)] \in DirChange /\ f[Max(J)].what = "part"
      BY <3>2 DEF OfIn, Timed
    <3>4. f[Max(J)].value \in Passwords
      BY <3>3, ChangeTypes
    <3>5. QED
      BY <2>2, <3>4 DEF LastIn
  <2>3. QED
    BY <2>1, <2>2
<1>3. LastIn(f, OfIn(f, I, "meta", MetaObject), d.meta) \in Records
  <2> DEFINE J == OfIn(f, I, "meta", MetaObject)
  <2>1. CASE J = {}
    BY <2>1 DEF LastIn, Disk
  <2>2. CASE J # {}
    <3>1. J \subseteq 0..n
      BY <1>1 DEF OfIn
    <3>2. Max(J) \in J
      BY <2>2, <3>1, LatestTime
    <3>3. f[Max(J)] \in DirChange /\ f[Max(J)].what = "meta"
      BY <3>2 DEF OfIn, Timed
    <3>4. f[Max(J)].value \in Records
      BY <3>3, ChangeTypes
    <3>5. QED
      BY <2>2, <3>4 DEF LastIn
  <2>3. QED
    BY <2>1, <2>2
<1>4. [p \in Parts |-> LastIn(f, OfIn(f, I, "part", p), d.parts[p])] \in Records
  BY <1>2 DEF Records
<1>5. QED
  BY <1>3, <1>4 DEF KeptOf, Disk

\* f with one more change, c, at the time n.
Extended(f, n, c) == [i \in DOMAIN f \cup {n} |-> IF i = n THEN c ELSE f[i]]

\* A change that is made later does not touch what the earlier ones leave of an entry ...
LEMMA EntryBefore ==
    ASSUME NEW f, Timed(f), NEW n \in Nat, n \notin DOMAIN f, NEW c,
           NEW I \in SUBSET DOMAIN f, NEW what, NEW p, NEW before
    PROVE  /\ OfIn(Extended(f, n, c), I, what, p) = OfIn(f, I, what, p)
           /\ LastIn(Extended(f, n, c), OfIn(f, I, what, p), before)
                 = LastIn(f, OfIn(f, I, what, p), before)
<1> DEFINE g == Extended(f, n, c)
           J == OfIn(f, I, what, p)
<1>1. \A i \in I : g[i] = f[i]
  BY DEF Extended
<1>2. OfIn(g, I, what, p) = J
  BY <1>1 DEF OfIn
<1>3. LastIn(g, J, before) = LastIn(f, J, before)
  <2>1. CASE J = {}
    BY <2>1 DEF LastIn
  <2>2. CASE J # {}
    <3>1. PICK m \in Nat : DOMAIN f \subseteq 1..m
      BY DEF Timed
    <3>2. J \subseteq 0..m /\ J \subseteq I
      BY <3>1 DEF OfIn
    <3>3. Max(J) \in I
      BY <2>2, <3>2, LatestTime
    <3>4. QED
      BY <1>1, <2>2, <3>3 DEF LastIn
  <2>3. QED
    BY <2>1, <2>2
<1>4. QED
  BY <1>2, <1>3

\* ... and makes of its own entry what it says.
LEMMA EntryAfter ==
    ASSUME NEW f, Timed(f), NEW n \in Nat, \A i \in DOMAIN f : i < n, NEW c,
           NEW I \in SUBSET DOMAIN f, NEW what, NEW p, NEW before
    PROVE  LastIn(Extended(f, n, c), OfIn(Extended(f, n, c), I \cup {n}, what, p), before)
              = IF c.what = what /\ c.part = p THEN c.value
                ELSE LastIn(f, OfIn(f, I, what, p), before)
<1> DEFINE g == Extended(f, n, c)
           J == OfIn(f, I, what, p)
           K == OfIn(g, I \cup {n}, what, p)
<1>1. n \notin DOMAIN f /\ n \notin I
  OBVIOUS
<1>2. g[n] = c /\ \A i \in I : g[i] = f[i]
  BY <1>1 DEF Extended
<1>3. CASE c.what = what /\ c.part = p
  <2>1. K = {n} \cup J
    BY <1>2, <1>3 DEF OfIn
  <2>2. {n} \cup J \subseteq 0..n /\ \A i \in {n}, j \in J : j < i
    <3>1. J \subseteq DOMAIN f
      BY DEF OfIn
    <3>2. \A j \in J : j \in 0..n /\ j < n
      BY <3>1 DEF Timed
    <3>3. QED
      BY <3>2
  <2>3. Max({n} \cup J) = Max({n})
    <3>1. {n} # {}
      OBVIOUS
    <3>2. QED
      BY <2>2, <3>1, LatestOfBoth
  <2>4. Max({n}) = n
    <3>1. {n} \subseteq 0..n /\ {n} # {}
      OBVIOUS
    <3>2. Max({n}) \in {n}
      BY <3>1, LatestTime
    <3>3. QED
      BY <3>2
  <2>5. K # {} /\ g[Max(K)] = c
    BY <1>2, <2>1, <2>3, <2>4
  <2>6. QED
    BY <1>3, <2>5 DEF LastIn
<1>4. CASE ~ (c.what = what /\ c.part = p)
  <2>1. K = J
    BY <1>2, <1>4 DEF OfIn
  <2>2. QED
    BY <1>1, <1>4, <2>1, EntryBefore
<1>5. QED
  BY <1>3, <1>4

\* What a crash keeps of the earlier changes is what it kept before.
LEMMA KeptBefore ==
    ASSUME NEW f, Timed(f), NEW n \in Nat, n \notin DOMAIN f, NEW c, NEW d,
           NEW I \in SUBSET DOMAIN f
    PROVE  KeptOf(Extended(f, n, c), d, I) = KeptOf(f, d, I)
<1> DEFINE g == Extended(f, n, c)
<1>1. \A what, p : OfIn(g, I, what, p) = OfIn(f, I, what, p)
  BY EntryBefore
<1>2. \A what, p, before : LastIn(g, OfIn(g, I, what, p), before)
                              = LastIn(f, OfIn(f, I, what, p), before)
  BY <1>1, EntryBefore
<1> HIDE DEF g
<1>3. [p \in Parts |-> LastIn(g, OfIn(g, I, "part", p), d.parts[p])]
         = [p \in Parts |-> LastIn(f, OfIn(f, I, "part", p), d.parts[p])]
  BY <1>2
<1>4. {p \in Parts : OfIn(g, I, "shard", p) # {}} = {p \in Parts : OfIn(f, I, "shard", p) # {}}
  BY <1>1
<1>5. LastIn(g, OfIn(g, I, "meta", MetaObject), d.meta)
         = LastIn(f, OfIn(f, I, "meta", MetaObject), d.meta)
  BY <1>2
<1>6. KeptOf(g, d, I) = KeptOf(f, d, I)
  BY <1>3, <1>4, <1>5, Zenon DEF KeptOf
<1>7. QED
  BY <1>6 DEF g

\* What the later change adds is the change itself.
LEMMA KeptAfter ==
    ASSUME NEW f, Timed(f), NEW n \in Nat, \A i \in DOMAIN f : i < n, NEW c \in DirChange,
           NEW d \in Disk, NEW I \in SUBSET DOMAIN f
    PROVE  KeptOf(Extended(f, n, c), d, I \cup {n}) = Changed(KeptOf(f, d, I), c)
<1> DEFINE g == Extended(f, n, c)
           K == I \cup {n}
           old == KeptOf(f, d, I)
           new == KeptOf(g, d, K)
<1>1. \A what, p, before : LastIn(g, OfIn(g, K, what, p), before)
                              = IF c.what = what /\ c.part = p THEN c.value
                                ELSE LastIn(f, OfIn(f, I, what, p), before)
  BY EntryAfter
<1>2. n \notin DOMAIN f
  OBVIOUS
<1>3. g[n] = c /\ \A i \in I : g[i] = f[i]
  BY <1>2 DEF Extended
<1> HIDE DEF g
<1>4. \A p : OfIn(g, K, "shard", p) # {} <=>
                 \/ c.what = "shard" /\ c.part = p
                 \/ OfIn(f, I, "shard", p) # {}
  BY <1>3 DEF OfIn
<1>5. old \in Disk
  BY KeptType
<1>6. /\ c.what \in {"shard", "meta", "part"}
      /\ c.what \in {"shard", "part"} => c.part \in Parts
      /\ c.what = "meta" => c.part = MetaObject
  BY ChangeTypes
<1>7. new.parts = [p \in Parts |-> IF c.what = "part" /\ c.part = p THEN c.value ELSE old.parts[p]]
  BY <1>1 DEF KeptOf
<1>8. new.meta = IF c.what = "meta" THEN c.value ELSE old.meta
  BY <1>1, <1>6 DEF KeptOf
<1>9. new.shards = IF c.what = "shard" THEN old.shards \cup {c.part} ELSE old.shards
  <2>1. CASE c.what = "shard"
    <3>1. {p \in Parts : OfIn(g, K, "shard", p) # {}}
             = {p \in Parts : OfIn(f, I, "shard", p) # {}} \cup {c.part}
      BY <1>4, <1>6, <2>1
    <3>2. QED
      BY <2>1, <3>1 DEF KeptOf
  <2>2. CASE c.what # "shard"
    <3>1. {p \in Parts : OfIn(g, K, "shard", p) # {}} = {p \in Parts : OfIn(f, I, "shard", p) # {}}
      BY <1>4, <2>2
    <3>2. QED
      BY <2>2, <3>1 DEF KeptOf
  <2>3. QED
    BY <2>1, <2>2
<1>10. new = [parts |-> new.parts, meta |-> new.meta, shards |-> new.shards]
  BY DEF KeptOf
<1> HIDE DEF old, new
<1>11. old.parts \in Records
  BY <1>5 DEF Disk
<1>12. CASE c.what = "shard"
  <2>1. new.parts = old.parts
    BY <1>7, <1>11, <1>12 DEF Records
  <2>2. Changed(old, c) = [parts |-> old.parts, meta |-> old.meta, shards |-> old.shards \cup {c.part}]
    BY <1>5, <1>12 DEF Changed, Disk
  <2>3. QED
    BY <1>8, <1>9, <1>10, <1>12, <2>1, <2>2 DEF old, new, g
<1>13. CASE c.what = "meta"
  <2>1. new.parts = old.parts
    BY <1>7, <1>11, <1>13 DEF Records
  <2>2. Changed(old, c) = [parts |-> old.parts, meta |-> c.value, shards |-> old.shards]
    BY <1>5, <1>13 DEF Changed, Disk
  <2>3. QED
    BY <1>8, <1>9, <1>10, <1>13, <2>1, <2>2 DEF old, new, g
<1>14. CASE c.what = "part"
  <2>1. new.parts = [old.parts EXCEPT ![c.part] = c.value]
    BY <1>7, <1>11, <1>14 DEF Records
  <2>2. Changed(old, c) = [parts |-> [old.parts EXCEPT ![c.part] = c.value], meta |-> old.meta,
                           shards |-> old.shards]
    BY <1>5, <1>14 DEF Changed, Disk
  <2>3. QED
    BY <1>8, <1>9, <1>10, <1>14, <2>1, <2>2 DEF old, new, g
<1>15. QED
  BY <1>6, <1>12, <1>13, <1>14

\* One more change keeps the changes in their order.
LEMMA TimedExtended ==
    ASSUME NEW f, Timed(f), NEW n \in Nat, n > 0, NEW c \in DirChange
    PROVE  Timed(Extended(f, n, c))
<1>1. PICK m \in Nat : DOMAIN f \subseteq 1..m
  BY DEF Timed
<1>2. DOMAIN Extended(f, n, c) \subseteq 1..(m + n)
  BY <1>1 DEF Extended
<1>3. m + n \in Nat
  OBVIOUS
<1>4. \A i \in DOMAIN Extended(f, n, c) : Extended(f, n, c)[i] \in DirChange
  BY DEF Extended, Timed
<1>5. QED
  BY <1>2, <1>3, <1>4 DEF Timed

\* So does an fsync, which takes some away.
LEMMA TimedRest ==
    ASSUME NEW f, Timed(f), NEW W
    PROVE  Timed([i \in DOMAIN f \ W |-> f[i]])
BY DEF Timed

\* The next change is made at a time of its own, after all that wait.
LEMMA MadeIsExtended ==
    ASSUME Timed(pending), NEW c
    PROVE  \E n \in Nat : /\ n > 0
                          /\ \A i \in DOMAIN pending : i < n
                          /\ Made(c) = Extended(pending, n, c)
<1> DEFINE D == DOMAIN pending \cup {0}
           n == Max(D) + 1
<1>1. PICK m \in Nat : DOMAIN pending \subseteq 1..m
  BY DEF Timed
<1>2. D \subseteq 0..m /\ D # {}
  BY <1>1
<1>3. Max(D) \in D /\ \A j \in D : j <= Max(D)
  BY <1>2, LatestTime
<1>4. Max(D) \in Nat
  BY <1>2, <1>3
<1>5. n \in Nat /\ n > 0 /\ \A i \in DOMAIN pending : i < n
  BY <1>1, <1>3, <1>4
<1>6. Made(c) = Extended(pending, n, c)
  BY DEF Made, Extended
<1>7. QED
  BY <1>5, <1>6

\* The changes W are put on the medium, the others of an entry being later: a crash then
\* keeps what it would have kept together with them.
LEMMA EntryRest ==
    ASSUME NEW f, Timed(f), NEW W \in SUBSET DOMAIN f, NEW I \in SUBSET (DOMAIN f \ W),
           NEW what, NEW p, NEW before,
           \A i \in OfIn(f, I, what, p), j \in OfIn(f, W, what, p) : j < i
    PROVE  LastIn(f, OfIn(f, I, what, p), LastIn(f, OfIn(f, W, what, p), before))
              = LastIn(f, OfIn(f, I \cup W, what, p), before)
<1> DEFINE J == OfIn(f, I, what, p)
           K == OfIn(f, W, what, p)
<1>1. OfIn(f, I \cup W, what, p) = J \cup K
  BY DEF OfIn
<1>2. CASE J = {}
  BY <1>1, <1>2 DEF LastIn
<1>3. CASE J # {}
  <2>1. PICK n \in Nat : DOMAIN f \subseteq 1..n
    BY DEF Timed
  <2>2. J \cup K \subseteq 0..n
    BY <2>1 DEF OfIn
  <2>3. Max(J \cup K) = Max(J)
    BY <1>3, <2>2, LatestOfBoth
  <2>4. QED
    BY <1>1, <1>3, <2>3 DEF LastIn
<1>4. QED
  BY <1>2, <1>3

\* The same of the whole disk.
LEMMA KeptRest ==
    ASSUME NEW f, Timed(f), NEW d, NEW W \in SUBSET DOMAIN f, NEW I \in SUBSET (DOMAIN f \ W),
           \A what, p : \A i \in OfIn(f, I, what, p), j \in OfIn(f, W, what, p) : j < i
    PROVE  KeptOf([i \in DOMAIN f \ W |-> f[i]], KeptOf(f, d, W), I) = KeptOf(f, d, I \cup W)
<1> DEFINE g == [i \in DOMAIN f \ W |-> f[i]]
           K == I \cup W
           e == KeptOf(f, d, W)
<1>1. \A i \in I : g[i] = f[i]
  OBVIOUS
<1> HIDE DEF g
<1>2. \A what, p : OfIn(g, I, what, p) = OfIn(f, I, what, p)
  BY <1>1 DEF OfIn
<1>3. ASSUME NEW what, NEW p, NEW before
      PROVE  LastIn(g, OfIn(g, I, what, p), before) = LastIn(f, OfIn(f, I, what, p), before)
  <2> DEFINE J == OfIn(f, I, what, p)
  <2>1. CASE J = {}
    BY <1>2, <2>1 DEF LastIn
  <2>2. CASE J # {}
    <3>1. PICK n \in Nat : DOMAIN f \subseteq 1..n
      BY DEF Timed
    <3>2. J \subseteq 0..n /\ J \subseteq I
      BY <3>1 DEF OfIn
    <3>3. Max(J) \in I
      BY <2>2, <3>2, LatestTime
    <3>4. QED
      BY <1>1, <1>2, <2>2, <3>3 DEF LastIn
  <2>3. QED
    BY <2>1, <2>2
<1>4. ASSUME NEW what, NEW p, NEW before
      PROVE  LastIn(g, OfIn(g, I, what, p), LastIn(f, OfIn(f, W, what, p), before))
                = LastIn(f, OfIn(f, K, what, p), before)
  <2>1. LastIn(f, OfIn(f, I, what, p), LastIn(f, OfIn(f, W, what, p), before))
           = LastIn(f, OfIn(f, K, what, p), before)
    BY EntryRest
  <2>2. QED
    BY <1>3, <2>1
<1>5. [p \in Parts |-> LastIn(g, OfIn(g, I, "part", p), e.parts[p])]
         = [p \in Parts |-> LastIn(f, OfIn(f, K, "part", p), d.parts[p])]
  <2>1. \A p \in Parts : e.parts[p] = LastIn(f, OfIn(f, W, "part", p), d.parts[p])
    BY DEF KeptOf
  <2> HIDE DEF e
  <2>2. ASSUME NEW p \in Parts
        PROVE  LastIn(g, OfIn(g, I, "part", p), e.parts[p])
                  = LastIn(f, OfIn(f, K, "part", p), d.parts[p])
    BY <1>4, <2>1
  <2>3. QED
    BY <2>2
<1>6. LastIn(g, OfIn(g, I, "meta", MetaObject), e.meta)
         = LastIn(f, OfIn(f, K, "meta", MetaObject), d.meta)
  <2>1. e.meta = LastIn(f, OfIn(f, W, "meta", MetaObject), d.meta)
    BY DEF KeptOf
  <2>2. QED
    BY <1>4, <2>1
<1>7. e.shards \cup {p \in Parts : OfIn(g, I, "shard", p) # {}}
         = d.shards \cup {p \in Parts : OfIn(f, K, "shard", p) # {}}
  <2>1. e.shards = d.shards \cup {p \in Parts : OfIn(f, W, "shard", p) # {}}
    BY DEF KeptOf
  <2>2. \A p : OfIn(f, K, "shard", p) = OfIn(f, I, "shard", p) \cup OfIn(f, W, "shard", p)
    BY DEF OfIn
  <2> HIDE DEF e, K
  <2>3. QED
    BY <1>2, <2>1, <2>2
<1> HIDE DEF e, K
<1>8. KeptOf(g, e, I) = KeptOf(f, d, K)
  BY <1>5, <1>6, <1>7, Zenon DEF KeptOf
<1>9. QED
  BY <1>8 DEF g, e, K

-----------------------------------------------------------------------------
(* Steps of the file system. *)

\* The part of the invariant that is about the file system alone.
DiskInv == /\ ordered \in BOOLEAN
           /\ stable \in Disk
           /\ Timed(pending)
           /\ SeenInv
           /\ OrderInv

\* The same, in terms of any changes.
LEMMA DiskInvIs ==
    DiskInv <=> /\ ordered \in BOOLEAN
                /\ stable \in Disk
                /\ Timed(pending)
                /\ now = KeptOf(pending, stable, DOMAIN pending)
                /\ ordered => \A I \in Prefixes : Sound(KeptOf(pending, stable, I))
BY KeptIsOf, Zenon DEF DiskInv, SeenInv, OrderInv

\* A directory change that leaves a sound disk behind: openAtomicWriter making a directory,
\* os.Rename, os.Remove.
LEMMA MadeStep ==
    ASSUME DiskInv, NEW c \in DirChange, pending' = Made(c), now' = Changed(now, c),
           UNCHANGED <<ordered, stable>>, ordered => Sound(now')
    PROVE  /\ DiskInv'
           /\ \A what, p : Waiting(what, p)' <=> \/ Waiting(what, p)
                                                 \/ c.what = what /\ c.part = p
<1>0. /\ ordered \in BOOLEAN
      /\ stable \in Disk
      /\ Timed(pending)
      /\ now = KeptOf(pending, stable, DOMAIN pending)
      /\ ordered => \A I \in Prefixes : Sound(KeptOf(pending, stable, I))
  BY DiskInvIs
<1>1. PICK n \in Nat : /\ n > 0
                       /\ \A i \in DOMAIN pending : i < n
                       /\ pending' = Extended(pending, n, c)
  BY <1>0, MadeIsExtended
<1>2. DOMAIN pending' = DOMAIN pending \cup {n} /\ n \notin DOMAIN pending
  BY <1>1 DEF Extended
<1>3. Timed(pending')
  BY <1>0, <1>1, TimedExtended
<1>4. KeptOf(pending', stable', DOMAIN pending') = now'
  <2>1. KeptOf(pending', stable, DOMAIN pending \cup {n})
           = Changed(KeptOf(pending, stable, DOMAIN pending), c)
    BY <1>0, <1>1, KeptAfter
  <2>2. QED
    BY <1>0, <1>2, <2>1
<1>5. ASSUME ordered, NEW I \in Prefixes'
      PROVE  Sound(KeptOf(pending', stable', I))
  <2>1. I \subseteq DOMAIN pending' /\ \A i \in I, j \in DOMAIN pending' : j < i => j \in I
    BY DEF Prefixes
  <2>2. CASE n \in I
    <3>1. I = DOMAIN pending'
      BY <1>1, <1>2, <2>1, <2>2
    <3>2. QED
      BY <1>4, <1>5, <3>1
  <2>3. CASE n \notin I
    <3>1. I \in Prefixes
      BY <1>2, <2>1, <2>3 DEF Prefixes
    <3>2. I \in SUBSET DOMAIN pending
      BY <3>1 DEF Prefixes
    <3>3. KeptOf(pending', stable, I) = KeptOf(pending, stable, I)
      BY <1>0, <1>1, <1>2, <3>2, KeptBefore
    <3>4. QED
      BY <1>0, <1>5, <3>1, <3>3
  <2>4. QED
    BY <2>2, <2>3
<1>6. DiskInv'
  <2>1. /\ ordered' \in BOOLEAN
        /\ stable' \in Disk
        /\ Timed(pending')
        /\ now' = KeptOf(pending', stable', DOMAIN pending')
        /\ ordered' => \A I \in Prefixes' : Sound(KeptOf(pending', stable', I))
    BY <1>0, <1>3, <1>4, <1>5
  <2>2. QED
    BY <2>1, Zenon DEF DiskInv, SeenInv, OrderInv, Kept, KeptOf, Of, OfIn, LastValue, LastIn
<1>7. pending'[n] = c /\ \A i \in DOMAIN pending : pending'[i] = pending[i]
  BY <1>1, <1>2 DEF Extended
<1>8. ASSUME NEW what, NEW p
      PROVE  Waiting(what, p)' <=> \/ Waiting(what, p)
                                   \/ c.what = what /\ c.part = p
  BY <1>2, <1>7 DEF Waiting, Of
<1>9. QED
  BY <1>6, <1>8

\* What an fsync of a directory leaves behind of an entry is later than what it writes.
LEMMA WrittenFirst ==
    ASSUME Timed(pending), NEW o \in Objects, NEW what, NEW p,
           NEW i \in DOMAIN pending \ Written(o), NEW j \in Written(o),
           pending[i].what = what, pending[i].part = p,
           pending[j].what = what, pending[j].part = p
    PROVE  j < i
<1>1. i \in Nat /\ j \in Nat /\ j \in DOMAIN pending /\ DOMAIN pending \subseteq Nat
  BY DEF Timed, Written
<1>2. i \notin ChangesBeside(o)
  BY DEF Written
<1>3. j \notin ChangesBeside(o)
  BY <1>1, <1>2 DEF ChangesBeside
<1>4. PICK k \in ChangesBeside(o) : ordered /\ j <= k
  BY <1>3 DEF Written
<1>5. k \in Nat
  BY <1>1 DEF ChangesBeside
<1>6. ~ (i <= k)
  BY <1>4 DEF Written
<1>7. QED
  BY <1>1, <1>4, <1>5, <1>6

\* syncDir writes the changes of o's directory and, on an ordered file system, all earlier
\* ones: what processes see does not change, and there are fewer disks to fall back to.
LEMMA SyncStep ==
    ASSUME DiskInv, NEW o \in Objects, stable' = Kept(Written(o)),
           pending' = [i \in DOMAIN pending \ Written(o) |-> pending[i]],
           UNCHANGED <<ordered, now>>
    PROVE  /\ DiskInv'
           /\ \A what, p : Waiting(what, p)' => Waiting(what, p)
           /\ o = MetaObject => /\ ~ Waiting("meta", MetaObject)'
                                /\ \A p : ~ Waiting("shard", p)'
           /\ o # MetaObject => ~ Waiting("part", o)'
<1> DEFINE W == Written(o)
           D == DOMAIN pending
           R == [i \in D \ W |-> pending[i]]
<1>0. /\ ordered \in BOOLEAN
      /\ stable \in Disk
      /\ Timed(pending)
      /\ now = KeptOf(pending, stable, D)
      /\ ordered => \A I \in Prefixes : Sound(KeptOf(pending, stable, I))
  BY DiskInvIs
<1>1. W \in SUBSET D
  BY DEF Written
<1>2. stable' = KeptOf(pending, stable, W) /\ pending' = R
  BY KeptIsOf
<1>3. stable' \in Disk
  BY <1>0, <1>1, <1>2, KeptType
<1>4. Timed(pending')
  BY <1>0, <1>2, TimedRest
<1>5. DOMAIN pending' = D \ W /\ \A i \in D \ W : pending'[i] = pending[i]
  BY <1>2
<1>6. ASSUME NEW I \in SUBSET (D \ W)
      PROVE  KeptOf(pending', stable', I) = KeptOf(pending, stable, I \cup W)
  <2>1. ASSUME NEW what, NEW p, NEW i \in OfIn(pending, I, what, p),
               NEW j \in OfIn(pending, W, what, p)
        PROVE  j < i
    <3>1. /\ i \in D \ W /\ pending[i].what = what /\ pending[i].part = p
          /\ j \in W /\ pending[j].what = what /\ pending[j].part = p
      BY DEF OfIn
    <3>2. QED
      BY <1>0, <3>1, WrittenFirst
  <2>2. KeptOf(R, KeptOf(pending, stable, W), I) = KeptOf(pending, stable, I \cup W)
    <3> HIDE DEF W
    <3>1. QED
      BY <1>0, <1>1, <2>1, KeptRest
  <2>3. QED
    BY <1>2, <2>2
<1>7. now' = KeptOf(pending', stable', DOMAIN pending')
  <2>1. KeptOf(pending', stable', D \ W) = KeptOf(pending, stable, (D \ W) \cup W)
    BY <1>6
  <2>2. (D \ W) \cup W = D
    BY <1>1
  <2>3. QED
    BY <1>0, <1>5, <2>1, <2>2
<1>8. ASSUME ordered, NEW I \in Prefixes'
      PROVE  Sound(KeptOf(pending', stable', I))
  <2>1. I \in SUBSET (D \ W) /\ \A i \in I, j \in D \ W : j < i => j \in I
    BY <1>5 DEF Prefixes
  <2>2. ASSUME NEW i \in I \cup W, NEW j \in D, j < i
        PROVE  j \in I \cup W
    <3>1. CASE i \in I
      BY <2>1, <2>2, <3>1
    <3>2. CASE i \in W
      <4>1. PICK k \in ChangesBeside(o) : i <= k
        <5>1. D \subseteq Nat
          BY <1>0 DEF Timed
        <5>2. QED
          BY <1>8, <3>2, <5>1 DEF Written
      <4>2. i \in Nat /\ j \in Nat /\ k \in Nat
        BY <1>0, <1>1, <3>2 DEF Timed, ChangesBeside
      <4>3. j <= k
        BY <2>2, <4>1, <4>2
      <4>4. QED
        BY <1>8, <4>3 DEF Written
    <3>3. QED
      BY <3>1, <3>2
  <2>3. I \cup W \in Prefixes
    BY <1>1, <2>1, <2>2 DEF Prefixes
  <2>4. QED
    BY <1>0, <1>6, <1>8, <2>1, <2>3
<1>9. DiskInv'
  <2>1. /\ ordered' \in BOOLEAN
        /\ stable' \in Disk
        /\ Timed(pending')
        /\ now' = KeptOf(pending', stable', DOMAIN pending')
        /\ ordered' => \A I \in Prefixes' : Sound(KeptOf(pending', stable', I))
    BY <1>0, <1>3, <1>4, <1>7, <1>8
  <2>2. QED
    BY <2>1, Zenon DEF DiskInv, SeenInv, OrderInv, Kept, KeptOf, Of, OfIn, LastValue, LastIn
<1>10. \A what, p : Waiting(what, p)' => Waiting(what, p)
  BY <1>5 DEF Waiting, Of
<1>11. \A i \in DOMAIN pending' : i \notin ChangesBeside(o)
  BY <1>5 DEF Written
<1>12. o = MetaObject => /\ ~ Waiting("meta", MetaObject)'
                         /\ \A p : ~ Waiting("shard", p)'
  BY <1>5, <1>11 DEF Waiting, Of, ChangesBeside
<1>13. o # MetaObject => ~ Waiting("part", o)'
  BY <1>5, <1>11 DEF Waiting, Of, ChangesBeside
<1>14. QED
  BY <1>9, <1>10, <1>12, <1>13

\* Steps that leave the file system alone.
LEMMA KeepStep ==
    ASSUME DiskInv, UNCHANGED <<ordered, now, stable, pending>>
    PROVE  /\ DiskInv'
           /\ \A what, p : Waiting(what, p)' <=> Waiting(what, p)
<1>0. /\ ordered \in BOOLEAN
      /\ stable \in Disk
      /\ Timed(pending)
      /\ now = KeptOf(pending, stable, DOMAIN pending)
      /\ ordered => \A I \in Prefixes : Sound(KeptOf(pending, stable, I))
  BY DiskInvIs
<1>1. DiskInv'
  <2>1. Prefixes' = Prefixes
    BY DEF Prefixes
  <2>2. /\ ordered' \in BOOLEAN
        /\ stable' \in Disk
        /\ Timed(pending')
        /\ now' = KeptOf(pending', stable', DOMAIN pending')
        /\ ordered' => \A I \in Prefixes' : Sound(KeptOf(pending', stable', I))
    BY <1>0, <2>1
  <2>3. QED
    BY <2>2, Zenon DEF DiskInv, SeenInv, OrderInv, Kept, KeptOf, Of, OfIn, LastValue, LastIn
<1>2. \A what, p : Waiting(what, p)' <=> Waiting(what, p)
  BY DEF Waiting, Of
<1>3. QED
  BY <1>1, <1>2

\* What a crash may leave in the store's directory.
LEMMA SurvivorIs ==
    ASSUME DiskInv, NEW disk \in Survivors
    PROVE  \E I \in SUBSET DOMAIN pending :
               /\ ordered => I \in Prefixes
               /\ KeptOf(pending, stable, I) \in Disk
               /\ disk = Found(KeptOf(pending, stable, I))
<1>1. PICK I \in SUBSET DOMAIN pending :
         /\ ordered => \A i \in I, j \in DOMAIN pending : j < i => j \in I
         /\ disk = Found(Kept(I))
  BY Zenon DEF Survivors
<1>2. ordered => I \in Prefixes
  BY <1>1 DEF Prefixes
<1>3. Kept(I) = KeptOf(pending, stable, I)
  BY KeptIsOf
<1>4. KeptOf(pending, stable, I) \in Disk
  BY KeptType DEF DiskInv
<1>5. QED
  BY <1>1, <1>2, <1>3, <1>4

\* A part without its directory is not found.
LEMMA FoundType ==
    ASSUME NEW d \in Disk
    PROVE  /\ Found(d) \in Disk
           /\ Found(d).meta = d.meta
           /\ Found(d).shards = d.shards
           /\ \A p \in Parts : Found(d).parts[p] = IF p \in d.shards THEN d.parts[p] ELSE Absent
<1> DEFINE found == [p \in Parts |-> IF p \in d.shards THEN d.parts[p] ELSE Absent]
<1>1. Absent \in Passwords
  BY BoundsAssumption DEF Absent, Passwords
<1>2. found \in Records
  BY <1>1 DEF Disk, Records
<1>3. Found(d) = [d EXCEPT !.parts = found]
  BY DEF Found
<1> HIDE DEF found
<1>4. Found(d) \in Disk /\ Found(d).meta = d.meta /\ Found(d).shards = d.shards
  BY <1>2, <1>3 DEF Disk
<1>5. Found(d).parts = found
  BY <1>3 DEF Disk
<1>6. QED
  BY <1>4, <1>5 DEF found

\* With nothing waiting the medium has all there is.
LEMMA KeptNothing ==
    ASSUME NEW f, NEW d \in Disk
    PROVE  KeptOf(f, d, {}) = d
<1>1. \A what, p : OfIn(f, {}, what, p) = {}
  BY DEF OfIn
<1>2. \A what, p, before : LastIn(f, OfIn(f, {}, what, p), before) = before
  BY <1>1 DEF LastIn
<1>3. [p \in Parts |-> LastIn(f, OfIn(f, {}, "part", p), d.parts[p])] = d.parts
  BY <1>2 DEF Disk, Records
<1>4. LastIn(f, OfIn(f, {}, "meta", MetaObject), d.meta) = d.meta
  BY <1>2
<1>5. d.shards \cup {p \in Parts : OfIn(f, {}, "shard", p) # {}} = d.shards
  BY <1>1
<1>6. KeptOf(f, d, {}) = [parts |-> d.parts, meta |-> d.meta, shards |-> d.shards]
  BY <1>3, <1>4, <1>5, Zenon DEF KeptOf
<1>7. QED
  BY <1>6 DEF Disk

\* A store with nothing in it.
LEMMA EmptyIsSound ==
    /\ EmptyDisk \in Disk
    /\ EmptyDisk.meta = NoRecords
    /\ EmptyDisk.parts = NoRecords
    /\ Named(NoRecords) = {}
    /\ Sound(EmptyDisk)
<1>1. NoRecords \in Records
  BY BoundsAssumption DEF NoRecords, Records, Absent, Passwords
<1>2. EmptyDisk \in Disk /\ EmptyDisk.meta = NoRecords /\ EmptyDisk.parts = NoRecords
  BY <1>1 DEF EmptyDisk, Disk
<1>3. Named(NoRecords) = {}
  BY DEF Named, NoRecords
<1>4. QED
  BY <1>2, <1>3 DEF Sound

\* A crash leaves a disk that is sound, if the file system is ordered, and nothing waiting.
LEMMA CrashStep ==
    ASSUME DiskInv, now' \in Survivors \cup {EmptyDisk}, stable' = now', pending' = NoPending,
           ordered' = ordered
    PROVE  /\ DiskInv'
           /\ now' \in Disk
           /\ \A p \in Parts : now'.parts[p] # Absent => p \in now'.shards
           /\ \A what, p : ~ Waiting(what, p)'
<1>0. ordered => \A I \in Prefixes : Sound(KeptOf(pending, stable, I))
  BY DiskInvIs
<1>1. /\ now' \in Disk
      /\ ordered => Sound(now')
      /\ \A p \in Parts : now'.parts[p] # Absent => p \in now'.shards
  <2>1. CASE now' \in Survivors
    <3>1. PICK I \in SUBSET DOMAIN pending :
                 /\ ordered => I \in Prefixes
                 /\ KeptOf(pending, stable, I) \in Disk
                 /\ now' = Found(KeptOf(pending, stable, I))
      BY <2>1, SurvivorIs
    <3> DEFINE d == KeptOf(pending, stable, I)
    <3>2. /\ now' \in Disk
          /\ now'.meta = d.meta
          /\ now'.shards = d.shards
          /\ \A p \in Parts : now'.parts[p] = IF p \in d.shards THEN d.parts[p] ELSE Absent
      BY <3>1, FoundType
    <3>3. ordered => Sound(now')
      <4>1. ordered => Sound(d)
        BY <1>0, <3>1
      <4> HIDE DEF d
      <4>2. QED
        BY <3>2, <4>1 DEF Sound, Named
    <3> HIDE DEF d
    <3>4. \A p \in Parts : now'.parts[p] # Absent => p \in now'.shards
      BY <3>2
    <3>5. QED
      BY <3>2, <3>3, <3>4
  <2>2. CASE now' = EmptyDisk
    <3>1. \A p \in Parts : NoRecords[p] = Absent
      BY DEF NoRecords
    <3>2. QED
      BY <2>2, <3>1, EmptyIsSound
  <2>3. QED
    BY <2>1, <2>2
<1>2. DOMAIN pending' = {}
  BY DEF NoPending
<1>3. Timed(pending')
  BY <1>2 DEF Timed
<1>4. KeptOf(pending', stable', {}) = now'
  BY <1>1, KeptNothing
<1>5. ASSUME ordered, NEW J \in Prefixes'
      PROVE  Sound(KeptOf(pending', stable', J))
  <2>1. J = {}
    BY <1>2 DEF Prefixes
  <2>2. QED
    BY <1>1, <1>4, <1>5, <2>1
<1>6. DiskInv'
  <2>1. /\ ordered' \in BOOLEAN
        /\ stable' \in Disk
        /\ Timed(pending')
        /\ now' = KeptOf(pending', stable', DOMAIN pending')
        /\ ordered' => \A J \in Prefixes' : Sound(KeptOf(pending', stable', J))
    BY <1>1, <1>2, <1>3, <1>4, <1>5 DEF DiskInv
  <2>2. QED
    BY <2>1, Zenon DEF DiskInv, SeenInv, OrderInv, Kept, KeptOf, Of, OfIn, LastValue, LastIn
<1>7. \A what, p : ~ Waiting(what, p)'
  BY <1>2 DEF Waiting, Of
<1>8. QED
  BY <1>1, <1>6, <1>7

-----------------------------------------------------------------------------
(* Steps of operations. *)

\* What the invariant says besides the file system's part.
OwnTypes == /\ runs \in Passwords
            /\ op \in Operation
            /\ writer \in [Objects -> WriterStates]
            /\ syncOK \in BOOLEAN

\* What processes see is a disk with whole objects.
LEMMA NowType == DiskInv => now \in Disk
<1>1. SUFFICES ASSUME DiskInv PROVE now \in Disk
  OBVIOUS
<1>2. now = KeptOf(pending, stable, DOMAIN pending) /\ Timed(pending) /\ stable \in Disk
  BY <1>1, DiskInvIs
<1>3. QED
  BY <1>2, KeptType

\* The invariant by its parts.
LEMMA IInvIs ==
    IInv <=> /\ OwnTypes /\ DiskInv /\ PhaseInv /\ TargetInv /\ WrittenInv /\ InDirs /\ SyncInv
BY NowType DEF IInv, TypeOK, OwnTypes, DiskInv

\* The same of the next state.
LEMMA IInvNext ==
    (OwnTypes /\ DiskInv /\ PhaseInv /\ TargetInv /\ WrittenInv /\ InDirs /\ SyncInv)' => IInv'
BY IInvIs, PTL

\* On an ordered file system the store is sound now.
LEMMA SoundNow ==
    ASSUME DiskInv, ordered
    PROVE  Sound(now)
<1>1. DOMAIN pending \in Prefixes
  BY DEF Prefixes
<1>2. QED
  BY <1>1, Zenon DEF DiskInv, SeenInv, OrderInv

\* The writer of a part works in the phase of the parts, that of ".tsync" in its own.
LEMMA ActiveWriter ==
    ASSUME PhaseInv, NEW o \in Objects, writer[o] \in {"start", "open", "synced", "renamed"},
           op \in Operation
    PROVE  /\ o = MetaObject => op.phase = "meta"
           /\ o # MetaObject => o \in Parts /\ op.phase = "parts" /\ o \in op.todo
<1>1. op.phase \in {"idle", "parts", "meta", "cleanup"}
  BY DEF Operation
<1>2. op.phase \notin {"idle", "cleanup"}
  BY DEF PhaseInv, Ended
<1>3. o \in Parts \/ o = MetaObject
  BY DEF Objects
<1>4. QED
  BY <1>1, <1>2, <1>3 DEF PhaseInv

\* openAtomicWriter makes the directory of a part that is not recorded yet.
LEMMA OpenWriterStep ==
    ASSUME IInv, NEW o \in Objects, OpenWriter(o)
    PROVE  IInv'
<1>0. OwnTypes /\ DiskInv /\ PhaseInv /\ TargetInv /\ WrittenInv /\ InDirs /\ SyncInv
  BY IInvIs
<1>1. /\ writer[o] = "start"
      /\ writer' = [writer EXCEPT ![o] = "open"]
      /\ UNCHANGED <<ordered, stable, runs, op, syncOK>>
  BY DEF OpenWriter
<1>2. /\ o = MetaObject => op.phase = "meta"
      /\ o # MetaObject => o \in Parts /\ op.phase = "parts" /\ o \in op.todo
  BY <1>0, <1>1, ActiveWriter DEF OwnTypes
<1>3. now \in Disk
  BY <1>0, NowType
<1>4. MetaObject \notin Parts /\ MetaObject \in Objects
  BY PartsAssumption DEF Objects
<1>5. /\ now'.meta = now.meta
      /\ now'.parts = now.parts
      /\ now'.shards = IF o = MetaObject THEN now.shards ELSE now.shards \cup {o}
      /\ DiskInv'
      /\ \A what, p : Waiting(what, p)' => \/ Waiting(what, p)
                                           \/ what = "shard" /\ p = o /\ o # MetaObject
  <2>1. CASE o = MetaObject \/ o \in now.shards
    <3>1. UNCHANGED <<now, pending>>
      BY <2>1 DEF OpenWriter
    <3>2. DiskInv' /\ \A what, p : Waiting(what, p)' <=> Waiting(what, p)
      BY <1>0, <1>1, <3>1, KeepStep
    <3>3. QED
      BY <2>1, <3>1, <3>2
  <2>2. CASE ~ (o = MetaObject \/ o \in now.shards)
    <3> DEFINE c == Change("shard", o, Absent)
    <3>1. now' = [now EXCEPT !.shards = @ \cup {o}] /\ pending' = Made(c)
      BY <2>2 DEF OpenWriter
    <3>2. c \in DirChange /\ c.what = "shard" /\ c.part = o
      BY <1>2, <2>2 DEF Change, DirChange
    <3>3. /\ now'.meta = now.meta
          /\ now'.parts = now.parts
          /\ now'.shards = now.shards \cup {o}
      BY <1>3, <3>1 DEF Disk
    <3> HIDE DEF c
    <3>4. now' = Changed(now, c)
      BY <3>1, <3>2 DEF Changed
    <3>5. ordered => Sound(now')
      BY <1>0, <3>3, SoundNow DEF Sound, Named
    <3>6. /\ DiskInv'
          /\ \A what, p : Waiting(what, p)' <=> \/ Waiting(what, p)
                                                \/ c.what = what /\ c.part = p
      BY <1>0, <1>1, <3>1, <3>2, <3>4, <3>5, MadeStep
    <3>7. QED
      BY <2>2, <3>2, <3>3, <3>6
  <2>3. QED
    BY <2>1, <2>2
<1>6. /\ writer'[o] = "open"
      /\ \A q \in Objects : q # o => writer'[q] = writer[q]
      /\ writer' \in [Objects -> WriterStates]
  BY <1>0, <1>1 DEF OwnTypes, WriterStates
<1>7. \A p \in Parts : p \in Objects /\ p # MetaObject
  BY <1>4 DEF Objects
<1>8. OwnTypes'
  BY <1>0, <1>1, <1>6 DEF OwnTypes
<1>9. PhaseInv'
  BY <1>0, <1>1, <1>2, <1>4, <1>6, <1>7 DEF PhaseInv, Ended
<1>10. TargetInv'
  BY <1>0, <1>1, <1>2, <1>4, <1>5, <1>6, <1>7 DEF TargetInv, MetaRenamed
<1>11. WrittenInv'
  BY <1>0, <1>1, <1>2, <1>4, <1>5, <1>6, <1>7 DEF WrittenInv, OwnTypes, Operation
<1>12. InDirs'
  BY <1>0, <1>5 DEF InDirs
<1>13. SyncInv'
  <2>1. o # MetaObject => o \notin Named(now.meta)
    BY <1>0, <1>2 DEF TargetInv, MetaRenamed, Named
  <2>2. QED
    BY <1>0, <1>1, <1>2, <1>4, <1>5, <1>6, <1>7, <2>1 DEF SyncInv, Named, OwnTypes, Operation
<1>14. QED
  BY <1>5, <1>8, <1>9, <1>10, <1>11, <1>12, <1>13, IInvNext

\* Before the rename the writer of an object changes nothing that others see.
LEMMA SyncFileStep ==
    ASSUME IInv, NEW o \in Objects, SyncFile(o) \/ WriteFails(o)
    PROVE  IInv'
<1>0. OwnTypes /\ DiskInv /\ PhaseInv /\ TargetInv /\ WrittenInv /\ InDirs /\ SyncInv
  BY IInvIs
<1>1. PICK x \in {"synced", "failed"} :
         /\ writer[o] \in {"start", "open", "synced"}
         /\ x = "synced" => writer[o] = "open"
         /\ writer' = [writer EXCEPT ![o] = x]
         /\ UNCHANGED <<ordered, now, stable, pending, runs, op, syncOK>>
  BY DEF SyncFile, WriteFails, SyncedState
<1>2. /\ o = MetaObject => op.phase = "meta"
      /\ o # MetaObject => o \in Parts /\ op.phase = "parts" /\ o \in op.todo
  BY <1>0, <1>1, ActiveWriter DEF OwnTypes
<1>3. MetaObject \notin Parts /\ MetaObject \in Objects
  BY PartsAssumption DEF Objects
<1>4. \A p \in Parts : p \in Objects /\ p # MetaObject
  BY <1>3 DEF Objects
<1>5. /\ writer'[o] = x
      /\ \A q \in Objects : q # o => writer'[q] = writer[q]
      /\ writer' \in [Objects -> WriterStates]
  BY <1>0, <1>1 DEF OwnTypes, WriterStates
<1>6. DiskInv' /\ \A what, p : Waiting(what, p)' <=> Waiting(what, p)
  BY <1>0, <1>1, KeepStep
<1>7. OwnTypes'
  BY <1>0, <1>1, <1>5 DEF OwnTypes
<1>8. PhaseInv'
  BY <1>0, <1>1, <1>2, <1>3, <1>4, <1>5 DEF PhaseInv, Ended
<1>9. TargetInv'
  BY <1>0, <1>1, <1>2, <1>3, <1>4, <1>5 DEF TargetInv, MetaRenamed
<1>10. WrittenInv'
  BY <1>0, <1>1, <1>2, <1>3, <1>4, <1>5 DEF WrittenInv, OwnTypes, Operation
<1>11. InDirs'
  BY <1>0, <1>1 DEF InDirs
<1>12. SyncInv'
  BY <1>0, <1>1, <1>2, <1>3, <1>4, <1>5, <1>6 DEF SyncInv, Named, OwnTypes, Operation
<1>13. QED
  BY <1>6, <1>7, <1>8, <1>9, <1>10, <1>11, <1>12, IInvNext

\* The rename of a part shows it where ".tsync" does not name it yet; the rename of
\* ".tsync" comes when all parts it names are there.
LEMMA RenameStep ==
    ASSUME IInv, NEW o \in Objects, Rename(o)
    PROVE  IInv'
<1>0. OwnTypes /\ DiskInv /\ PhaseInv /\ TargetInv /\ WrittenInv /\ InDirs /\ SyncInv
  BY IInvIs
<1> DEFINE c == IF o = MetaObject THEN Change("meta", o, Value(o)) ELSE Change("part", o, Value(o))
<1>1. /\ writer[o] = "synced"
      /\ writer' = [writer EXCEPT ![o] = "renamed"]
      /\ now' = Changed(now, c)
      /\ pending' = Made(c)
      /\ UNCHANGED <<ordered, stable, runs, op, syncOK>>
  <2>1. writer[o] \in WriterStates /\ writer[o] \in {"synced", "dirty"}
    BY <1>0 DEF OwnTypes, Rename
  <2>2. writer[o] = "synced"
    BY <2>1 DEF WriterStates
  <2>3. QED
    BY <2>2 DEF Rename
<1>2. /\ o = MetaObject => op.phase = "meta"
      /\ o # MetaObject => o \in Parts /\ op.phase = "parts" /\ o \in op.todo
  BY <1>0, <1>1, ActiveWriter DEF OwnTypes
<1>3. MetaObject \notin Parts /\ MetaObject \in Objects
  BY PartsAssumption DEF Objects
<1>4. \A p \in Parts : p \in Objects /\ p # MetaObject
  BY <1>3 DEF Objects
<1>5. /\ writer'[o] = "renamed"
      /\ \A q \in Objects : q # o => writer'[q] = writer[q]
      /\ writer' \in [Objects -> WriterStates]
  BY <1>0, <1>1 DEF OwnTypes, WriterStates
<1>6. now \in Disk /\ op.target \in Records /\ op.todo \subseteq Parts
  BY <1>0, NowType DEF OwnTypes, Operation
<1>7. /\ c \in DirChange
      /\ o = MetaObject => c.what = "meta" /\ c.part = MetaObject /\ c.value = op.target
      /\ o # MetaObject => c.what = "part" /\ c.part = o /\ c.value = op.target[o]
  BY <1>2, <1>6 DEF Change, Value, DirChange, Records
<1> HIDE DEF c
<1>8. /\ o = MetaObject => now' = [now EXCEPT !.meta = op.target]
      /\ o # MetaObject => now' = [now EXCEPT !.parts[o] = op.target[o]]
  BY <1>1, <1>7 DEF Changed
<1>9. /\ now'.shards = now.shards
      /\ o = MetaObject => now'.meta = op.target /\ now'.parts = now.parts
      /\ o # MetaObject => /\ now'.meta = now.meta
                           /\ now'.parts = [now.parts EXCEPT ![o] = op.target[o]]
  BY <1>6, <1>8 DEF Disk
<1>10. /\ o # MetaObject => now'.parts[o] = op.target[o]
       /\ \A p \in Parts : p # o => now'.parts[p] = now.parts[p]
  BY <1>2, <1>6, <1>9 DEF Disk, Records
<1>11. o # MetaObject => o \notin Named(now.meta)
  BY <1>0, <1>2 DEF TargetInv, MetaRenamed, Named
<1>12. ASSUME o = MetaObject, NEW p \in Parts, op.target[p] # Absent
       PROVE  \/ p \in op.todo /\ writer[p] = "done"
              \/ p \notin op.todo /\ now.meta[p] = op.target[p]
  BY <1>0, <1>2, <1>12 DEF PhaseInv, TargetInv
<1>13. ordered => Sound(now')
  <2>1. SUFFICES ASSUME ordered, NEW p \in Parts, now'.meta[p] # Absent
                 PROVE  now'.parts[p] = now'.meta[p] /\ p \in now'.shards
    BY DEF Sound, Named
  <2>2. CASE o = MetaObject
    <3>1. CASE p \in op.todo
      BY <1>0, <1>2, <1>3, <1>4, <1>9, <1>12, <2>1, <2>2, <3>1 DEF WrittenInv
    <3>2. CASE p \notin op.todo
      <4>1. now.meta[p] = op.target[p] /\ now.meta[p] # Absent
        BY <1>9, <1>12, <2>1, <2>2, <3>2
      <4>2. now.parts[p] = now.meta[p] /\ p \in now.shards
        BY <1>0, <2>1, <4>1, SoundNow DEF Sound, Named
      <4>3. QED
        BY <1>9, <2>2, <4>1, <4>2
    <3>3. QED
      BY <3>1, <3>2
  <2>3. CASE o # MetaObject
    <3>1. p # o
      BY <1>9, <1>11, <2>1, <2>3 DEF Named
    <3>2. now.parts[p] = now.meta[p] /\ p \in now.shards
      BY <1>0, <1>9, <2>1, <2>3, SoundNow DEF Sound, Named
    <3>3. QED
      BY <1>9, <1>10, <2>3, <3>1, <3>2
  <2>4. QED
    BY <2>2, <2>3
<1>14. /\ DiskInv'
       /\ \A what, p : Waiting(what, p)' <=> \/ Waiting(what, p)
                                             \/ c.what = what /\ c.part = p
  BY <1>0, <1>1, <1>7, <1>13, MadeStep
<1>15. OwnTypes'
  BY <1>0, <1>1, <1>5 DEF OwnTypes
<1>16. PhaseInv'
  BY <1>0, <1>1, <1>2, <1>3, <1>4, <1>5 DEF PhaseInv, Ended
<1>17. TargetInv'
  <2>1. CASE o = MetaObject
    BY <1>0, <1>1, <1>2, <1>3, <1>5, <1>9, <2>1 DEF TargetInv, MetaRenamed
  <2>2. CASE o # MetaObject
    BY <1>0, <1>1, <1>2, <1>3, <1>5, <1>9, <2>2 DEF TargetInv, MetaRenamed
  <2>3. QED
    BY <2>1, <2>2
<1>18. WrittenInv'
  BY <1>0, <1>1, <1>2, <1>4, <1>5, <1>6, <1>9, <1>10 DEF WrittenInv
<1>19. InDirs'
  <2>1. o # MetaObject => o \in now.shards
    BY <1>0, <1>1, <1>2 DEF WrittenInv
  <2>2. QED
    BY <1>0, <1>9, <1>10, <2>1 DEF InDirs
<1>20. SyncInv'
  <2>1. CASE o = MetaObject
    <3>1. \A what, p : what # "meta" => (Waiting(what, p)' <=> Waiting(what, p))
      BY <1>7, <1>14, <2>1
    <3>2. syncOK' => \A p \in Named(now.meta)' : ~ Waiting("part", p)'
      BY <1>0, <1>1, <1>2, <1>9, <1>12, <2>1, <3>1 DEF SyncInv, Named
    <3>3. syncOK' /\ op'.phase \in {"parts", "meta"} =>
             \A p \in op'.todo : writer'[p] = "done" => ~ Waiting("part", p)'
      BY <1>0, <1>1, <1>2, <1>3, <1>4, <1>5, <1>6, <2>1, <3>1 DEF SyncInv
    <3>4. writer'[MetaObject] = "renamed"
      BY <1>5, <2>1
    <3>5. QED
      BY <3>2, <3>3, <3>4 DEF SyncInv
  <2>2. CASE o # MetaObject
    BY <1>0, <1>1, <1>2, <1>3, <1>4, <1>5, <1>6, <1>7, <1>9, <1>11, <1>14, <2>2
    DEF SyncInv, Named
  <2>3. QED
    BY <2>1, <2>2
<1>21. QED
  BY <1>14, <1>15, <1>16, <1>17, <1>18, <1>19, <1>20, IInvNext

\* syncDir: what ".tsync" names is on the medium, and so are its directories, unless an
\* error of syncDir was ignored.
LEMMA SyncDirStep ==
    ASSUME IInv, NEW o \in Objects, SyncDir(o) \/ SyncDirFails(o)
    PROVE  IInv'
<1>0. OwnTypes /\ DiskInv /\ PhaseInv /\ TargetInv /\ WrittenInv /\ InDirs /\ SyncInv
  BY IInvIs
<1>1. /\ writer[o] = "renamed"
      /\ writer' = [writer EXCEPT ![o] = "done"]
      /\ UNCHANGED <<ordered, now, runs, op>>
  BY DEF SyncDir, SyncDirFails
<1>2. /\ o = MetaObject => op.phase = "meta"
      /\ o # MetaObject => o \in Parts /\ op.phase = "parts" /\ o \in op.todo
  BY <1>0, <1>1, ActiveWriter DEF OwnTypes
<1>3. MetaObject \notin Parts /\ MetaObject \in Objects
  BY PartsAssumption DEF Objects
<1>4. \A p \in Parts : p \in Objects /\ p # MetaObject
  BY <1>3 DEF Objects
<1>5. /\ writer'[o] = "done"
      /\ \A q \in Objects : q # o => writer'[q] = writer[q]
      /\ writer' \in [Objects -> WriterStates]
  BY <1>0, <1>1 DEF OwnTypes, WriterStates
<1>6. op.todo \subseteq Parts
  BY <1>0 DEF OwnTypes, Operation
<1>7. PhaseInv'
  BY <1>0, <1>1, <1>2, <1>3, <1>4, <1>5 DEF PhaseInv, Ended
<1>8. TargetInv'
  BY <1>0, <1>1, <1>2, <1>3, <1>4, <1>5 DEF TargetInv, MetaRenamed
<1>9. WrittenInv'
  BY <1>0, <1>1, <1>2, <1>3, <1>4, <1>5, <1>6 DEF WrittenInv
<1>10. InDirs'
  BY <1>0, <1>1 DEF InDirs
<1>11. CASE SyncDir(o)
  <2>1. /\ stable' = Kept(Written(o))
        /\ pending' = [i \in DOMAIN pending \ Written(o) |-> pending[i]]
        /\ syncOK' = syncOK
    BY <1>11 DEF SyncDir
  <2>2. /\ DiskInv'
        /\ \A what, p : Waiting(what, p)' => Waiting(what, p)
        /\ o = MetaObject => /\ ~ Waiting("meta", MetaObject)'
                             /\ \A p : ~ Waiting("shard", p)'
        /\ o # MetaObject => ~ Waiting("part", o)'
    BY <1>0, <1>1, <2>1, SyncStep
  <2>3. SyncInv'
    BY <1>0, <1>1, <1>2, <1>3, <1>4, <1>5, <1>6, <2>1, <2>2 DEF SyncInv, Named
  <2>4. OwnTypes'
    BY <1>0, <1>1, <1>5, <2>1 DEF OwnTypes
  <2>5. QED
    BY <1>7, <1>8, <1>9, <1>10, <2>2, <2>3, <2>4, IInvNext
<1>12. CASE SyncDirFails(o)
  <2>1. UNCHANGED <<stable, pending>> /\ syncOK' = FALSE
    BY <1>12, Zenon DEF SyncDirFails
  <2>2. DiskInv'
    BY <1>0, <1>1, <2>1, KeepStep
  <2>3. SyncInv'
    BY <2>1, Zenon DEF SyncInv
  <2>4. OwnTypes'
    <3>1. syncOK' \in BOOLEAN
      BY <2>1, Zenon
    <3>2. QED
      BY <1>0, <1>1, <1>5, <3>1 DEF OwnTypes
  <2>5. QED
    BY <1>7, <1>8, <1>9, <1>10, <2>2, <2>3, <2>4, IInvNext
<1>13. QED
  BY <1>11, <1>12

\* An operation starts: it will record what it uploads and what was recorded, and delete
\* only what it will not record.
LEMMA BeginStep ==
    ASSUME IInv, NEW kind \in {"backup", "delete", "gc"}, NEW target \in Records,
           NEW todo \in SUBSET Parts, NEW drop \in SUBSET Parts,
           Begin(kind, target, todo, drop),
           UNCHANGED <<ordered, now, stable, pending, syncOK>>,
           runs' \in Passwords,
           \A p \in drop : target[p] = Absent,
           \A p \in Parts \ todo : target[p] \in {Absent, now.meta[p]},
           \A p \in todo : now.meta[p] = Absent,
           kind = "gc" => target = now.meta /\ todo = {}
    PROVE  IInv'
<1>0. OwnTypes /\ DiskInv /\ PhaseInv /\ TargetInv /\ WrittenInv /\ InDirs /\ SyncInv
  BY IInvIs
<1>1. MetaObject \notin Parts /\ MetaObject \in Objects
  BY PartsAssumption DEF Objects
<1>2. \A p \in Parts : p \in Objects /\ p # MetaObject
  BY <1>1 DEF Objects
<1>3. /\ op = Idle
      /\ op' = [kind |-> kind, phase |-> IF kind = "gc" THEN "cleanup" ELSE "parts",
                target |-> target, todo |-> todo, drop |-> drop]
      /\ writer' = [o \in Objects |-> IF o \in todo THEN "start" ELSE "none"]
  BY DEF Begin
<1>4. /\ op' \in Operation
      /\ op'.phase = IF kind = "gc" THEN "cleanup" ELSE "parts"
      /\ op'.target = target
      /\ op'.todo = todo
      /\ op'.drop = drop
  BY <1>3 DEF Operation
<1>5. /\ writer' \in [Objects -> WriterStates]
      /\ writer'[MetaObject] = "none"
      /\ \A p \in Parts : writer'[p] = IF p \in todo THEN "start" ELSE "none"
  BY <1>1, <1>2, <1>3 DEF WriterStates
<1>6. writer[MetaObject] # "renamed"
  BY <1>0, <1>1, <1>3 DEF PhaseInv, Idle, Ended
<1>7. DiskInv' /\ \A what, p : Waiting(what, p)' <=> Waiting(what, p)
  BY <1>0, KeepStep
<1>8. OwnTypes'
  BY <1>0, <1>4, <1>5 DEF OwnTypes
<1>9. PhaseInv'
  BY <1>2, <1>4, <1>5 DEF PhaseInv, Ended, Objects
<1>10. TargetInv'
  BY <1>4, <1>5 DEF TargetInv, MetaRenamed
<1>11. WrittenInv'
  BY <1>4, <1>5 DEF WrittenInv
<1>12. InDirs'
  BY <1>0 DEF InDirs
<1>13. SyncInv'
  BY <1>0, <1>4, <1>5, <1>6, <1>7 DEF SyncInv, Named
<1>14. QED
  BY <1>7, <1>8, <1>9, <1>10, <1>11, <1>12, <1>13, IInvNext

\* A backup, a deletion and a collection start like that.
LEMMA StartStep ==
    ASSUME IInv,
           \/ \E N \in SUBSET Parts, single \in BOOLEAN : StartBackup(N, single)
           \/ \E N \in SUBSET Named(now.meta) : StartDelete(N)
           \/ StartGC
    PROVE  IInv'
<1>1. now \in Disk /\ now.meta \in Records /\ runs \in Passwords /\ Named(now.meta) \subseteq Parts
  BY DEF IInv, TypeOK, Disk, Named
<1>2. MaxRuns \in Nat /\ Absent \in Passwords
  BY BoundsAssumption DEF Absent, Passwords
<1>3. ASSUME NEW N \in SUBSET Parts, NEW single \in BOOLEAN, StartBackup(N, single)
      PROVE  IInv'
  <2> DEFINE target == [p \in Parts |-> IF p \in N /\ now.meta[p] = Absent THEN runs + 1
                                        ELSE IF single /\ p \notin N THEN Absent
                                        ELSE now.meta[p]]
             todo == N \ Named(now.meta)
             drop == IF single THEN Named(now.meta) \ N ELSE {}
  <2>1. runs < MaxRuns /\ runs' = runs + 1 /\ runs' \in Passwords
    BY <1>1, <1>2, <1>3 DEF StartBackup, Passwords
  <2>2. target \in Records
    BY <1>1, <1>2, <2>1 DEF Records
  <2>3. todo \in SUBSET Parts /\ drop \in SUBSET Parts
    BY <1>1
  <2>4. /\ \A p \in drop : target[p] = Absent
        /\ \A p \in Parts \ todo : target[p] \in {Absent, now.meta[p]}
        /\ \A p \in todo : now.meta[p] = Absent
    BY <1>1 DEF Named
  <2>5. /\ Begin("backup", target, todo, drop)
        /\ UNCHANGED <<ordered, now, stable, pending, syncOK>>
    BY <1>3 DEF StartBackup
  <2> HIDE DEF target, todo, drop
  <2>6. QED
    BY <2>1, <2>2, <2>3, <2>4, <2>5, BeginStep
<1>4. ASSUME NEW N \in SUBSET Named(now.meta), StartDelete(N)
      PROVE  IInv'
  <2> DEFINE target == [p \in Parts |-> IF p \in N THEN now.meta[p] ELSE Absent]
             todo == {}
             drop == Named(now.meta) \ N
  <2>1. runs < MaxRuns /\ runs' = runs + 1 /\ runs' \in Passwords
    BY <1>1, <1>2, <1>4 DEF StartDelete, Passwords
  <2>2. target \in Records
    BY <1>1, <1>2 DEF Records
  <2>3. todo \in SUBSET Parts /\ drop \in SUBSET Parts
    BY <1>1
  <2>4. /\ \A p \in drop : target[p] = Absent
        /\ \A p \in Parts \ todo : target[p] \in {Absent, now.meta[p]}
        /\ \A p \in todo : now.meta[p] = Absent
    BY <1>1
  <2>5. /\ Begin("delete", target, todo, drop)
        /\ UNCHANGED <<ordered, now, stable, pending, syncOK>>
    BY <1>4 DEF StartDelete
  <2> HIDE DEF target, todo, drop
  <2>6. QED
    BY <2>1, <2>2, <2>3, <2>4, <2>5, BeginStep
<1>5. CASE StartGC
  <2> DEFINE todo == {}
             drop == {p \in Parts : now.parts[p] # Absent} \ Named(now.meta)
  <2>1. todo \in SUBSET Parts /\ drop \in SUBSET Parts
    OBVIOUS
  <2>2. /\ \A p \in drop : now.meta[p] = Absent
        /\ \A p \in Parts \ todo : now.meta[p] \in {Absent, now.meta[p]}
        /\ \A p \in todo : now.meta[p] = Absent
    BY DEF Named
  <2>3. /\ Begin("gc", now.meta, todo, drop)
        /\ UNCHANGED <<ordered, now, stable, pending, runs, syncOK>>
        /\ runs' \in Passwords
    BY <1>1, <1>5 DEF StartGC
  <2>4. todo = {}
    OBVIOUS
  <2> HIDE DEF todo, drop
  <2>5. QED
    BY <1>1, <2>1, <2>2, <2>3, <2>4, BeginStep
<1>6. QED
  BY <1>3, <1>4, <1>5

\* ".tsync" is written after the last part, and parts are deleted after ".tsync".
LEMMA PhaseStep ==
    ASSUME IInv, WriteMetadata \/ MetadataWritten
    PROVE  IInv'
<1>0. OwnTypes /\ DiskInv /\ PhaseInv /\ TargetInv /\ WrittenInv /\ InDirs /\ SyncInv
  BY IInvIs
<1>1. MetaObject \notin Parts /\ MetaObject \in Objects
  BY PartsAssumption DEF Objects
<1>2. \A p \in Parts : p \in Objects /\ p # MetaObject
  BY <1>1 DEF Objects
<1>3. op \in Operation /\ op.todo \subseteq Parts /\ writer \in [Objects -> WriterStates]
  BY <1>0 DEF OwnTypes, Operation
<1>4. UNCHANGED <<ordered, now, stable, pending, runs, syncOK>>
  BY DEF WriteMetadata, MetadataWritten
<1>5. DiskInv' /\ \A what, p : Waiting(what, p)' <=> Waiting(what, p)
  BY <1>0, <1>4, KeepStep
<1>6. InDirs'
  BY <1>0, <1>4 DEF InDirs
<1>7. CASE WriteMetadata
  <2>1. /\ op.phase = "parts"
        /\ \A p \in op.todo : writer[p] = "done"
        /\ op' = [op EXCEPT !.phase = "meta"]
        /\ writer' = [writer EXCEPT ![MetaObject] = "start"]
    BY <1>7 DEF WriteMetadata, PartsWritten
  <2>2. /\ op' \in Operation
        /\ op'.phase = "meta"
        /\ op'.target = op.target
        /\ op'.todo = op.todo
        /\ op'.drop = op.drop
    BY <1>3, <2>1 DEF Operation
  <2>3. /\ writer' \in [Objects -> WriterStates]
        /\ writer'[MetaObject] = "start"
        /\ \A p \in Parts : writer'[p] = writer[p]
    BY <1>1, <1>2, <1>3, <2>1 DEF WriterStates
  <2>4. OwnTypes'
    BY <1>0, <1>4, <2>2, <2>3 DEF OwnTypes
  <2>5. PhaseInv'
    BY <1>0, <1>3, <2>1, <2>2, <2>3 DEF PhaseInv
  <2>6. TargetInv'
    BY <1>0, <1>4, <2>1, <2>2, <2>3 DEF TargetInv, MetaRenamed
  <2>7. WrittenInv'
    BY <1>0, <1>3, <1>4, <2>1, <2>2, <2>3 DEF WrittenInv
  <2>8. SyncInv'
    <3>1. writer[MetaObject] # "renamed"
      BY <1>0, <2>1 DEF PhaseInv
    <3>2. QED
      BY <1>0, <1>3, <1>4, <1>5, <2>1, <2>2, <2>3, <3>1 DEF SyncInv, Named
  <2>9. QED
    BY <1>5, <1>6, <2>4, <2>5, <2>6, <2>7, <2>8, IInvNext
<1>8. CASE MetadataWritten
  <2>1. /\ op.phase = "meta"
        /\ writer[MetaObject] = "done"
        /\ op' = [op EXCEPT !.phase = "cleanup"]
        /\ writer' = writer
    BY <1>8 DEF MetadataWritten
  <2>2. /\ op' \in Operation
        /\ op'.phase = "cleanup"
        /\ op'.target = op.target
        /\ op'.todo = op.todo
        /\ op'.drop = op.drop
    BY <1>3, <2>1 DEF Operation
  <2>3. OwnTypes'
    BY <1>0, <1>4, <2>1, <2>2 DEF OwnTypes
  <2>4. PhaseInv'
    BY <1>0, <2>1, <2>2 DEF PhaseInv, Ended, Objects
  <2>5. TargetInv'
    BY <1>0, <1>4, <2>1, <2>2 DEF TargetInv, MetaRenamed
  <2>6. WrittenInv'
    BY <2>2 DEF WrittenInv
  <2>7. SyncInv'
    BY <1>0, <1>4, <1>5, <2>1, <2>2 DEF SyncInv, Named
  <2>8. QED
    BY <1>5, <1>6, <2>3, <2>4, <2>5, <2>6, <2>7, IInvNext
<1>9. QED
  BY <1>7, <1>8

\* Only parts are deleted that ".tsync" does not name.
LEMMA DeleteStep ==
    ASSUME IInv, NEW q \in Parts, Delete(q) \/ DeleteFails(q)
    PROVE  IInv'
<1>0. OwnTypes /\ DiskInv /\ PhaseInv /\ TargetInv /\ WrittenInv /\ InDirs /\ SyncInv
  BY IInvIs
<1>1. /\ op.phase = "cleanup"
      /\ q \in op.drop
      /\ op' = [op EXCEPT !.drop = @ \ {q}]
      /\ UNCHANGED <<ordered, stable, runs, writer, syncOK>>
  BY DEF Delete, DeleteFails
<1>2. now \in Disk
  BY <1>0, NowType
<1>3. /\ op' \in Operation
      /\ op'.phase = "cleanup"
      /\ op'.target = op.target
      /\ op'.todo = op.todo
      /\ op'.drop = op.drop \ {q}
  BY <1>0, <1>1 DEF OwnTypes, Operation
<1>4. now.meta[q] = Absent
  BY <1>0, <1>1 DEF TargetInv
<1>5. /\ now'.meta = now.meta
      /\ now'.shards = now.shards
      /\ \A p \in Parts : now'.parts[p] \in {Absent, now.parts[p]}
      /\ DiskInv'
      /\ \A what, p : Waiting(what, p)' => \/ Waiting(what, p)
                                           \/ what = "part" /\ p = q
  <2>1. CASE UNCHANGED <<now, pending>>
    <3>1. DiskInv' /\ \A what, p : Waiting(what, p)' <=> Waiting(what, p)
      BY <1>0, <1>1, <2>1, KeepStep
    <3>2. QED
      BY <2>1, <3>1
  <2>2. CASE ~ UNCHANGED <<now, pending>>
    <3> DEFINE c == Change("part", q, Absent)
    <3>1. now' = [now EXCEPT !.parts[q] = Absent] /\ pending' = Made(c)
      BY <2>2 DEF Delete, DeleteFails
    <3>2. Absent \in Passwords
      BY BoundsAssumption DEF Absent, Passwords
    <3>3. c \in DirChange /\ c.what = "part" /\ c.part = q /\ c.value = Absent
      BY <3>2 DEF Change, DirChange
    <3>4. /\ now'.meta = now.meta
          /\ now'.shards = now.shards
          /\ now'.parts = [now.parts EXCEPT ![q] = Absent]
      BY <1>2, <3>1 DEF Disk
    <3>5. \A p \in Parts : now'.parts[p] = IF p = q THEN Absent ELSE now.parts[p]
      BY <1>2, <3>4 DEF Disk, Records
    <3> HIDE DEF c
    <3>6. now' = Changed(now, c)
      BY <3>1, <3>3 DEF Changed
    <3>7. ordered => Sound(now')
      BY <1>0, <1>4, <3>4, <3>5, SoundNow DEF Sound, Named
    <3>8. /\ DiskInv'
          /\ \A what, p : Waiting(what, p)' <=> \/ Waiting(what, p)
                                                \/ c.what = what /\ c.part = p
      BY <1>0, <1>1, <3>1, <3>3, <3>6, <3>7, MadeStep
    <3>9. QED
      BY <3>3, <3>4, <3>5, <3>8
  <2>3. QED
    BY <2>1, <2>2
<1>6. OwnTypes'
  BY <1>0, <1>1, <1>3 DEF OwnTypes
<1>7. PhaseInv'
  BY <1>0, <1>1, <1>3 DEF PhaseInv
<1>8. TargetInv'
  BY <1>0, <1>1, <1>3, <1>5 DEF TargetInv, MetaRenamed
<1>9. WrittenInv'
  BY <1>3 DEF WrittenInv
<1>10. InDirs'
  BY <1>0, <1>5 DEF InDirs
<1>11. SyncInv'
  BY <1>0, <1>1, <1>3, <1>4, <1>5 DEF SyncInv, Named
<1>12. QED
  BY <1>5, <1>6, <1>7, <1>8, <1>9, <1>10, <1>11, IInvNext

\* An operation returns, or the process dies.
LEMMA EndStep ==
    ASSUME IInv, Return \/ Rest \/ ReturnError \/ Die
    PROVE  IInv'
<1>0. OwnTypes /\ DiskInv /\ PhaseInv /\ TargetInv /\ WrittenInv /\ InDirs /\ SyncInv
  BY IInvIs
<1>1. MetaObject \in Objects
  BY DEF Objects
<1>2. UNCHANGED <<ordered, now, stable, pending, runs>>
  BY DEF Return, Rest, ReturnError, Die
<1>3. op' \in {Idle, Finished}
  BY Zenon DEF Return, Rest, ReturnError, Die
<1>4. Idle \in Operation /\ Finished \in Operation
  <2>1. NoRecords \in Records
    BY BoundsAssumption DEF NoRecords, Records, Absent, Passwords
  <2>2. QED
    BY <2>1 DEF Idle, Finished, Operation
<1>5. op' \in Operation /\ op'.phase = "idle"
  BY <1>3, <1>4 DEF Idle, Finished
<1>6. /\ writer' \in [Objects -> WriterStates]
      /\ syncOK' \in BOOLEAN
      /\ \A o \in Objects : writer'[o] \in Ended
      /\ syncOK' => syncOK /\ writer[MetaObject] # "renamed"
  <2>1. CASE Return \/ Rest \/ ReturnError
    <3>1. UNCHANGED <<writer, syncOK>>
      BY <2>1 DEF Return, Rest, ReturnError
    <3>2. \A o \in Objects : writer[o] \in Ended
      <4>1. CASE Return \/ Rest
        BY <1>0, <4>1 DEF Return, Rest, PhaseInv, Finished, Idle
      <4>2. CASE ReturnError
        BY <4>2 DEF ReturnError, Ended
      <4>3. QED
        BY <2>1, <4>1, <4>2
    <3>3. QED
      BY <1>0, <1>1, <3>1, <3>2 DEF Ended, OwnTypes
  <2>2. CASE Die
    <3>1. /\ writer' = [o \in Objects |-> "none"]
          /\ syncOK' = (syncOK /\ \A o \in Objects : writer[o] # "renamed")
      BY <2>2 DEF Die
    <3>2. syncOK' \in BOOLEAN /\ (syncOK' => syncOK /\ \A o \in Objects : writer[o] # "renamed")
      BY <3>1, Zenon
    <3>3. QED
      BY <1>1, <3>1, <3>2 DEF WriterStates, Ended
  <2>3. QED
    BY <2>1, <2>2
<1>7. DiskInv' /\ \A what, p : Waiting(what, p)' <=> Waiting(what, p)
  BY <1>0, <1>2, KeepStep
<1>8. OwnTypes'
  BY <1>0, <1>2, <1>5, <1>6 DEF OwnTypes
<1>9. PhaseInv' /\ TargetInv' /\ WrittenInv'
  BY <1>5, <1>6 DEF PhaseInv, TargetInv, WrittenInv, MetaRenamed
<1>10. InDirs'
  BY <1>0, <1>2 DEF InDirs
<1>11. SyncInv'
  BY <1>0, <1>2, <1>5, <1>6, <1>7 DEF SyncInv, Named
<1>12. QED
  BY <1>7, <1>8, <1>9, <1>10, <1>11, IInvNext

\* The machine crashes: what is left is all there is, and all of it is on the medium.
LEMMA CrashInv ==
    ASSUME IInv, Crash
    PROVE  IInv'
<1>0. OwnTypes /\ DiskInv
  BY IInvIs
<1>1. /\ now' \in Survivors \cup {EmptyDisk}
      /\ stable' = now'
      /\ pending' = NoPending
      /\ op' = Idle
      /\ writer' = [o \in Objects |-> "none"]
      /\ UNCHANGED <<ordered, runs>>
  BY DEF Crash
<1>2. syncOK' \in BOOLEAN
  BY Zenon DEF Crash
<1>3. /\ DiskInv'
      /\ InDirs'
      /\ \A what, p : ~ Waiting(what, p)'
  BY <1>0, <1>1, CrashStep DEF InDirs
<1>4. NoRecords \in Records
  BY BoundsAssumption DEF NoRecords, Records, Absent, Passwords
<1>5. op' \in Operation /\ op'.phase = "idle"
  BY <1>1, <1>4 DEF Idle, Operation
<1>6. OwnTypes'
  BY <1>0, <1>1, <1>2, <1>5 DEF OwnTypes, WriterStates
<1>7. PhaseInv' /\ TargetInv' /\ WrittenInv'
  BY <1>1, <1>5 DEF PhaseInv, TargetInv, WrittenInv, MetaRenamed, Ended
<1>8. SyncInv'
  BY <1>3, <1>5 DEF SyncInv
<1>9. QED
  BY <1>3, <1>6, <1>7, <1>8, IInvNext

-----------------------------------------------------------------------------
(* The invariant holds. *)

\* It holds of an empty directory.
LEMMA InitInv == Init => IInv
<1>1. SUFFICES ASSUME Init PROVE IInv
  OBVIOUS
<1>2. /\ now = EmptyDisk
      /\ stable = EmptyDisk
      /\ pending = NoPending
      /\ runs = 0
      /\ op = Idle
      /\ writer = [o \in Objects |-> "none"]
      /\ ordered \in BOOLEAN
      /\ syncOK \in BOOLEAN
  BY <1>1, Zenon DEF Init
<1>3. NoRecords \in Records /\ 0 \in Passwords
  BY BoundsAssumption DEF NoRecords, Records, Absent, Passwords
<1>4. EmptyDisk \in Disk /\ EmptyDisk.meta = NoRecords /\ EmptyDisk.parts = NoRecords
  BY EmptyIsSound
<1>5. op \in Operation /\ op.phase = "idle"
  BY <1>2, <1>3 DEF Idle, Operation
<1>6. DOMAIN pending = {}
  BY <1>2 DEF NoPending
<1>7. \A what, p : ~ Waiting(what, p)
  BY <1>6 DEF Waiting, Of
<1>8. KeptOf(pending, stable, {}) = now
  BY <1>2, <1>4, KeptNothing
<1>9. Timed(pending)
  BY <1>6 DEF Timed
<1>10. Sound(EmptyDisk)
  BY EmptyIsSound
<1>11. \A I \in Prefixes : Sound(KeptOf(pending, stable, I))
  <2>1. \A I \in Prefixes : I = {}
    BY <1>6 DEF Prefixes
  <2>2. Sound(KeptOf(pending, stable, {}))
    BY <1>2, <1>8, <1>10
  <2>3. QED
    BY <2>1, <2>2
<1>12. DiskInv
  BY <1>2, <1>4, <1>6, <1>8, <1>9, <1>11, DiskInvIs
<1>13. OwnTypes
  BY <1>2, <1>3, <1>5 DEF OwnTypes, WriterStates
<1>14. PhaseInv /\ TargetInv /\ WrittenInv
  BY <1>2, <1>5 DEF PhaseInv, TargetInv, WrittenInv, MetaRenamed, Ended
<1>15. InDirs
  BY <1>2, <1>4 DEF InDirs, NoRecords
<1>16. SyncInv
  BY <1>5, <1>7 DEF SyncInv
<1>17. QED
  BY <1>12, <1>13, <1>14, <1>15, <1>16, IInvIs

\* Every step keeps it.
LEMMA StepInv == IInv /\ [Next]_vars => IInv'
<1>1. SUFFICES ASSUME IInv, [Next]_vars PROVE IInv'
  OBVIOUS
<1>2. ASSUME NEW o \in Objects, \/ OpenWriter(o)
                                \/ SyncFile(o)
                                \/ Rename(o)
                                \/ SyncDir(o)
                                \/ SyncDirFails(o)
                                \/ WriteFails(o)
      PROVE  IInv'
  BY <1>1, <1>2, OpenWriterStep, SyncFileStep, RenameStep, SyncDirStep
<1>3. CASE \/ \E N \in SUBSET Parts, single \in BOOLEAN : StartBackup(N, single)
           \/ \E N \in SUBSET Named(now.meta) : StartDelete(N)
           \/ StartGC
  BY <1>1, <1>3, StartStep
<1>4. CASE WriteMetadata \/ MetadataWritten
  BY <1>1, <1>4, PhaseStep
<1>5. ASSUME NEW p \in Parts, Delete(p) \/ DeleteFails(p)
      PROVE  IInv'
  BY <1>1, <1>5, DeleteStep
<1>6. CASE Return \/ Rest \/ ReturnError \/ Die
  BY <1>1, <1>6, EndStep
<1>7. CASE Crash
  BY <1>1, <1>7, CrashInv
<1>8. CASE UNCHANGED vars
  <2>1. OwnTypes /\ DiskInv /\ PhaseInv /\ TargetInv /\ WrittenInv /\ InDirs /\ SyncInv
    BY <1>1, IInvIs
  <2>2. DiskInv' /\ \A what, p : Waiting(what, p)' <=> Waiting(what, p)
    BY <1>8, <2>1, KeepStep DEF vars
  <2>3. OwnTypes' /\ PhaseInv' /\ TargetInv' /\ WrittenInv' /\ InDirs'
    BY <1>8, <2>1
    DEF vars, OwnTypes, PhaseInv, TargetInv, MetaRenamed, WrittenInv, InDirs
  <2>4. SyncInv'
    BY <1>8, <2>1, <2>2 DEF vars, SyncInv, Named
  <2>5. QED
    BY <2>2, <2>3, <2>4, IInvNext
<1>9. QED
  BY <1>1, <1>2, <1>3, <1>4, <1>5, <1>6, <1>7, <1>8 DEF Next

\* The invariant of a store in LocalStorage, through all failures and crashes.
LEMMA Invariance == Spec => []IInv
BY InitInv, StepInv, PTL DEF Spec

\* The store's directory is made before anything is written into it, and made durable by
\* the first fsync on an ordered file system.
LEMMA RootStep == IInv /\ RootInv /\ [Next]_vars => RootInv'
<1> SUFFICES ASSUME IInv, RootInv, [Next]_vars PROVE RootInv'
  OBVIOUS
<1>0. writer \in [Objects -> WriterStates] /\ ordered \in BOOLEAN
  BY DEF IInv, TypeOK
<1>1. ASSUME NEW o \in Objects, OpenWriter(o)
      PROVE  RootInv'
  <2>1. /\ root' = IF root = "absent" THEN "new" ELSE root
        /\ UNCHANGED <<ordered, stable>>
    BY <1>1 DEF OpenWriter
  <2>2. QED
    BY <2>1 DEF RootInv
<1>2. ASSUME NEW o \in Objects, SyncFile(o) \/ Rename(o) \/ SyncDirFails(o) \/ WriteFails(o)
      PROVE  RootInv'
  <2>1. PICK x \in {"synced", "renamed", "done", "failed"} :
           /\ writer' = [writer EXCEPT ![o] = x]
           /\ x \in {"synced", "renamed"} => writer[o] \in {"open", "synced"}
           /\ UNCHANGED <<ordered, root, stable>>
    BY <1>0, <1>2 DEF SyncFile, Rename, SyncDirFails, WriteFails, SyncedState, WriterStates
  <2>2. \A q \in Objects : writer'[q] = IF q = o THEN x ELSE writer[q]
    BY <1>0, <2>1
  <2>3. QED
    BY <2>1, <2>2 DEF RootInv
<1>3. ASSUME NEW o \in Objects, SyncDir(o)
      PROVE  RootInv'
  <2>1. writer[o] = "renamed" /\ root' = RootSynced /\ ordered' = ordered
    BY <1>3 DEF SyncDir
  <2>2. root \in {"new", "durable"}
    BY <2>1 DEF RootInv
  <2>3. CASE ordered
    BY <2>1, <2>3 DEF RootInv, RootSynced
  <2>4. CASE ~ ordered
    <3>1. root' = root
      BY <2>1, <2>4, Zenon DEF RootSynced
    <3>2. ~ ordered'
      BY <2>1, <2>4, Zenon
    <3>3. QED
      BY <2>2, <3>1, <3>2 DEF RootInv
  <2>5. QED
    BY <2>3, <2>4
<1>4. ASSUME NEW kind, NEW target, NEW todo, NEW drop, Begin(kind, target, todo, drop),
             UNCHANGED <<ordered, root, stable>>
      PROVE  RootInv'
  <2>1. \A o \in Objects : writer'[o] \in {"start", "none"}
    BY <1>4 DEF Begin
  <2>2. QED
    BY <1>4, <2>1 DEF RootInv
<1>5. CASE \/ \E N \in SUBSET Parts, single \in BOOLEAN : StartBackup(N, single)
           \/ \E N \in SUBSET Named(now.meta) : StartDelete(N)
           \/ StartGC
  BY <1>4, <1>5, Zenon DEF StartBackup, StartDelete, StartGC
<1>6. CASE WriteMetadata
  <2>1. /\ writer' = [writer EXCEPT ![MetaObject] = "start"]
        /\ UNCHANGED <<ordered, root, stable>>
    BY <1>6 DEF WriteMetadata
  <2>2. \A q \in Objects : writer'[q] \in {"start", writer[q]}
    BY <1>0, <2>1
  <2>3. QED
    BY <2>1, <2>2 DEF RootInv
<1>7. CASE \/ MetadataWritten \/ Return \/ Rest \/ ReturnError
           \/ \E p \in Parts : Delete(p) \/ DeleteFails(p)
           \/ UNCHANGED vars
  <2>1. UNCHANGED <<ordered, root, stable, writer>>
    BY <1>7 DEF MetadataWritten, Return, Rest, ReturnError, Delete, DeleteFails, vars
  <2>2. QED
    BY <2>1 DEF RootInv
<1>8. CASE Die
  <2>1. writer' = [o \in Objects |-> "none"] /\ UNCHANGED <<ordered, root, stable>>
    BY <1>8 DEF Die
  <2>2. QED
    BY <2>1 DEF RootInv
<1>9. CASE Crash
  <2>1. /\ writer' = [o \in Objects |-> "none"]
        /\ stable' = now'
        /\ root' = "durable" \/ (root' = "absent" /\ now' = EmptyDisk)
    BY <1>9 DEF Crash
  <2>2. QED
    BY <2>1 DEF RootInv
<1>10. QED
  BY <1>1, <1>2, <1>3, <1>5, <1>6, <1>7, <1>8, <1>9 DEF Next

\* What is known of the store's directory holds throughout.
LEMMA RootInvariance == Spec => []RootInv
<1>1. Init => RootInv
  BY DEF Init, RootInv
<1>2. QED
  BY <1>1, RootStep, Invariance, PTL DEF Spec

\* Where the loss of the directory matters, it had nothing durable in it: such a loss is
\* one of the crashes that keep it.
LEMMA LossIsEmpty ==
    ASSUME IInv, RootInv, root # "durable", ordered \/ root # "new"
    PROVE  EmptyDisk \in Survivors
<1>1. stable = EmptyDisk
  <2>1. root \in {"absent", "new"}
    BY DEF RootInv
  <2>2. root = "absent" \/ (ordered /\ root = "new")
    BY <2>1, Zenon
  <2>3. QED
    BY <2>2, Zenon DEF RootInv
<1>2. Kept({}) = EmptyDisk
  <2>1. KeptOf(pending, EmptyDisk, {}) = EmptyDisk
    BY KeptNothing, EmptyIsSound
  <2>2. QED
    BY <1>1, <2>1, KeptIsOf
<1>3. Found(EmptyDisk) = EmptyDisk
  <2>1. [p \in Parts |-> IF p \in EmptyDisk.shards THEN EmptyDisk.parts[p] ELSE Absent] = NoRecords
    BY DEF EmptyDisk, NoRecords
  <2>2. Found(EmptyDisk) = [EmptyDisk EXCEPT !.parts = NoRecords]
    BY <2>1, Zenon DEF Found
  <2>3. QED
    BY <2>2 DEF EmptyDisk
<1>4. {} \in {J \in SUBSET DOMAIN pending :
                 ordered => \A i \in J, j \in DOMAIN pending : j < i => j \in J}
  OBVIOUS
<1>5. QED
  BY <1>2, <1>3, <1>4, Zenon DEF Survivors

-----------------------------------------------------------------------------
(* What it shows. *)

\* "Readers observe either the old or the new content, never a mix" (LocalStorage.Write and
\* OpenWriter): because a file is fsynced before it is renamed, no object is torn, not even
\* after a crash.
THEOREM ObjectsWhole == Spec => []WholeObjects
<1>1. IInv => WholeObjects
  BY BoundsAssumption DEF IInv, TypeOK, Disk, Records, Passwords, WholeObjects, Torn
<1>2. QED
  BY <1>1, Invariance, PTL

\* On an ordered file system every part that ".tsync" names is there at all times, also
\* after crashes and where syncDir fails.
THEOREM NamedParts == Spec => []NamedPartsThere
<1>1. IInv => NamedPartsThere
  BY SoundNow, IInvIs DEF NamedPartsThere, Consistent, Sound
<1>2. QED
  BY <1>1, Invariance, PTL

\* Where every syncDir worked, what a crash leaves in the store's directory has the ".tsync" of now and, of the
\* parts it names, all that are there now, unless ".tsync" itself waits to be fsynced.
LEMMA NothingLost ==
    ASSUME IInv, syncOK, writer[MetaObject] # "renamed", NEW disk \in Survivors
    PROVE  /\ disk.meta = now.meta
           /\ \A p \in Named(now.meta) : disk.parts[p] = now.parts[p]
<1>0. DiskInv /\ InDirs /\ SyncInv
  BY IInvIs
<1>1. PICK I \in SUBSET DOMAIN pending :
               /\ KeptOf(pending, stable, I) \in Disk
               /\ disk = Found(KeptOf(pending, stable, I))
  BY <1>0, SurvivorIs
<1> DEFINE d == KeptOf(pending, stable, I)
<1>2. /\ disk.meta = d.meta
      /\ \A p \in Parts : disk.parts[p] = IF p \in d.shards THEN d.parts[p] ELSE Absent
  BY <1>1, FoundType
<1>3. now = KeptOf(pending, stable, DOMAIN pending)
  BY <1>0, DiskInvIs
<1>4. ASSUME NEW what, NEW p, ~ Waiting(what, p)
      PROVE  OfIn(pending, I, what, p) = {} /\ OfIn(pending, DOMAIN pending, what, p) = {}
  BY <1>4 DEF Waiting, Of, OfIn
<1>5. d.meta = now.meta
  <2>1. ~ Waiting("meta", MetaObject)
    BY <1>0 DEF SyncInv
  <2>2. QED
    BY <1>3, <1>4, <2>1 DEF KeptOf, LastIn
<1>6. ASSUME NEW p \in Named(now.meta)
      PROVE  disk.parts[p] = now.parts[p]
  <2>1. p \in Parts /\ ~ Waiting("part", p) /\ ~ Waiting("shard", p)
    BY <1>0 DEF SyncInv, Named
  <2>2. d.parts[p] = now.parts[p]
    BY <1>3, <1>4, <2>1 DEF KeptOf, LastIn
  <2>3. p \in d.shards <=> p \in now.shards
    BY <1>3, <1>4, <2>1 DEF KeptOf
  <2> HIDE DEF d
  <2>4. QED
    BY <1>0, <1>2, <2>1, <2>2, <2>3 DEF InDirs
<1>7. QED
  BY <1>2, <1>5, <1>6

\* On any other file system a crash finds a consistent store where every syncDir worked,
\* except between the rename of ".tsync" and the fsync of the root.
THEOREM CrashIsConsistent == Spec => []CrashConsistent
<1>1. IInv => CrashConsistent
  <2>1. SUFFICES ASSUME IInv, syncOK, writer[MetaObject] # "renamed", Consistent(now),
                        NEW disk \in Outcomes
                 PROVE  Consistent(disk)
    BY DEF CrashConsistent
  <2>2. CASE disk \in Survivors
    <3>1. /\ disk.meta = now.meta
          /\ \A p \in Named(now.meta) : disk.parts[p] = now.parts[p]
      BY <2>1, <2>2, NothingLost
    <3>2. QED
      BY <2>1, <3>1 DEF Consistent
  <2>3. CASE disk = EmptyDisk
    BY <2>3, EmptyIsSound DEF Consistent
  <2>4. QED
    BY <2>1, <2>2, <2>3 DEF Outcomes
<1>2. QED
  BY <1>1, Invariance, PTL

\* When an operation has returned nil and every syncDir worked, no crash brings back an
\* older ".tsync" or takes away a part it names, on an ordered file system, and on any
\* other unless the store itself made its directory since the last crash.
THEOREM SuccessDurable == Spec => []SuccessIsDurable
<1>1. IInv /\ RootInv => SuccessIsDurable
  <2>1. SUFFICES ASSUME IInv, RootInv, op = Finished, syncOK, ordered \/ root # "new",
                        NEW disk \in Outcomes
                 PROVE  /\ disk.meta = now.meta
                        /\ \A p \in Named(now.meta) : disk.parts[p] = now.parts[p]
    BY Zenon DEF SuccessIsDurable
  <2>2. writer[MetaObject] # "renamed"
    BY <2>1 DEF IInv, PhaseInv, Finished, Idle, Ended, Objects
  <2>3. disk \in Survivors
    <3>1. CASE root = "durable"
      BY <2>1, <3>1 DEF Outcomes
    <3>2. CASE root # "durable"
      <4>1. EmptyDisk \in Survivors
        BY <2>1, <3>2, LossIsEmpty, Zenon
      <4>2. QED
        BY <2>1, <4>1 DEF Outcomes
    <3>3. QED
      BY <3>1, <3>2
  <2>4. QED
    BY <2>1, <2>2, <2>3, NothingLost
<1>2. QED
  BY <1>1, Invariance, RootInvariance, PTL
=============================================================================
