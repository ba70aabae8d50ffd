---------------------------- MODULE InfraProofs ----------------------------
(***************************************************************************)
(* Proofs about InfraCycles and InfraProjects together: an import that was *)
(* checked is undone only in doubt (a lost lock, a lost answer, a rolled   *)
(* back publication of a seed), and what the projects keep can be restored.*)
(***************************************************************************)
EXTENDS InfraProjects, TLAPS, FiniteSetTheorems

vars == <<cycleVars, projectVars>>

-----------------------------------------------------------------------------
(* The references.                                                         *)

Row == [status : {"none", "deleted", "DRAFT", "PUBLISHED", "ARCHIVED"},
        import : {"none", "UPLOADING", "QUEUED", "PROCESSING", "PASSED", "FAILED"},
        chunks : SUBSET Chunks, snapshot : BOOLEAN, importedAt : Nat]

Working == {"claimed", "checked", "seeded", "failing"}
Doing == [at : {"rest", "locked"}]
  \cup [at : Working \cup {"publishing", "done"}, c : Cycles]

CyclesTypeOK ==
  /\ cycle \in [Cycles -> Row]
  /\ worker \in [Workers -> Doing]
  /\ lock \in Workers \cup {Free}
  /\ doubtful \subseteq Cycles

\* Who works on a reference nothing went wrong on works alone: it holds the lock,
\* or seeds a reference without chunks, and nobody else has changed the import.
WorksAlone(w) ==
  /\ cycle[worker[w].c].import = "PROCESSING"
  /\ lock = w \/ cycle[worker[w].c].chunks = {}
  /\ \A v \in Workers : worker[v].at \in Working /\ worker[v].c = worker[w].c => v = w

WorkIsExclusive == \A w \in Workers :
  worker[w].at \in Working /\ worker[w].c \notin doubtful => WorksAlone(w)

CyclesInv == CyclesTypeOK /\ WorkIsExclusive

LEMMA RowsAreCounted ==
  Cardinality({d \in Cycles : cycle[d] # Absent}) \in Nat
<1>1. IsFiniteSet({d \in Cycles : cycle[d] # Absent})
  BY FS_Subset, WorkersAndCycles
<1> QED  BY <1>1, FS_CardinalityType

LEMMA CyclesBegin == CyclesInit([c \in Cycles |-> Absent]) => CyclesInv
  BY DEF CyclesInit, CyclesInv, CyclesTypeOK, WorkIsExclusive, Row, Doing, Absent, Empty, Resting, Working

LEMMA InsertKeepsCycles ==
  ASSUME CyclesInv, NEW c \in Cycles, NEW import \in {"UPLOADING", "PROCESSING"},
         InsertCycle(c, import)
  PROVE  /\ cycle' \in [Cycles -> Row]
         /\ \A d \in Cycles \ {c} : cycle'[d] = cycle[d]
         /\ cycle'[c].import = import /\ cycle'[c].chunks = {}
         /\ \A w \in Workers : worker[w].at \in Working /\ worker[w].c = c => c \in doubtful
<1>1. PICK n \in Nat : n = Cardinality({d \in Cycles : cycle[d] # Absent})
  BY RowsAreCounted
<1>2. cycle' = [cycle EXCEPT ![c] = [status |-> "DRAFT", import |-> import, chunks |-> {},
                                     snapshot |-> FALSE, importedAt |-> n]]
  BY <1>1 DEF InsertCycle
<1>3. \A w \in Workers : worker[w].at \in Working /\ worker[w].c = c => c \in doubtful
  BY DEF InsertCycle, Absent, Empty, CyclesInv, WorkIsExclusive, WorksAlone
<1> QED  BY <1>2, <1>3 DEF CyclesInv, CyclesTypeOK, Row

\* What the administrator does to a reference leaves those in process alone.
LEMMA AdministrationKeepsCycles ==
  ASSUME CyclesInv, NEW c \in Cycles, NEW inUse \in BOOLEAN,
         \/ CreateCycle(c) \/ FinalizeCycle(c) \/ \E i \in Chunks : CycleChunk(c, i)
         \/ Publish(c) \/ Archive(c) \/ DeleteCycle(c, inUse)
  PROVE  CyclesInv'
<1>1. CASE CreateCycle(c)
  BY <1>1, InsertKeepsCycles
  DEF CreateCycle, CyclesInv, CyclesTypeOK, WorkIsExclusive, WorksAlone, processVars, Doing, Working
<1>2. CASE FinalizeCycle(c)
  BY <1>2 DEF FinalizeCycle, CyclesInv, CyclesTypeOK, WorkIsExclusive, WorksAlone, processVars, Row,
              Doing, Working
<1>3. CASE \E i \in Chunks : CycleChunk(c, i)
  BY <1>3 DEF CycleChunk, CyclesInv, CyclesTypeOK, WorkIsExclusive, WorksAlone, processVars, Row,
              Doing, Working
<1>4. CASE Publish(c)
  BY <1>4 DEF Publish, Publishable, CyclesInv, CyclesTypeOK, WorkIsExclusive, WorksAlone,
              processVars, Row, Doing, Working
<1>5. CASE Archive(c)
  BY <1>5 DEF Archive, CyclesInv, CyclesTypeOK, WorkIsExclusive, WorksAlone, processVars, Row,
              Doing, Working
<1>6. CASE DeleteCycle(c, inUse)
  BY <1>6 DEF DeleteCycle, Deletable, Deleted, Empty, CyclesInv, CyclesTypeOK, WorkIsExclusive,
              WorksAlone, processVars, Row, Doing, Working
<1> QED  BY <1>1, <1>2, <1>3, <1>4, <1>5, <1>6

LEMMA GoesOn ==
  ASSUME CyclesTypeOK, NEW w \in Workers, NEW at \in Working \cup {"publishing", "done"},
         worker[w].at \in Working \cup {"publishing", "done"}, Goes(w, at)
  PROVE  /\ worker'[w] = [at |-> at, c |-> worker[w].c] /\ worker[w].c \in Cycles
         /\ \A v \in Workers \ {w} : worker'[v] = worker[v]
         /\ worker' \in [Workers -> Doing]
<1>1. worker[w] \in [at : Working \cup {"publishing", "done"}, c : Cycles]
  BY DEF CyclesTypeOK, Doing, Working
<1>2. worker'[w] = [at |-> at, c |-> worker[w].c]
  BY <1>1 DEF Goes, CyclesTypeOK
<1>3. \A v \in Workers \ {w} : worker'[v] = worker[v]
  BY DEF Goes, CyclesTypeOK
<1> QED  BY <1>1, <1>2, <1>3 DEF Goes, CyclesTypeOK, Doing

\* Acquiring, checking, losing the lock and ending change no import.
LEMMA WaitingKeepsCycles ==
  ASSUME CyclesInv, NEW w \in Workers,
         \/ Acquire(w) \/ NothingWaits(w) \/ \E correct \in BOOLEAN : Check(w, correct)
         \/ End(w) \/ Crash(w) \/ LoseLock(w)
  PROVE  CyclesInv'
<1>1. CASE Acquire(w)
  BY <1>1, WorkersAndCycles DEF Acquire, Resting, CyclesInv, CyclesTypeOK, WorkIsExclusive,
     WorksAlone, Doing, Working
<1>2. CASE NothingWaits(w)
  BY <1>2, WorkersAndCycles DEF NothingWaits, Rest, Resting, CyclesInv, CyclesTypeOK,
     WorkIsExclusive, WorksAlone, Doing, Working
<1>3. CASE \E correct \in BOOLEAN : Check(w, correct)
  <2>1. PICK at \in {"checked", "failing"} :
          worker[w].at = "claimed" /\ Goes(w, at) /\ UNCHANGED <<cycle, lock, doubtful>>
    BY <1>3 DEF Check
  <2>2. /\ worker'[w] = [at |-> at, c |-> worker[w].c] /\ worker[w].c \in Cycles
        /\ \A v \in Workers \ {w} : worker'[v] = worker[v]
        /\ worker' \in [Workers -> Doing]
    BY <2>1, GoesOn DEF Working, CyclesInv
  <2>3. \A v \in Workers : worker'[v].at \in Working =>
          worker[v].at \in Working /\ worker'[v].c = worker[v].c
    BY <2>1, <2>2 DEF Working
  <2>4. WorkIsExclusive'
    BY <2>1, <2>3 DEF CyclesInv, WorkIsExclusive, WorksAlone
  <2> QED  BY <2>1, <2>2, <2>4 DEF CyclesInv, CyclesTypeOK
<1>4. CASE End(w)
  BY <1>4, WorkersAndCycles DEF End, Rest, Resting, CyclesInv, CyclesTypeOK,
     WorkIsExclusive, WorksAlone, Doing, Working
<1>5. CASE Crash(w)
  BY <1>5, WorkersAndCycles DEF Crash, Rest, Resting, CyclesInv, CyclesTypeOK,
     WorkIsExclusive, WorksAlone, Doing, Working
<1>6. CASE LoseLock(w)
  BY <1>6, WorkersAndCycles DEF LoseLock, CyclesInv, CyclesTypeOK,
     WorkIsExclusive, WorksAlone, Doing, Working
<1> QED  BY <1>1, <1>2, <1>3, <1>4, <1>5, <1>6

LEMMA ClaimKeepsCycles ==
  ASSUME CyclesInv, NEW w \in Workers, Claim(w)
  PROVE  CyclesInv'
<1>1. PICK c \in Cycles :
        /\ Waiting(cycle[c])
        /\ worker' = [worker EXCEPT ![w] = [at |-> "claimed", c |-> c]]
        /\ cycle' = [cycle EXCEPT ![c].import = "PROCESSING"]
        /\ doubtful' = IF lock = w THEN doubtful ELSE doubtful \cup {c}
  BY DEF Claim, OldestWaiting
<1>2. CyclesTypeOK'
  BY <1>1 DEF CyclesInv, CyclesTypeOK, Claim, Row, Doing, Working
<1>3. ASSUME NEW v \in Workers, worker[v].at \in Working, worker[v].c = c, c \notin doubtful'
      PROVE  FALSE
  BY <1>1, <1>3 DEF Waiting, Claim, CyclesInv, CyclesTypeOK, WorkIsExclusive, WorksAlone, Working
<1>4. WorkIsExclusive'
  BY <1>1, <1>3 DEF Claim, CyclesInv, CyclesTypeOK, WorkIsExclusive, WorksAlone, Row, Doing, Working
<1> QED  BY <1>2, <1>4 DEF CyclesInv

\* The only worker passes its reference, or gives it up.
LEMMA MaterializeKeepsCycles ==
  ASSUME CyclesInv, NEW w \in Workers, Materialize(w)
  PROVE  CyclesInv'
<1> DEFINE c == worker[w].c
<1>1. worker[w].at \in {"checked", "seeded"}
  BY DEF Materialize
<1>2. PICK at \in {"done", "publishing", "failing"} :
        /\ Goes(w, at)
        /\ \/ /\ cycle' = [cycle EXCEPT ![c].import = "PASSED", ![c].snapshot = TRUE,
                                         ![c].chunks = {}]
              /\ IF at = "failing" THEN doubtful' = doubtful \cup {c} ELSE doubtful' = doubtful
           \/ at = "failing" /\ UNCHANGED <<cycle, doubtful>>
  BY DEF Materialize, Committed, RolledBack
<1>3. /\ worker'[w] = [at |-> at, c |-> c] /\ c \in Cycles
      /\ \A v \in Workers \ {w} : worker'[v] = worker[v]
      /\ worker' \in [Workers -> Doing]
  BY <1>1, <1>2, GoesOn DEF Working, CyclesInv
<1> HIDE DEF c
<1>4. CyclesTypeOK'
  BY <1>2, <1>3 DEF CyclesInv, CyclesTypeOK, Row, Materialize
<1>5. \A v \in Workers \ {w} : worker[v].at \in Working /\ worker[v].c = c => c \in doubtful
  BY <1>1 DEF CyclesInv, WorkIsExclusive, WorksAlone, Working, c
<1>6. \A d \in Cycles \ {c} : cycle'[d] = cycle[d]
  BY <1>2 DEF CyclesInv, CyclesTypeOK
<1>7. lock' = lock /\ doubtful \subseteq doubtful'
  BY <1>2 DEF Materialize
<1>8. ASSUME NEW v \in Workers, worker'[v].at \in Working, worker'[v].c \notin doubtful'
      PROVE  WorksAlone(v)'
  <2>1. CASE worker'[v].c = c
    <3>1. v = w /\ cycle' = cycle
      BY <1>2, <1>3, <1>5, <1>7, <1>8, <2>1 DEF Working
    <3>2. worker[w].c = c /\ worker[w].at \in Working /\ c \notin doubtful
      BY <1>1, <1>7, <1>8, <2>1 DEF Working, c
    <3>3. WorksAlone(w)
      BY <3>2 DEF CyclesInv, WorkIsExclusive
    <3> QED  BY <1>3, <1>5, <1>7, <3>1, <3>2, <3>3 DEF WorksAlone
  <2>2. CASE worker'[v].c # c
    <3>1. v # w /\ worker'[v] = worker[v] /\ worker[v].c \in Cycles
      BY <1>3, <1>8, <2>2 DEF CyclesInv, CyclesTypeOK, Doing, Working
    <3>2. WorksAlone(v)
      BY <1>7, <1>8, <3>1 DEF CyclesInv, WorkIsExclusive
    <3> QED  BY <1>3, <1>6, <1>7, <2>2, <3>1, <3>2 DEF WorksAlone
  <2> QED  BY <2>1, <2>2
<1> QED  BY <1>4, <1>8 DEF CyclesInv, WorkIsExclusive

LEMMA FailKeepsCycles ==
  ASSUME CyclesInv, NEW w \in Workers, Fail(w)
  PROVE  CyclesInv'
<1> DEFINE c == worker[w].c
<1>1. c \in Cycles /\ worker[w].at = "failing"
  BY DEF Fail, CyclesInv, CyclesTypeOK, Doing, Working
<1> HIDE DEF c
<1>2. CyclesTypeOK'
  BY <1>1 DEF Fail, Rest, Resting, CyclesInv, CyclesTypeOK, Row, Doing, c
<1>3. \A d \in Cycles \ {c} : cycle'[d] = cycle[d]
  BY <1>1 DEF Fail, CyclesInv, CyclesTypeOK, c
<1>4. \A v \in Workers \ {w} : worker[v].at \in Working /\ worker[v].c = c => c \in doubtful
  BY <1>1 DEF CyclesInv, WorkIsExclusive, WorksAlone, Working, c
<1>5. /\ worker'[w] = Resting
      /\ \A v \in Workers \ {w} : worker'[v] = worker[v]
      /\ doubtful' = doubtful /\ (lock' = lock \/ lock = w)
  BY DEF Fail, Rest, CyclesInv, CyclesTypeOK
<1>6. ASSUME NEW v \in Workers, worker'[v].at \in Working, worker'[v].c \notin doubtful'
      PROVE  WorksAlone(v)'
  <2>1. v # w /\ worker'[v] = worker[v] /\ worker[v].c \in Cycles /\ worker[v].c # c
    BY <1>4, <1>5, <1>6 DEF Resting, CyclesInv, CyclesTypeOK, Doing, Working
  <2>2. WorksAlone(v)
    BY <1>5, <1>6, <2>1 DEF CyclesInv, WorkIsExclusive
  <2> QED  BY <1>3, <1>5, <2>1, <2>2 DEF WorksAlone, Resting, Working
<1> QED  BY <1>2, <1>6 DEF CyclesInv, WorkIsExclusive

LEMMA SeedKeepsCycles ==
  ASSUME CyclesInv, NEW w \in Workers, NEW c \in Cycles, NEW correct \in BOOLEAN,
         Seed(w, c, correct)
  PROVE  CyclesInv'
<1>1. PICK at \in {"seeded", "failing"} :
        /\ worker' = [worker EXCEPT ![w] = [at |-> at, c |-> c]]
        /\ UNCHANGED <<lock, doubtful>>
  BY DEF Seed
<1>2. /\ cycle' \in [Cycles -> Row]
      /\ \A d \in Cycles \ {c} : cycle'[d] = cycle[d]
      /\ cycle'[c].import = "PROCESSING" /\ cycle'[c].chunks = {}
      /\ \A v \in Workers : worker[v].at \in Working /\ worker[v].c = c => c \in doubtful
  BY InsertKeepsCycles DEF Seed
<1> QED  BY <1>1, <1>2 DEF CyclesInv, CyclesTypeOK, WorkIsExclusive, WorksAlone, Doing, Working

LEMMA SeedPublishKeepsCycles ==
  ASSUME CyclesInv, NEW w \in Workers, SeedPublish(w)
  PROVE  CyclesInv'
<1> DEFINE c == worker[w].c
<1>1. PICK at \in {"done", "failing"} :
        Goes(w, at) /\ (IF at = "failing" THEN doubtful' = doubtful \cup {c} ELSE doubtful' = doubtful)
  BY DEF SeedPublish, Committed, RolledBack
<1>2. /\ worker'[w] = [at |-> at, c |-> c] /\ c \in Cycles
      /\ \A v \in Workers \ {w} : worker'[v] = worker[v]
      /\ worker' \in [Workers -> Doing]
  BY <1>1, GoesOn DEF SeedPublish, Working, CyclesInv
<1>3. /\ cycle' = cycle \/ cycle' = [cycle EXCEPT ![c].status = "PUBLISHED"]
      /\ lock' = lock
  BY DEF SeedPublish, Committed, RolledBack
<1> HIDE DEF c
<1>4. /\ cycle' \in [Cycles -> Row]
      /\ \A d \in Cycles : cycle'[d].import = cycle[d].import /\ cycle'[d].chunks = cycle[d].chunks
  BY <1>2, <1>3 DEF CyclesInv, CyclesTypeOK, Row
<1> QED  BY <1>1, <1>2, <1>3, <1>4 DEF CyclesInv, CyclesTypeOK, WorkIsExclusive, WorksAlone, Working, Doing

\* What a step may do to a reference.
Advances(c) ==
  /\ c \in doubtful => c \in doubtful'
  /\ cycle[c].status \in {"PUBLISHED", "ARCHIVED"} => cycle'[c].status \in {"PUBLISHED", "ARCHIVED"}
  /\ cycle[c].import = "PASSED" =>
       cycle'[c].import = "PASSED" \/ cycle'[c] = Deleted \/ c \in doubtful

LEMMA AdministrationAdvances ==
  ASSUME CyclesInv, NEW c \in Cycles, NEW d \in Cycles, NEW inUse \in BOOLEAN,
         \/ CreateCycle(d) \/ FinalizeCycle(d) \/ \E i \in Chunks : CycleChunk(d, i)
         \/ Publish(d) \/ Archive(d) \/ DeleteCycle(d, inUse)
  PROVE  Advances(c)
<1>1. CASE CreateCycle(d) \/ FinalizeCycle(d) \/ \E i \in Chunks : CycleChunk(d, i)
  BY <1>1 DEF CreateCycle, InsertCycle, Absent, Empty, FinalizeCycle, CycleChunk, processVars,
              Advances, CyclesInv, CyclesTypeOK, Row
<1>2. CASE Publish(d) \/ Archive(d)
  BY <1>2 DEF Publish, Publishable, Archive, processVars, Advances, CyclesInv, CyclesTypeOK, Row
<1>3. CASE DeleteCycle(d, inUse)
  BY <1>3 DEF DeleteCycle, Deletable, Deleted, Empty, processVars, Advances, CyclesInv,
              CyclesTypeOK, Row
<1> QED  BY <1>1, <1>2, <1>3

LEMMA ProcessesAdvance ==
  ASSUME CyclesInv, NEW c \in Cycles, NEW w \in Workers,
         \/ \E d \in Cycles, correct \in BOOLEAN : Seed(w, d, correct)
         \/ Acquire(w) \/ Work(w) \/ Crash(w) \/ LoseLock(w)
  PROVE  Advances(c)
<1>1. CASE \E d \in Cycles, correct \in BOOLEAN : Seed(w, d, correct)
  BY <1>1 DEF Seed, InsertCycle, Absent, Empty, Advances, CyclesInv, CyclesTypeOK, Row
<1>2. CASE Acquire(w) \/ NothingWaits(w) \/ End(w) \/ Crash(w) \/ LoseLock(w)
  BY <1>2 DEF Acquire, NothingWaits, End, Crash, LoseLock, Advances
<1>3. CASE \E correct \in BOOLEAN : Check(w, correct)
  BY <1>3 DEF Check, Advances
<1>4. CASE Claim(w)
  BY <1>4 DEF Claim, OldestWaiting, Waiting, Advances, CyclesInv, CyclesTypeOK, Row
<1>5. CASE Materialize(w)
  <2>1. worker[w].c \in Cycles
    BY <1>5 DEF Materialize, CyclesInv, CyclesTypeOK, Doing, Working
  <2> QED  BY <1>5, <2>1 DEF Materialize, Committed, RolledBack, Advances, CyclesInv, CyclesTypeOK, Row
<1>6. CASE Fail(w)
  <2> DEFINE d == worker[w].c
  <2>1. d \in Cycles /\ (cycle[d].import = "PASSED" => d \in doubtful)
    BY <1>6 DEF Fail, CyclesInv, CyclesTypeOK, WorkIsExclusive, WorksAlone, Doing, Working
  <2>2. /\ doubtful' = doubtful
        /\ cycle' = cycle \/ cycle' = [cycle EXCEPT ![d].import = "FAILED"]
    BY <1>6 DEF Fail
  <2> HIDE DEF d
  <2> QED  BY <2>1, <2>2 DEF Advances, CyclesInv, CyclesTypeOK, Row
<1>7. CASE SeedPublish(w)
  <2>1. worker[w].c \in Cycles
    BY <1>7 DEF SeedPublish, CyclesInv, CyclesTypeOK, Doing, Working
  <2>2. /\ doubtful \subseteq doubtful'
        /\ \/ cycle' = cycle
           \/ cycle' = [cycle EXCEPT ![worker[w].c].status = "PUBLISHED"]
    BY <1>7 DEF SeedPublish, Committed, RolledBack
  <2> QED  BY <2>1, <2>2 DEF Advances, CyclesInv, CyclesTypeOK, Row
<1> QED  BY <1>1, <1>2, <1>3, <1>4, <1>5, <1>6, <1>7 DEF Work

\* Together: the references along a step of the whole product.
LEMMA CyclesStep ==
  ASSUME CyclesInv, [InfraNext]_vars
  PROVE  CyclesInv' /\ \A c \in Cycles : Advances(c)
<1>1. CASE UNCHANGED cycleVars
  <2>1. CyclesInv'
    BY <1>1 DEF cycleVars, CyclesInv, CyclesTypeOK, WorkIsExclusive, WorksAlone
  <2> QED  BY <1>1, <2>1 DEF cycleVars, Advances
<1>2. ASSUME NEW d \in Cycles, NEW inUse \in BOOLEAN,
         \/ CreateCycle(d) \/ FinalizeCycle(d) \/ \E i \in Chunks : CycleChunk(d, i)
         \/ Publish(d) \/ Archive(d) \/ DeleteCycle(d, inUse)
      PROVE  CyclesInv' /\ \A c \in Cycles : Advances(c)
  BY <1>2, AdministrationKeepsCycles, AdministrationAdvances
<1>3. ASSUME NEW w \in Workers,
         \/ \E d \in Cycles, correct \in BOOLEAN : Seed(w, d, correct)
         \/ Acquire(w) \/ Work(w) \/ Crash(w) \/ LoseLock(w)
      PROVE  CyclesInv' /\ \A c \in Cycles : Advances(c)
  <2>1. \A c \in Cycles : Advances(c)
    BY <1>3, ProcessesAdvance
  <2>2. CASE \E d \in Cycles, correct \in BOOLEAN : Seed(w, d, correct)
    BY <2>1, <2>2, SeedKeepsCycles
  <2>3. CASE Acquire(w) \/ Crash(w) \/ LoseLock(w)
    BY <2>1, <2>3, WaitingKeepsCycles
  <2>4. CASE Work(w)
    BY <2>1, <2>4, WaitingKeepsCycles, ClaimKeepsCycles, MaterializeKeepsCycles, FailKeepsCycles,
       SeedPublishKeepsCycles DEF Work
  <2> QED  BY <1>3, <2>1, <2>2, <2>3, <2>4
<1>4. CASE Import
  BY <1>4, <1>2, <1>3 DEF Import
<1>5. CASE ProjectsNext /\ ~UNCHANGED cycleVars
  <2>1. PICK d \in Cycles : Publish(d) \/ Archive(d) \/ DeleteCycle(d, Bound(d))
    BY <1>5 DEF ProjectsNext
  <2>2. Bound(d) \in BOOLEAN
    BY DEF Bound
  <2> QED  BY <1>2, <2>1, <2>2
<1> QED  BY <1>1, <1>4, <1>5 DEF InfraNext, vars, cycleVars, projectVars

-----------------------------------------------------------------------------
(* The projects.                                                           *)

ProjectRow == [state : {"none", "live", "trash", "purged"}, doc : Documents \cup {"none"},
               cycle : Cycles \cup {"none"}, version : Nat]
Version == [doc : Documents \cup {"none"}, cycle : Cycles]
Tab == [project : Projects \cup {"none"}, version : Nat, doc : Documents \cup {"none"},
        compared : [version : Nat, to : Cycles \cup {"none"}]]

\* The kept versions of one project are versions that it had.
VersionsOf(versions, row) ==
  /\ versions = [n \in DOMAIN versions |-> versions[n]]
  /\ \A n \in DOMAIN versions : n \in Nat /\ n <= row.version /\ versions[n] \in Version
  /\ row.state = "none" => versions = NoVersions

ProjectsTypeOK ==
  /\ project \in [Projects -> ProjectRow]
  /\ history = [p \in Projects |-> history[p]]
  /\ \A p \in Projects : VersionsOf(history[p], project[p])
  /\ tab \in [Tabs -> Tab]

\* A tab is never ahead of the project it shows.
TabsAreBehind == \A t \in Tabs : \A p \in Projects :
  tab[t].project = p =>
    /\ project[p].state # "none"
    /\ Exists(p) => tab[t].version <= project[p].version

ProjectsInv ==
  ProjectsTypeOK /\ TabsAreBehind /\ VersionNamesDocument /\ HistoryIsRestorable

\* A reference that a kept version may name.
Held(c) == Restorable(c) \/ c \in doubtful

LEMMA ProjectsBegin ==
  ASSUME ProjectsInit
  PROVE  ProjectsInv
<1>1. ProjectsTypeOK
  BY DEF ProjectsInit, ProjectsTypeOK, VersionsOf, NoProject, Emptied, NoVersions, Closed,
         NoComparison, ProjectRow, Tab
<1>2. TabsAreBehind /\ VersionNamesDocument
  BY ProjectsAssumption DEF ProjectsInit, TabsAreBehind, VersionNamesDocument, Closed
<1>3. HistoryIsRestorable
  BY DEF ProjectsInit, HistoryIsRestorable, Exists, NoProject, Emptied
<1> QED  BY <1>1, <1>2, <1>3 DEF ProjectsInv

\* What a new version leaves of the history: itself, and some of the older ones.
LEMMA KeptVersions ==
  ASSUME ProjectsTypeOK, NEW p \in Projects, NEW row \in ProjectRow, row.cycle \in Cycles,
         row.state = "live", \A n \in DOMAIN history[p] : n < row.version
  PROVE  /\ VersionsOf(Kept(p, row), row)
         /\ row.version \in DOMAIN Kept(p, row)
         /\ Kept(p, row)[row.version] = [doc |-> row.doc, cycle |-> row.cycle]
         /\ \A n \in DOMAIN Kept(p, row) : n # row.version =>
              n \in DOMAIN history[p] /\ Kept(p, row)[n] = history[p][n]
<1> DEFINE known == [n \in DOMAIN history[p] \cup {row.version} |->
                  IF n = row.version THEN [doc |-> row.doc, cycle |-> row.cycle] ELSE history[p][n]]
           kept == [n \in {m \in DOMAIN known : m > row.version - Retention} |-> known[n]]
<1>1. Kept(p, row) = kept
  BY DEF Kept
<1>2. row.version \in Nat /\ row.version > row.version - Retention /\ row.version \in DOMAIN known
  BY ProjectsAssumption DEF ProjectRow
<1>3. \A n \in DOMAIN known : n \in Nat /\ n <= row.version /\ known[n] \in Version
  BY <1>2 DEF ProjectsTypeOK, VersionsOf, ProjectRow, Version
<1>4. \A n \in DOMAIN known : n # row.version => n \in DOMAIN history[p] /\ known[n] = history[p][n]
  OBVIOUS
<1>5. known[row.version] = [doc |-> row.doc, cycle |-> row.cycle]
  OBVIOUS
<1> HIDE DEF known
<1> QED  BY <1>1, <1>2, <1>3, <1>4, <1>5 DEF VersionsOf

LEMMA NextRow ==
  ASSUME NEW row \in ProjectRow
  PROVE  /\ Next1(row) = [state |-> row.state, doc |-> row.doc, cycle |-> row.cycle,
                          version |-> row.version + 1]
         /\ row.version + 1 \in Nat
  BY DEF Next1, ProjectRow

LEMMA RestoredRow ==
  ASSUME NEW row \in ProjectRow, NEW kept
  PROVE  Restored(row, kept) = [state |-> row.state, doc |-> kept.doc, cycle |-> kept.cycle,
                                version |-> row.version + 1]
<1> DEFINE new == [state |-> row.state, doc |-> row.doc, cycle |-> row.cycle,
                   version |-> row.version + 1]
<1>1. Restored(row, kept) = [new EXCEPT !.doc = kept.doc, !.cycle = kept.cycle]
  BY NextRow DEF Restored
<1> QED  BY <1>1

\* A step of the references leaves what the projects keep restorable.
LEMMA CyclesKeepProjects ==
  ASSUME ProjectsInv, UNCHANGED projectVars, \A c \in Cycles : Advances(c)
  PROVE  ProjectsInv'
<1>1. \A c \in Cycles : Held(c) => Held(c)'
  BY DEF Held, Restorable, Advances, Deleted, Empty
<1>2. \A p \in Projects : \A n \in DOMAIN history[p] : history[p][n].cycle \in Cycles
  BY DEF ProjectsInv, ProjectsTypeOK, VersionsOf, Version
<1>3. HistoryIsRestorable'
  BY <1>1, <1>2 DEF ProjectsInv, HistoryIsRestorable, Held, Exists, projectVars
<1> QED  BY <1>3 DEF ProjectsInv, ProjectsTypeOK, TabsAreBehind, VersionNamesDocument, Exists,
                     projectVars

\* One project is written, with a history of its own.
LEMMA WrittenHistory ==
  ASSUME ProjectsInv, NEW p \in Projects, NEW row \in ProjectRow, row.cycle \in Cycles,
         row.state = "live", Held(row.cycle), \A n \in DOMAIN history[p] : n < row.version,
         \A n \in DOMAIN history[p] : Held(history[p][n].cycle),
         project' = [project EXCEPT ![p] = row],
         history' = [history EXCEPT ![p] = Kept(p, row)], UNCHANGED cycleVars
  PROVE  /\ project' \in [Projects -> ProjectRow]
         /\ history' = [q \in Projects |-> history'[q]]
         /\ \A q \in Projects : VersionsOf(history'[q], project'[q])
         /\ HistoryIsRestorable'
<1>1. /\ project' \in [Projects -> ProjectRow] /\ history' = [q \in Projects |-> history'[q]]
      /\ project'[p] = row /\ history'[p] = Kept(p, row)
      /\ \A q \in Projects \ {p} : project'[q] = project[q] /\ history'[q] = history[q]
  BY DEF ProjectsInv, ProjectsTypeOK
<1>2. /\ VersionsOf(history'[p], row)
      /\ row.version \in DOMAIN history'[p]
      /\ history'[p][row.version] = [doc |-> row.doc, cycle |-> row.cycle]
      /\ \A n \in DOMAIN history'[p] : n # row.version =>
           n \in DOMAIN history[p] /\ history'[p][n] = history[p][n]
  BY <1>1, KeptVersions DEF ProjectsInv
<1>3. /\ \A m \in DOMAIN history'[p] : m <= row.version
      /\ \A n \in DOMAIN history'[p] : Held(history'[p][n].cycle)
  BY <1>2 DEF VersionsOf
<1>5. HistoryIsRestorable'
  <2> SUFFICES ASSUME NEW q \in Projects, Exists(q)'
               PROVE  /\ \E n \in DOMAIN history'[q] :
                           /\ \A m \in DOMAIN history'[q] : m <= n
                           /\ history'[q][n] = [doc |-> project'[q].doc, cycle |-> project'[q].cycle]
                      /\ \A n \in DOMAIN history'[q] : Held(history'[q][n].cycle)
    BY DEF HistoryIsRestorable, Held, Restorable, Exists, cycleVars
  <2>1. CASE q = p
    BY <2>1, <1>1, <1>2, <1>3
  <2>2. CASE q # p
    BY <2>2, <1>1 DEF ProjectsInv, HistoryIsRestorable, Held, Exists
  <2> QED  BY <2>1, <2>2
<1> QED  BY <1>1, <1>2, <1>5 DEF ProjectsInv, ProjectsTypeOK

LEMMA InsertKeepsProjects ==
  ASSUME ProjectsInv, NEW p \in Projects, NEW c \in Cycles, NEW d \in Documents \cup {"none"},
         Held(c), Insert(p, c, d), UNCHANGED cycleVars
  PROVE  ProjectsInv'
<1> DEFINE row == [state |-> "live", doc |-> d, cycle |-> c, version |-> 1]
<1>1. row \in ProjectRow /\ row.cycle = c /\ row.state = "live" /\ DOMAIN history[p] = {}
  BY DEF ProjectRow, Insert, NoProject, Emptied, ProjectsInv, ProjectsTypeOK, VersionsOf, NoVersions
<1>2. /\ project' = [project EXCEPT ![p] = row] /\ history' = [history EXCEPT ![p] = Kept(p, row)]
      /\ tab' = tab
  BY DEF Insert
<1> HIDE DEF row
<1>3. /\ project' \in [Projects -> ProjectRow]
      /\ history' = [q \in Projects |-> history'[q]]
      /\ \A q \in Projects : VersionsOf(history'[q], project'[q])
      /\ HistoryIsRestorable'
  BY <1>1, <1>2, WrittenHistory
<1>4. \A t \in Tabs : tab[t].project # p
  BY DEF ProjectsInv, TabsAreBehind, Insert, NoProject, Emptied
<1>5. \A q \in Projects \ {p} : project'[q] = project[q]
  BY <1>2 DEF ProjectsInv, ProjectsTypeOK
<1>6. TabsAreBehind' /\ VersionNamesDocument'
  BY <1>2, <1>4, <1>5 DEF ProjectsInv, TabsAreBehind, VersionNamesDocument, Exists
<1> QED  BY <1>2, <1>3, <1>6 DEF ProjectsInv, ProjectsTypeOK

LEMMA WriteKeepsProjects ==
  ASSUME ProjectsInv, NEW t \in Tabs, MayWrite(t, "live"), NEW row \in ProjectRow,
         row.cycle \in Cycles, row.state = "live", Held(row.cycle),
         row.version = project[tab[t].project].version + 1, Write(t, row), UNCHANGED cycleVars
  PROVE  ProjectsInv'
<1> DEFINE p == tab[t].project
<1>0. p \in Projects /\ project[p].version \in Nat /\ project[p].state = "live" /\ Exists(p)
  BY DEF MayWrite, ProjectsInv, ProjectsTypeOK, ProjectRow, Exists
<1> HIDE DEF p
<1>1. /\ p \in Projects /\ project[p].version \in Nat /\ project[p].state = "live"
      /\ \A n \in DOMAIN history[p] : n < row.version
      /\ \A n \in DOMAIN history[p] : Held(history[p][n].cycle)
  <2>1. row.version = project[p].version + 1
    BY DEF p
  <2>2. \A n \in DOMAIN history[p] : n \in Nat /\ n <= project[p].version
    BY <1>0 DEF ProjectsInv, ProjectsTypeOK, VersionsOf
  <2>3. \A n \in DOMAIN history[p] : Held(history[p][n].cycle)
    BY <1>0 DEF ProjectsInv, HistoryIsRestorable, Held
  <2> QED  BY <1>0, <2>1, <2>2, <2>3
<1>2. /\ project' = [project EXCEPT ![p] = row] /\ history' = [history EXCEPT ![p] = Kept(p, row)]
      /\ tab' = [tab EXCEPT ![t].version = row.version, ![t].doc = row.doc]
  BY DEF Write, p
<1>3. /\ project' \in [Projects -> ProjectRow]
      /\ history' = [q \in Projects |-> history'[q]]
      /\ \A q \in Projects : VersionsOf(history'[q], project'[q])
      /\ HistoryIsRestorable'
  BY <1>1, <1>2, WrittenHistory
<1>4. /\ project'[p] = row
      /\ \A q \in Projects \ {p} : project'[q] = project[q]
      /\ tab' \in [Tabs -> Tab]
      /\ \A u \in Tabs \ {t} : tab'[u] = tab[u]
      /\ tab'[t].project = p /\ tab'[t].version = row.version /\ tab'[t].doc = row.doc
  <2>1. project'[p] = row /\ \A q \in Projects \ {p} : project'[q] = project[q]
    BY <1>1, <1>2 DEF ProjectsInv, ProjectsTypeOK
  <2>2. tab \in [Tabs -> Tab] /\ tab[t] \in Tab /\ tab[t].project = p
    BY DEF ProjectsInv, ProjectsTypeOK, p
  <2> DEFINE shown == [tab[t] EXCEPT !.version = row.version, !.doc = row.doc]
  <2>3. tab' = [tab EXCEPT ![t] = shown]
    BY <1>2, <2>2
  <2>4. /\ shown \in Tab /\ shown.project = p /\ shown.version = row.version
        /\ shown.doc = row.doc
    BY <2>2 DEF Tab, ProjectRow
  <2> HIDE DEF shown
  <2> QED  BY <2>1, <2>2, <2>3, <2>4
<1>5. \A u \in Tabs \ {t} : tab[u].project = p => tab[u].version < row.version
  BY <1>1, row.version = project[p].version + 1
     DEF ProjectsInv, TabsAreBehind, ProjectsTypeOK, Tab, Exists, p
<1>6. TabsAreBehind'
  <2> SUFFICES ASSUME NEW u \in Tabs, NEW q \in Projects, tab'[u].project = q
               PROVE  /\ project'[q].state # "none"
                      /\ Exists(q)' => tab'[u].version <= project'[q].version
    BY DEF TabsAreBehind
  <2>1. CASE q = p
    BY <2>1, <1>4, <1>5 DEF ProjectRow, ProjectsInv, ProjectsTypeOK, Tab
  <2>2. CASE q # p
    BY <2>2, <1>4 DEF ProjectsInv, TabsAreBehind, Exists
  <2> QED  BY <2>1, <2>2
<1>7. VersionNamesDocument'
  <2> SUFFICES ASSUME NEW u \in Tabs, NEW q \in Projects, tab'[u].project = q, Exists(q)',
                      tab'[u].version = project'[q].version
               PROVE  tab'[u].doc = project'[q].doc
    BY DEF VersionNamesDocument, Exists
  <2>1. CASE q = p
    BY <2>1, <1>4, <1>5 DEF ProjectRow, ProjectsInv, ProjectsTypeOK, Tab
  <2>2. CASE q # p
    BY <2>2, <1>4 DEF ProjectsInv, VersionNamesDocument, Exists
  <2> QED  BY <2>1, <2>2
<1> QED  BY <1>3, <1>4, <1>6, <1>7 DEF ProjectsInv, ProjectsTypeOK

\* The reference of a project is that of its newest kept version.
LEMMA BoundIsHeld ==
  ASSUME ProjectsInv, NEW p \in Projects, Exists(p)
  PROVE  project[p].cycle \in Cycles /\ Held(project[p].cycle)
<1>1. PICK n \in DOMAIN history[p] :
        history[p][n] = [doc |-> project[p].doc, cycle |-> project[p].cycle]
  BY DEF ProjectsInv, HistoryIsRestorable
<1>2. history[p][n] \in Version /\ history[p][n].cycle = project[p].cycle /\ Held(history[p][n].cycle)
  BY <1>1 DEF ProjectsInv, ProjectsTypeOK, VersionsOf, HistoryIsRestorable, Held
<1> QED  BY <1>2 DEF Version

LEMMA MoveToTrashKeepsProjects ==
  ASSUME ProjectsInv, NEW t \in Tabs, NEW restore \in BOOLEAN, MoveToTrash(t, restore),
         UNCHANGED cycleVars
  PROVE  ProjectsInv'
<1> DEFINE p == tab[t].project
           to == IF restore THEN "live" ELSE "trash"
           row == [Next1(project[p]) EXCEPT !.state = to]
<1>1. /\ p \in Projects /\ Exists(p) /\ project[p].version = tab[t].version
      /\ project[p].state # "none"
  BY DEF MoveToTrash, MayWrite, Exists
<1>2. /\ project' = [project EXCEPT ![p] = row]
      /\ tab' = [tab EXCEPT ![t].version = @ + 1] /\ history' = history
  BY DEF MoveToTrash
<1>3. /\ project[p] \in ProjectRow /\ row \in ProjectRow /\ row.state \in {"live", "trash"}
      /\ row.version = project[p].version + 1
      /\ row.doc = project[p].doc /\ row.cycle = project[p].cycle
  <2>1. project[p] \in ProjectRow
    BY <1>1 DEF ProjectsInv, ProjectsTypeOK
  <2>2. to \in {"live", "trash"}
    OBVIOUS
  <2> HIDE DEF p, to
  <2> QED  BY <2>1, <2>2, NextRow DEF ProjectRow
<1> HIDE DEF p, row
<1>4. /\ project' \in [Projects -> ProjectRow] /\ project'[p] = row
      /\ \A q \in Projects \ {p} : project'[q] = project[q]
      /\ tab' \in [Tabs -> Tab]
      /\ \A u \in Tabs \ {t} : tab'[u] = tab[u]
      /\ tab'[t].project = p /\ tab'[t].version = row.version /\ tab'[t].doc = tab[t].doc
  BY <1>1, <1>2, <1>3 DEF ProjectsInv, ProjectsTypeOK, Tab, ProjectRow, p
<1>5. \A q \in Projects : VersionsOf(history'[q], project'[q])
  BY <1>1, <1>2, <1>3, <1>4 DEF ProjectsInv, ProjectsTypeOK, VersionsOf, ProjectRow
<1>6. \A u \in Tabs \ {t} : tab[u].project = p => tab[u].version < row.version
  BY <1>1, <1>3 DEF ProjectsInv, TabsAreBehind, ProjectsTypeOK, Tab, ProjectRow
<1>7. TabsAreBehind'
  <2> SUFFICES ASSUME NEW u \in Tabs, NEW q \in Projects, tab'[u].project = q
               PROVE  /\ project'[q].state # "none"
                      /\ Exists(q)' => tab'[u].version <= project'[q].version
    BY DEF TabsAreBehind
  <2>1. CASE q = p
    BY <2>1, <1>3, <1>4, <1>6 DEF ProjectRow, ProjectsInv, ProjectsTypeOK, Tab
  <2>2. CASE q # p
    BY <2>2, <1>4 DEF ProjectsInv, TabsAreBehind, Exists
  <2> QED  BY <2>1, <2>2
<1>8. VersionNamesDocument'
  <2> SUFFICES ASSUME NEW u \in Tabs, NEW q \in Projects, tab'[u].project = q, Exists(q)',
                      tab'[u].version = project'[q].version
               PROVE  tab'[u].doc = project'[q].doc
    BY DEF VersionNamesDocument, Exists
  <2>1. CASE u = t
    <3>1. tab[t].doc = project[p].doc
      BY <1>1 DEF ProjectsInv, VersionNamesDocument, p
    <3> QED  BY <3>1, <2>1, <1>3, <1>4
  <2>2. CASE u # t /\ q = p
    BY <2>2, <1>4, <1>6 DEF ProjectRow, ProjectsInv, ProjectsTypeOK, Tab
  <2>3. CASE q # p
    BY <2>3, <1>4 DEF ProjectsInv, VersionNamesDocument, Exists
  <2> QED  BY <2>1, <2>2, <2>3
<1>9. HistoryIsRestorable'
  BY <1>1, <1>2, <1>3, <1>4 DEF ProjectsInv, HistoryIsRestorable, Exists, Restorable, cycleVars
<1> QED  BY <1>2, <1>4, <1>5, <1>7, <1>8, <1>9 DEF ProjectsInv, ProjectsTypeOK

LEMMA AccountKeepsProjects ==
  ASSUME ProjectsInv, DeletePersonal \/ GrantUser \/ Purge, UNCHANGED cycleVars
  PROVE  ProjectsInv'
<1>1. CASE GrantUser
  BY <1>1 DEF GrantUser, ProjectsInv, ProjectsTypeOK, TabsAreBehind, VersionNamesDocument,
              HistoryIsRestorable, Exists, Restorable, cycleVars
<1>2. CASE DeletePersonal
  <2>0. \A p \in Projects : project[p] \in ProjectRow
    BY DEF ProjectsInv, ProjectsTypeOK
  <2>1. /\ project' \in [Projects -> ProjectRow] /\ UNCHANGED <<history, tab>>
        /\ \A p \in Projects :
             \/ project'[p] = project[p] /\ project[p].state # "live"
             \/ /\ Exists(p) /\ Exists(p)' /\ project[p].state # "none" /\ project'[p].state # "none"
                /\ project'[p].version = project[p].version + 1
                /\ project'[p].doc = project[p].doc /\ project'[p].cycle = project[p].cycle
    BY <1>2, <2>0, NextRow DEF DeletePersonal, ProjectRow, Exists
  <2>2. \A p \in Projects : project[p].version \in Nat
    BY DEF ProjectsInv, ProjectsTypeOK, ProjectRow
  <2>3. \A t \in Tabs : tab[t].version \in Nat
    BY DEF ProjectsInv, ProjectsTypeOK, Tab
  <2>4. \A p \in Projects : VersionsOf(history'[p], project'[p])
    BY <2>1, <2>2 DEF ProjectsInv, ProjectsTypeOK, VersionsOf
  <2>5. TabsAreBehind' /\ VersionNamesDocument'
    BY <2>1, <2>2, <2>3 DEF ProjectsInv, TabsAreBehind, VersionNamesDocument, Exists
  <2>6. HistoryIsRestorable'
    BY <2>1 DEF ProjectsInv, HistoryIsRestorable, Exists, Restorable, cycleVars
  <2> QED  BY <2>1, <2>4, <2>5, <2>6 DEF ProjectsInv, ProjectsTypeOK
<1>3. CASE Purge
  <2>1. /\ project' \in [Projects -> ProjectRow] /\ tab' = tab
        /\ history' = [p \in Projects |-> NoVersions]
        /\ \A p \in Projects : ~Exists(p)' /\ (project'[p].state = "none" <=> project[p].state = "none")
    BY <1>3 DEF Purge, Emptied, ProjectsInv, ProjectsTypeOK, ProjectRow, Exists
  <2>2. \A p \in Projects : VersionsOf(history'[p], project'[p])
    BY <2>1 DEF VersionsOf, NoVersions
  <2> QED  BY <2>1, <2>2 DEF ProjectsInv, ProjectsTypeOK, TabsAreBehind, VersionNamesDocument,
                             HistoryIsRestorable
<1> QED  BY <1>1, <1>2, <1>3

LEMMA TabKeepsProjects ==
  ASSUME ProjectsInv, NEW t \in Tabs, UNCHANGED cycleVars,
         (\E p \in Projects : Open(t, p)) \/ \E to \in Cycles : Compare(t, to)
  PROVE  ProjectsInv'
<1>1. UNCHANGED <<project, history>> /\ tab' \in [Tabs -> Tab]
  <2>1. tab \in [Tabs -> Tab] /\ tab[t] \in Tab
    BY DEF ProjectsInv, ProjectsTypeOK
  <2>2. CASE \E p \in Projects : Open(t, p)
    BY <2>1, <2>2 DEF Open, ProjectsInv, ProjectsTypeOK, Tab, ProjectRow, NoComparison
  <2>3. CASE \E to \in Cycles : Compare(t, to)
    <3>1. PICK to \in Cycles : tab' = [tab EXCEPT ![t].compared =
                                        [version |-> tab[t].version, to |-> to]]
      BY <2>3 DEF Compare
    <3> DEFINE shown == [tab[t] EXCEPT !.compared = [version |-> tab[t].version, to |-> to]]
    <3>2. tab' = [tab EXCEPT ![t] = shown]
      BY <2>1, <3>1
    <3>3. shown \in Tab
      BY <2>1 DEF Tab
    <3> HIDE DEF shown
    <3>4. tab' \in [Tabs -> Tab]
      BY <2>1, <3>2, <3>3
    <3> QED  BY <3>4, <2>3 DEF Compare
  <2> QED  BY <2>2, <2>3
<1>2. TabsAreBehind'
  BY <1>1 DEF Open, Compare, ProjectsInv, ProjectsTypeOK, TabsAreBehind, Tab, Exists, ProjectRow
<1>3. VersionNamesDocument'
  BY <1>1 DEF Open, Compare, ProjectsInv, ProjectsTypeOK, VersionNamesDocument, Tab, Exists
<1>4. HistoryIsRestorable'
  BY <1>1 DEF ProjectsInv, HistoryIsRestorable, Exists, Restorable, cycleVars
<1> QED  BY <1>1, <1>2, <1>3, <1>4 DEF ProjectsInv, ProjectsTypeOK

\* Every step of the projects with the references as they are.
LEMMA OwnersKeepProjects ==
  ASSUME ProjectsInv, ProjectsNext, UNCHANGED cycleVars
  PROVE  ProjectsInv'
<1>1. ASSUME NEW p \in Projects, NEW c \in Cycles, NEW d \in Documents,
             CreateProject(p, c, d) \/ OpenWorkspace(p, c, d)
      PROVE  ProjectsInv'
  <2>1. Held(c) /\ Insert(p, c, d)
    BY <1>1 DEF CreateProject, OpenWorkspace, UsableNew, Held, Restorable
  <2> QED  BY <2>1, InsertKeepsProjects
<1>2. ASSUME NEW p \in Projects, NEW q \in Projects, NEW admin \in BOOLEAN,
             Duplicate(p, q, admin)
      PROVE  ProjectsInv'
  <2>1. Exists(p) /\ Insert(q, project[p].cycle, project[p].doc)
    BY <1>2 DEF Duplicate, Exists
  <2>2. project[p].cycle \in Cycles /\ Held(project[p].cycle)
    BY <2>1, BoundIsHeld
  <2>3. project[p].doc \in Documents \cup {"none"}
    BY DEF ProjectsInv, ProjectsTypeOK, ProjectRow
  <2> QED  BY <2>1, <2>2, <2>3, InsertKeepsProjects
<1>3. ASSUME NEW t \in Tabs, NEW d \in Documents, NEW admin \in BOOLEAN, SaveProject(t, d, admin)
      PROVE  ProjectsInv'
  <2> DEFINE old == project[tab[t].project]
             row == [Next1(old) EXCEPT !.doc = d]
  <2>1. MayWrite(t, "live") /\ Write(t, row) /\ tab[t].project \in Projects /\ Exists(tab[t].project)
    BY <1>3 DEF SaveProject, MayWrite, Exists
  <2>2. old.cycle \in Cycles /\ Held(old.cycle)
    BY <2>1, BoundIsHeld
  <2>0. old \in ProjectRow
    BY <2>1 DEF ProjectsInv, ProjectsTypeOK
  <2>3. /\ row \in ProjectRow /\ row.state = "live" /\ row.version = old.version + 1
        /\ row.cycle = old.cycle
    BY <2>1, <2>0, NextRow DEF ProjectRow, MayWrite
  <2> HIDE DEF row
  <2> QED  BY <2>1, <2>2, <2>3, WriteKeepsProjects
<1>4. ASSUME NEW t \in Tabs, NEW n \in 1..MaxVersion, RestoreVersion(t, n)
      PROVE  ProjectsInv'
  <2> DEFINE old == project[tab[t].project]
             kept == history[tab[t].project][n]
             row == Restored(old, kept)
  <2>1. /\ MayWrite(t, "live") /\ Write(t, row) /\ tab[t].project \in Projects
        /\ kept \in Version /\ Held(kept.cycle)
    BY <1>4 DEF RestoreVersion, MayWrite, Held, ProjectsInv, ProjectsTypeOK, VersionsOf
  <2>0. old \in ProjectRow
    BY <2>1 DEF ProjectsInv, ProjectsTypeOK
  <2>2. /\ row \in ProjectRow /\ row.state = "live" /\ row.version = old.version + 1
        /\ row.cycle = kept.cycle /\ kept.cycle \in Cycles
    <3>1. old.state = "live"
      BY <2>1 DEF MayWrite
    <3>2. /\ kept.cycle \in Cycles /\ kept.doc \in Documents \cup {"none"}
      BY <2>1 DEF Version
    <3> HIDE DEF old, kept
    <3>3. row = [state |-> "live", doc |-> kept.doc, cycle |-> kept.cycle, version |-> old.version + 1]
      BY <2>0, <3>1, RestoredRow
    <3>4. old.version \in Nat
      BY <2>0 DEF ProjectRow
    <3> QED  BY <3>2, <3>3, <3>4 DEF ProjectRow
  <2> HIDE DEF row
  <2> QED  BY <2>1, <2>2, WriteKeepsProjects
<1>5. ASSUME NEW t \in Tabs, NEW to \in Cycles, ConfirmMigration(t, to)
      PROVE  ProjectsInv'
  <2> DEFINE old == project[tab[t].project]
             row == [Next1(old) EXCEPT !.cycle = to]
  <2>1. /\ MayWrite(t, "live") /\ Write(t, row) /\ tab[t].project \in Projects /\ Held(to)
    BY <1>5 DEF ConfirmMigration, MayMigrate, MayWrite, UsableNew, Held, Restorable
  <2>0. old \in ProjectRow
    BY <2>1 DEF ProjectsInv, ProjectsTypeOK
  <2>2. /\ row \in ProjectRow /\ row.state = "live" /\ row.version = old.version + 1
        /\ row.cycle = to
    BY <2>1, <2>0, NextRow DEF ProjectRow, MayWrite
  <2> HIDE DEF row
  <2> QED  BY <2>1, <2>2, WriteKeepsProjects
<1>6. CASE UNCHANGED projectVars
  <2>1. \A c \in Cycles : Advances(c)
    BY DEF Advances, cycleVars
  <2> QED  BY <1>6, <2>1, CyclesKeepProjects
<1> QED
  BY <1>1, <1>2, <1>3, <1>4, <1>5, <1>6, TabKeepsProjects, MoveToTrashKeepsProjects,
     AccountKeepsProjects DEF ProjectsNext

IInv == CyclesInv /\ ProjectsInv

LEMMA InfraInvariance == InfraSpec => []IInv
<1>1. CyclesInit([c \in Cycles |-> Absent]) /\ ProjectsInit => IInv
  BY CyclesBegin, ProjectsBegin DEF IInv
<1>2. IInv /\ [InfraNext]_vars => IInv'
  <2> SUFFICES ASSUME IInv, [InfraNext]_vars
               PROVE  ProjectsInv'
    BY CyclesStep DEF IInv
  <2>1. \A c \in Cycles : Advances(c)
    BY CyclesStep DEF IInv
  <2>2. CASE UNCHANGED projectVars
    BY <2>1, <2>2, CyclesKeepProjects DEF IInv
  <2>3. CASE ProjectsNext /\ UNCHANGED cycleVars
    BY <2>3, OwnersKeepProjects DEF IInv
  <2> QED  BY <2>2, <2>3 DEF InfraNext, ProjectsNext, vars
<1> QED  BY <1>1, <1>2, PTL DEF InfraSpec, vars
-----------------------------------------------------------------------------
\* The number of a version names one document, in every tab: what a tab saves,
\* restores or confirms over is what it shows.
THEOREM VersionsName == InfraSpec => []VersionNamesDocument
<1> QED  BY InfraInvariance, PTL DEF IInv, ProjectsInv

\* The kept versions of a project can be restored: no reference one of them names
\* is deleted, and none is marked as failed but one in doubt: by a lost lock or a
\* lost answer of its process, or by a publication of a seed that was rolled back.
THEOREM HistoryAlwaysRestorable == InfraSpec => []HistoryIsRestorable
<1> QED  BY InfraInvariance, PTL DEF IInv, ProjectsInv

\* Whatever the importers, the seeds and the administrators interleave, an import
\* that was checked is undone only after a lost lock, a lost answer of a commit, or
\* the rollback of the transaction that publishes a seed.
THEOREM PassedAlwaysStays == InfraSpec => PassedStaysPassed
<1>1. CyclesInit([c \in Cycles |-> Absent]) => CyclesInv
  BY CyclesBegin
<1>2. CyclesInv /\ [InfraNext]_vars => CyclesInv'
  BY CyclesStep
<1>3. CyclesInv /\ [InfraNext]_vars => [\A c \in Cycles :
        cycle[c].import = "PASSED" /\ cycle'[c].import # "PASSED"
          => cycle'[c] = Deleted \/ c \in doubtful]_cycleVars
  BY CyclesStep DEF Advances, vars, cycleVars
<1> QED  BY <1>1, <1>2, <1>3, PTL DEF InfraSpec, PassedStaysPassed, vars
=============================================================================
