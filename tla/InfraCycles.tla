---------------------------- MODULE InfraCycles ----------------------------
(***************************************************************************)
(* The SICRO references (cycles) of the OrcaPro Infraestrutura product,    *)
(* from apps/api/src/modules/infraestrutura/infra.service.ts and the       *)
(* import scripts of apps/api/scripts: a reference is uploaded in chunks,  *)
(* checked by a process that cron starts or seeded by a command, then      *)
(* published, archived or deleted.                                         *)
(*                                                                         *)
(* The processes share a named lock of the database that lives as long as  *)
(* one idle connection does, not as long as the work of its holder.        *)
(* Contents, hashes and sizes are one verdict, that any check may give.    *)
(***************************************************************************)
EXTENDS Integers, FiniteSets

CONSTANTS Cycles,     \* references, by the ids of their rows, that are never used again
          Chunks,     \* the chunks of every reference
          Workers,    \* processes of the importer and of the seed command
          MaxFaults   \* bound: crashes, lost locks and lost answers

Free == "free"

ASSUME WorkersAndCycles == Free \notin Workers /\ IsFiniteSet(Cycles)

VARIABLES
  cycle,     \* cycle[c]: the InfraCycle row, its chunks and whether it has a snapshot
  worker,    \* worker[w]: where process w is, and with which reference
  lock,      \* the holder of the named lock
  doubtful,  \* history: references in doubt, see PassedStaysPassed
  faults

cycleVars == <<cycle, worker, lock, doubtful, faults>>

Empty(status) == [status |-> status, import |-> "none", chunks |-> {}, snapshot |-> FALSE, importedAt |-> 0]
Absent == Empty("none")
Deleted == Empty("deleted")
Passed == [Absent EXCEPT !.status = "DRAFT", !.import = "PASSED", !.snapshot = TRUE]

Resting == [at |-> "rest"]

CyclesInit(rows) ==
  /\ cycle = rows
  /\ worker = [w \in Workers |-> Resting]
  /\ lock = Free
  /\ doubtful = {}
  /\ faults = 0

processVars == <<worker, lock, doubtful, faults>>

-----------------------------------------------------------------------------
(* The administrator: each request is one transaction on the locked row.   *)

InsertCycle(c, import) ==
  /\ cycle[c] = Absent
  /\ cycle' = [cycle EXCEPT ![c] = [status |-> "DRAFT", import |-> import, chunks |-> {},
       snapshot |-> FALSE, importedAt |-> Cardinality({d \in Cycles : cycle[d] # Absent})]]

CreateCycle(c) ==
  /\ InsertCycle(c, "UPLOADING")
  /\ UNCHANGED processVars

\* A chunk that is there already is answered without a change.
CycleChunk(c, i) ==
  /\ cycle[c].status = "DRAFT" /\ cycle[c].import = "UPLOADING"
  /\ i \notin cycle[c].chunks
  /\ cycle' = [cycle EXCEPT ![c].chunks = @ \cup {i}]
  /\ UNCHANGED processVars

FinalizeCycle(c) ==
  /\ cycle[c].status = "DRAFT" /\ cycle[c].import = "UPLOADING"
  /\ cycle[c].chunks = Chunks
  /\ cycle' = [cycle EXCEPT ![c].import = "QUEUED"]
  /\ UNCHANGED processVars

Publishable(row) == row.status = "DRAFT" /\ row.import = "PASSED" /\ row.snapshot

Publish(c) ==
  /\ Publishable(cycle[c])
  /\ cycle' = [cycle EXCEPT ![c].status = "PUBLISHED"]
  /\ UNCHANGED processVars

Archive(c) ==
  /\ cycle[c].status = "PUBLISHED"
  /\ cycle' = [cycle EXCEPT ![c].status = "ARCHIVED"]
  /\ UNCHANGED processVars

\* Mutant: an unused reference can be deleted whatever its status.
DeletableWhenUnused(row, inUse) ==
  ~inUse /\ row.status \notin {"none", "deleted"} /\ row.import \notin {"PROCESSING", "QUEUED"}

Deletable(row, inUse) ==
  ~inUse /\ row.status = "DRAFT" /\ row.import \notin {"PROCESSING", "QUEUED"}

DeleteCycle(c, inUse) ==
  /\ Deletable(cycle[c], inUse)
  /\ cycle' = [cycle EXCEPT ![c] = Deleted]
  /\ UNCHANGED processVars

-----------------------------------------------------------------------------
(* The importer (processQueued).                                           *)

Acquire(w) ==
  /\ worker[w] = Resting
  /\ lock = Free
  /\ lock' = w
  /\ worker' = [worker EXCEPT ![w] = [at |-> "locked"]]
  /\ UNCHANGED <<cycle, doubtful, faults>>

\* Mutants: an interrupted import is not taken up again; a seed is taken up
\* as well.
WaitingOnce(row) == row.import = "QUEUED"
WaitingAlsoSeeds(row) == row.import \in {"QUEUED", "PROCESSING"}

Waiting(row) == row.import = "QUEUED" \/ (row.import = "PROCESSING" /\ row.chunks # {})

Rest(w) ==
  /\ worker' = [worker EXCEPT ![w] = Resting]
  /\ lock' = IF lock = w THEN Free ELSE lock

OldestWaiting(c) ==
  /\ Waiting(cycle[c])
  /\ \A d \in Cycles : Waiting(cycle[d]) => cycle[c].importedAt <= cycle[d].importedAt

\* processClaimed takes the oldest reference that waits, or ends the process.
Claim(w) ==
  /\ worker[w].at = "locked"
  /\ \E c \in Cycles :
       /\ OldestWaiting(c)
       /\ worker' = [worker EXCEPT ![w] = [at |-> "claimed", c |-> c]]
       /\ cycle' = [cycle EXCEPT ![c].import = "PROCESSING"]
       /\ doubtful' = IF lock = w THEN doubtful ELSE doubtful \cup {c}
  /\ UNCHANGED <<lock, faults>>

NothingWaits(w) ==
  /\ worker[w].at = "locked"
  /\ \A c \in Cycles : ~Waiting(cycle[c])
  /\ Rest(w)
  /\ UNCHANGED <<cycle, doubtful, faults>>

Goes(w, to) == worker' = [worker EXCEPT ![w].at = to]

\* The chunks are read outside a transaction, then their contents are checked.
Check(w, correct) ==
  /\ worker[w].at = "claimed"
  /\ Goes(w, IF cycle[worker[w].c].chunks = Chunks /\ correct THEN "checked" ELSE "failing")
  /\ UNCHANGED <<cycle, lock, doubtful, faults>>

Fault == faults < MaxFaults /\ faults' = faults + 1

\* The last transaction of materialize, and the one of a seed that publishes: it
\* is committed, though its answer may be lost, or an error in it rolls it back,
\* whichever of its statements that was. Both errors reach the catch block.
Committed(w, next) ==
  \/ Goes(w, next) /\ UNCHANGED <<doubtful, faults>>
  \/ Goes(w, "failing") /\ Fault /\ doubtful' = doubtful \cup {worker[w].c}

RolledBack(w) == Goes(w, "failing") /\ UNCHANGED <<cycle, faults>>

Materialize(w) ==
  LET c == worker[w].c IN
  /\ worker[w].at \in {"checked", "seeded"}
  /\ \/ /\ cycle[c].import = "PROCESSING"
        /\ cycle' = [cycle EXCEPT ![c].import = "PASSED", ![c].snapshot = TRUE, ![c].chunks = {}]
        /\ Committed(w, IF worker[w].at = "checked" THEN "done" ELSE "publishing")
     \/ RolledBack(w) /\ UNCHANGED doubtful
  /\ UNCHANGED lock

\* The catch blocks: no condition on what the import has become.
Fail(w) ==
  LET c == worker[w].c IN
  /\ worker[w].at = "failing"
  /\ cycle' = IF cycle[c] = Deleted THEN cycle ELSE [cycle EXCEPT ![c].import = "FAILED"]
  /\ Rest(w)
  /\ UNCHANGED <<doubtful, faults>>

End(w) ==
  /\ worker[w].at = "done"
  /\ Rest(w)
  /\ UNCHANGED <<cycle, doubtful, faults>>

(* seedInfra: a reference of its own, without chunks and without the lock. *)

Seed(w, c, correct) ==
  /\ worker[w] = Resting
  /\ InsertCycle(c, "PROCESSING")
  /\ worker' = [worker EXCEPT ![w] = [at |-> IF correct THEN "seeded" ELSE "failing", c |-> c]]
  /\ UNCHANGED <<lock, doubtful, faults>>

SeedPublish(w) ==
  LET c == worker[w].c IN
  /\ worker[w].at = "publishing"
  /\ \/ /\ cycle' = IF cycle[c].status = "DRAFT" /\ cycle[c].import = "PASSED"
                      THEN [cycle EXCEPT ![c].status = "PUBLISHED"] ELSE cycle
        /\ Committed(w, "done")
     \/ RolledBack(w) /\ doubtful' = doubtful \cup {c}
  /\ UNCHANGED lock

\* The process dies, or the connection of its lock does and it goes on.
Crash(w) ==
  /\ worker[w] # Resting
  /\ Fault /\ Rest(w)
  /\ UNCHANGED <<cycle, doubtful>>

LoseLock(w) ==
  /\ lock = w
  /\ Fault
  /\ lock' = Free
  /\ doubtful' = IF "c" \in DOMAIN worker[w] THEN doubtful \cup {worker[w].c} ELSE doubtful
  /\ UNCHANGED <<cycle, worker>>

-----------------------------------------------------------------------------
Work(w) ==
  \/ Claim(w) \/ NothingWaits(w) \/ Materialize(w) \/ Fail(w) \/ End(w) \/ SeedPublish(w)
  \/ \E correct \in BOOLEAN : Check(w, correct)

Import ==
  \/ \E c \in Cycles :
       \/ CreateCycle(c) \/ FinalizeCycle(c)
       \/ \E i \in Chunks : CycleChunk(c, i)
       \/ \E w \in Workers, correct \in BOOLEAN : Seed(w, c, correct)
  \/ \E w \in Workers : Acquire(w) \/ Work(w) \/ Crash(w) \/ LoseLock(w)

\* Publication and deletion, when no project has a reference.
CyclesNext == Import \/ \E c \in Cycles : Publish(c) \/ Archive(c) \/ DeleteCycle(c, FALSE)

\* Cron starts an importer again and again, and a process that runs goes on.
CyclesFairness ==
  /\ WF_cycleVars(\E w \in Workers : Acquire(w))
  /\ \A w \in Workers : WF_cycleVars(Work(w))

-----------------------------------------------------------------------------
\* An import that was checked stays so, published or not, unless the reference
\* is in doubt: its process lost the lock, or the answer of a commit; or it is a
\* seed, and the transaction that publishes it was rolled back after the one that
\* checked it. In each of these the catch block, that asks nothing, may mark as
\* failed what an administrator has published. Otherwise no two processes work on
\* one reference, and no refusal is written over a checked one.
PassedStaysPassed == [][\A c \in Cycles :
  cycle[c].import = "PASSED" /\ cycle'[c].import # "PASSED"
    => cycle'[c] = Deleted \/ c \in doubtful]_cycleVars

\* A reference that was sent in full is checked in the end, accepted or refused,
\* also when the process that took it dies: what cron starts next takes it up.
QueuedEnds == \A c \in Cycles :
  cycle[c].import = "QUEUED" ~> cycle[c].import \in {"PASSED", "FAILED"}
=============================================================================
