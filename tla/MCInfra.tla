------------------------------ MODULE MCInfra ------------------------------
(***************************************************************************)
(* InfraProjects with InfraCycles on small instances.  The projects ask of *)
(* a reference only what happens to a checked one, so "part" says whether  *)
(* the references are imported, the projects written, or the projects      *)
(* written while a seed still has its reference to publish.                *)
(***************************************************************************)
EXTENDS InfraProjects, FiniteSetsExt

CONSTANTS MaxWrites,  \* bound: the versions of all projects together
          SeedWrites  \* bound: and in the part with the seed

VARIABLE part

mcVars == <<cycleVars, projectVars, part>>

Publishing == CHOOSE w \in Workers : TRUE
Seeded == CHOOSE c \in Cycles : TRUE

MCInit ==
  /\ ProjectsInit
  /\ \/ part = "imports" /\ CyclesInit([c \in Cycles |-> Absent])
     \/ part = "projects" /\ CyclesInit([c \in Cycles |-> Passed])
     \/ /\ part = "seed"
        /\ cycle = [c \in Cycles |-> Passed]
        /\ worker = [[w \in Workers |-> Resting] EXCEPT ![Publishing] = [at |-> "publishing", c |-> Seeded]]
        /\ lock = Free /\ doubtful = {} /\ faults = 0

MCNext ==
  /\ \/ part = "imports" /\ CyclesNext /\ UNCHANGED projectVars
     \/ /\ part # "imports" /\ ProjectsNext
        /\ MapThenSumSet(LAMBDA p : project'[p].version, Projects)
             <= IF part = "seed" THEN SeedWrites ELSE MaxWrites
     \/ /\ part = "seed" /\ UNCHANGED projectVars
        /\ \E w \in Workers : SeedPublish(w) \/ Fail(w) \/ End(w)
  /\ UNCHANGED part

\* The fairness of CyclesFairness, in the part where its processes run.
Importing == part = "imports" /\ UNCHANGED <<projectVars, part>>

MCFairness ==
  /\ WF_mcVars(Importing /\ \E w \in Workers : Acquire(w))
  /\ \A w \in Workers : WF_mcVars(Importing /\ Work(w))

MCSpec == MCInit /\ [][MCNext]_mcVars /\ MCFairness
=============================================================================
