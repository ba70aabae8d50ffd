--------------------------- MODULE InfraProjects ---------------------------
(***************************************************************************)
(* The budgets (projects) of one owner in OrcaPro Infraestrutura, their    *)
(* kept versions, and the references they are priced with, from            *)
(* apps/api/src/modules/infraestrutura/infra.service.ts.                   *)
(*                                                                         *)
(* Every write of a project is one transaction that begins by locking its  *)
(* row, so it is one step.  What is stale is what a tab of the browser     *)
(* holds: the version it loaded, and the comparison it is about to         *)
(* confirm, whose token signs the version and the two references.  The     *)
(* token also signs the report, that two documents may have in common: the *)
(* model takes nothing from it.                                            *)
(***************************************************************************)
EXTENDS InfraCycles

CONSTANTS Projects,    \* projects, by their ids
          Documents,   \* contents of a project
          Tabs,
          Retention,   \* versions kept of a project: 10 to 500 in the code
          MaxVersion   \* bound: the versions of a project

ASSUME ProjectsAssumption == Retention \in Nat \ {0} /\ "none" \notin Projects

VARIABLES
  project,  \* project[p]: the InfraProject row
  history,  \* history[p]: what is kept of its versions, by version
  tab,      \* tab[t]: what a tab shows, and the comparison it may confirm
  profile   \* the status of the InfraUser row

projectVars == <<project, history, tab, profile>>

Emptied(state) == [state |-> state, doc |-> "none", cycle |-> "none", version |-> 0]
NoProject == Emptied("none")
NoVersions == [n \in {} |-> Absent]
NoComparison == [version |-> 0, to |-> "none"]
Closed == [project |-> "none", version |-> 0, doc |-> "none", compared |-> NoComparison]

ProjectsInit ==
  /\ project = [p \in Projects |-> NoProject]
  /\ history = [p \in Projects |-> NoVersions]
  /\ tab = [t \in Tabs |-> Closed]
  /\ profile = "ACTIVE"

Exists(p) == project[p].state \in {"live", "trash"}
Bound(c) == \E p \in Projects : Exists(p) /\ project[p].cycle = c

\* InfraService.cycle: a reference for a new binding, and for an existing one,
\* where an owner who is an administrator, by configuration or by the role of the
\* profile, gets any reference. A grant may change the role before any request.
UsableNew(c) == cycle[c].status = "PUBLISHED" /\ cycle[c].import = "PASSED"
UsableKept(c, admin) == UsableNew(c) \/ (cycle[c].status = "ARCHIVED" /\ Bound(c)) \/ admin

\* InfraService.history: keep this version and the last ones before it.
Kept(p, row) ==
  LET known == [n \in DOMAIN history[p] \cup {row.version} |->
                  IF n = row.version THEN [doc |-> row.doc, cycle |-> row.cycle] ELSE history[p][n]]
  IN [n \in {m \in DOMAIN known : m > row.version - Retention} |-> known[n]]

-----------------------------------------------------------------------------
(* New projects.                                                           *)

Insert(p, c, d) ==
  LET row == [state |-> "live", doc |-> d, cycle |-> c, version |-> 1] IN
  /\ project[p] = NoProject
  /\ project' = [project EXCEPT ![p] = row]
  /\ history' = [history EXCEPT ![p] = Kept(p, row)]
  /\ UNCHANGED <<tab, profile>>

CreateProject(p, c, d) ==
  /\ profile = "ACTIVE"
  /\ UsableNew(c)
  /\ Insert(p, c, d)

\* The profile is locked first, so two tabs that open create one project.
OpenWorkspace(p, c, d) ==
  /\ profile = "ACTIVE"
  /\ \A q \in Projects : project[q].state # "live"
  /\ UsableNew(c)
  /\ Insert(p, c, d)

Duplicate(p, q, admin) ==
  /\ profile = "ACTIVE"
  /\ project[p].state = "live"
  /\ UsableKept(project[p].cycle, admin)
  /\ Insert(q, project[p].cycle, project[p].doc)

-----------------------------------------------------------------------------
(* Writes with the version of a tab.                                       *)

Open(t, p) ==
  /\ profile = "ACTIVE"
  /\ Exists(p)
  /\ tab' = [tab EXCEPT ![t] = [project |-> p, version |-> project[p].version,
                                doc |-> project[p].doc, compared |-> NoComparison]]
  /\ UNCHANGED <<project, history, profile>>

\* owned and mismatch.
MayWrite(t, state) ==
  LET p == tab[t].project IN
  /\ profile = "ACTIVE"
  /\ p \in Projects
  /\ project[p].state = state
  /\ project[p].version = tab[t].version
  /\ project[p].version < MaxVersion

\* The tab is given the row it has written.
Write(t, row) ==
  LET p == tab[t].project IN
  /\ project' = [project EXCEPT ![p] = row]
  /\ history' = [history EXCEPT ![p] = Kept(p, row)]
  /\ tab' = [tab EXCEPT ![t].version = row.version, ![t].doc = row.doc]
  /\ UNCHANGED profile

Next1(row) == [row EXCEPT !.version = @ + 1]

SaveProject(t, d, admin) ==
  LET row == project[tab[t].project] IN
  /\ MayWrite(t, "live")
  /\ UsableKept(row.cycle, admin)
  /\ Write(t, [Next1(row) EXCEPT !.doc = d])

\* archiveProject: a version that no history row is written for.
MoveToTrash(t, restore) ==
  LET p == tab[t].project IN
  /\ MayWrite(t, IF restore THEN "trash" ELSE "live")
  /\ project' = [project EXCEPT ![p] =
                   [Next1(@) EXCEPT !.state = IF restore THEN "live" ELSE "trash"]]
  /\ tab' = [tab EXCEPT ![t].version = @ + 1]
  /\ UNCHANGED <<history, profile>>

\* Mutant: the version stays as it is.
RestoredInPlace(row, kept) == [row EXCEPT !.doc = kept.doc, !.cycle = kept.cycle]

Restored(row, kept) == [Next1(row) EXCEPT !.doc = kept.doc, !.cycle = kept.cycle]

Restorable(c) == cycle[c].import = "PASSED" /\ cycle[c].status \in {"PUBLISHED", "ARCHIVED"}

RestoreVersion(t, n) ==
  LET p == tab[t].project IN
  /\ MayWrite(t, "live")
  /\ n \in DOMAIN history[p]
  /\ Restorable(history[p][n].cycle)
  /\ Write(t, Restored(project[p], history[p][n]))

\* migrateProject, first without and then with the confirmation.
MayMigrate(t, to) ==
  /\ MayWrite(t, "live")
  /\ to # project[tab[t].project].cycle
  /\ UsableNew(to)
  /\ cycle[to].snapshot /\ cycle[project[tab[t].project].cycle].snapshot

Compare(t, to) ==
  /\ MayMigrate(t, to)
  /\ tab' = [tab EXCEPT ![t].compared = [version |-> tab[t].version, to |-> to]]
  /\ UNCHANGED <<project, history, profile>>

ConfirmMigration(t, to) ==
  /\ MayMigrate(t, to)
  /\ tab[t].compared = [version |-> tab[t].version, to |-> to]
  /\ Write(t, [Next1(project[tab[t].project]) EXCEPT !.cycle = to])

-----------------------------------------------------------------------------
(* The account.                                                            *)

DeletePersonal ==
  /\ profile = "ACTIVE"
  /\ profile' = "BLOCKED"
  /\ \A p \in Projects : project[p].state = "live" => project[p].version < MaxVersion
  /\ project' = [p \in Projects |->
       IF project[p].state = "live" THEN [Next1(project[p]) EXCEPT !.state = "trash"] ELSE project[p]]
  /\ UNCHANGED <<history, tab>>

GrantUser ==
  /\ profile # "ACTIVE"
  /\ profile' = "ACTIVE"
  /\ UNCHANGED <<project, history, tab>>

\* purgePersonalData, after the retention in days.
Purge ==
  /\ profile = "BLOCKED"
  /\ profile' = "none"
  /\ project' = [p \in Projects |->
       IF Exists(p) THEN Emptied("purged") ELSE project[p]]
  /\ history' = [p \in Projects |-> NoVersions]
  /\ UNCHANGED tab

-----------------------------------------------------------------------------
ProjectsNext ==
  \/ /\ \/ \E p \in Projects, c \in Cycles, d \in Documents :
             CreateProject(p, c, d) \/ OpenWorkspace(p, c, d)
        \/ \E p, q \in Projects, admin \in BOOLEAN : Duplicate(p, q, admin)
        \/ \E t \in Tabs :
             \/ \E p \in Projects : Open(t, p)
             \/ \E d \in Documents, admin \in BOOLEAN : SaveProject(t, d, admin)
             \/ \E restore \in BOOLEAN : MoveToTrash(t, restore)
             \/ \E n \in 1..MaxVersion : RestoreVersion(t, n)
             \/ \E to \in Cycles : Compare(t, to) \/ ConfirmMigration(t, to)
        \/ DeletePersonal \/ GrantUser \/ Purge
     /\ UNCHANGED cycleVars
  \/ /\ \E c \in Cycles : Publish(c) \/ Archive(c) \/ DeleteCycle(c, Bound(c))
     /\ UNCHANGED projectVars

\* The references and the projects together.
InfraNext == ProjectsNext \/ (Import /\ UNCHANGED projectVars)

InfraSpec ==
  /\ CyclesInit([c \in Cycles |-> Absent]) /\ ProjectsInit
  /\ [][InfraNext]_<<cycleVars, projectVars>>

-----------------------------------------------------------------------------
\* The number of a version names one document: a tab that may save, restore or
\* confirm shows the document that it replaces, and the comparison it confirms
\* was made of that document, whatever the other tabs wrote in between.
VersionNamesDocument == \A t \in Tabs :
  LET p == tab[t].project IN
  p \in Projects /\ Exists(p) /\ tab[t].version = project[p].version
    => tab[t].doc = project[p].doc

\* What is kept of a project can be restored: the newest kept version is what the
\* project shows, also after the trash, and every kept version has its reference,
\* although nothing but the project's present reference is held by a foreign key.
\* A reference that the importers left in doubt (see PassedStaysPassed) may have
\* been marked as failed under the versions that name it.
HistoryIsRestorable == \A p \in Projects :
  Exists(p) =>
    /\ \E n \in DOMAIN history[p] :
         /\ \A m \in DOMAIN history[p] : m <= n
         /\ history[p][n] = [doc |-> project[p].doc, cycle |-> project[p].cycle]
    /\ \A n \in DOMAIN history[p] :
         Restorable(history[p][n].cycle) \/ history[p][n].cycle \in doubtful
=============================================================================
