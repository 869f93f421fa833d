----------------------------- MODULE PlanLimits -----------------------------
(***************************************************************************)
(* The projects of one workspace, their attestations, and the caps of the  *)
(* plan on both.  Every cap is a count before the insert; nothing keeps    *)
(* two requests from counting the same rows.                               *)
(***************************************************************************)
EXTENDS ApiRequests, FiniteSets, Integers

CONSTANTS
  Slugs,          \* slugs of projects
  Labels,         \* labels of the attestations in a project
  ProjectCap,     \* the plan's caps; Uncapped where the plan has none
  PerProjectCap,
  MonthlyCap,
  Uncapped

ASSUME CapAssumption ==
  /\ {ProjectCap, PerProjectCap, MonthlyCap} \subseteq Nat \cup {Uncapped}
  /\ IsFiniteSet(Handlers) /\ Handlers # {}

VARIABLES
  project,   \* projects, by slug
  sealed     \* attestations, by project and label

planVars == <<project, sealed>>

Channels == {"dashboard", "api"}   \* how a project is created
Project == [archived : BOOLEAN, channel : Channels]
Sealed == [thisMonth : BOOLEAN]
PlanTask ==
  [step : {"insert project", "insert attestation", "archive", "restore"},
   slug : Slugs,
   label : Labels \cup {None},
   channel : Channels \cup {None}]

ASSUME PlanAssumption == None \notin Project \cup Sealed \cup PlanTask

PlanTypeOK ==
  /\ project \in [Slugs -> Project \cup {None}]
  /\ sealed \in [Slugs \X Labels -> Sealed \cup {None}]

PlanInit ==
  /\ project = [s \in Slugs |-> None]
  /\ sealed = [at \in Slugs \X Labels |-> None]

Plan(step, s, l) == [step |-> step, slug |-> s, label |-> l, channel |-> None]

-----------------------------------------------------------------------------
Allows(cap, count) == cap = Uncapped \/ count < cap

Projects == {s \in Slugs : project[s] # None}
Attestations == {at \in Slugs \X Labels : sealed[at] # None}

\* mutant: an archived project is not counted
ActiveProjectsOnly == {s \in Projects : ~project[s].archived}

\* checkProjectCountLimit counts archived projects too
CountedProjects == Projects

\* checkAttestationsPerProjectLimit counts failed and canceled ones too
CountedIn(s) == {at \in Attestations : at[1] = s}

\* checkMonthlyAttestationLimit
CountedThisMonth == {at \in Attestations : sealed[at].thisMonth}

-----------------------------------------------------------------------------
CreateProjectFromDashboard(h, s) ==
  /\ project[s] = None
  /\ Allows(ProjectCap, Cardinality(CountedProjects))
  /\ Begin(h, [Plan("insert project", s, None) EXCEPT !.channel = "dashboard"])
  /\ UNCHANGED planVars

\* the public API only looks for the slug
CreateProjectFromPublicApi(h, s) ==
  /\ project[s] = None
  /\ Begin(h, [Plan("insert project", s, None) EXCEPT !.channel = "api"])
  /\ UNCHANGED planVars

\* the unique index on slugs refuses the second of two
InsertProject(h) ==
  LET s == work[h].slug
  IN  /\ At(h, "insert project")
      /\ project' = IF project[s] # None THEN project
                    ELSE [project EXCEPT ![s] = [archived |-> FALSE, channel |-> work[h].channel]]
      /\ Finish(h)
      /\ UNCHANGED sealed

RequestArchive(h, s) ==
  /\ project[s] # None
  /\ Begin(h, Plan(IF project[s].archived THEN "restore" ELSE "archive", s, None))
  /\ UNCHANGED planVars

SetArchived(h) ==
  /\ At(h, "archive") \/ At(h, "restore")
  /\ project' = [project EXCEPT ![work[h].slug].archived = At(h, "archive")]
  /\ Finish(h)
  /\ UNCHANGED sealed

\* both channels
CreateAttestation(h, s, l) ==
  /\ project[s] # None
  /\ ~project[s].archived
  /\ sealed[<<s, l>>] = None
  /\ Allows(PerProjectCap, Cardinality(CountedIn(s)))
  /\ Allows(MonthlyCap, Cardinality(CountedThisMonth))
  /\ Begin(h, Plan("insert attestation", s, l))
  /\ UNCHANGED planVars

InsertAttestation(h) ==
  LET at == <<work[h].slug, work[h].label>>
  IN  /\ At(h, "insert attestation")
      /\ sealed' = IF sealed[at] # None THEN sealed
                   ELSE [sealed EXCEPT ![at] = [thisMonth |-> TRUE]]
      /\ Finish(h)
      /\ UNCHANGED project

MonthBegins ==
  /\ CountedThisMonth # {}
  /\ sealed' = [at \in Slugs \X Labels |->
                  IF sealed[at] = None THEN None ELSE [sealed[at] EXCEPT !.thisMonth = FALSE]]
  /\ UNCHANGED <<work, project>>

-----------------------------------------------------------------------------
PlanHandler(h) ==
  \/ \E s \in Slugs : \/ CreateProjectFromDashboard(h, s)
                      \/ CreateProjectFromPublicApi(h, s)
                      \/ RequestArchive(h, s)
                      \/ \E l \in Labels : CreateAttestation(h, s, l)
  \/ InsertProject(h) \/ SetArchived(h) \/ InsertAttestation(h)
  \/ Cut(h) /\ UNCHANGED planVars

PlanNext ==
  \/ \E h \in Handlers : PlanHandler(h)
  \/ MonthBegins

-----------------------------------------------------------------------------
\* A cap is exceeded by fewer rows than there are handlers.
Within(cap, set) == cap = Uncapped \/ Cardinality(set) < cap + Cardinality(Handlers)

DashboardProjects == {s \in Projects : project[s].channel = "dashboard"}

\* Requests that count at the same time all find room, but a cap is never exceeded by more
\* than those that were in flight beside the one that had room: whatever is archived and
\* restored, however often, and whatever comes through the public API, which does not
\* count projects.  So of the projects that the dashboard creates, of the attestations in
\* a project and of those in a month.
WithinCap ==
  /\ Within(ProjectCap, DashboardProjects)
  /\ \A s \in Slugs : Within(PerProjectCap, CountedIn(s))
  /\ Within(MonthlyCap, CountedThisMonth)
=============================================================================
