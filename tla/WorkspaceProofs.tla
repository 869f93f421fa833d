-------------------------- MODULE WorkspaceProofs --------------------------
(***************************************************************************)
(* What holds of a workspace whoever uses it at the same time: the caps of *)
(* its plan, the accounts of its people and its administrators.            *)
(***************************************************************************)
EXTENDS OidcSignIn, PlanLimits, Membership, FiniteSetTheorems, TLAPS

-----------------------------------------------------------------------------
(* The caps of a plan                                                       *)

PlanSpec == NoWork /\ PlanInit /\ [][PlanNext]_<<work, planVars>>

PlanTypes == PlanTypeOK /\ WorkIn(PlanTask)

\* the requests that have counted and are about to insert
ProjectsComing == {h \in Handlers : At(h, "insert project") /\ work[h].channel = "dashboard"}
ComingTo(s) == {h \in Handlers : At(h, "insert attestation") /\ work[h].slug = s}
AttestationsComing == {h \in Handlers : At(h, "insert attestation")}

\* rows and those that are coming exceed a cap by fewer than there are handlers: when a
\* request has counted, there was room, and with it at most all handlers are at it
Room(cap, rows, coming) ==
  cap = Uncapped \/ Cardinality(rows) + Cardinality(coming) < cap + Cardinality(Handlers)
RoomForAll ==
  /\ Room(ProjectCap, DashboardProjects, ProjectsComing)
  /\ \A s \in Slugs : Room(PerProjectCap, CountedIn(s), ComingTo(s))
  /\ Room(MonthlyCap, CountedThisMonth, AttestationsComing)

\* a project that is archived or restored exists, one that is inserted has its channel
ProjectsKnown ==
  \A h \in Handlers :
    /\ At(h, "archive") \/ At(h, "restore") => project[work[h].slug] # None
    /\ At(h, "insert project") => work[h].channel \in Channels

RowsFinite == IsFiniteSet(Projects) /\ IsFiniteSet(Attestations)

PlanInv == PlanTypes /\ RowsFinite /\ ProjectsKnown /\ RoomForAll

\* A cap is a number, or there is none; there are finitely many handlers.
LEMMA CapTypes ==
  /\ ProjectCap \in Nat \cup {Uncapped}
  /\ PerProjectCap \in Nat \cup {Uncapped}
  /\ MonthlyCap \in Nat \cup {Uncapped}
  /\ Cardinality(Handlers) \in Nat \ {0}
  /\ \A coming \in SUBSET Handlers : /\ IsFiniteSet(coming) /\ Cardinality(coming) \in Nat
                                     /\ Cardinality(coming) <= Cardinality(Handlers)
<1>1. Cardinality(Handlers) \in Nat /\ Cardinality(Handlers) # 0
  BY CapAssumption, FS_CardinalityType, FS_EmptySet
<1>2. \A coming \in SUBSET Handlers : /\ IsFiniteSet(coming) /\ Cardinality(coming) \in Nat
                                      /\ Cardinality(coming) <= Cardinality(Handlers)
  BY CapAssumption, FS_Subset, FS_CardinalityType
<1> QED
  BY <1>1, <1>2, CapAssumption

\* Who has counted and found room may join: at most all the others are coming already.
LEMMA RoomWhenCounted ==
  ASSUME NEW cap \in Nat \cup {Uncapped}, NEW counted, IsFiniteSet(counted),
         Allows(cap, Cardinality(counted)), NEW rows \in SUBSET counted,
         NEW coming \in SUBSET Handlers
  PROVE  Room(cap, rows, coming)
<1>1. /\ Cardinality(rows) <= Cardinality(counted)
      /\ Cardinality(rows) \in Nat /\ Cardinality(counted) \in Nat
  BY FS_Subset, FS_CardinalityType
<1>2. /\ Cardinality(coming) \in Nat /\ Cardinality(Handlers) \in Nat
      /\ Cardinality(coming) <= Cardinality(Handlers)
  BY CapTypes
<1> QED
  BY <1>1, <1>2 DEF Allows, Room

\* Room is kept when rows go, or requests end.
LEMMA RoomForFewer ==
  ASSUME NEW cap \in Nat \cup {Uncapped}, NEW rows, IsFiniteSet(rows), NEW few \in SUBSET rows,
         NEW coming \in SUBSET Handlers, NEW left \in SUBSET coming, Room(cap, rows, coming)
  PROVE  Room(cap, few, left)
<1>1. /\ Cardinality(few) <= Cardinality(rows)
      /\ Cardinality(few) \in Nat /\ Cardinality(rows) \in Nat
  BY FS_Subset, FS_CardinalityType
<1>2. IsFiniteSet(coming) /\ Cardinality(Handlers) \in Nat
  BY CapTypes
<1>3. /\ Cardinality(left) <= Cardinality(coming)
      /\ Cardinality(left) \in Nat /\ Cardinality(coming) \in Nat
  BY <1>2, FS_Subset, FS_CardinalityType
<1> QED
  BY <1>1, <1>2, <1>3 DEF Room

\* Room is kept when a request becomes a row.
LEMMA RoomForInserted ==
  ASSUME NEW cap \in Nat \cup {Uncapped}, NEW rows, IsFiniteSet(rows),
         NEW x, NEW more \in SUBSET (rows \cup {x}),
         NEW coming \in SUBSET Handlers, NEW h \in coming, NEW left \in SUBSET (coming \ {h}),
         Room(cap, rows, coming)
  PROVE  Room(cap, more, left)
<1>1. /\ IsFiniteSet(rows \cup {x})
      /\ Cardinality(rows \cup {x}) \in Nat /\ Cardinality(rows) \in Nat
      /\ Cardinality(rows \cup {x}) <= Cardinality(rows) + 1
  <2>1. /\ IsFiniteSet(rows \cup {x})
        /\ Cardinality(rows \cup {x}) = IF x \in rows THEN Cardinality(rows) ELSE Cardinality(rows) + 1
    BY FS_AddElement
  <2> QED
    BY <2>1, FS_CardinalityType
<1>2. Cardinality(more) <= Cardinality(rows \cup {x}) /\ Cardinality(more) \in Nat
  BY <1>1, FS_Subset, FS_CardinalityType
<1>3. IsFiniteSet(coming) /\ Cardinality(coming) \in Nat /\ Cardinality(Handlers) \in Nat
  BY CapTypes
<1>4. IsFiniteSet(coming \ {h}) /\ Cardinality(coming \ {h}) = Cardinality(coming) - 1
  BY <1>3, FS_RemoveElement
<1>5. Cardinality(left) <= Cardinality(coming \ {h}) /\ Cardinality(left) \in Nat
  BY <1>4, FS_Subset, FS_CardinalityType
<1> QED
  BY <1>1, <1>2, <1>3, <1>4, <1>5 DEF Room

\* Where there is room, a cap is exceeded by fewer rows than there are handlers.
LEMMA RoomIsWithin == PlanInv => WithinCap
<1> SUFFICES ASSUME PlanInv PROVE WithinCap
  OBVIOUS
<1>1. ASSUME NEW cap \in Nat \cup {Uncapped}, NEW rows, IsFiniteSet(rows),
             NEW coming \in SUBSET Handlers, Room(cap, rows, coming)
      PROVE  Within(cap, rows)
  <2>1. /\ Cardinality(rows) \in Nat /\ Cardinality(Handlers) \in Nat
        /\ Cardinality(coming) \in Nat
    BY <1>1, CapTypes, FS_CardinalityType
  <2> QED
    BY <1>1, <2>1 DEF Room, Within
<1>2. /\ DashboardProjects \subseteq Projects /\ CountedThisMonth \subseteq Attestations
      /\ \A s : CountedIn(s) \subseteq Attestations
  BY DEF DashboardProjects, CountedThisMonth, CountedIn
<1>3. /\ IsFiniteSet(DashboardProjects) /\ IsFiniteSet(CountedThisMonth)
      /\ \A s : IsFiniteSet(CountedIn(s))
  BY <1>2, FS_Subset DEF PlanInv, RowsFinite
<1>4. /\ ProjectsComing \subseteq Handlers /\ AttestationsComing \subseteq Handlers
      /\ \A s : ComingTo(s) \subseteq Handlers
  BY DEF ProjectsComing, AttestationsComing, ComingTo
<1>5. Within(ProjectCap, DashboardProjects)
  BY <1>1, <1>3, <1>4, CapTypes DEF PlanInv, RoomForAll
<1>6. Within(MonthlyCap, CountedThisMonth)
  BY <1>1, <1>3, <1>4, CapTypes DEF PlanInv, RoomForAll
<1>7. ASSUME NEW s \in Slugs PROVE Within(PerProjectCap, CountedIn(s))
  BY <1>1, <1>3, <1>4, CapTypes DEF PlanInv, RoomForAll
<1> QED
  BY <1>5, <1>6, <1>7 DEF WithinCap

\* Initially there are no projects and no attestations.
LEMMA PlanInitOK == NoWork /\ PlanInit => PlanInv
<1> SUFFICES ASSUME NoWork, PlanInit PROVE PlanInv
  OBVIOUS
<1>1. Projects = {} /\ Attestations = {}
  BY DEF PlanInit, Projects, Attestations
<1>2. /\ DashboardProjects = {} /\ CountedThisMonth = {}
      /\ \A s : CountedIn(s) = {}
  BY <1>1 DEF DashboardProjects, CountedThisMonth, CountedIn
<1>3. /\ ProjectsComing = {} /\ AttestationsComing = {}
      /\ \A s : ComingTo(s) = {}
  BY DEF NoWork, ProjectsComing, AttestationsComing, ComingTo, At
<1>4. ASSUME NEW cap \in Nat \cup {Uncapped} PROVE Room(cap, {}, {})
  BY CapTypes, FS_EmptySet DEF Room
<1>5. RoomForAll
  BY <1>2, <1>3, <1>4, CapTypes DEF RoomForAll
<1>6. PlanTypes
  BY DEF PlanTypes, PlanTypeOK, WorkIn, NoWork, PlanInit
<1>7. RowsFinite
  BY <1>1, FS_EmptySet DEF RowsFinite
<1>8. ProjectsKnown
  BY DEF NoWork, ProjectsKnown, At
<1> QED
  BY <1>5, <1>6, <1>7, <1>8 DEF PlanInv

\* What is counted is finite, and who is coming is a handler.
LEMMA CountedAreFinite ==
  ASSUME PlanInv
  PROVE  /\ IsFiniteSet(CountedProjects) /\ IsFiniteSet(DashboardProjects)
         /\ DashboardProjects \subseteq CountedProjects
         /\ IsFiniteSet(CountedThisMonth) /\ \A s : IsFiniteSet(CountedIn(s))
         /\ ProjectsComing \subseteq Handlers /\ AttestationsComing \subseteq Handlers
         /\ \A s : ComingTo(s) \subseteq Handlers
<1>1. /\ DashboardProjects \subseteq Projects /\ CountedThisMonth \subseteq Attestations
      /\ CountedProjects = Projects
      /\ \A s : CountedIn(s) \subseteq Attestations
  BY DEF DashboardProjects, CountedThisMonth, CountedIn, CountedProjects
<1>2. /\ ProjectsComing \subseteq Handlers /\ AttestationsComing \subseteq Handlers
      /\ \A s : ComingTo(s) \subseteq Handlers
  BY DEF ProjectsComing, AttestationsComing, ComingTo
<1> QED
  BY <1>1, <1>2, FS_Subset DEF PlanInv, RowsFinite

\* A handler's task changes no other's.
LEMMA PlanTaskSet ==
  ASSUME PlanTypes, NEW h \in Handlers, NEW task \in PlanTask \cup {None},
         work' = [work EXCEPT ![h] = task]
  PROVE  /\ WorkIn(PlanTask)' /\ work'[h] = task
         /\ \A o \in Handlers \ {h} : work'[o] = work[o]
BY DEF PlanTypes, WorkIn

\* A request that ends, whatever comes of it, is not coming any more; nobody else begins.
LEMMA EndedIsNotComing ==
  ASSUME PlanTypes, NEW h \in Handlers, work' = [work EXCEPT ![h] = None]
  PROVE  /\ ProjectsComing' = ProjectsComing \ {h}
         /\ AttestationsComing' = AttestationsComing \ {h}
         /\ \A s : ComingTo(s)' = ComingTo(s) \ {h}
<1>1. work'[h] = None /\ \A o \in Handlers \ {h} : work'[o] = work[o]
  BY DEF PlanTypes, WorkIn
<1> QED
  BY <1>1 DEF ProjectsComing, AttestationsComing, ComingTo, At

\* What a handler at work is known to have.
LEMMA PlanKnows ==
  ASSUME PlanInv, NEW h \in Handlers, work[h] # None
  PROVE  work[h] \in PlanTask /\ work[h].slug \in Slugs /\ work[h].label \in Labels \cup {None}
         /\ work[h].channel \in Channels \cup {None}
BY DEF PlanInv, PlanTypes, WorkIn, PlanTask

\* A request that begins has counted, or inserts what is not counted.
LEMMA PlanBegins ==
  ASSUME PlanInv, UNCHANGED planVars, NEW h \in Handlers, NEW task \in PlanTask,
         work[h] = None, work' = [work EXCEPT ![h] = task],
         task.step \in {"archive", "restore"} => project[task.slug] # None,
         task.step = "insert project" => task.channel \in Channels,
         task.step = "insert project" /\ task.channel = "dashboard" =>
           Allows(ProjectCap, Cardinality(CountedProjects)),
         task.step = "insert attestation" =>
           /\ Allows(PerProjectCap, Cardinality(CountedIn(task.slug)))
           /\ Allows(MonthlyCap, Cardinality(CountedThisMonth))
  PROVE  PlanInv'
<1>1. /\ WorkIn(PlanTask)' /\ work'[h] = task
      /\ \A o \in Handlers \ {h} : work'[o] = work[o]
  BY PlanTaskSet DEF PlanInv
<1>2. task # None
  BY PlanAssumption
<1>3. /\ UNCHANGED <<Projects, Attestations, DashboardProjects, CountedThisMonth>>
      /\ \A s : CountedIn(s)' = CountedIn(s)
  BY DEF planVars, Projects, Attestations, DashboardProjects, CountedIn, CountedThisMonth
<1>4. PlanTypes' /\ RowsFinite' /\ ProjectsKnown'
  BY <1>1, <1>3 DEF PlanInv, PlanTypes, PlanTypeOK, planVars, RowsFinite, ProjectsKnown, At
<1>5. /\ ProjectsComing' \subseteq Handlers /\ AttestationsComing' \subseteq Handlers
      /\ \A s : ComingTo(s)' \subseteq Handlers
  BY DEF ProjectsComing, AttestationsComing, ComingTo
<1>6. Room(ProjectCap, DashboardProjects', ProjectsComing')
  <2>1. CASE task.step = "insert project" /\ task.channel = "dashboard"
    BY <1>3, <1>5, <2>1, CapTypes, CountedAreFinite, RoomWhenCounted
  <2>2. CASE ~(task.step = "insert project" /\ task.channel = "dashboard")
    <3>1. \A o \in Handlers : o \in ProjectsComing' <=> o \in ProjectsComing
      <4>1. h \notin ProjectsComing /\ h \notin ProjectsComing'
        BY <1>1, <2>2 DEF ProjectsComing, At
      <4>2. \A o \in Handlers \ {h} : o \in ProjectsComing' <=> o \in ProjectsComing
        BY <1>1 DEF ProjectsComing, At
      <4> QED
        BY <4>1, <4>2
    <3>2. ProjectsComing' = ProjectsComing
      BY <1>5, <3>1, CountedAreFinite
    <3> QED
      BY <1>3, <3>2 DEF PlanInv, RoomForAll
  <2> QED
    BY <2>1, <2>2
<1>7. /\ \A s \in Slugs : Room(PerProjectCap, CountedIn(s)', ComingTo(s)')
      /\ Room(MonthlyCap, CountedThisMonth', AttestationsComing')
  <2>1. CASE task.step = "insert attestation"
    <3>1. Room(MonthlyCap, CountedThisMonth', AttestationsComing')
      BY <1>3, <1>5, <2>1, CapTypes, CountedAreFinite, RoomWhenCounted
    <3>2. ASSUME NEW s \in Slugs PROVE Room(PerProjectCap, CountedIn(s)', ComingTo(s)')
      <4>1. CASE s = task.slug
        BY <1>3, <1>5, <2>1, <4>1, CapTypes, CountedAreFinite, RoomWhenCounted
      <4>2. CASE s # task.slug
        <5>1. ComingTo(s)' = ComingTo(s)
          BY <1>1, <4>2 DEF ComingTo, At
        <5> QED
          BY <1>3, <5>1 DEF PlanInv, RoomForAll
      <4> QED
        BY <4>1, <4>2
    <3> QED
      BY <3>1, <3>2
  <2>2. CASE task.step # "insert attestation"
    <3>1. AttestationsComing' = AttestationsComing
      <4>1. h \notin AttestationsComing /\ h \notin AttestationsComing'
        BY <1>1, <2>2 DEF AttestationsComing, At
      <4>2. \A o \in Handlers \ {h} : o \in AttestationsComing' <=> o \in AttestationsComing
        BY <1>1 DEF AttestationsComing, At
      <4>3. \A o \in Handlers : o \in AttestationsComing' <=> o \in AttestationsComing
        BY <4>1, <4>2
      <4>4. AttestationsComing \subseteq Handlers /\ AttestationsComing' \subseteq Handlers
        BY <1>5, CountedAreFinite
      <4> QED
        BY <4>3, <4>4
    <3>2. ASSUME NEW s PROVE ComingTo(s)' = ComingTo(s)
      <4>1. h \notin ComingTo(s) /\ h \notin ComingTo(s)'
        BY <1>1, <2>2 DEF ComingTo, At
      <4>2. \A o \in Handlers \ {h} : o \in ComingTo(s)' <=> o \in ComingTo(s)
        BY <1>1 DEF ComingTo, At
      <4>3. \A o \in Handlers : o \in ComingTo(s)' <=> o \in ComingTo(s)
        BY <4>1, <4>2
      <4>4. ComingTo(s) \subseteq Handlers /\ ComingTo(s)' \subseteq Handlers
        BY <1>5, CountedAreFinite
      <4> QED
        BY <4>3, <4>4
    <3> QED
      BY <1>3, <3>1, <3>2 DEF PlanInv, RoomForAll
  <2> QED
    BY <2>1, <2>2
<1> QED
  BY <1>4, <1>6, <1>7 DEF PlanInv, RoomForAll

\* Each route begins with what it counts.
LEMMA CountingOK ==
  ASSUME PlanInv, NEW h \in Handlers, NEW s \in Slugs,
         \/ CreateProjectFromDashboard(h, s) \/ CreateProjectFromPublicApi(h, s)
         \/ RequestArchive(h, s) \/ \E l \in Labels : CreateAttestation(h, s, l)
  PROVE  PlanInv'
<1>1. UNCHANGED planVars
  BY DEF CreateProjectFromDashboard, CreateProjectFromPublicApi, RequestArchive, CreateAttestation
<1>2. CASE CreateProjectFromDashboard(h, s) \/ CreateProjectFromPublicApi(h, s)
  <2>1. PICK c \in Channels :
          /\ work[h] = None
          /\ work' = [work EXCEPT ![h] = [Plan("insert project", s, None) EXCEPT !.channel = c]]
          /\ c = "dashboard" => Allows(ProjectCap, Cardinality(CountedProjects))
    BY <1>2 DEF CreateProjectFromDashboard, CreateProjectFromPublicApi, Begin, Channels
  <2>2. PICK task : /\ work' = [work EXCEPT ![h] = task]
                    /\ task = [Plan("insert project", s, None) EXCEPT !.channel = c]
    BY <2>1
  <2>3. task \in PlanTask /\ task.step = "insert project" /\ task.channel = c
    <3>1. task = [step |-> "insert project", slug |-> s, label |-> None, channel |-> c]
      BY <2>2 DEF Plan
    <3> QED
      BY <3>1 DEF PlanTask
  <2> QED
    BY <1>1, <2>1, <2>2, <2>3, PlanBegins
<1>3. CASE RequestArchive(h, s)
  <2>1. PICK task : /\ work' = [work EXCEPT ![h] = task]
                    /\ task = Plan(IF project[s].archived THEN "restore" ELSE "archive", s, None)
    BY <1>3 DEF RequestArchive, Begin
  <2>2. task \in PlanTask /\ task.step \in {"restore", "archive"} /\ task.slug = s
    BY <2>1 DEF Plan, PlanTask
  <2>3. work[h] = None /\ project[s] # None
    BY <1>3 DEF RequestArchive, Begin
  <2> QED
    BY <1>1, <2>1, <2>2, <2>3, PlanBegins
<1>4. ASSUME NEW l \in Labels, CreateAttestation(h, s, l)
      PROVE  PlanInv'
  <2>1. PICK task : /\ work' = [work EXCEPT ![h] = task]
                    /\ task = Plan("insert attestation", s, l)
    BY <1>4 DEF CreateAttestation, Begin
  <2>2. task \in PlanTask /\ task.step = "insert attestation" /\ task.slug = s
    BY <2>1 DEF Plan, PlanTask
  <2>3. /\ work[h] = None
        /\ Allows(PerProjectCap, Cardinality(CountedIn(s)))
        /\ Allows(MonthlyCap, Cardinality(CountedThisMonth))
    BY <1>4 DEF CreateAttestation, Begin
  <2> QED
    BY <1>1, <2>1, <2>2, <2>3, PlanBegins
<1> QED
  BY <1>2, <1>3, <1>4

\* Once a request has ended without a row that is counted, there is room as before.
LEMMA RoomAfterEnd ==
  ASSUME PlanInv, NEW h \in Handlers, work' = [work EXCEPT ![h] = None],
         DashboardProjects' = DashboardProjects, CountedThisMonth' = CountedThisMonth,
         \A s : CountedIn(s)' = CountedIn(s)
  PROVE  RoomForAll'
<1>1. /\ ProjectsComing' = ProjectsComing \ {h}
      /\ AttestationsComing' = AttestationsComing \ {h}
      /\ \A s : ComingTo(s)' = ComingTo(s) \ {h}
  BY EndedIsNotComing DEF PlanInv
<1>2. Room(ProjectCap, DashboardProjects', ProjectsComing')
  <2>1. Room(ProjectCap, DashboardProjects, ProjectsComing)
    BY DEF PlanInv, RoomForAll
  <2> QED
    BY <1>1, <2>1, CapTypes, CountedAreFinite, RoomForFewer
<1>3. Room(MonthlyCap, CountedThisMonth', AttestationsComing')
  <2>1. Room(MonthlyCap, CountedThisMonth, AttestationsComing)
    BY DEF PlanInv, RoomForAll
  <2> QED
    BY <1>1, <2>1, CapTypes, CountedAreFinite, RoomForFewer
<1>4. ASSUME NEW s \in Slugs PROVE Room(PerProjectCap, CountedIn(s)', ComingTo(s)')
  <2>1. Room(PerProjectCap, CountedIn(s), ComingTo(s))
    BY DEF PlanInv, RoomForAll
  <2> QED
    BY <1>1, <2>1, CapTypes, CountedAreFinite, RoomForFewer
<1> QED
  BY <1>2, <1>3, <1>4 DEF RoomForAll

\* A request that is cut inserts nothing.
LEMMA CutPlanOK ==
  ASSUME PlanInv, NEW h \in Handlers, Cut(h), UNCHANGED planVars
  PROVE  PlanInv'
<1>1. work' = [work EXCEPT ![h] = None] /\ UNCHANGED <<project, sealed>>
  BY DEF Cut, Finish, Continue, planVars
<1>2. /\ UNCHANGED <<Projects, Attestations, DashboardProjects, CountedThisMonth>>
      /\ \A s : CountedIn(s)' = CountedIn(s)
  BY <1>1 DEF Projects, Attestations, DashboardProjects, CountedIn, CountedThisMonth
<1>3. /\ WorkIn(PlanTask)' /\ work'[h] = None
      /\ \A o \in Handlers \ {h} : work'[o] = work[o]
  BY <1>1, PlanTaskSet DEF PlanInv
<1>4. PlanTypes' /\ RowsFinite' /\ ProjectsKnown'
  BY <1>1, <1>2, <1>3 DEF PlanInv, PlanTypes, PlanTypeOK, RowsFinite, ProjectsKnown, At
<1> QED
  BY <1>1, <1>2, <1>4, RoomAfterEnd DEF PlanInv

\* The project that is inserted takes the room of its request.
LEMMA InsertProjectOK ==
  ASSUME PlanInv, NEW h \in Handlers, InsertProject(h)
  PROVE  PlanInv'
<1>1. PICK s : s = work[h].slug
  OBVIOUS
<1>2. PICK new : new = [archived |-> FALSE, channel |-> work[h].channel]
  OBVIOUS
<1>3. /\ At(h, "insert project") /\ work[h] # None /\ work' = [work EXCEPT ![h] = None]
      /\ project' = IF project[s] # None THEN project ELSE [project EXCEPT ![s] = new]
      /\ UNCHANGED sealed
  BY <1>1, <1>2 DEF InsertProject, At, Finish, Continue
<1>4. s \in Slugs /\ new \in Project /\ new # None /\ new.channel = work[h].channel
  <2>1. s \in Slugs
    BY <1>1, <1>3, PlanKnows
  <2>2. work[h].channel \in Channels
    BY <1>3 DEF PlanInv, ProjectsKnown, At
  <2>3. new \in Project /\ new.channel = work[h].channel
    BY <1>2, <2>2 DEF Project
  <2> QED
    BY <2>1, <2>3, PlanAssumption
<1>5. /\ WorkIn(PlanTask)' /\ work'[h] = None
      /\ \A o \in Handlers \ {h} : work'[o] = work[o]
  BY <1>3, PlanTaskSet DEF PlanInv
<1>6. /\ project' \in [Slugs -> Project \cup {None}]
      /\ \A r \in Slugs : project[r] # None => project'[r] = project[r]
      /\ \A r \in Slugs \ {s} : project'[r] = project[r]
      /\ project[s] = None => project'[s] = new
  BY <1>3, <1>4 DEF PlanInv, PlanTypes, PlanTypeOK
<1>7. /\ Projects' \subseteq Projects \cup {s}
      /\ DashboardProjects' \subseteq DashboardProjects \cup {s}
      /\ work[h].channel # "dashboard" => DashboardProjects' = DashboardProjects
  BY <1>4, <1>6 DEF Projects, DashboardProjects
<1>8. /\ UNCHANGED <<Attestations, CountedThisMonth>>
      /\ \A r : CountedIn(r)' = CountedIn(r)
  BY <1>3 DEF Attestations, CountedIn, CountedThisMonth
<1>9. PlanTypes'
  BY <1>3, <1>5, <1>6 DEF PlanInv, PlanTypes, PlanTypeOK
<1>10. RowsFinite'
  <2>1. IsFiniteSet(Projects \cup {s})
    BY FS_AddElement DEF PlanInv, RowsFinite
  <2> QED
    BY <1>7, <1>8, <2>1, FS_Subset DEF PlanInv, RowsFinite
<1>11. ProjectsKnown'
  BY <1>5, <1>6, PlanKnows DEF PlanInv, ProjectsKnown, At
<1>12. CASE work[h].channel = "dashboard"
  <2>1. h \in ProjectsComing /\ h \notin AttestationsComing /\ \A r : h \notin ComingTo(r)
    BY <1>3, <1>12 DEF ProjectsComing, AttestationsComing, ComingTo, At
  <2>2. /\ ProjectsComing' = ProjectsComing \ {h}
        /\ AttestationsComing' = AttestationsComing /\ \A r : ComingTo(r)' = ComingTo(r)
    <3>1. /\ ProjectsComing' = ProjectsComing \ {h}
          /\ AttestationsComing' = AttestationsComing \ {h}
          /\ \A r : ComingTo(r)' = ComingTo(r) \ {h}
      BY <1>3, EndedIsNotComing DEF PlanInv
    <3>2. AttestationsComing \ {h} = AttestationsComing /\ \A r : ComingTo(r) \ {h} = ComingTo(r)
      BY <2>1
    <3> QED
      BY <3>1, <3>2
  <2>3. Room(ProjectCap, DashboardProjects, ProjectsComing)
    BY DEF PlanInv, RoomForAll
  <2>4. Room(ProjectCap, DashboardProjects', ProjectsComing')
    BY <1>7, <2>1, <2>2, <2>3, CapTypes, CountedAreFinite, RoomForInserted
  <2>5. RoomForAll'
    BY <1>8, <2>2, <2>4 DEF PlanInv, RoomForAll
  <2> QED
    BY <1>9, <1>10, <1>11, <2>5 DEF PlanInv
<1>13. CASE work[h].channel # "dashboard"
  BY <1>3, <1>7, <1>8, <1>9, <1>10, <1>11, <1>13, RoomAfterEnd DEF PlanInv
<1> QED
  BY <1>12, <1>13

\* Archiving changes nothing that is counted.
LEMMA SetArchivedOK ==
  ASSUME PlanInv, NEW h \in Handlers, SetArchived(h)
  PROVE  PlanInv'
<1>1. PICK s : s = work[h].slug
  OBVIOUS
<1>2. PICK b \in BOOLEAN : b = At(h, "archive")
  BY DEF At
<1>3. PICK new : new = [project[s] EXCEPT !.archived = b]
  OBVIOUS
<1>4. /\ At(h, "archive") \/ At(h, "restore")
      /\ work[h] # None /\ work' = [work EXCEPT ![h] = None]
      /\ project' = [project EXCEPT ![s] = new]
      /\ UNCHANGED sealed
  BY <1>1, <1>2, <1>3 DEF SetArchived, At, Finish, Continue
<1>5. s \in Slugs /\ project[s] # None
  BY <1>1, <1>4, PlanKnows DEF PlanInv, ProjectsKnown
<1>6. new \in Project /\ new.channel = project[s].channel
  BY <1>3, <1>5 DEF PlanInv, PlanTypes, PlanTypeOK, Project
<1>7. /\ WorkIn(PlanTask)' /\ work'[h] = None
      /\ \A o \in Handlers \ {h} : work'[o] = work[o]
  BY <1>4, PlanTaskSet DEF PlanInv
<1>8. /\ project' \in [Slugs -> Project \cup {None}]
      /\ \A r \in Slugs : project[r] # None <=> project'[r] # None
      /\ \A r \in Slugs : project[r] # None => project'[r].channel = project[r].channel
  <2>1. new # None
    BY <1>6, PlanAssumption
  <2> QED
    BY <1>4, <1>5, <1>6, <2>1 DEF PlanInv, PlanTypes, PlanTypeOK
<1>9. /\ UNCHANGED <<Projects, DashboardProjects, Attestations, CountedThisMonth>>
      /\ \A r : CountedIn(r)' = CountedIn(r)
  BY <1>4, <1>8 DEF Projects, DashboardProjects, Attestations, CountedIn, CountedThisMonth
<1>10. PlanTypes' /\ RowsFinite'
  BY <1>4, <1>7, <1>8, <1>9 DEF PlanInv, PlanTypes, PlanTypeOK, RowsFinite
<1>11. ProjectsKnown'
  BY <1>7, <1>8, PlanKnows DEF PlanInv, ProjectsKnown, At
<1> QED
  BY <1>4, <1>9, <1>10, <1>11, RoomAfterEnd DEF PlanInv

\* The attestation that is inserted takes the room of its request.
LEMMA InsertAttestationOK ==
  ASSUME PlanInv, NEW h \in Handlers, InsertAttestation(h)
  PROVE  PlanInv'
<1>1. PICK s, at : s = work[h].slug /\ at = <<work[h].slug, work[h].label>>
  OBVIOUS
<1>2. PICK new : new = [thisMonth |-> TRUE]
  OBVIOUS
<1>3. /\ At(h, "insert attestation") /\ work[h] # None /\ work' = [work EXCEPT ![h] = None]
      /\ sealed' = IF sealed[at] # None THEN sealed ELSE [sealed EXCEPT ![at] = new]
      /\ UNCHANGED project
  BY <1>1, <1>2 DEF InsertAttestation, At, Finish, Continue
<1>4. new \in Sealed /\ new # None
  <2>1. new \in Sealed
    BY <1>2 DEF Sealed
  <2> QED
    BY <2>1, PlanAssumption
<1>5. /\ WorkIn(PlanTask)' /\ work'[h] = None
      /\ \A o \in Handlers \ {h} : work'[o] = work[o]
  BY <1>3, PlanTaskSet DEF PlanInv
<1>6. /\ sealed' \in [Slugs \X Labels -> Sealed \cup {None}]
      /\ \A r \in Slugs \X Labels : r # at \/ sealed[r] # None => sealed'[r] = sealed[r]
  BY <1>3, <1>4 DEF PlanInv, PlanTypes, PlanTypeOK
<1>7. /\ Attestations' \subseteq Attestations \cup {at}
      /\ CountedThisMonth' \subseteq CountedThisMonth \cup {at}
      /\ \A r : CountedIn(r)' \subseteq CountedIn(r) \cup {at}
      /\ \A r : r # s => CountedIn(r)' = CountedIn(r)
  BY <1>1, <1>6 DEF Attestations, CountedIn, CountedThisMonth
<1>8. UNCHANGED <<Projects, DashboardProjects>>
  BY <1>3 DEF Projects, DashboardProjects
<1>9. PlanTypes'
  BY <1>3, <1>5, <1>6 DEF PlanInv, PlanTypes, PlanTypeOK
<1>10. RowsFinite'
  <2>1. IsFiniteSet(Attestations \cup {at})
    BY FS_AddElement DEF PlanInv, RowsFinite
  <2> QED
    BY <1>7, <1>8, <2>1, FS_Subset DEF PlanInv, RowsFinite
<1>11. ProjectsKnown'
  BY <1>3, <1>5 DEF PlanInv, ProjectsKnown, At
<1>12. /\ h \in AttestationsComing /\ h \in ComingTo(s) /\ h \notin ProjectsComing
       /\ \A r : r # s => h \notin ComingTo(r)
  BY <1>1, <1>3 DEF ProjectsComing, AttestationsComing, ComingTo, At
<1>13. /\ ProjectsComing' = ProjectsComing /\ AttestationsComing' = AttestationsComing \ {h}
       /\ \A r : ComingTo(r)' = ComingTo(r) \ {h}
  BY <1>3, <1>12, EndedIsNotComing DEF PlanInv
<1>14. Room(MonthlyCap, CountedThisMonth', AttestationsComing')
  <2>1. Room(MonthlyCap, CountedThisMonth, AttestationsComing)
    BY DEF PlanInv, RoomForAll
  <2> QED
    BY <1>7, <1>12, <1>13, <2>1, CapTypes, CountedAreFinite, RoomForInserted
<1>15. ASSUME NEW r \in Slugs PROVE Room(PerProjectCap, CountedIn(r)', ComingTo(r)')
  <2>1. Room(PerProjectCap, CountedIn(r), ComingTo(r))
    BY DEF PlanInv, RoomForAll
  <2>2. CASE r = s
    BY <1>7, <1>12, <1>13, <2>1, <2>2, CapTypes, CountedAreFinite, RoomForInserted
  <2>3. CASE r # s
    BY <1>7, <1>12, <1>13, <2>1, <2>3
  <2> QED
    BY <2>2, <2>3
<1>16. RoomForAll'
  BY <1>8, <1>13, <1>14, <1>15 DEF PlanInv, RoomForAll
<1> QED
  BY <1>9, <1>10, <1>11, <1>16 DEF PlanInv

\* In a new month nothing has been counted yet.
LEMMA MonthBeginsOK ==
  ASSUME PlanInv, MonthBegins
  PROVE  PlanInv'
<1>1. /\ UNCHANGED <<work, project>>
      /\ sealed' = [at \in Slugs \X Labels |->
                      IF sealed[at] = None THEN None ELSE [sealed[at] EXCEPT !.thisMonth = FALSE]]
  BY DEF MonthBegins
<1>2. \A at \in Slugs \X Labels :
        /\ sealed'[at] \in Sealed \cup {None}
        /\ sealed[at] = None => sealed'[at] = None
        /\ sealed[at] # None => sealed'[at] # None /\ ~sealed'[at].thisMonth
  <2> SUFFICES ASSUME NEW at \in Slugs \X Labels, sealed[at] # None
               PROVE  sealed'[at] \in Sealed /\ sealed'[at] # None /\ ~sealed'[at].thisMonth
    BY <1>1
  <2>1. sealed'[at] = [sealed[at] EXCEPT !.thisMonth = FALSE] /\ sealed[at] \in Sealed
    BY <1>1 DEF PlanInv, PlanTypes, PlanTypeOK
  <2>2. sealed'[at] \in Sealed /\ ~sealed'[at].thisMonth
    BY <2>1 DEF Sealed
  <2> QED
    BY <2>2, PlanAssumption
<1>3. sealed' \in [Slugs \X Labels -> Sealed \cup {None}]
  BY <1>1, <1>2
<1>4. /\ UNCHANGED <<Projects, DashboardProjects, Attestations>>
      /\ CountedThisMonth' = {}
      /\ \A r : CountedIn(r)' = CountedIn(r)
  BY <1>1, <1>2 DEF Projects, DashboardProjects, Attestations, CountedThisMonth, CountedIn
<1>5. PlanTypes' /\ RowsFinite' /\ ProjectsKnown'
  BY <1>1, <1>3, <1>4 DEF PlanInv, PlanTypes, PlanTypeOK, WorkIn, RowsFinite, ProjectsKnown, At
<1>6. /\ UNCHANGED <<ProjectsComing, AttestationsComing>>
      /\ \A r : ComingTo(r)' = ComingTo(r)
  BY <1>1 DEF ProjectsComing, AttestationsComing, ComingTo, At
<1>7. Room(MonthlyCap, CountedThisMonth', AttestationsComing')
  <2>1. Room(MonthlyCap, CountedThisMonth, AttestationsComing)
    BY DEF PlanInv, RoomForAll
  <2> QED
    BY <1>4, <1>6, <2>1, CapTypes, CountedAreFinite, RoomForFewer
<1> QED
  BY <1>4, <1>5, <1>6, <1>7 DEF PlanInv, RoomForAll

\* Every step of projects and attestations keeps the invariant.
LEMMA PlanStepOK == PlanInv /\ [PlanNext]_<<work, planVars>> => PlanInv'
<1> SUFFICES ASSUME PlanInv, [PlanNext]_<<work, planVars>> PROVE PlanInv'
  OBVIOUS
<1>1. CASE UNCHANGED <<work, planVars>>
  <2>1. UNCHANGED <<work, project, sealed>>
    BY <1>1 DEF planVars
  <2>2. PlanTypes' /\ RowsFinite' /\ ProjectsKnown'
    BY <2>1 DEF PlanInv, PlanTypes, PlanTypeOK, WorkIn, RowsFinite, Projects, Attestations,
       ProjectsKnown, At
  <2>3. RoomForAll'
    BY <2>1 DEF PlanInv, RoomForAll, Room, DashboardProjects, ProjectsComing, CountedIn, ComingTo,
       CountedThisMonth, AttestationsComing, Projects, Attestations, At
  <2> QED
    BY <2>2, <2>3 DEF PlanInv
<1>2. ASSUME NEW h \in Handlers, PlanHandler(h)
      PROVE  PlanInv'
  BY <1>2, CountingOK, InsertProjectOK, SetArchivedOK, InsertAttestationOK, CutPlanOK DEF PlanHandler
<1> QED
  BY <1>1, <1>2, MonthBeginsOK DEF PlanNext

\* However many requests count at once, and whatever is archived, restored or comes through
\* the public API in between, a cap of the plan is exceeded by fewer rows than there are
\* handlers: for any caps and any number of handlers, projects and attestations.
THEOREM PlanIsKept == PlanSpec => []WithinCap
<1> QED
  BY RoomIsWithin, PlanInitOK, PlanStepOK, PTL DEF PlanSpec

\* Projects, attestations, caps and what requests have counted keep their types.
THEOREM PlanIsTyped == PlanSpec => [](PlanTypeOK /\ WorkIn(PlanTask))
<1>1. PlanInv => PlanTypeOK /\ WorkIn(PlanTask)
  BY DEF PlanInv, PlanTypes
<1> QED
  BY <1>1, PlanInitOK, PlanStepOK, PTL DEF PlanSpec

-----------------------------------------------------------------------------
(* Accounts, sessions and identities                                        *)

\* passwords and providers, used together
SignInNext == (AccountNext /\ UNCHANGED oidcVars) \/ OidcNext
SignInSpec ==
  NoWork /\ AccountInit /\ OidcInit /\ [][SignInNext]_<<work, accountVars, oidcVars>>

SignInTask == AccountTask \cup OidcTask
SignInTypes == AccountTypeOK /\ OidcTypeOK /\ WorkIn(SignInTask)

\* what a handler has read still exists
SignInsKnow ==
  \A h \in Handlers :
    /\ At(h, "set password") \/ At(h, "set verified") =>
         work[h].ref \in Tokens /\ token[work[h].ref] # None
    /\ At(h, "insert user") \/ At(h, "insert token") => work[h].kind \in {"reset", "email"}
    /\ At(h, "consume state") => work[h].ref \in States /\ authState[work[h].ref] # None
    /\ At(h, "create session") => work[h].password > 0
    /\ At(h, "disconnect") =>
         /\ work[h].ref \in Subjects /\ identity[work[h].ref] # None
         /\ identity[work[h].ref].user = work[h].user

\* who was checked before the last reset and has no session yet
StaleRequests(u) ==
  {h \in Handlers : /\ work[h] # None /\ work[h].password > 0
                    /\ work[h].user = u /\ work[h].password # password[u]}

\* together with the sessions that opened late they are fewer than the handlers: the one
\* that did the reset is none of them
FewFor(u) ==
  /\ IsFiniteSet(Outdated(u))
  /\ Cardinality(Outdated(u)) + Cardinality(StaleRequests(u)) < Cardinality(Handlers)
FewOutdated == \A u \in Owners : FewFor(u)

\* an account whose disconnections do not meet has one of them at most, and another
\* identity that stays
OneDisconnects ==
  \A h \in Handlers : At(h, "disconnect") /\ work[h].user \notin racedDisconnect =>
    /\ \A o \in Handlers : At(o, "disconnect") /\ work[o].user = work[h].user => o = h
    /\ \E y \in IdentitiesOf(work[h].user) : y # work[h].ref /\ identity[y].connected

SignInInv ==
  /\ SignInTypes /\ SignInsKnow /\ FewOutdated /\ OneDisconnects
  /\ KeepsAnIdentity

\* There are finitely many handlers, and at least one.
LEMMA SomeHandlers == Cardinality(Handlers) \in Nat \ {0}
<1>1. Cardinality(Handlers) \in Nat /\ Cardinality(Handlers) # 0
  BY AccountAssumption, FS_CardinalityType, FS_EmptySet
<1> QED
  BY <1>1

\* Initially there are no accounts, sessions or identities.
LEMMA SignInInitOK == NoWork /\ AccountInit /\ OidcInit => SignInInv
<1> SUFFICES ASSUME NoWork, AccountInit, OidcInit PROVE SignInInv
  OBVIOUS
<1>1. SignInTypes
  BY AccountAssumption
     DEF SignInTypes, NoWork, AccountInit, OidcInit, AccountTypeOK, OidcTypeOK, WorkIn
<1>2. SignInsKnow /\ OneDisconnects
  BY DEF NoWork, SignInsKnow, OneDisconnects, At
<1>3. KeepsAnIdentity
  BY DEF OidcInit, KeepsAnIdentity, IdentitiesOf
<1>4. FewOutdated
  <2> SUFFICES ASSUME NEW u \in Owners PROVE FewFor(u)
    BY DEF FewOutdated
  <2>1. Outdated(u) = {} /\ StaleRequests(u) = {}
    BY DEF NoWork, AccountInit, Outdated, OpenSession, StaleRequests
  <2> QED
    BY <2>1, SomeHandlers, FS_EmptySet DEF FewFor
<1> QED
  BY <1>1, <1>2, <1>3, <1>4 DEF SignInInv

\* A handler's task changes no other's.
LEMMA SignInTaskSet ==
  ASSUME SignInTypes, NEW h \in Handlers, NEW task \in SignInTask \cup {None},
         work' = [work EXCEPT ![h] = task]
  PROVE  /\ WorkIn(SignInTask)' /\ work'[h] = task
         /\ \A o \in Handlers \ {h} : work'[o] = work[o]
BY DEF SignInTypes, WorkIn

\* What a task is, from its step.
LEMMA SignInKnows ==
  ASSUME SignInInv, NEW h \in Handlers, work[h] # None
  PROVE  /\ work[h] \in SignInTask
         /\ work[h].step \in {"insert user", "insert token", "create session", "set password",
                              "set verified"} \/ work[h].password > 0 =>
              /\ work[h] \in AccountTask /\ work[h].user \in Owners
              /\ work[h].password \in 0..MaxPasswords
         /\ work[h].step \in {"consume state", "link identity", "disconnect"} =>
              work[h] \in OidcTask /\ work[h].user \in Owners \cup {None}
<1>1. work[h] \in SignInTask
  BY DEF SignInInv, SignInTypes, WorkIn
<1>2. CASE work[h] \in AccountTask
  BY <1>1, <1>2 DEF AccountTask
<1>3. CASE work[h] \in OidcTask
  <2>1. /\ work[h].step \in {"consume state", "link identity", "disconnect"}
        /\ work[h].user \in Owners \cup {None} /\ work[h].password = 0
    BY <1>3 DEF OidcTask
  <2>2. ~(work[h].password > 0)
    <3>1. work[h].password = 0
      BY <1>3 DEF OidcTask
    <3> QED
      BY <3>1
  <2>3. work[h].step \notin {"insert user", "insert token", "create session", "set password", "set verified"}
    BY <2>1
  <2> QED
    BY <1>1, <1>3, <2>1, <2>2, <2>3
<1> QED
  BY <1>1, <1>2, <1>3 DEF SignInTask

\* Nothing that a handler has read goes, so that one handler's step leaves the others sound.
LEMMA SignInsKept ==
  ASSUME SignInInv, NEW h \in Handlers, \A o \in Handlers \ {h} : work'[o] = work[o],
         \A t \in Tokens : token[t] # None => token'[t] # None,
         \A a \in States : authState[a] # None => authState'[a] # None,
         \A x \in Subjects : identity[x] # None =>
           identity'[x] # None /\ identity'[x].user = identity[x].user,
         work'[h] # None =>
           /\ work'[h].step \in {"set password", "set verified"} =>
                work'[h].ref \in Tokens /\ token[work'[h].ref] # None
           /\ work'[h].step \in {"insert user", "insert token"} => work'[h].kind \in {"reset", "email"}
           /\ work'[h].step = "consume state" =>
                work'[h].ref \in States /\ authState[work'[h].ref] # None
           /\ work'[h].step = "create session" => work'[h].password > 0
           /\ work'[h].step = "disconnect" =>
                /\ work'[h].ref \in Subjects /\ identity[work'[h].ref] # None
                /\ identity[work'[h].ref].user = work'[h].user
  PROVE  SignInsKnow'
<1> SUFFICES ASSUME NEW o \in Handlers
             PROVE  /\ At(o, "set password")' \/ At(o, "set verified")' =>
                         work'[o].ref \in Tokens /\ token'[work'[o].ref] # None
                    /\ At(o, "insert user")' \/ At(o, "insert token")' =>
                         work'[o].kind \in {"reset", "email"}
                    /\ At(o, "consume state")' =>
                         work'[o].ref \in States /\ authState'[work'[o].ref] # None
                    /\ At(o, "create session")' => work'[o].password > 0
                    /\ At(o, "disconnect")' =>
                         /\ work'[o].ref \in Subjects /\ identity'[work'[o].ref] # None
                         /\ identity'[work'[o].ref].user = work'[o].user
  BY DEF SignInsKnow
<1>1. CASE o = h
  BY <1>1 DEF At
<1>2. CASE o # h
  <2>1. work'[o] = work[o]
    BY <1>2
  <2>2. /\ At(o, "set password") \/ At(o, "set verified") =>
             work[o].ref \in Tokens /\ token[work[o].ref] # None
        /\ At(o, "insert user") \/ At(o, "insert token") => work[o].kind \in {"reset", "email"}
        /\ At(o, "consume state") => work[o].ref \in States /\ authState[work[o].ref] # None
        /\ At(o, "create session") => work[o].password > 0
        /\ At(o, "disconnect") =>
             /\ work[o].ref \in Subjects /\ identity[work[o].ref] # None
             /\ identity[work[o].ref].user = work[o].user
    BY DEF SignInInv, SignInsKnow
  <2> QED
    BY <2>1, <2>2 DEF At
<1> QED
  BY <1>1, <1>2

\* The disconnections that are under way when nobody begins another and no identity goes.
LEMMA DisconnectsRest ==
  ASSUME SignInInv, NEW h \in Handlers, \A o \in Handlers \ {h} : work'[o] = work[o],
         ~At(h, "disconnect")',
         \A o \in Handlers \ {h} :
           At(o, "disconnect") /\ work[o].user \in racedDisconnect =>
             work[o].user \in racedDisconnect',
         \A x \in Subjects : identity[x] # None =>
           /\ identity'[x] # None /\ identity'[x].user = identity[x].user
           /\ identity[x].connected => identity'[x].connected
  PROVE  OneDisconnects'
<1> SUFFICES ASSUME NEW o \in Handlers, At(o, "disconnect")', work'[o].user \notin racedDisconnect'
             PROVE  /\ \A p \in Handlers : At(p, "disconnect")' /\ work'[p].user = work'[o].user => p = o
                    /\ \E y \in IdentitiesOf(work[o].user)' : y # work'[o].ref /\ identity'[y].connected
  BY DEF OneDisconnects
<1>1. \A p \in Handlers : At(p, "disconnect")' => p # h /\ At(p, "disconnect") /\ work'[p] = work[p]
  BY DEF At
<1>2. PICK u : u = work[o].user
  OBVIOUS
<1>3. IdentitiesOf(u) \subseteq IdentitiesOf(u)'
  BY DEF IdentitiesOf
<1>4. PICK y \in IdentitiesOf(u) : y # work[o].ref /\ identity[y].connected
  BY <1>1, <1>2 DEF SignInInv, OneDisconnects
<1>5. y \in IdentitiesOf(u)' /\ identity'[y].connected
  BY <1>3, <1>4 DEF IdentitiesOf
<1> QED
  BY <1>1, <1>2, <1>4, <1>5 DEF SignInInv, OneDisconnects

\* The requests of an owner are handlers.
LEMMA StaleFinite ==
  ASSUME NEW u
  PROVE  /\ IsFiniteSet(StaleRequests(u)) /\ Cardinality(StaleRequests(u)) \in Nat
         /\ IsFiniteSet(StaleRequests(u))' /\ Cardinality(StaleRequests(u))' \in Nat
<1>1. StaleRequests(u) \subseteq Handlers /\ StaleRequests(u)' \subseteq Handlers
  BY DEF StaleRequests
<1>2. IsFiniteSet(StaleRequests(u)) /\ IsFiniteSet(StaleRequests(u)')
  BY <1>1, AccountAssumption, FS_Subset
<1> QED
  BY <1>2, FS_CardinalityType

\* Nothing is lost where neither sessions on an old password nor requests for one come in.
LEMMA FewForLess ==
  ASSUME SignInInv, NEW u \in Owners,
         Outdated(u)' \subseteq Outdated(u), StaleRequests(u)' \subseteq StaleRequests(u)
  PROVE  FewFor(u)'
<1>1. FewFor(u)
  BY DEF SignInInv, FewOutdated
<1>2. /\ IsFiniteSet(Outdated(u)') /\ Cardinality(Outdated(u)') <= Cardinality(Outdated(u))
      /\ Cardinality(Outdated(u)) \in Nat /\ Cardinality(Outdated(u)') \in Nat
  BY <1>1, FS_Subset, FS_CardinalityType DEF FewFor
<1>3. /\ Cardinality(StaleRequests(u)') <= Cardinality(StaleRequests(u))
      /\ Cardinality(StaleRequests(u)) \in Nat /\ Cardinality(StaleRequests(u)') \in Nat
  BY StaleFinite, FS_Subset
<1> QED
  BY <1>1, <1>2, <1>3, SomeHandlers DEF FewFor

\* So it is for a step that opens no session and resets no password, when the request it
\* leaves behind was checked against the password, or was late already.
LEMMA FewOutdatedKept ==
  ASSUME SignInInv, NEW h \in Handlers, \A o \in Handlers \ {h} : work'[o] = work[o],
         \A u \in Owners : password[u] = 0 \/ password'[u] = password[u],
         \A s \in Sessions : OpenSession(s)' => session'[s] = session[s],
         work'[h] # None /\ work'[h].password > 0 =>
           \/ work'[h].password = password'[work'[h].user]
           \/ h \in StaleRequests(work'[h].user)
  PROVE  FewOutdated'
<1> SUFFICES ASSUME NEW u \in Owners PROVE FewFor(u)'
  BY DEF FewOutdated
<1>1. Outdated(u)' \subseteq Outdated(u)
  <2> SUFFICES ASSUME NEW s \in Sessions, OpenSession(s)', session'[s].user = u,
                      session'[s].password # password'[u]
               PROVE  s \in Outdated(u)
    BY DEF Outdated
  <2>1. session'[s] = session[s] /\ OpenSession(s)
    BY DEF OpenSession
  <2>2. session[s].password \in 1..MaxPasswords
    BY <2>1 DEF OpenSession, SignInInv, SignInTypes, AccountTypeOK, Session
  <2>3. session[s].password # 0
    BY <2>2, AccountAssumption
  <2> QED
    BY <2>1, <2>3 DEF Outdated
<1>2. StaleRequests(u)' \subseteq StaleRequests(u)
  <2> SUFFICES ASSUME NEW o \in Handlers, work'[o] # None, work'[o].password > 0,
                      work'[o].user = u, work'[o].password # password'[u]
               PROVE  o \in StaleRequests(u)
    BY DEF StaleRequests
  <2>1. CASE o = h
    BY <2>1
  <2>2. CASE o # h
    <3>1. work'[o] = work[o] /\ work[o].password # 0
      BY <2>2
    <3> QED
      BY <3>1 DEF StaleRequests
  <2> QED
    BY <2>1, <2>2
<1> QED
  BY <1>1, <1>2, FewForLess

\* A handler that goes on, begins or ends, while passwords, sessions and identities stay.
LEMMA SignInRest ==
  ASSUME SignInInv, NEW h \in Handlers, NEW task \in SignInTask \cup {None},
         work' = [work EXCEPT ![h] = task],
         UNCHANGED <<password, session, identity>>,
         verified' \subseteq Owners,
         token' \in [Tokens -> TokenRow \cup {None}],
         \A t \in Tokens : token[t] # None => token'[t] # None,
         authState' \in [States -> AuthState \cup {None}],
         \A a \in States : authState[a] # None => authState'[a] # None,
         racedDisconnect \subseteq racedDisconnect', racedDisconnect' \subseteq Owners,
         task # None =>
           /\ task.step \in {"set password", "set verified"} =>
                task.ref \in Tokens /\ token[task.ref] # None
           /\ task.step \in {"insert user", "insert token"} => task.kind \in {"reset", "email"}
           /\ task.step = "consume state" => task.ref \in States /\ authState[task.ref] # None
           /\ task.step = "create session" => task.password > 0
           /\ task.password > 0 =>
                task.password = password[task.user] \/ h \in StaleRequests(task.user)
           /\ task.step # "disconnect"
  PROVE  SignInInv'
<1>1. /\ WorkIn(SignInTask)' /\ work'[h] = task
      /\ \A o \in Handlers \ {h} : work'[o] = work[o]
  BY SignInTaskSet DEF SignInInv
<1>2. SignInTypes'
  BY <1>1 DEF SignInInv, SignInTypes, AccountTypeOK, OidcTypeOK
<1>3. SignInsKnow'
  <2>1. \A x \in Subjects : identity[x] # None =>
          identity'[x] # None /\ identity'[x].user = identity[x].user
    OBVIOUS
  <2>2. work'[h] # None =>
          /\ work'[h].step \in {"set password", "set verified"} =>
               work'[h].ref \in Tokens /\ token[work'[h].ref] # None
          /\ work'[h].step \in {"insert user", "insert token"} => work'[h].kind \in {"reset", "email"}
          /\ work'[h].step = "consume state" =>
               work'[h].ref \in States /\ authState[work'[h].ref] # None
          /\ work'[h].step = "create session" => work'[h].password > 0
          /\ work'[h].step # "disconnect"
    BY <1>1
  <2> QED
    BY <1>1, <2>1, <2>2, SignInsKept
<1>4. FewOutdated'
  BY <1>1, FewOutdatedKept
<1>5. OneDisconnects'
  BY <1>1, DisconnectsRest DEF At
<1>6. KeepsAnIdentity'
  <2>1. KeepsAnIdentity /\ \A v : IdentitiesOf(v)' = IdentitiesOf(v)
    BY DEF SignInInv, IdentitiesOf
  <2> QED
    BY <2>1 DEF KeepsAnIdentity
<1> QED
  BY <1>2, <1>3, <1>4, <1>5, <1>6 DEF SignInInv

\* The same, with tokens and states at rest too.
LEMMA SignInMoves ==
  ASSUME SignInInv, UNCHANGED <<accountVars, oidcVars>>,
         NEW h \in Handlers, NEW task \in SignInTask \cup {None},
         work' = [work EXCEPT ![h] = task],
         task # None =>
           /\ task.step \in {"set password", "set verified"} =>
                task.ref \in Tokens /\ token[task.ref] # None
           /\ task.step \in {"insert user", "insert token"} => task.kind \in {"reset", "email"}
           /\ task.step = "consume state" => task.ref \in States /\ authState[task.ref] # None
           /\ task.step = "create session" => task.password > 0
           /\ task.password > 0 =>
                task.password = password[task.user] \/ h \in StaleRequests(task.user)
           /\ task.step # "disconnect"
  PROVE  SignInInv'
<1>1. /\ UNCHANGED <<password, session, identity, token, authState, racedDisconnect, verified>>
      /\ verified \subseteq Owners /\ token \in [Tokens -> TokenRow \cup {None}]
      /\ authState \in [States -> AuthState \cup {None}] /\ racedDisconnect \subseteq Owners
  BY DEF accountVars, oidcVars, SignInInv, SignInTypes, AccountTypeOK, OidcTypeOK
<1> QED
  BY <1>1, SignInRest

\* A request that is cut writes nothing more.
LEMMA CutSignInOK ==
  ASSUME SignInInv, NEW h \in Handlers, Cut(h), UNCHANGED <<accountVars, oidcVars>>
  PROVE  SignInInv'
BY SignInMoves DEF Cut, Finish, Continue

\* The number of a password is one.
LEMMA PasswordNumbers ==
  ASSUME SignInInv, NEW u \in Owners
  PROVE  password[u] \in 0..MaxPasswords
BY DEF SignInInv, SignInTypes, AccountTypeOK

\* Registering and logging in write nothing yet.
LEMMA BeginSessionOK ==
  ASSUME SignInInv, UNCHANGED oidcVars, NEW h \in Handlers, NEW u \in Owners,
         RegisterAccount(h, u) \/ Login(h, u)
  PROVE  SignInInv'
<1>1. CASE RegisterAccount(h, u)
  <2>1. PICK task : task = AccountStep("insert user", "email", u)
    OBVIOUS
  <2>2. /\ task \in AccountTask /\ task.step = "insert user" /\ task.kind = "email"
        /\ task.password = password[u] /\ task.user = u
    BY <2>1, PasswordNumbers DEF AccountStep, AccountTask
  <2>3. work' = [work EXCEPT ![h] = task] /\ UNCHANGED accountVars
    BY <1>1, <2>1 DEF RegisterAccount, Begin
  <2> QED
    BY <2>2, <2>3, SignInMoves DEF SignInTask
<1>2. CASE Login(h, u)
  <2>1. PICK task : task = AccountStep("create session", "session", u)
    OBVIOUS
  <2>2. /\ task \in AccountTask /\ task.step = "create session"
        /\ task.password = password[u] /\ task.user = u
    BY <2>1, PasswordNumbers DEF AccountStep, AccountTask
  <2>3. work' = [work EXCEPT ![h] = task] /\ UNCHANGED accountVars /\ password[u] > 0
    BY <1>2, <2>1 DEF Login, Begin, Exists
  <2> QED
    BY <2>2, <2>3, SignInMoves DEF SignInTask
<1> QED
  BY <1>1, <1>2

\* An account appears: nobody has signed in to it, nor was checked.
LEMMA InsertAccountOK ==
  ASSUME SignInInv, UNCHANGED oidcVars, NEW h \in Handlers, InsertAccount(h)
  PROVE  SignInInv'
<1>1. PICK u : u = work[h].user
  OBVIOUS
<1>2. /\ work[h] # None /\ work[h].step = "insert user" /\ At(h, "insert user")
      /\ UNCHANGED <<verified, session, token>>
  BY DEF InsertAccount, At
<1>3. u \in Owners /\ work[h] \in AccountTask
  BY <1>1, <1>2, SignInKnows
<1>4. CASE Exists(u)
  BY <1>1, <1>2, <1>4, SignInMoves DEF InsertAccount, Finish, Continue, accountVars
<1>5. CASE ~Exists(u)
  <2>1. PICK t, task : /\ t = [work[h] EXCEPT !.step = "insert token"]
                       /\ task = [t EXCEPT !.password = 1]
    OBVIOUS
  <2>2. password' = [password EXCEPT ![u] = 1] /\ work' = [work EXCEPT ![h] = task]
    BY <1>1, <1>5, <2>1 DEF InsertAccount, Continue
  <2>3. 1 \in 0..MaxPasswords
    BY AccountAssumption
  <2>4. t \in AccountTask /\ t.step = "insert token" /\ t.user = u /\ t.kind = work[h].kind
    BY <1>1, <1>3, <2>1 DEF AccountTask
  <2>5. /\ task \in AccountTask /\ task.step = "insert token" /\ task.user = u
        /\ task.password = 1 /\ task.kind = work[h].kind
    BY <2>1, <2>3, <2>4 DEF AccountTask
  <2>6. /\ WorkIn(SignInTask)' /\ work'[h] = task
        /\ \A o \in Handlers \ {h} : work'[o] = work[o]
    BY <2>2, <2>5, SignInTaskSet DEF SignInInv, SignInTask
  <2>7. /\ password[u] = 0 /\ password'[u] = 1 /\ password' \in [Owners -> 0..MaxPasswords]
        /\ \A v \in Owners \ {u} : password'[v] = password[v]
    <3>1. password \in [Owners -> 0..MaxPasswords] /\ password[u] \in 0..MaxPasswords
      BY <1>3 DEF SignInInv, SignInTypes, AccountTypeOK
    <3>2. password[u] = 0
      BY <1>5, <3>1, AccountAssumption DEF Exists
    <3> QED
      BY <1>3, <2>2, <2>3, <3>1, <3>2
  <2>8. SignInTypes'
    BY <1>2, <2>6, <2>7 DEF SignInInv, SignInTypes, AccountTypeOK, OidcTypeOK, oidcVars
  <2>9. SignInsKnow'
    BY <1>2, <2>5, <2>6 DEF SignInInv, SignInsKnow, At, oidcVars
  <2>10. FewOutdated'
    <3>1. \A v \in Owners : password[v] = 0 \/ password'[v] = password[v]
      BY <2>7
    <3>2. work'[h].password = password'[work'[h].user]
      BY <2>5, <2>6, <2>7
    <3> QED
      BY <1>2, <2>6, <3>1, <3>2, FewOutdatedKept
  <2>11. OneDisconnects'
    BY <2>5, <2>6, DisconnectsRest DEF At, oidcVars
  <2>12. KeepsAnIdentity'
    BY DEF SignInInv, KeepsAnIdentity, IdentitiesOf, oidcVars
  <2> QED
    BY <2>8, <2>9, <2>10, <2>11, <2>12 DEF SignInInv
<1> QED
  BY <1>4, <1>5

\* A token is issued for the owner it was requested for.
LEMMA InsertTokenOK ==
  ASSUME SignInInv, UNCHANGED oidcVars, NEW h \in Handlers, InsertToken(h)
  PROVE  SignInInv'
<1>1. PICK n : n = CHOOSE t \in FreeTokens : TRUE
  OBVIOUS
<1>2. PICK new : new = [kind |-> work[h].kind, user |-> work[h].user, state |-> "valid"]
  OBVIOUS
<1>3. /\ work[h] # None /\ work[h].step = "insert token" /\ At(h, "insert token") /\ FreeTokens # {}
      /\ token' = [token EXCEPT ![n] = new]
      /\ UNCHANGED <<password, verified, session>>
  BY <1>1, <1>2 DEF InsertToken, At
<1>4. n \in Tokens
  BY <1>1, <1>3 DEF FreeTokens
<1>5. work[h] \in AccountTask
  BY <1>3, SignInKnows
<1>6. new \in TokenRow /\ new # None
  <2>1. work[h].kind \in {"reset", "email"} /\ work[h].user \in Owners
    BY <1>3, <1>5 DEF AccountTask, SignInInv, SignInsKnow
  <2>2. new \in TokenRow
    BY <1>2, <2>1 DEF TokenRow
  <2> QED
    BY <2>2, AccountAssumption
<1>7. /\ token' \in [Tokens -> TokenRow \cup {None}]
      /\ \A t \in Tokens : token[t] # None => token'[t] # None
  BY <1>3, <1>4, <1>6 DEF SignInInv, SignInTypes, AccountTypeOK
<1>8. PICK task : /\ work' = [work EXCEPT ![h] = task]
                  /\ \/ task = None
                     \/ work[h].password > 0 /\ task = [work[h] EXCEPT !.step = "create session"]
  BY DEF InsertToken, Finish, Continue
<1>9. task # None => /\ task \in AccountTask /\ task.step = "create session"
                     /\ task.password = work[h].password /\ task.password > 0
                     /\ task.user = work[h].user
  BY <1>5, <1>8 DEF AccountTask
<1>10. task # None => task.password = password[task.user] \/ h \in StaleRequests(task.user)
  BY <1>3, <1>9 DEF StaleRequests
<1>11. /\ verified' \subseteq Owners /\ racedDisconnect' \subseteq Owners
       /\ UNCHANGED <<identity, racedDisconnect, authState>>
       /\ authState' \in [States -> AuthState \cup {None}]
  BY <1>3 DEF oidcVars, SignInInv, SignInTypes, AccountTypeOK, OidcTypeOK
<1> QED
  BY <1>3, <1>7, <1>8, <1>9, <1>10, <1>11, SignInRest DEF SignInTask

\* Rows that change without a handler: tokens, states, and sessions that are revoked.
LEMMA SignInRows ==
  ASSUME SignInInv, UNCHANGED <<work, password, verified, identity, racedDisconnect>>,
         token' \in [Tokens -> TokenRow \cup {None}],
         \A t \in Tokens : token[t] # None => token'[t] # None,
         authState' \in [States -> AuthState \cup {None}],
         \A a \in States : authState[a] # None => authState'[a] # None,
         session' \in [Sessions -> Session \cup {None}],
         \A s \in Sessions : OpenSession(s)' => session'[s] = session[s]
  PROVE  SignInInv'
<1>1. SignInTypes'
  BY DEF SignInInv, SignInTypes, AccountTypeOK, OidcTypeOK, WorkIn
<1>2. SignInsKnow'
  <2> SUFFICES ASSUME NEW o \in Handlers
               PROVE  /\ At(o, "set password") \/ At(o, "set verified") =>
                           work[o].ref \in Tokens /\ token'[work[o].ref] # None
                      /\ At(o, "insert user") \/ At(o, "insert token") =>
                           work[o].kind \in {"reset", "email"}
                      /\ At(o, "consume state") => work[o].ref \in States /\ authState'[work[o].ref] # None
                      /\ At(o, "create session") => work[o].password > 0
                      /\ At(o, "disconnect") =>
                           /\ work[o].ref \in Subjects /\ identity[work[o].ref] # None
                           /\ identity[work[o].ref].user = work[o].user
    BY DEF SignInsKnow, At
  <2> QED
    BY DEF SignInInv, SignInsKnow
<1>3. FewOutdated'
  <2> SUFFICES ASSUME NEW u \in Owners PROVE FewFor(u)'
    BY DEF FewOutdated
  <2>1. Outdated(u)' \subseteq Outdated(u) /\ StaleRequests(u)' \subseteq StaleRequests(u)
    BY DEF Outdated, OpenSession, StaleRequests
  <2> QED
    BY <2>1, FewForLess
<1>4. OneDisconnects' /\ KeepsAnIdentity'
  BY DEF SignInInv, OneDisconnects, At, KeepsAnIdentity, IdentitiesOf
<1> QED
  BY <1>1, <1>2, <1>3, <1>4 DEF SignInInv

\* A session that ends is not open.
LEMMA LogoutOK ==
  ASSUME SignInInv, UNCHANGED oidcVars, NEW s \in Sessions, Logout(s)
  PROVE  SignInInv'
<1>1. PICK new : new = [session[s] EXCEPT !.revoked = TRUE]
  OBVIOUS
<1>2. session[s] # None /\ session' = [session EXCEPT ![s] = new]
      /\ UNCHANGED <<work, password, verified, token, identity, racedDisconnect, authState>>
  BY <1>1 DEF Logout, OpenSession, oidcVars
<1>3. new \in Session /\ new.revoked
  BY <1>1, <1>2 DEF SignInInv, SignInTypes, AccountTypeOK, Session
<1>4. /\ session' \in [Sessions -> Session \cup {None}]
      /\ \A r \in Sessions : OpenSession(r)' => session'[r] = session[r]
  BY <1>2, <1>3 DEF SignInInv, SignInTypes, AccountTypeOK, OpenSession
<1>5. token' \in [Tokens -> TokenRow \cup {None}] /\ authState' \in [States -> AuthState \cup {None}]
  BY <1>2 DEF SignInInv, SignInTypes, AccountTypeOK, OidcTypeOK
<1> QED
  BY <1>2, <1>4, <1>5, SignInRows

\* A token that is marked stays one.
LEMMA TokenMarked ==
  ASSUME SignInInv, NEW t \in Tokens, token[t] # None, NEW state \in {"valid", "consumed", "expired"}
  PROVE  [token[t] EXCEPT !.state = state] \in TokenRow
<1>1. token[t] \in TokenRow
  BY DEF SignInInv, SignInTypes, AccountTypeOK
<1> QED
  BY <1>1 DEF TokenRow

\* A token that is used or expires stays the token of its owner.
LEMMA TokenSet ==
  ASSUME SignInInv, NEW t \in Tokens, token[t] # None, NEW state \in {"valid", "consumed", "expired"},
         token' = [token EXCEPT ![t].state = state]
  PROVE  /\ token' \in [Tokens -> TokenRow \cup {None}]
         /\ \A k \in Tokens : token[k] # None => token'[k] # None
<1>1. PICK new : new = [token[t] EXCEPT !.state = state]
  OBVIOUS
<1>2. new \in TokenRow /\ new # None
  BY <1>1, TokenMarked, AccountAssumption
<1>3. token' = [token EXCEPT ![t] = new]
  BY <1>1
<1> QED
  BY <1>2, <1>3 DEF SignInInv, SignInTypes, AccountTypeOK

\* The clock ends tokens.
LEMMA TokenExpiresOK ==
  ASSUME SignInInv, UNCHANGED oidcVars, NEW t \in Tokens, TokenExpires(t)
  PROVE  SignInInv'
<1>1. /\ token[t] # None /\ token' = [token EXCEPT ![t].state = "expired"]
      /\ UNCHANGED <<work, password, verified, session, identity, racedDisconnect, authState>>
  BY DEF TokenExpires, oidcVars
<1>2. /\ token' \in [Tokens -> TokenRow \cup {None}]
      /\ \A k \in Tokens : token[k] # None => token'[k] # None
  BY <1>1, TokenSet
<1>3. /\ session' \in [Sessions -> Session \cup {None}]
      /\ authState' \in [States -> AuthState \cup {None}]
  BY <1>1 DEF SignInInv, SignInTypes, AccountTypeOK, OidcTypeOK
<1> QED
  BY <1>1, <1>2, <1>3, SignInRows

\* The state of a sign-in begins and expires without a session.
LEMMA StatesOK ==
  ASSUME SignInInv, NEW a \in States,
         StartSignIn(a) \/ StateExpires(a) \/ \E u \in Owners : StartConnect(a, u)
  PROVE  SignInInv'
<1>1. PICK new : new \in AuthState /\ authState' = [authState EXCEPT ![a] = new]
  <2>1. CASE StateExpires(a)
    <3>1. authState[a] \in AuthState
      BY <2>1 DEF StateExpires, SignInInv, SignInTypes, OidcTypeOK
    <3>2. [authState[a] EXCEPT !.state = "expired"] \in AuthState
      BY <3>1 DEF AuthState
    <3> QED
      BY <2>1, <3>2 DEF StateExpires
  <2>2. ASSUME NEW u \in Owners \cup {None}, Start(a, u)
        PROVE  \E new : new \in AuthState /\ authState' = [authState EXCEPT ![a] = new]
    <3>1. [user |-> u, state |-> "valid"] \in AuthState
      BY DEF AuthState
    <3> QED
      BY <2>2, <3>1 DEF Start
  <2> QED
    BY <2>1, <2>2 DEF StartSignIn, StartConnect
<1>2. UNCHANGED <<work, password, verified, session, token, identity, racedDisconnect>>
  BY DEF StartSignIn, StateExpires, StartConnect, Start, accountVars
<1>3. new # None
  BY <1>1, OidcAssumption
<1>4. /\ authState' \in [States -> AuthState \cup {None}]
      /\ \A b \in States : authState[b] # None => authState'[b] # None
  BY <1>1, <1>3 DEF SignInInv, SignInTypes, OidcTypeOK
<1>5. /\ session' \in [Sessions -> Session \cup {None}]
      /\ token' \in [Tokens -> TokenRow \cup {None}]
  BY <1>2 DEF SignInInv, SignInTypes, AccountTypeOK
<1> QED
  BY <1>2, <1>4, <1>5, SignInRows

\* What the lemmas on handlers ask of the rows that a step leaves alone.
LEMMA RowTypes ==
  ASSUME SignInInv
  PROVE  /\ verified \subseteq Owners /\ racedDisconnect \subseteq Owners
         /\ token \in [Tokens -> TokenRow \cup {None}]
         /\ authState \in [States -> AuthState \cup {None}]
         /\ identity \in [Subjects -> Identity \cup {None}]
         /\ session \in [Sessions -> Session \cup {None}]
         /\ password \in [Owners -> 0..MaxPasswords]
BY DEF SignInInv, SignInTypes, AccountTypeOK, OidcTypeOK

\* A token is requested; nothing is written.
LEMMA RequestTokenOK ==
  ASSUME SignInInv, UNCHANGED oidcVars, NEW h \in Handlers, NEW u \in Owners,
         NEW kind \in {"reset", "email"}, RequestToken(h, kind, u)
  PROVE  SignInInv'
<1>1. PICK task : task = [AccountStep("insert token", kind, u) EXCEPT !.password = 0]
  OBVIOUS
<1>2. /\ work' = [work EXCEPT ![h] = task]
      /\ token' = [t \in Tokens |-> IF t \in ValidTokens(kind, u)
                                    THEN [token[t] EXCEPT !.state = "consumed"] ELSE token[t]]
      /\ UNCHANGED <<password, verified, session, identity, racedDisconnect, authState>>
  BY <1>1 DEF RequestToken, Begin, oidcVars
<1>3. task \in AccountTask /\ task.step = "insert token" /\ task.kind = kind /\ task.password = 0
  <2>1. task = [step |-> "insert token", kind |-> kind, user |-> u, password |-> 0,
                ref |-> None]
    BY <1>1 DEF AccountStep
  <2>2. 0 \in 0..MaxPasswords
    BY AccountAssumption
  <2> QED
    BY <2>1, <2>2 DEF AccountTask
<1>4. /\ token' \in [Tokens -> TokenRow \cup {None}]
      /\ \A t \in Tokens : token[t] # None => token'[t] # None
  <2> SUFFICES ASSUME NEW t \in Tokens
               PROVE  token'[t] \in TokenRow \cup {None} /\ (token[t] # None => token'[t] # None)
    BY <1>2
  <2>1. CASE t \in ValidTokens(kind, u)
    <3>1. token[t] # None /\ token'[t] = [token[t] EXCEPT !.state = "consumed"]
      BY <1>2, <2>1 DEF ValidTokens
    <3>2. token'[t] \in TokenRow
      BY <3>1, TokenMarked
    <3> QED
      BY <3>2, AccountAssumption
  <2>2. CASE t \notin ValidTokens(kind, u)
    BY <1>2, <2>2, RowTypes
  <2> QED
    BY <2>1, <2>2
<1>5. task \in SignInTask /\ task # None
  BY <1>3, AccountAssumption DEF SignInTask
<1>6. ~(task.password > 0)
  <2>1. task.password = 0
    BY <1>3
  <2> QED
    BY <2>1
<1> QED
  BY <1>2, <1>3, <1>4, <1>5, <1>6, RowTypes, SignInRest

\* A valid token is read, and may have been used when its request goes on.
LEMMA ReadTokenOK ==
  ASSUME SignInInv, UNCHANGED oidcVars, NEW h \in Handlers, NEW t \in Tokens, ReadToken(h, t)
  PROVE  SignInInv'
<1>1. PICK step, kind, u : /\ step = IF token[t].kind = "reset" THEN "set password" ELSE "set verified"
                           /\ kind = token[t].kind /\ u = token[t].user
  OBVIOUS
<1>2. PICK task : task = [AccountStep(step, kind, u) EXCEPT !.ref = t, !.password = 0]
  OBVIOUS
<1>3. work' = [work EXCEPT ![h] = task] /\ UNCHANGED accountVars /\ token[t] # None
  BY <1>1, <1>2 DEF ReadToken, Begin
<1>4. step \in {"set password", "set verified"} /\ kind \in {"reset", "email"} /\ u \in Owners
  BY <1>1, <1>3, RowTypes DEF TokenRow
<1>5. /\ task \in AccountTask /\ task.step \in {"set password", "set verified"}
      /\ task.ref = t /\ task.password = 0
  <2>1. task = [step |-> step, kind |-> kind, user |-> u, password |-> 0,
                ref |-> t]
    BY <1>2 DEF AccountStep
  <2>2. 0 \in 0..MaxPasswords
    BY AccountAssumption
  <2> QED
    BY <1>4, <2>1, <2>2 DEF AccountTask
<1>6. ~(task.password > 0)
  <2>1. task.password = 0
    BY <1>5
  <2> QED
    BY <2>1
<1> QED
  BY <1>3, <1>5, <1>6, SignInMoves DEF SignInTask

\* A verified address opens no session.
LEMMA SetVerifiedOK ==
  ASSUME SignInInv, UNCHANGED oidcVars, NEW h \in Handlers, SetVerified(h)
  PROVE  SignInInv'
<1>1. PICK t : t = work[h].ref
  OBVIOUS
<1>2. /\ At(h, "set verified") /\ work[h] # None /\ work[h].step = "set verified"
      /\ token' = [token EXCEPT ![t].state = "consumed"]
      /\ verified' = verified \cup {work[h].user} /\ work' = [work EXCEPT ![h] = None]
      /\ UNCHANGED <<password, session, identity, racedDisconnect, authState>>
  BY <1>1 DEF SetVerified, At, Finish, Continue, oidcVars
<1>3. t \in Tokens /\ token[t] # None
  BY <1>1, <1>2 DEF SignInInv, SignInsKnow
<1>4. /\ token' \in [Tokens -> TokenRow \cup {None}]
      /\ \A k \in Tokens : token[k] # None => token'[k] # None
  BY <1>2, <1>3, TokenSet
<1>5. verified' \subseteq Owners
  BY <1>2, RowTypes, SignInKnows
<1> QED
  BY <1>2, <1>4, <1>5, RowTypes, SignInRest

\* A session is what its task has checked.
LEMMA CreateSessionOK ==
  ASSUME SignInInv, UNCHANGED oidcVars, NEW h \in Handlers, CreateSession(h)
  PROVE  SignInInv'
<1>1. PICK n, new : /\ n = CHOOSE s \in FreeSessions : TRUE
                    /\ new = [user |-> work[h].user, password |-> work[h].password,
                              revoked |-> FALSE]
  OBVIOUS
<1>2. /\ At(h, "create session") /\ work[h] # None /\ work[h].step = "create session"
      /\ FreeSessions # {}
      /\ session' = [session EXCEPT ![n] = new] /\ work' = [work EXCEPT ![h] = None]
      /\ UNCHANGED <<password, verified, token, identity, racedDisconnect, authState>>
  BY <1>1 DEF CreateSession, At, Finish, Continue, oidcVars
<1>3. n \in Sessions
  BY <1>1, <1>2 DEF FreeSessions
<1>4. /\ work[h] \in AccountTask /\ work[h].user \in Owners
      /\ work[h].password \in 0..MaxPasswords
  <2>1. work[h] \in AccountTask
    BY <1>2, SignInKnows
  <2> QED
    BY <2>1 DEF AccountTask
<1>5. work[h].password > 0
  BY <1>2 DEF SignInInv, SignInsKnow
<1>6. work[h].password \in 1..MaxPasswords
  BY <1>4, <1>5, AccountAssumption
<1>7. new \in Session /\ new # None /\ new.password = work[h].password /\ new.user = work[h].user
  <2>1. new \in Session /\ new.password = work[h].password /\ new.user = work[h].user
    BY <1>1, <1>4, <1>6 DEF Session
  <2> QED
    BY <2>1, AccountAssumption
<1>8. ~OpenSession(n)
  BY <1>1, <1>2 DEF FreeSessions, OpenSession
<1>9. /\ session' \in [Sessions -> Session \cup {None}] /\ session'[n] = new
      /\ \A s \in Sessions \ {n} : session'[s] = session[s]
  BY <1>2, <1>3, <1>7, RowTypes
<1>10. /\ WorkIn(SignInTask)' /\ work'[h] = None
       /\ \A o \in Handlers \ {h} : work'[o] = work[o]
  BY <1>2, SignInTaskSet DEF SignInInv
<1>11. SignInTypes'
  BY <1>2, <1>9, <1>10 DEF SignInInv, SignInTypes, AccountTypeOK, OidcTypeOK
<1>12. SignInsKnow'
  BY <1>2, <1>10 DEF SignInInv, SignInsKnow, At
<1>13. FewOutdated'
  <2> SUFFICES ASSUME NEW u \in Owners PROVE FewFor(u)'
    BY DEF FewOutdated
  <2>1. StaleRequests(u)' = StaleRequests(u) \ {h}
    BY <1>2, <1>10 DEF StaleRequests
  <2>2. Outdated(u)' = IF work[h].user = u /\ work[h].password # password[u]
                       THEN Outdated(u) \cup {n} ELSE Outdated(u)
    <3>1. \A s \in Sessions \ {n} : s \in Outdated(u)' <=> s \in Outdated(u)
      BY <1>2, <1>9 DEF Outdated, OpenSession
    <3>2. n \in Outdated(u)' <=> work[h].user = u /\ work[h].password # password[u]
      BY <1>1, <1>2, <1>3, <1>7, <1>9 DEF Outdated, OpenSession
    <3>3. n \notin Outdated(u) /\ Outdated(u) \subseteq Sessions /\ Outdated(u)' \subseteq Sessions
      BY <1>8 DEF Outdated
    <3> QED
      BY <1>3, <3>1, <3>2, <3>3
  <2>3. CASE work[h].user = u /\ work[h].password # password[u]
    <3>1. h \in StaleRequests(u)
      BY <1>2, <1>5, <2>3 DEF StaleRequests
    <3>2. FewFor(u)
      BY DEF SignInInv, FewOutdated
    <3>3. /\ Cardinality(StaleRequests(u)') = Cardinality(StaleRequests(u)) - 1
          /\ Cardinality(StaleRequests(u)) \in Nat
      BY <2>1, <3>1, StaleFinite, FS_RemoveElement
    <3>4. n \notin Outdated(u)
      BY <1>8 DEF Outdated
    <3>5. /\ IsFiniteSet(Outdated(u)') /\ Cardinality(Outdated(u)') = Cardinality(Outdated(u)) + 1
          /\ Cardinality(Outdated(u)) \in Nat
      BY <2>2, <2>3, <3>2, <3>4, FS_AddElement, FS_CardinalityType DEF FewFor
    <3> QED
      BY <3>2, <3>3, <3>5, SomeHandlers DEF FewFor
  <2>4. CASE ~(work[h].user = u /\ work[h].password # password[u])
    BY <2>1, <2>2, <2>4, FewForLess
  <2> QED
    BY <2>3, <2>4
<1>14. OneDisconnects'
  BY <1>2, <1>10, DisconnectsRest DEF At
<1>15. KeepsAnIdentity'
  BY <1>2 DEF SignInInv, KeepsAnIdentity, IdentitiesOf
<1> QED
  BY <1>11, <1>12, <1>13, <1>14, <1>15 DEF SignInInv

\* A reset closes the sessions that are open; those that are about to open are not its own.
LEMMA SetPasswordOK ==
  ASSUME SignInInv, UNCHANGED oidcVars, NEW h \in Handlers, SetPassword(h)
  PROVE  SignInInv'
<1>1. PICK u, t : u = work[h].user /\ t = work[h].ref
  OBVIOUS
<1>2. /\ At(h, "set password") /\ work[h] # None /\ work[h].step = "set password"
      /\ password[u] < MaxPasswords
      /\ token' = [token EXCEPT ![t].state = "consumed"]
      /\ password' = [password EXCEPT ![u] = @ + 1]
      /\ session' = [s \in Sessions |-> IF OpenSession(s) /\ session[s].user = u
                                        THEN [session[s] EXCEPT !.revoked = TRUE] ELSE session[s]]
      /\ work' = [work EXCEPT ![h] = None]
      /\ UNCHANGED <<verified, identity, racedDisconnect, authState>>
  BY <1>1 DEF SetPassword, At, Finish, Continue, oidcVars
<1>3. u \in Owners /\ t \in Tokens /\ token[t] # None
  BY <1>1, <1>2, SignInKnows DEF SignInInv, SignInsKnow
<1>4. /\ token' \in [Tokens -> TokenRow \cup {None}]
      /\ \A k \in Tokens : token[k] # None => token'[k] # None
  BY <1>2, <1>3, TokenSet
<1>5. /\ password' \in [Owners -> 0..MaxPasswords]
      /\ \A v \in Owners \ {u} : password'[v] = password[v]
  <2>1. password[u] + 1 \in 0..MaxPasswords
    <3>1. PICK n : n = password[u]
      OBVIOUS
    <3>2. n \in 0..MaxPasswords /\ n < MaxPasswords
      BY <1>2, <1>3, <3>1, PasswordNumbers
    <3>3. n + 1 \in 0..MaxPasswords
      BY <3>2, AccountAssumption
    <3> QED
      BY <3>1, <3>3
  <2> QED
    BY <1>2, <1>3, <2>1, RowTypes
<1>6. \A s \in Sessions :
        /\ session'[s] \in Session \cup {None}
        /\ OpenSession(s)' => OpenSession(s) /\ session'[s] = session[s] /\ session[s].user # u
  <2> SUFFICES ASSUME NEW s \in Sessions
               PROVE  /\ session'[s] \in Session \cup {None}
                      /\ OpenSession(s)' =>
                           OpenSession(s) /\ session'[s] = session[s] /\ session[s].user # u
    OBVIOUS
  <2>1. CASE OpenSession(s) /\ session[s].user = u
    <3>1. session[s] \in Session /\ session'[s] = [session[s] EXCEPT !.revoked = TRUE]
      BY <1>2, <2>1, RowTypes DEF OpenSession
    <3>2. session'[s] \in Session /\ session'[s].revoked
      BY <3>1 DEF Session
    <3> QED
      BY <3>2 DEF OpenSession
  <2>2. CASE ~(OpenSession(s) /\ session[s].user = u)
    BY <1>2, <2>2, RowTypes DEF OpenSession
  <2> QED
    BY <2>1, <2>2
<1>7. /\ WorkIn(SignInTask)' /\ work'[h] = None
      /\ \A o \in Handlers \ {h} : work'[o] = work[o]
  BY <1>2, SignInTaskSet DEF SignInInv
<1>8. SignInTypes'
  <2>1. session' \in [Sessions -> Session \cup {None}]
    BY <1>2, <1>6
  <2> QED
    BY <1>2, <1>4, <1>5, <1>7, <2>1 DEF SignInInv, SignInTypes, AccountTypeOK, OidcTypeOK
<1>9. SignInsKnow'
  <2>1. \A x \in Subjects : identity[x] # None => identity'[x] # None /\ identity'[x].user = identity[x].user
    BY <1>2
  <2> QED
    BY <1>2, <1>4, <1>7, <2>1, SignInsKept
<1>10. FewOutdated'
  <2> SUFFICES ASSUME NEW v \in Owners PROVE FewFor(v)'
    BY DEF FewOutdated
  <2>1. CASE v = u
    <3>1. Outdated(v)' = {}
      BY <1>6, <2>1 DEF Outdated
    <3>2. StaleRequests(v)' \subseteq Handlers \ {h}
      BY <1>7 DEF StaleRequests
    <3>3. /\ IsFiniteSet(Handlers \ {h})
          /\ Cardinality(Handlers \ {h}) = Cardinality(Handlers) - 1
      BY AccountAssumption, FS_RemoveElement
    <3>4. Cardinality(StaleRequests(v)') <= Cardinality(Handlers) - 1
      BY <3>2, <3>3, FS_Subset
    <3> QED
      BY <3>1, <3>4, StaleFinite, SomeHandlers, FS_EmptySet DEF FewFor
  <2>2. CASE v # u
    <3>1. Outdated(v)' \subseteq Outdated(v)
      BY <1>5, <1>6, <2>2 DEF Outdated
    <3>2. StaleRequests(v)' \subseteq StaleRequests(v)
      BY <1>5, <1>7, <2>2 DEF StaleRequests
    <3> QED
      BY <3>1, <3>2, FewForLess
  <2> QED
    BY <2>1, <2>2
<1>11. OneDisconnects'
  BY <1>2, <1>7, DisconnectsRest DEF At
<1>12. KeepsAnIdentity'
  BY <1>2 DEF SignInInv, KeepsAnIdentity, IdentitiesOf
<1> QED
  BY <1>8, <1>9, <1>10, <1>11, <1>12 DEF SignInInv

\* The provider's callback reads its state.
LEMMA CallbackOK ==
  ASSUME SignInInv, NEW h \in Handlers, NEW a \in States, Callback(h, a)
  PROVE  SignInInv'
<1>1. PICK task : task = OidcStep("consume state", authState[a].user, a)
  OBVIOUS
<1>2. work' = [work EXCEPT ![h] = task] /\ UNCHANGED <<accountVars, oidcVars>> /\ authState[a] # None
  BY <1>1 DEF Callback, Begin
<1>3. authState[a].user \in Owners \cup {None}
  BY <1>2, RowTypes DEF AuthState
<1>4. task \in OidcTask /\ task.step = "consume state" /\ task.ref = a
  BY <1>1, <1>3 DEF OidcStep, OidcTask
<1>5. ~(task.password > 0)
  <2>1. task.password = 0
    BY <1>1 DEF OidcStep
  <2> QED
    BY <2>1
<1> QED
  BY <1>2, <1>4, <1>5, SignInMoves DEF SignInTask

\* The state is consumed once.
LEMMA ConsumeStateOK ==
  ASSUME SignInInv, NEW h \in Handlers, ConsumeState(h)
  PROVE  SignInInv'
<1>1. PICK a, task : a = work[h].ref /\ task = [work[h] EXCEPT !.step = "link identity"]
  OBVIOUS
<1>2. /\ At(h, "consume state") /\ work[h] # None /\ work[h].step = "consume state"
      /\ authState' = [authState EXCEPT ![a].state = "consumed"]
      /\ work' = [work EXCEPT ![h] = task]
      /\ UNCHANGED <<password, verified, session, token, identity, racedDisconnect>>
  BY <1>1 DEF ConsumeState, At, Continue, accountVars
<1>3. a \in States /\ authState[a] # None
  BY <1>1, <1>2 DEF SignInInv, SignInsKnow
<1>4. /\ authState' \in [States -> AuthState \cup {None}]
      /\ \A b \in States : authState[b] # None => authState'[b] # None
  <2>1. PICK new : new = [authState[a] EXCEPT !.state = "consumed"]
    OBVIOUS
  <2>2. new \in AuthState
    BY <1>3, <2>1, RowTypes DEF AuthState
  <2>3. new # None /\ authState' = [authState EXCEPT ![a] = new]
    BY <1>2, <2>1, <2>2, OidcAssumption
  <2> QED
    BY <2>2, <2>3, RowTypes
<1>5. work[h] \in OidcTask
  BY <1>2, SignInKnows
<1>6. task \in OidcTask /\ task.step = "link identity" /\ task.password = 0
  BY <1>1, <1>5 DEF OidcTask
<1>7. ~(task.password > 0)
  <2>1. task.password = 0
    BY <1>6
  <2> QED
    BY <2>1
<1> QED
  BY <1>2, <1>4, <1>6, <1>7, RowTypes, SignInRest DEF SignInTask

\* An identity that is refused changes nothing.
LEMMA RefuseIdentityOK ==
  ASSUME SignInInv, NEW h \in Handlers, NEW x \in Subjects, RefuseIdentity(h, x)
  PROVE  SignInInv'
BY SignInMoves DEF RefuseIdentity, Finish, Continue

\* An identity is connected, to the account it had or to one it is new to.
LEMMA LinkIdentityOK ==
  ASSUME SignInInv, NEW h \in Handlers, NEW x \in Subjects, NEW e \in Owners, LinkIdentity(h, x, e)
  PROVE  SignInInv'
<1>1. PICK u : u = CASE identity[x] # None                         -> identity[x].user
                     [] identity[x] = None /\ work[h].user # None  -> work[h].user
                     [] OTHER                                      -> e
  OBVIOUS
<1>2. PICK new, n, task : /\ new = [user |-> u, connected |-> TRUE]
                          /\ n = IF Exists(u) THEN password[u] ELSE 1
                          /\ task = [AccountStep("create session", "session", u) EXCEPT !.password = n]
  OBVIOUS
<1>3. /\ At(h, "link identity") /\ work[h] # None /\ work[h].step = "link identity"
      /\ identity' = [identity EXCEPT ![x] = new]
      /\ password' = [password EXCEPT ![u] = n]
      /\ verified' = IF Exists(u) THEN verified ELSE verified \cup {u}
      /\ work' = [work EXCEPT ![h] = [AccountStep("create session", "session", u) EXCEPT
                                        !.password = password'[u]]]
      /\ racedDisconnect' = IF \E o \in OthersAt(h, "disconnect") : work[o].user = u
                            THEN racedDisconnect ELSE racedDisconnect \ {u}
      /\ UNCHANGED <<session, token, authState>>
  BY <1>1, <1>2 DEF LinkIdentity, At, Continue
<1>4. u \in Owners
  <2>1. work[h].user \in Owners \cup {None}
    BY <1>3, SignInKnows
  <2>2. identity[x] # None => identity[x].user \in Owners
    BY RowTypes DEF Identity
  <2> QED
    BY <1>1, <2>1, <2>2
<1>5. /\ n \in 0..MaxPasswords /\ n > 0
      /\ password[u] = 0 \/ n = password[u]
  <2>1. password[u] \in 0..MaxPasswords /\ 1 \in 0..MaxPasswords
    BY <1>4, PasswordNumbers, AccountAssumption
  <2>2. CASE Exists(u)
    BY <1>2, <2>1, <2>2 DEF Exists
  <2>3. CASE ~Exists(u)
    <3>1. password[u] = 0
      BY <2>1, <2>3, AccountAssumption DEF Exists
    <3>2. n = 1
      BY <1>2, <2>3
    <3> QED
      BY <2>1, <3>1, <3>2
  <2> QED
    BY <2>2, <2>3
<1>6. /\ password' \in [Owners -> 0..MaxPasswords] /\ password'[u] = n
      /\ \A v \in Owners \ {u} : password'[v] = password[v]
  BY <1>3, <1>4, <1>5, RowTypes
<1>7. work' = [work EXCEPT ![h] = task]
  BY <1>2, <1>3, <1>6
<1>8. /\ task \in AccountTask /\ task.step = "create session"
      /\ task.password = n /\ task.user = u
  <2>1. task = [step |-> "create session", kind |-> "session", user |-> u, password |-> n,
                ref |-> None]
    BY <1>2 DEF AccountStep
  <2> QED
    BY <1>4, <1>5, <2>1 DEF AccountTask
<1>9. /\ WorkIn(SignInTask)' /\ work'[h] = task
      /\ \A o \in Handlers \ {h} : work'[o] = work[o]
  BY <1>7, <1>8, SignInTaskSet DEF SignInInv, SignInTask
<1>10. new \in Identity /\ new # None /\ new.user = u /\ new.connected
  <2>1. new \in Identity /\ new.user = u /\ new.connected
    BY <1>2, <1>4 DEF Identity
  <2> QED
    BY <2>1, OidcAssumption
<1>11. /\ identity' \in [Subjects -> Identity \cup {None}] /\ identity'[x] = new
       /\ \A y \in Subjects \ {x} : identity'[y] = identity[y]
       /\ identity[x] # None => identity[x].user = u
  BY <1>1, <1>3, <1>10, RowTypes
<1>12. SignInTypes'
  <2>1. verified' \subseteq Owners /\ racedDisconnect' \subseteq Owners
    BY <1>3, <1>4, RowTypes
  <2> QED
    BY <1>3, <1>6, <1>9, <1>11, <2>1 DEF SignInInv, SignInTypes, AccountTypeOK, OidcTypeOK
<1>13. SignInsKnow'
  <2>1. \A y \in Subjects : identity[y] # None => identity'[y] # None /\ identity'[y].user = identity[y].user
    BY <1>10, <1>11
  <2> QED
    BY <1>3, <1>5, <1>8, <1>9, <2>1, SignInsKept
<1>14. FewOutdated'
  <2>1. \A v \in Owners : password[v] = 0 \/ password'[v] = password[v]
    BY <1>5, <1>6
  <2>2. work'[h].password = password'[work'[h].user]
    BY <1>6, <1>8, <1>9
  <2> QED
    BY <1>3, <1>9, <2>1, <2>2, FewOutdatedKept DEF OpenSession
<1>15. OneDisconnects'
  <2>1. \A y \in Subjects : identity[y] # None =>
           /\ identity'[y] # None /\ identity'[y].user = identity[y].user
           /\ identity[y].connected => identity'[y].connected
    BY <1>10, <1>11
  <2>2. ~At(h, "disconnect")'
    BY <1>8, <1>9 DEF At
  <2>3. \A o \in Handlers \ {h} :
          At(o, "disconnect") /\ work[o].user \in racedDisconnect => work[o].user \in racedDisconnect'
    BY <1>3 DEF OthersAt
  <2> QED
    BY <1>3, <1>9, <2>1, <2>2, <2>3, DisconnectsRest
<1>16. KeepsAnIdentity'
  <2> SUFFICES ASSUME NEW v \in Owners \ racedDisconnect', IdentitiesOf(v)' # {}
               PROVE  \E y \in IdentitiesOf(v)' : identity'[y].connected
    BY DEF KeepsAnIdentity
  <2>1. CASE v = u
    <3>1. x \in IdentitiesOf(v)'
      BY <1>10, <1>11, <2>1 DEF IdentitiesOf
    <3> QED
      BY <1>10, <1>11, <3>1
  <2>2. CASE v # u
    <3>1. IdentitiesOf(v)' = IdentitiesOf(v) /\ x \notin IdentitiesOf(v)
      BY <1>10, <1>11, <2>2 DEF IdentitiesOf
    <3>2. PICK y \in IdentitiesOf(v) : identity[y].connected
      BY <1>3, <2>2, <3>1 DEF SignInInv, KeepsAnIdentity
    <3>3. y \in Subjects \ {x}
      BY <3>1, <3>2 DEF IdentitiesOf
    <3> QED
      BY <1>11, <3>1, <3>2, <3>3
  <2> QED
    BY <2>1, <2>2
<1> QED
  BY <1>12, <1>13, <1>14, <1>15, <1>16 DEF SignInInv

\* Where several identities are connected, one besides any that is given up stays.
LEMMA AnotherStays ==
  ASSUME NEW x \in Subjects, AnotherConnected(x), identity[x] # None, identity[x].connected
  PROVE  \E y \in IdentitiesOf(identity[x].user) : y # x /\ identity[y].connected
<1> PICK S : S = {y \in IdentitiesOf(identity[x].user) : identity[y].connected}
  OBVIOUS
<1>1. Cardinality(S) > 1 /\ x \in S
  BY DEF AnotherConnected, IdentitiesOf
<1>2. S # {x}
  BY <1>1, FS_Singleton
<1> QED
  BY <1>1, <1>2

\* A disconnection begins while another identity is connected, and marks who else disconnects.
LEMMA RequestDisconnectOK ==
  ASSUME SignInInv, NEW h \in Handlers, NEW x \in Subjects, RequestDisconnect(h, x)
  PROVE  SignInInv'
<1>1. PICK u, task : u = identity[x].user /\ task = OidcStep("disconnect", u, x)
  OBVIOUS
<1>2. /\ identity[x] # None /\ identity[x].connected /\ AnotherConnected(x)
      /\ work' = [work EXCEPT ![h] = task] /\ work[h] = None
      /\ racedDisconnect' = IF \E o \in OthersAt(h, "disconnect") : work[o].user = u
                            THEN racedDisconnect \cup {u} ELSE racedDisconnect
      /\ UNCHANGED <<password, verified, session, token, authState, identity>>
  BY <1>1 DEF RequestDisconnect, Begin, accountVars
<1>3. u \in Owners
  BY <1>1, <1>2, RowTypes DEF Identity
<1>4. /\ task \in OidcTask /\ task.step = "disconnect" /\ task.ref = x /\ task.user = u
  BY <1>1, <1>3 DEF OidcStep, OidcTask
<1>5. ~(task.password > 0)
  <2>1. task.password = 0
    BY <1>1 DEF OidcStep
  <2> QED
    BY <2>1
<1>6. /\ WorkIn(SignInTask)' /\ work'[h] = task
      /\ \A o \in Handlers \ {h} : work'[o] = work[o]
  BY <1>2, <1>4, SignInTaskSet DEF SignInInv, SignInTask
<1>7. racedDisconnect \subseteq racedDisconnect' /\ racedDisconnect' \subseteq Owners
  BY <1>2, <1>3, RowTypes
<1>8. SignInTypes'
  BY <1>2, <1>6, <1>7 DEF SignInInv, SignInTypes, AccountTypeOK, OidcTypeOK
<1>9. SignInsKnow'
  <2>1. /\ \A y \in Subjects : identity[y] # None =>
             identity'[y] # None /\ identity'[y].user = identity[y].user
        /\ \A t \in Tokens : token[t] # None => token'[t] # None
        /\ \A a \in States : authState[a] # None => authState'[a] # None
    BY <1>2
  <2>2. work'[h] # None =>
          /\ work'[h].step = "disconnect"
          /\ work'[h].ref \in Subjects /\ identity[work'[h].ref] # None
          /\ identity[work'[h].ref].user = work'[h].user
    BY <1>1, <1>2, <1>4, <1>6
  <2> QED
    BY <1>6, <2>1, <2>2, SignInsKept
<1>10. FewOutdated'
  BY <1>2, <1>5, <1>6, FewOutdatedKept
<1>11. OneDisconnects'
  <2> SUFFICES ASSUME NEW o \in Handlers, At(o, "disconnect")', work'[o].user \notin racedDisconnect',
                      NEW v, v = work'[o].user
               PROVE  /\ \A p \in Handlers : At(p, "disconnect")' /\ work'[p].user = v => p = o
                      /\ \E y \in IdentitiesOf(v) : y # work'[o].ref /\ identity[y].connected
    BY <1>2 DEF OneDisconnects, IdentitiesOf
  <2>1. \A p \in Handlers \ {h} : (At(p, "disconnect")' <=> At(p, "disconnect")) /\ work'[p] = work[p]
    BY <1>6 DEF At
  <2>2. CASE v = u
    <3>1. \A p \in Handlers \ {h} : ~(At(p, "disconnect") /\ work[p].user = u)
      BY <1>2, <2>2 DEF OthersAt
    <3>2. o = h
      BY <2>1, <2>2, <3>1
    <3>3. \A p \in Handlers : At(p, "disconnect")' /\ work'[p].user = v => p = o
      BY <2>1, <2>2, <3>1, <3>2
    <3> QED
      BY <1>1, <1>2, <1>4, <1>6, <2>2, <3>2, <3>3, AnotherStays
  <2>3. CASE v # u
    <3>1. o # h
      BY <1>4, <1>6, <2>3
    <3>2. At(o, "disconnect") /\ work[o].user = v /\ work'[o] = work[o] /\ v \notin racedDisconnect
      BY <1>7, <2>1, <3>1
    <3>3. /\ \A p \in Handlers : At(p, "disconnect") /\ work[p].user = v => p = o
          /\ \E y \in IdentitiesOf(v) : y # work[o].ref /\ identity[y].connected
      BY <3>2 DEF SignInInv, OneDisconnects
    <3>4. \A p \in Handlers : At(p, "disconnect")' /\ work'[p].user = v => p = o
      BY <1>4, <1>6, <2>1, <2>3, <3>3
    <3> QED
      BY <3>2, <3>3, <3>4
  <2> QED
    BY <2>2, <2>3
<1>12. KeepsAnIdentity'
  BY <1>2, <1>7 DEF SignInInv, KeepsAnIdentity, IdentitiesOf
<1> QED
  BY <1>8, <1>9, <1>10, <1>11, <1>12 DEF SignInInv

\* An identity is given up, and another one of its account stays.
LEMMA DisconnectOK ==
  ASSUME SignInInv, NEW h \in Handlers, Disconnect(h)
  PROVE  SignInInv'
<1>1. PICK x, u, new : /\ x = work[h].ref /\ u = work[h].user
                       /\ new = [identity[x] EXCEPT !.connected = FALSE]
  OBVIOUS
<1>2. /\ At(h, "disconnect") /\ work[h] # None /\ work' = [work EXCEPT ![h] = None]
      /\ identity' = [identity EXCEPT ![x] = new]
      /\ UNCHANGED <<password, verified, session, token, authState, racedDisconnect>>
  BY <1>1 DEF Disconnect, At, Finish, Continue, accountVars
<1>3. x \in Subjects /\ identity[x] # None /\ identity[x].user = u
  BY <1>1, <1>2 DEF SignInInv, SignInsKnow
<1>4. new \in Identity /\ new # None /\ new.user = u
  <2>1. new \in Identity /\ new.user = u
    BY <1>1, <1>3, RowTypes DEF Identity
  <2> QED
    BY <2>1, OidcAssumption
<1>5. /\ identity' \in [Subjects -> Identity \cup {None}] /\ identity'[x] = new
      /\ \A y \in Subjects \ {x} : identity'[y] = identity[y]
  BY <1>2, <1>3, <1>4, RowTypes
<1>6. /\ WorkIn(SignInTask)' /\ work'[h] = None
      /\ \A o \in Handlers \ {h} : work'[o] = work[o]
  BY <1>2, SignInTaskSet DEF SignInInv
<1>7. SignInTypes'
  BY <1>2, <1>5, <1>6 DEF SignInInv, SignInTypes, AccountTypeOK, OidcTypeOK
<1>8. \A v : IdentitiesOf(v)' = IdentitiesOf(v)
  BY <1>3, <1>4, <1>5 DEF IdentitiesOf
<1>9. SignInsKnow'
  <2>1. \A y \in Subjects : identity[y] # None => identity'[y] # None /\ identity'[y].user = identity[y].user
    BY <1>3, <1>4, <1>5
  <2> QED
    BY <1>2, <1>6, <2>1, SignInsKept
<1>10. FewOutdated'
  BY <1>2, <1>6, FewOutdatedKept
<1>11. OneDisconnects'
  <2> SUFFICES ASSUME NEW o \in Handlers, At(o, "disconnect")', work'[o].user \notin racedDisconnect,
                      NEW v, v = work[o].user
               PROVE  /\ \A p \in Handlers : At(p, "disconnect")' /\ work'[p].user = v => p = o
                      /\ \E y \in IdentitiesOf(v)' : y # work'[o].ref /\ identity'[y].connected
    BY <1>2, <1>6 DEF OneDisconnects, At
  <2>1. \A p \in Handlers : At(p, "disconnect")' => p # h /\ At(p, "disconnect") /\ work'[p] = work[p]
    BY <1>6 DEF At
  <2>2. /\ \A p \in Handlers : At(p, "disconnect") /\ work[p].user = v => p = o
        /\ \E y \in IdentitiesOf(v) : y # work[o].ref /\ identity[y].connected
    BY <2>1 DEF SignInInv, OneDisconnects
  <2>3. v # u
    BY <1>1, <1>2, <2>1, <2>2
  <2>4. \A y \in IdentitiesOf(v) : y # x /\ y \in Subjects
    BY <1>3, <2>3 DEF IdentitiesOf
  <2> QED
    BY <1>5, <1>8, <2>1, <2>2, <2>4
<1>12. KeepsAnIdentity'
  <2> SUFFICES ASSUME NEW v \in Owners \ racedDisconnect, IdentitiesOf(v)' # {}
               PROVE  \E y \in IdentitiesOf(v)' : identity'[y].connected
    BY <1>2 DEF KeepsAnIdentity
  <2>1. PICK y \in IdentitiesOf(v) : y # x /\ identity[y].connected
    <3>1. CASE v = u
      BY <1>1, <1>2, <3>1 DEF SignInInv, OneDisconnects
    <3>2. CASE v # u
      <4>1. \A y \in IdentitiesOf(v) : y # x
        BY <1>3, <3>2 DEF IdentitiesOf
      <4> QED
        BY <1>8, <4>1 DEF SignInInv, KeepsAnIdentity
    <3> QED
      BY <3>1, <3>2
  <2>2. y \in Subjects
    BY <2>1 DEF IdentitiesOf
  <2> QED
    BY <1>5, <1>8, <2>1, <2>2
<1> QED
  BY <1>7, <1>9, <1>10, <1>11, <1>12 DEF SignInInv

\* Every step of accounts and sign-in keeps the invariant.
LEMMA SignInStepOK == SignInInv /\ [SignInNext]_<<work, accountVars, oidcVars>> => SignInInv'
<1> SUFFICES ASSUME SignInInv, [SignInNext]_<<work, accountVars, oidcVars>> PROVE SignInInv'
  OBVIOUS
<1>1. CASE UNCHANGED <<work, accountVars, oidcVars>>
  <2>1. UNCHANGED <<work, password, verified, session, token, identity, racedDisconnect, authState>>
    BY <1>1 DEF accountVars, oidcVars
  <2> QED
    BY <2>1, RowTypes, SignInRows
<1>2. ASSUME NEW h \in Handlers, AccountHandler(h), UNCHANGED oidcVars
      PROVE  SignInInv'
  <2>1. ASSUME NEW s \in Sessions, SendVerification(h, s)
        PROVE  SignInInv'
    <3>1. session[s].user \in Owners
      BY <2>1, RowTypes DEF SendVerification, OpenSession, Session
    <3> QED
      BY <1>2, <2>1, <3>1, RequestTokenOK DEF SendVerification
  <2> QED
    BY <1>2, <2>1, BeginSessionOK, InsertAccountOK, InsertTokenOK, CreateSessionOK, RequestTokenOK,
       ReadTokenOK, SetPasswordOK, SetVerifiedOK, CutSignInOK DEF AccountHandler, RequestReset
<1>3. ASSUME NEW h \in Handlers, OidcHandler(h)
      PROVE  SignInInv'
  BY <1>3, CallbackOK, ConsumeStateOK, DisconnectOK, LinkIdentityOK, RefuseIdentityOK,
     RequestDisconnectOK, CreateSessionOK, CutSignInOK DEF OidcHandler
<1> QED
  BY <1>1, <1>2, <1>3, LogoutOK, TokenExpiresOK, StatesOK DEF SignInNext, AccountNext, OidcNext

\* Tokens, sessions, identities and what handlers hold of them have their types.
THEOREM SignInIsTyped == SignInSpec => [](AccountTypeOK /\ OidcTypeOK /\ WorkIn(SignInTask))
<1>1. SignInInv => AccountTypeOK /\ OidcTypeOK /\ WorkIn(SignInTask)
  BY DEF SignInInv, SignInTypes
<1> QED
  BY <1>1, SignInInitOK, SignInStepOK, PTL DEF SignInSpec

\* However registrations, sign-ins, resets, connections and disconnections of any number of
\* accounts interleave, the sessions that opened on a password from before the last reset
\* are fewer than the requests that run at once, and who has an identity keeps one that is
\* connected, unless two disconnections met and nobody has signed in with one since.
THEOREM AccountsStayTrue == SignInSpec => []AccountsTrue
<1>1. SignInInv => AccountsTrue
  <2> SUFFICES ASSUME SignInInv, NEW u \in Owners
               PROVE  Cardinality(Outdated(u)) < Cardinality(Handlers)
    BY DEF SignInInv, AccountsTrue, SessionsFollowPassword
  <2>1. FewFor(u)
    BY DEF SignInInv, FewOutdated
  <2>2. Cardinality(Outdated(u)) \in Nat
    BY <2>1, FS_CardinalityType DEF FewFor
  <2> QED
    BY <2>1, <2>2, StaleFinite, SomeHandlers DEF FewFor
<1> QED
  BY <1>1, SignInInitOK, SignInStepOK, PTL DEF SignInSpec

-----------------------------------------------------------------------------
(* Its administrators                                                       *)

\* every body a request may have, where a run gives a few
MemberSpec == NoWork /\ MemberInit /\ [][MemberNext(Edit)]_<<work, memberVars>>

Founded == \E w \in Workspaces : workspace[w] # "absent"

\* a change is of a member of an organization that exists, to a row of it
EditsKnown ==
  \A h \in Handlers : At(h, "set") => work[h].org \in OrgMember /\ Founded

\* a change that nothing was written after, and that takes access from an
\* administrator, leaves another one
EditsLeaveAdmin ==
  \A h \in Handlers :
    At(h, "set") /\ ~work[h].stale /\ ~staleEdit /\ ~StaysOrgAdmin(work[h].org) =>
      \E u \in OrgAdmins : u # work[h].user

\* an invitation that is sent gives a role, and one that is marked was sent
Sends == {"replace invitation", "insert invitation"}
Marks == {"join", "mark accepted", "revoke invitation"}
OfInvitation(h) == work[h] # None /\ work[h].step \in Sends \cup Marks
InvitationSound(t) ==
  \/ t.step \in Sends /\ t.role \in Roles
  \/ t.step \in Marks /\ t.invitation \in Invitations /\ invitation[t.invitation] # None
InvitationsKnown == \A h \in Handlers : OfInvitation(h) => InvitationSound(work[h])

MemberInv ==
  /\ MemberTypeOK /\ WorkIn(MemberTask)
  /\ InvitationsKnown
  /\ EditsKnown
  /\ EditsLeaveAdmin
  /\ OrgAdminKept

\* Initially there is no workspace, member or invitation.
LEMMA MemberInitOK == NoWork /\ MemberInit => MemberInv
<1> SUFFICES ASSUME NoWork, MemberInit PROVE MemberInv
  OBVIOUS
<1>1. /\ work = [h \in Handlers |-> None]
      /\ workspace = [w \in Workspaces |-> "absent"]
      /\ role = [w \in Workspaces |-> [u \in Users |-> None]]
      /\ orgMember = [u \in Users |-> None]
      /\ invitation = [i \in Invitations |-> None]
      /\ edits = 0 /\ staleEdit = FALSE
  BY DEF NoWork, MemberInit
<1>2. MemberTypeOK /\ WorkIn(MemberTask)
  <2>1. 0 \in 0..MaxEdits
    BY MemberAssumption
  <2> QED
    BY <1>1, <2>1 DEF MemberTypeOK, WorkIn
<1>3. EditsKnown /\ EditsLeaveAdmin /\ InvitationsKnown
  BY <1>1 DEF EditsKnown, EditsLeaveAdmin, At, InvitationsKnown, OfInvitation
<1>4. OrgAdminKept
  BY <1>1 DEF OrgAdminKept
<1> QED
  BY <1>2, <1>3, <1>4 DEF MemberInv

\* The rows of invitations stay.
LEMMA InvitationsStay ==
  ASSUME MemberInv, \A i \in Invitations : invitation[i] # None => invitation'[i] # None,
         \A h \in Handlers : OfInvitation(h)' =>
           (OfInvitation(h) /\ work'[h] = work[h]) \/ InvitationSound(work'[h])
  PROVE  InvitationsKnown'
<1> SUFFICES ASSUME NEW h \in Handlers, OfInvitation(h)'
             PROVE  InvitationSound(work[h])'
  BY DEF InvitationsKnown
<1>1. InvitationSound(work'[h])
  BY DEF MemberInv, InvitationsKnown
<1> QED
  BY <1>1 DEF InvitationSound

\* Nobody's row in the organization changes, and who holds a change held it before.
LEMMA MemberRest ==
  ASSUME MemberInv, MemberTypeOK', WorkIn(MemberTask)', UNCHANGED <<orgMember, staleEdit>>,
         Founded => Founded', Founded' => Founded \/ OrgAdmins # {}, InvitationsKnown',
         \A h \in Handlers : At(h, "set")' => At(h, "set") /\ work'[h] = work[h]
  PROVE  MemberInv'
<1>1. OrgAdmins' = OrgAdmins
  BY DEF OrgAdmins, ActiveOrgMember
<1>2. OrgAdminKept'
  BY <1>1 DEF MemberInv, OrgAdminKept, Founded
<1>3. EditsKnown'
  BY DEF MemberInv, EditsKnown
<1>4. EditsLeaveAdmin'
  <2> SUFFICES ASSUME NEW h \in Handlers, At(h, "set")', ~work'[h].stale, ~staleEdit,
                      ~StaysOrgAdmin(work'[h].org)
               PROVE  \E u \in OrgAdmins : u # work'[h].user
    BY <1>1 DEF EditsLeaveAdmin, StaysOrgAdmin
  <2>1. At(h, "set") /\ work'[h] = work[h]
    OBVIOUS
  <2> QED
    BY <2>1 DEF MemberInv, EditsLeaveAdmin
<1> QED
  BY <1>2, <1>3, <1>4 DEF MemberInv

\* A handler begins, goes on or ends, and holds no change after.
LEMMA MemberGoes ==
  ASSUME MemberInv, UNCHANGED <<workspace, orgMember, edits, staleEdit>>,
         role' \in [Workspaces -> [Users -> Roles \cup {None}]],
         invitation' \in [Invitations -> Invitation \cup {None}],
         \A i \in Invitations : invitation[i] # None => invitation'[i] # None,
         NEW h \in Handlers, NEW task \in MemberTask \cup {None},
         work' = [work EXCEPT ![h] = task], task # None => task.step # "set",
         task # None /\ task.step \in Sends \cup Marks => InvitationSound(task)
  PROVE  MemberInv'
<1>1. WorkIn(MemberTask)' /\ \A o \in Handlers : At(o, "set")' => At(o, "set") /\ work'[o] = work[o]
  BY DEF MemberInv, WorkIn, At
<1>2. MemberTypeOK'
  BY DEF MemberInv, MemberTypeOK
<1>3. Founded <=> Founded'
  BY DEF Founded
<1>4. InvitationsKnown'
  <2>1. \A o \in Handlers : work'[o] = IF o = h THEN task ELSE work[o]
    BY DEF MemberInv, WorkIn
  <2>2. ASSUME NEW o \in Handlers, OfInvitation(o)'
        PROVE  (OfInvitation(o) /\ work'[o] = work[o]) \/ InvitationSound(work'[o])
    <3>1. CASE o = h
      <4>1. work'[o] = task
        BY <2>1, <3>1
      <4> QED
        BY <2>2, <4>1 DEF OfInvitation
    <3>2. CASE o # h
      BY <2>1, <2>2, <3>2 DEF OfInvitation
    <3> QED
      BY <3>1, <3>2
  <2> QED
    BY <2>2, InvitationsStay
<1> QED
  BY <1>1, <1>2, <1>3, <1>4, MemberRest

\* The tasks of the member routes are well formed.
LEMMA TaskOfMember ==
  ASSUME NEW w \in Workspaces, NEW u \in Users, NEW step \in {"remove", "replace invitation",
           "insert invitation", "join", "mark accepted", "revoke invitation"},
         NEW r \in Roles \cup {None}, NEW i \in Invitations \cup {None},
         NEW task, task = [step |-> step, workspace |-> w, user |-> u, role |-> r, org |-> None,
                           selected |-> None, invitation |-> i, stale |-> FALSE]
  PROVE  task \in MemberTask
  BY DEF MemberTask

\* a row of a workspace is written or taken
LEMMA RoleSet ==
  ASSUME MemberInv, NEW w \in Workspaces, NEW u \in Users, NEW r \in Roles \cup {None}
  PROVE  SetRole(w, u, r) \in [Workspaces -> [Users -> Roles \cup {None}]]
  BY DEF SetRole, MemberInv, MemberTypeOK

\* An invitation that is marked stays an invitation.
LEMMA InvitationMarked ==
  ASSUME MemberInv, NEW i \in Invitations, invitation[i] # None,
         NEW state \in {"accepted", "revoked", "expired"},
         invitation' = [invitation EXCEPT ![i].state = state]
  PROVE  /\ invitation' \in [Invitations -> Invitation \cup {None}]
         /\ \A j \in Invitations : invitation[j] # None => invitation'[j] # None
<1>1. PICK row : row = [invitation[i] EXCEPT !.state = state]
  OBVIOUS
<1>2. invitation[i] \in Invitation
  BY DEF MemberInv, MemberTypeOK
<1>3. row \in Invitation
  BY <1>1, <1>2 DEF Invitation
<1>4. row # None
  BY <1>3, MemberAssumption
<1>5. invitation' = [invitation EXCEPT ![i] = row]
  BY <1>1
<1> QED
  BY <1>3, <1>4, <1>5 DEF MemberInv, MemberTypeOK

\* An administrator of the organization creates a workspace and gets a role in it; others are archived and restored.
LEMMA WorkspacesOK ==
  ASSUME MemberInv, NEW u \in Users, NEW w \in Workspaces, NEW from \in Workspaces,
         CreateWorkspace(u, from, w) \/ ArchiveWorkspace(u, from, w) \/ RestoreWorkspace(u, from, w)
  PROVE  MemberInv'
<1>1. UNCHANGED <<work, orgMember, invitation, edits, staleEdit>> /\ u \in OrgAdmins
  BY DEF CreateWorkspace, ArchiveWorkspace, RestoreWorkspace
<1>2. role' = role \/ role' = SetRole(w, u, "tenant_admin")
  BY DEF CreateWorkspace, ArchiveWorkspace, RestoreWorkspace
<1>3. role' \in [Workspaces -> [Users -> Roles \cup {None}]]
  BY <1>2, RoleSet DEF MemberInv, MemberTypeOK, Roles
<1>4. PICK s \in {"active", "archived"} : workspace' = [workspace EXCEPT ![w] = s]
  BY DEF CreateWorkspace, ArchiveWorkspace, RestoreWorkspace
<1>5. MemberTypeOK' /\ WorkIn(MemberTask)'
  BY <1>1, <1>3, <1>4 DEF MemberInv, MemberTypeOK, WorkIn
<1>6. Founded'
  BY <1>4 DEF Founded, MemberInv, MemberTypeOK
<1>7. InvitationsKnown'
  BY <1>1 DEF MemberInv, InvitationsKnown, OfInvitation, InvitationSound
<1> QED
  BY <1>1, <1>5, <1>6, <1>7, MemberRest DEF At

\* Nobody holds a change before the organization exists.
LEMMA CreateOrganizationOK ==
  ASSUME MemberInv, NEW u \in Users, NEW w \in Workspaces, CreateOrganization(u, w)
  PROVE  MemberInv'
<1>1. PICK org : org = [role |-> "organization_admin", mode |-> "selected"]
  OBVIOUS
<1>2. /\ workspace' = [workspace EXCEPT ![w] = "active"] /\ ~Founded
      /\ role' = SetRole(w, u, "tenant_admin")
      /\ orgMember' = [orgMember EXCEPT ![u] = org]
      /\ UNCHANGED <<work, invitation, edits, staleEdit>>
  BY <1>1 DEF CreateOrganization, Founded
<1>3. org \in OrgMember /\ org.role = "organization_admin" /\ org.mode # "none" /\ org # None
  BY <1>1, MemberAssumption DEF OrgMember, Modes
<1>4. MemberTypeOK'
  <2>1. role' \in [Workspaces -> [Users -> Roles \cup {None}]]
    BY <1>2, RoleSet DEF Roles
  <2> QED
    BY <1>2, <1>3, <2>1 DEF MemberInv, MemberTypeOK
<1>5. WorkIn(MemberTask)'
  BY <1>2 DEF MemberInv, WorkIn
<1>6. \A h \in Handlers : ~At(h, "set")'
  BY <1>2 DEF MemberInv, EditsKnown, At
<1>7. EditsKnown' /\ EditsLeaveAdmin'
  BY <1>6 DEF EditsKnown, EditsLeaveAdmin
<1>9. InvitationsKnown'
  BY <1>2 DEF MemberInv, InvitationsKnown, OfInvitation, InvitationSound
<1>8. u \in OrgAdmins'
  BY <1>2, <1>3 DEF OrgAdmins, ActiveOrgMember, MemberInv, MemberTypeOK
<1> QED
  BY <1>4, <1>5, <1>7, <1>8, <1>9 DEF MemberInv, OrgAdminKept

\* Counting the administrators is enough: there is another one.
LEMMA AnotherAdmin ==
  ASSUME NEW u \in OrgAdmins, Cardinality(OrgAdmins) > 1
  PROVE  \E v \in OrgAdmins : v # u
<1> PICK S : S = OrgAdmins
  OBVIOUS
<1>1. Cardinality(S) > 1 /\ u \in S
  OBVIOUS
<1>2. Cardinality({u}) = 1
  BY FS_Singleton
<1>3. S # {u}
  BY <1>1, <1>2
<1> QED
  BY <1>1, <1>3

\* The bodies of an edit write roles that exist.
LEMMA EditBodies ==
  ASSUME MemberInv, NEW t \in Users, NEW e \in Edit, NEW w \in Workspaces,
         NEW seen \in RolesSeen(w, t)
  PROVE  /\ NextOrg(e, t) \in OrgMember
         /\ NextRole(e, seen) \in Roles \cup {None}
         /\ e.selected \in (SUBSET Workspaces) \cup {None}
<1>1. /\ e.role \in Roles \cup {None} /\ e.mode \in Modes \cup {None}
      /\ e.orgRole \in {"organization_admin", "member", None}
      /\ e.selected \in ((SUBSET Workspaces) \ {{}}) \cup {None}
  BY DEF Edit
<1>2. NextOrg(e, t) \in OrgMember
  <2>1. PICK was : was = IF orgMember[t] = None THEN [role |-> "member", mode |-> "selected"]
                                               ELSE orgMember[t]
    OBVIOUS
  <2>2. was \in OrgMember
    BY <2>1 DEF MemberInv, MemberTypeOK, OrgMember, Modes
  <2>3. NextOrg(e, t) = [role |-> IF e.orgRole # None THEN e.orgRole ELSE was.role,
                         mode |-> IF e.mode # None THEN e.mode ELSE was.mode]
    BY <2>1 DEF NextOrg
  <2> QED
    BY <1>1, <2>2, <2>3 DEF OrgMember
<1>3. seen \in Roles \cup {None}
  <2>1. \A v \in Workspaces : role[v][t] \in Roles \cup {None}
    BY DEF MemberInv, MemberTypeOK
  <2>2. OtherRoles(w, t) \subseteq Roles
    BY <2>1 DEF OtherRoles
  <2>3. \/ seen = role[w][t] \/ seen \in OtherRoles(w, t)
        \/ seen = "tenant_admin" \/ seen = "producer"
    BY DEF RolesSeen
  <2> QED
    BY <2>1, <2>2, <2>3 DEF Roles
<1> QED
  BY <1>1, <1>2, <1>3 DEF NextRole

\* An edit has been allowed on the roles it has read.
LEMMA RequestEditOK ==
  ASSUME MemberInv, NEW h \in Handlers, NEW u \in Users, NEW w \in Workspaces,
         Administers(u, w), NEW t \in Users, NEW e \in Edit, RequestEdit(h, u, w, t, e)
  PROVE  MemberInv'
<1>1. PICK seen \in RolesSeen(w, t) :
        /\ EditAllowed(u, w, t, e, seen)
        /\ Begin(h, [Member("set", w, t) EXCEPT !.role = NextRole(e, seen),
                       !.org = NextOrg(e, t), !.selected = e.selected])
  BY DEF RequestEdit
<1>2. PICK org, r, task : /\ org = NextOrg(e, t) /\ r = NextRole(e, seen)
                          /\ task = [Member("set", w, t) EXCEPT !.role = r,
                                       !.org = org, !.selected = e.selected]
  OBVIOUS
<1>3. /\ org \in OrgMember /\ r \in Roles \cup {None}
      /\ e.selected \in (SUBSET Workspaces) \cup {None}
  BY <1>2, EditBodies
<1>4. task \in MemberTask /\ task.step = "set" /\ task.user = t /\ task.org = org
  <2>1. task = [step |-> "set", workspace |-> w, user |-> t, role |-> r, org |-> org,
                selected |-> e.selected, invitation |-> None, stale |-> FALSE]
    BY <1>2 DEF Member
  <2> QED
    BY <1>3, <2>1 DEF MemberTask
<1>5. work' = [work EXCEPT ![h] = task]
  BY <1>1, <1>2 DEF Begin
<1>6. UNCHANGED <<workspace, role, orgMember, invitation, edits, staleEdit>>
  BY DEF RequestEdit, memberVars
<1>7. /\ WorkIn(MemberTask)' /\ work'[h] = task
      /\ \A o \in Handlers \ {h} : work'[o] = work[o]
  BY <1>4, <1>5 DEF MemberInv, WorkIn
<1>8. Founded
  <2>1. Access(w, u) # None
    BY MemberAssumption DEF Administers, Roles
  <2> QED
    BY <2>1 DEF Access, Founded
<1>9. OrgAdmins' = OrgAdmins /\ (Founded' <=> Founded)
  BY <1>6 DEF OrgAdmins, ActiveOrgMember, Founded
<1>10. MemberTypeOK' /\ OrgAdminKept'
  BY <1>6, <1>9 DEF MemberInv, MemberTypeOK, OrgAdminKept, Founded
<1>11. EditsKnown'
  <2> SUFFICES ASSUME NEW o \in Handlers, At(o, "set")'
               PROVE  work'[o].org \in OrgMember
    BY <1>8, <1>9 DEF EditsKnown
  <2>1. CASE o = h
    BY <1>3, <1>4, <1>7, <2>1
  <2>2. CASE o # h
    <3>1. At(o, "set") /\ work'[o] = work[o]
      BY <1>7, <2>2 DEF At
    <3> QED
      BY <3>1 DEF MemberInv, EditsKnown
  <2> QED
    BY <2>1, <2>2
<1>12. EditsLeaveAdmin'
  <2> SUFFICES ASSUME NEW o \in Handlers, At(o, "set")', ~work'[o].stale, ~staleEdit,
                      ~StaysOrgAdmin(work'[o].org)
               PROVE  \E v \in OrgAdmins : v # work'[o].user
    BY <1>6, <1>9 DEF EditsLeaveAdmin, StaysOrgAdmin
  <2>1. CASE o = h
    <3>1. ~StaysOrgAdmin(org)
      BY <1>4, <1>7, <2>1 DEF StaysOrgAdmin
    <3>2. CASE t \in OrgAdmins
      <4>1. Cardinality(OrgAdmins) > 1
        BY <1>1, <1>2, <3>1, <3>2 DEF EditAllowed
      <4> QED
        BY <1>4, <1>7, <2>1, <3>2, <4>1, AnotherAdmin
    <3>3. CASE t \notin OrgAdmins
      BY <1>4, <1>7, <1>8, <2>1, <3>3 DEF MemberInv, OrgAdminKept, Founded
    <3> QED
      BY <3>2, <3>3
  <2>2. CASE o # h
    <3>1. At(o, "set") /\ work'[o] = work[o]
      BY <1>7, <2>2 DEF At
    <3> QED
      BY <3>1 DEF MemberInv, EditsLeaveAdmin
  <2> QED
    BY <2>1, <2>2
<1>13. InvitationsKnown'
  <2>1. \A o \in Handlers : OfInvitation(o)' => OfInvitation(o) /\ work'[o] = work[o]
    BY <1>4, <1>7 DEF OfInvitation, Sends, Marks
  <2> QED
    BY <1>6, <2>1, InvitationsStay
<1> QED
  BY <1>7, <1>10, <1>11, <1>12, <1>13 DEF MemberInv

\* What the others hold is stale once something is written.
LEMMA WriteMemberOK ==
  ASSUME MemberInv, NEW h \in Handlers, WriteMember(h), At(h, "set") \/ At(h, "remove")
  PROVE  /\ WorkIn(MemberTask)' /\ edits' \in 0..MaxEdits /\ staleEdit' \in BOOLEAN
         /\ \A o \in Handlers : At(o, "set")' =>
              At(o, "set") /\ work'[o].stale /\ work'[o].org = work[o].org
         /\ \A o \in Handlers : OfInvitation(o)' => OfInvitation(o) /\ work'[o] = work[o]
         /\ ~staleEdit' => ~staleEdit /\ ~work[h].stale
<1>1. /\ edits < MaxEdits /\ edits' = edits + 1
      /\ staleEdit' = (staleEdit \/ work[h].stale)
      /\ work' = [o \in Handlers |->
                    IF o = h THEN None
                    ELSE IF At(o, "set") \/ At(o, "remove") THEN [work[o] EXCEPT !.stale = TRUE]
                    ELSE work[o]]
  BY DEF WriteMember
<1>2. work[h] \in MemberTask
  BY DEF At, MemberInv, WorkIn
<1>3. work[h].stale \in BOOLEAN
  BY <1>2 DEF MemberTask
<1>4. edits' \in 0..MaxEdits /\ staleEdit' \in BOOLEAN
  BY <1>1, <1>3, MemberAssumption DEF MemberInv, MemberTypeOK
<1>5. ASSUME NEW o \in Handlers
      PROVE  /\ work'[o] \in MemberTask \cup {None}
             /\ At(o, "set")' => At(o, "set") /\ work'[o].stale /\ work'[o].org = work[o].org
             /\ OfInvitation(o)' => OfInvitation(o) /\ work'[o] = work[o]
  <2>1. CASE o = h
    BY <1>1, <2>1 DEF At, OfInvitation
  <2>2. CASE o # h /\ (At(o, "set") \/ At(o, "remove"))
    <3>1. PICK task : task = work[o]
      OBVIOUS
    <3>2. task \in MemberTask /\ (task.step = "set" <=> At(o, "set"))
      BY <2>2, <3>1 DEF At, MemberInv, WorkIn
    <3>3. work'[o] = [task EXCEPT !.stale = TRUE]
      BY <1>1, <2>2, <3>1
    <3>4. [task EXCEPT !.stale = TRUE] \in MemberTask
      BY <3>2 DEF MemberTask
    <3>5. /\ [task EXCEPT !.stale = TRUE].stale /\ [task EXCEPT !.stale = TRUE].org = task.org
          /\ [task EXCEPT !.stale = TRUE].step = task.step
      BY <3>2 DEF MemberTask
    <3>6. task.step \in {"set", "remove"}
      BY <2>2, <3>1 DEF At
    <3>7. ~OfInvitation(o)'
      BY <3>3, <3>5, <3>6 DEF OfInvitation, Sends, Marks
    <3> QED
      BY <3>1, <3>2, <3>3, <3>4, <3>5, <3>7 DEF At
  <2>3. CASE o # h /\ ~(At(o, "set") \/ At(o, "remove"))
    BY <1>1, <2>3 DEF At, MemberInv, WorkIn, OfInvitation
  <2> QED
    BY <2>1, <2>2, <2>3
<1>6. WorkIn(MemberTask)'
  BY <1>1, <1>5 DEF WorkIn
<1>7. ~staleEdit' => ~staleEdit /\ ~work[h].stale
  BY <1>1, <1>3 DEF MemberInv, MemberTypeOK
<1> QED
  BY <1>4, <1>5, <1>6, <1>7

\* Whoever loses access to the organization leaves another administrator, or
\* another member's change came first.
LEMMA ApplyEditOK ==
  ASSUME MemberInv, NEW h \in Handlers, ApplyEdit(h)
  PROVE  MemberInv'
<1>1. PICK t, org : t = work[h].user /\ org = work[h].org
  OBVIOUS
<1>2. /\ At(h, "set") /\ WriteMember(h)
      /\ orgMember' = [orgMember EXCEPT ![t] = org]
      /\ UNCHANGED <<workspace, invitation>>
  BY <1>1 DEF ApplyEdit
<1>3. t \in Users /\ work[h].role \in Roles \cup {None} /\ org \in OrgMember /\ Founded
  <2>1. work[h] \in MemberTask
    BY <1>2 DEF At, MemberInv, WorkIn
  <2> QED
    BY <1>1, <1>2, <2>1 DEF MemberTask, MemberInv, EditsKnown
<1>4. role' \in [Workspaces -> [Users -> Roles \cup {None}]]
  <2>1. PICK f : /\ role' = [w \in Workspaces |-> [role[w] EXCEPT ![t] = f[w]]]
                 /\ \A w \in Workspaces : f[w] \in {None, work[h].role, role[w][t]}
    <3>1. PICK f : f = [w \in Workspaces |->
            CASE org.mode = "none" -> None
              [] org.mode # "none" /\ work[h].selected # None ->
                   IF w \in work[h].selected THEN work[h].role ELSE None
              [] OTHER ->
                   IF w = work[h].workspace /\ role[w][t] # None THEN work[h].role
                   ELSE role[w][t]]
      OBVIOUS
    <3>2. role' = [w \in Workspaces |-> [role[w] EXCEPT ![t] = f[w]]]
      BY <1>1, <3>1 DEF ApplyEdit
    <3>3. \A w \in Workspaces : f[w] \in {None, work[h].role, role[w][t]}
      BY <3>1
    <3> QED
      BY <3>2, <3>3
  <2>2. \A w \in Workspaces : f[w] \in Roles \cup {None}
    BY <1>3, <2>1 DEF MemberInv, MemberTypeOK
  <2> QED
    BY <1>3, <2>1, <2>2 DEF MemberInv, MemberTypeOK
<1>5. /\ WorkIn(MemberTask)' /\ edits' \in 0..MaxEdits /\ staleEdit' \in BOOLEAN
      /\ \A o \in Handlers : At(o, "set")' =>
           At(o, "set") /\ work'[o].stale /\ work'[o].org = work[o].org
      /\ \A o \in Handlers : OfInvitation(o)' => OfInvitation(o) /\ work'[o] = work[o]
      /\ ~staleEdit' => ~staleEdit /\ ~work[h].stale
  BY <1>2, WriteMemberOK
<1>6. MemberTypeOK'
  BY <1>2, <1>3, <1>4, <1>5 DEF MemberInv, MemberTypeOK
<1>7. Founded'
  BY <1>2, <1>3 DEF Founded
<1>8. EditsKnown'
  BY <1>5, <1>7 DEF MemberInv, EditsKnown
<1>9. EditsLeaveAdmin'
  BY <1>5 DEF EditsLeaveAdmin
<1>10. OrgAdminKept'
  <2> SUFFICES ASSUME ~staleEdit' PROVE OrgAdmins' # {}
    BY DEF OrgAdminKept
  <2>1. ~staleEdit /\ ~work[h].stale
    BY <1>5
  <2>2. \A u \in OrgAdmins : u # t => u \in OrgAdmins'
    BY <1>2, <1>3 DEF OrgAdmins, ActiveOrgMember, MemberInv, MemberTypeOK
  <2>3. CASE StaysOrgAdmin(org)
    <3>1. org # None
      BY <1>3, MemberAssumption
    <3> QED
      BY <1>2, <1>3, <2>3, <3>1
      DEF OrgAdmins, ActiveOrgMember, StaysOrgAdmin, MemberInv, MemberTypeOK
  <2>4. CASE ~StaysOrgAdmin(org)
    BY <1>1, <1>2, <2>1, <2>2, <2>4 DEF MemberInv, EditsLeaveAdmin
  <2> QED
    BY <2>3, <2>4
<1>11. InvitationsKnown'
  BY <1>2, <1>5, InvitationsStay
<1> QED
  BY <1>5, <1>6, <1>8, <1>9, <1>10, <1>11 DEF MemberInv

\* A removal leaves the rows of the organization.
LEMMA RemoveMemberOK ==
  ASSUME MemberInv, NEW h \in Handlers, RemoveMember(h)
  PROVE  MemberInv'
<1>1. PICK t, w : t = work[h].user /\ w = work[h].workspace
  OBVIOUS
<1>2. /\ At(h, "remove") /\ WriteMember(h) /\ role' = SetRole(w, t, None)
      /\ UNCHANGED <<workspace, orgMember, invitation>>
  BY <1>1 DEF RemoveMember
<1>3. t \in Users /\ w \in Workspaces
  BY <1>1, <1>2 DEF At, MemberInv, WorkIn, MemberTask
<1>4. /\ WorkIn(MemberTask)' /\ edits' \in 0..MaxEdits /\ staleEdit' \in BOOLEAN
      /\ \A o \in Handlers : At(o, "set")' =>
           At(o, "set") /\ work'[o].stale /\ work'[o].org = work[o].org
      /\ \A o \in Handlers : OfInvitation(o)' => OfInvitation(o) /\ work'[o] = work[o]
      /\ ~staleEdit' => ~staleEdit /\ ~work[h].stale
  BY <1>2, WriteMemberOK
<1>5. MemberTypeOK'
  BY <1>2, <1>3, <1>4, RoleSet DEF MemberInv, MemberTypeOK
<1>6. OrgAdmins' = OrgAdmins /\ (Founded' <=> Founded)
  BY <1>2 DEF OrgAdmins, ActiveOrgMember, Founded
<1>7. EditsKnown' /\ EditsLeaveAdmin'
  BY <1>4, <1>6 DEF MemberInv, EditsKnown, EditsLeaveAdmin
<1>8. OrgAdminKept'
  BY <1>4, <1>6 DEF MemberInv, OrgAdminKept, Founded
<1>9. InvitationsKnown'
  BY <1>2, <1>4, InvitationsStay
<1> QED
  BY <1>4, <1>5, <1>7, <1>8, <1>9 DEF MemberInv

\* Who joins is new to the organization, or stays there as before.
LEMMA JoinOK ==
  ASSUME MemberInv, NEW h \in Handlers, Join(h)
  PROVE  MemberInv'
<1>1. PICK w, u, i, org : /\ w = work[h].workspace /\ u = work[h].user /\ i = work[h].invitation
                          /\ org = [role |-> OrgRole(work[h].role), mode |-> "selected"]
  OBVIOUS
<1>2. /\ At(h, "join") /\ work' = [work EXCEPT ![h] = None]
      /\ UNCHANGED <<workspace, edits, staleEdit>>
      /\ orgMember' = orgMember
           \/ (orgMember[u] = None /\ orgMember' = [orgMember EXCEPT ![u] = org])
      /\ role' = role \/ role' = SetRole(w, u, work[h].role)
      /\ invitation' = invitation
           \/ invitation' = [invitation EXCEPT ![i].state = "accepted"]
  <2>1. At(h, "join") /\ work' = [work EXCEPT ![h] = None]
    BY DEF Join, Finish, Continue
  <2>2. CASE role[w][u] # None
    <3>1. UNCHANGED memberVars
      BY <1>1, <2>2 DEF Join
    <3> QED
      BY <2>1, <3>1 DEF memberVars
  <2>3. CASE role[w][u] = None
    <3>1. /\ role' = SetRole(w, u, work[h].role)
          /\ orgMember' = IF orgMember[u] # None THEN orgMember
                          ELSE [orgMember EXCEPT ![u] = org]
          /\ Mark(i, "accepted")
          /\ UNCHANGED <<workspace, edits, staleEdit>>
      BY <1>1, <2>3 DEF Join
    <3> QED
      BY <2>1, <3>1 DEF Mark
  <2> QED
    BY <2>2, <2>3
<1>3. w \in Workspaces /\ u \in Users /\ work[h].role \in Roles \cup {None}
  BY <1>1, <1>2 DEF At, MemberInv, WorkIn, MemberTask
<1>4. role' \in [Workspaces -> [Users -> Roles \cup {None}]]
  BY <1>2, <1>3, RoleSet DEF MemberInv, MemberTypeOK
<1>5. /\ invitation' \in [Invitations -> Invitation \cup {None}]
      /\ \A j \in Invitations : invitation[j] # None => invitation'[j] # None
  <2>1. i \in Invitations /\ invitation[i] # None
    BY <1>1, <1>2 DEF MemberInv, InvitationsKnown, OfInvitation, InvitationSound, At, Sends, Marks
  <2> QED
    BY <1>2, <2>1, InvitationMarked DEF MemberInv, MemberTypeOK
<1>6. CASE orgMember' = orgMember
  BY <1>2, <1>4, <1>5, <1>6, MemberGoes
<1>7. CASE orgMember[u] = None /\ orgMember' = [orgMember EXCEPT ![u] = org]
  <2>1. org \in OrgMember
    BY <1>1 DEF OrgRole, OrgMember, Modes
  <2>2. MemberTypeOK'
    BY <1>2, <1>3, <1>4, <1>5, <1>7, <2>1 DEF MemberInv, MemberTypeOK
  <2>3. WorkIn(MemberTask)' /\ \A o \in Handlers : At(o, "set")' => At(o, "set") /\ work'[o] = work[o]
    BY <1>2 DEF MemberInv, WorkIn, At
  <2>4. (Founded' <=> Founded) /\ \A v \in OrgAdmins : v # u /\ v \in OrgAdmins'
    BY <1>2, <1>3, <1>7 DEF Founded, OrgAdmins, ActiveOrgMember, MemberInv, MemberTypeOK
  <2>5. OrgAdminKept'
    BY <1>2, <2>4 DEF MemberInv, OrgAdminKept, Founded
  <2>6. EditsKnown'
    BY <2>3, <2>4 DEF MemberInv, EditsKnown
  <2>7. EditsLeaveAdmin'
    <3> SUFFICES ASSUME NEW o \in Handlers, At(o, "set")', ~work'[o].stale, ~staleEdit,
                        ~StaysOrgAdmin(work'[o].org)
                 PROVE  \E v \in OrgAdmins' : v # work'[o].user
      BY <1>2 DEF EditsLeaveAdmin, StaysOrgAdmin
    <3>1. At(o, "set") /\ work'[o] = work[o]
      BY <2>3
    <3>2. \E v \in OrgAdmins : v # work[o].user
      BY <3>1 DEF MemberInv, EditsLeaveAdmin
    <3> QED
      BY <2>4, <3>1, <3>2
  <2>8. InvitationsKnown'
    <3>1. \A o \in Handlers : OfInvitation(o)' => OfInvitation(o) /\ work'[o] = work[o]
      BY <1>2 DEF OfInvitation, MemberInv, WorkIn
    <3> QED
      BY <1>5, <3>1, InvitationsStay
  <2> QED
    BY <2>2, <2>3, <2>5, <2>6, <2>7, <2>8 DEF MemberInv
<1> QED
  BY <1>2, <1>6, <1>7

\* A request is checked.
LEMMA MemberBeginsOK ==
  ASSUME MemberInv, NEW h \in Handlers, NEW w \in Workspaces, NEW u \in Users, NEW t \in Users,
         \/ RequestRemoval(h, u, w, t)
         \/ \E r \in Roles : Invite(h, w, t, r)
         \/ \E i \in Invitations : RequestInvitationRevocation(h, u, i) \/ AcceptInvitation(h, i)
  PROVE  MemberInv'
<1>1. UNCHANGED <<workspace, role, orgMember, invitation, edits, staleEdit>>
  BY DEF RequestRemoval, Invite, RequestInvitationRevocation, AcceptInvitation, memberVars
<1>2. ASSUME NEW step \in {"remove", "replace invitation", "insert invitation", "join",
                           "mark accepted", "revoke invitation"},
             NEW x \in Workspaces, NEW v \in Users,
             NEW r \in Roles \cup {None}, NEW i \in Invitations \cup {None},
             step \in Sends => r \in Roles,
             step \in Marks => i \in Invitations /\ invitation[i] # None,
             NEW task, Begin(h, task),
             task = [step |-> step, workspace |-> x, user |-> v, role |-> r, org |-> None,
                     selected |-> None, invitation |-> i, stale |-> FALSE]
      PROVE  MemberInv'
  <2>1. task \in MemberTask
    BY <1>2, TaskOfMember
  <2>2. /\ task # None => task.step # "set"
        /\ task.step \in Sends \cup Marks => InvitationSound(task)
    <3>1. task.step = step /\ task.invitation = i /\ task.role = r
      BY <1>2
    <3> QED
      BY <1>2, <3>1 DEF InvitationSound
  <2>3. work' = [work EXCEPT ![h] = task]
    BY <1>2 DEF Begin
  <2>4. role' \in [Workspaces -> [Users -> Roles \cup {None}]]
        /\ invitation' \in [Invitations -> Invitation \cup {None}]
    BY <1>1 DEF MemberInv, MemberTypeOK
  <2> QED
    BY <1>1, <2>1, <2>2, <2>3, <2>4, MemberGoes
<1>3. CASE RequestRemoval(h, u, w, t)
  <2>1. PICK task : task = Member("remove", w, t)
    OBVIOUS
  <2>2. Begin(h, task)
    BY <1>3, <2>1 DEF RequestRemoval
  <2>3. task = [step |-> "remove", workspace |-> w, user |-> t, role |-> None, org |-> None,
                selected |-> None, invitation |-> None, stale |-> FALSE]
    BY <2>1 DEF Member
  <2> QED
    BY <1>2, <2>2, <2>3 DEF Sends, Marks
<1>4. ASSUME NEW r \in Roles, Invite(h, w, t, r)
      PROVE  MemberInv'
  <2>1. PICK task : task = [Member("replace invitation", w, t) EXCEPT !.role = r]
    OBVIOUS
  <2>2. Begin(h, task)
    BY <1>4, <2>1 DEF Invite
  <2>3. task = [step |-> "replace invitation", workspace |-> w, user |-> t, role |-> r,
                org |-> None, selected |-> None, invitation |-> None, stale |-> FALSE]
    BY <2>1 DEF Member
  <2> QED
    BY <1>2, <2>2, <2>3 DEF Sends, Marks
<1>5. ASSUME NEW i \in Invitations, RequestInvitationRevocation(h, u, i)
      PROVE  MemberInv'
  <2>1. PICK x, v, task : /\ x = invitation[i].workspace /\ v = invitation[i].user
                          /\ task = [Member("revoke invitation", x, v) EXCEPT !.invitation = i]
    OBVIOUS
  <2>2. Begin(h, task) /\ invitation[i] # None
    BY <1>5, <2>1 DEF RequestInvitationRevocation
  <2>3. task = [step |-> "revoke invitation", workspace |-> x, user |-> v, role |-> None,
                org |-> None, selected |-> None, invitation |-> i, stale |-> FALSE]
    BY <2>1 DEF Member
  <2>4. x \in Workspaces /\ v \in Users
    BY <2>1, <2>2 DEF MemberInv, MemberTypeOK, Invitation
  <2> QED
    BY <1>2, <2>2, <2>3, <2>4 DEF Sends, Marks
<1>6. ASSUME NEW i \in Invitations, AcceptInvitation(h, i)
      PROVE  MemberInv'
  <2>1. PICK x, v, r, step, task :
          /\ x = invitation[i].workspace /\ v = invitation[i].user /\ r = invitation[i].role
          /\ step = IF role[x][v] # None THEN "mark accepted" ELSE "join"
          /\ task = [Member(step, x, v) EXCEPT !.invitation = i, !.role = r]
    OBVIOUS
  <2>2. Begin(h, task) /\ invitation[i] # None
    BY <1>6, <2>1 DEF AcceptInvitation
  <2>3. task = [step |-> step, workspace |-> x, user |-> v, role |-> r,
                org |-> None, selected |-> None, invitation |-> i, stale |-> FALSE]
    BY <2>1 DEF Member
  <2>4. x \in Workspaces /\ v \in Users /\ r \in Roles
    BY <2>1, <2>2 DEF MemberInv, MemberTypeOK, Invitation
  <2>5. step \in {"join", "mark accepted"}
    BY <2>1
  <2> QED
    BY <1>2, <2>2, <2>3, <2>4, <2>5 DEF Sends, Marks
<1> QED
  BY <1>3, <1>4, <1>5, <1>6

\* Invitations are written one statement at a time.
LEMMA InvitationsOK ==
  ASSUME MemberInv, NEW h \in Handlers,
         ReplaceInvitation(h) \/ InsertInvitation(h) \/ RevokeInvitation(h) \/ MarkAccepted(h)
  PROVE  MemberInv'
<1>1. UNCHANGED <<workspace, role, orgMember, edits, staleEdit>>
  BY DEF ReplaceInvitation, InsertInvitation, RevokeInvitation, MarkAccepted
<1>2. role' \in [Workspaces -> [Users -> Roles \cup {None}]]
  BY <1>1 DEF MemberInv, MemberTypeOK
<1>3. PICK task : task = work[h]
  OBVIOUS
<1>4. task \in MemberTask
  BY <1>3 DEF ReplaceInvitation, InsertInvitation, RevokeInvitation, MarkAccepted, At,
              MemberInv, WorkIn
<1>5. CASE ReplaceInvitation(h)
  <2>1. PICK gone : gone = ActiveInvitations(task.workspace, task.user)
    OBVIOUS
  <2>2. invitation' = [i \in Invitations |-> IF i \in gone
                         THEN [invitation[i] EXCEPT !.state = "revoked"] ELSE invitation[i]]
    BY <1>3, <1>5, <2>1 DEF ReplaceInvitation
  <2>3. \A i \in Invitations : invitation[i] \in Invitation \cup {None} /\ (i \in gone => invitation[i] # None)
    BY <2>1 DEF ActiveInvitations, MemberInv, MemberTypeOK
  <2>4. ASSUME NEW i \in Invitations, i \in gone
        PROVE  [invitation[i] EXCEPT !.state = "revoked"] \in Invitation
    <3>1. PICK row : row = invitation[i]
      OBVIOUS
    <3>2. row \in Invitation
      BY <2>3, <2>4, <3>1
    <3>3. [row EXCEPT !.state = "revoked"] \in Invitation
      BY <3>2 DEF Invitation
    <3> QED
      BY <3>1, <3>3
  <2>5. /\ invitation' \in [Invitations -> Invitation \cup {None}]
        /\ \A i \in Invitations : invitation[i] # None => invitation'[i] # None
    BY <2>2, <2>3, <2>4, MemberAssumption
  <2>6. PICK next : next = [task EXCEPT !.step = "insert invitation"]
    OBVIOUS
  <2>7. next \in MemberTask /\ next.step = "insert invitation" /\ next.role = task.role
    BY <1>4, <2>6 DEF MemberTask
  <2>9. InvitationSound(next)
    <3>1. InvitationSound(task) /\ task.step = "replace invitation"
      BY <1>3, <1>5 DEF ReplaceInvitation, At, MemberInv, InvitationsKnown, OfInvitation, Sends
    <3> QED
      BY <2>7, <3>1 DEF InvitationSound, Sends, Marks
  <2>8. work' = [work EXCEPT ![h] = next]
    BY <1>3, <1>5, <2>6 DEF ReplaceInvitation, Continue
  <2> QED
    BY <1>1, <1>2, <2>5, <2>7, <2>8, <2>9, MemberGoes
<1>6. CASE InsertInvitation(h)
  <2>1. PICK row, i : /\ row = [workspace |-> task.workspace, user |-> task.user,
                                role |-> task.role, state |-> "active"]
                      /\ i = CHOOSE j \in FreeInvitations : TRUE
    OBVIOUS
  <2>2. /\ invitation' = [invitation EXCEPT ![i] = row] /\ FreeInvitations # {}
        /\ work' = [work EXCEPT ![h] = None]
    BY <1>3, <1>6, <2>1 DEF InsertInvitation, Finish, Continue
  <2>5. task.role \in Roles
    <3>1. InvitationSound(task) /\ task.step = "insert invitation"
      BY <1>3, <1>6 DEF InsertInvitation, At, MemberInv, InvitationsKnown, OfInvitation, Sends
    <3> QED
      BY <3>1 DEF InvitationSound, Sends, Marks
  <2>3. row \in Invitation
    BY <1>4, <2>1, <2>5 DEF Invitation, MemberTask
  <2>4. /\ invitation' \in [Invitations -> Invitation \cup {None}]
        /\ \A j \in Invitations : invitation[j] # None => invitation'[j] # None
    BY <2>2, <2>3, MemberAssumption DEF MemberInv, MemberTypeOK
  <2> QED
    BY <1>1, <1>2, <2>2, <2>4, MemberGoes
<1>7. CASE RevokeInvitation(h) \/ MarkAccepted(h)
  <2>1. PICK i : i = work[h].invitation
    OBVIOUS
  <2>5. \/ invitation' = [invitation EXCEPT ![i].state = "revoked"]
        \/ invitation' = [invitation EXCEPT ![i].state = "accepted"]
    BY <1>7, <2>1 DEF RevokeInvitation, MarkAccepted, Mark
  <2>2. i \in Invitations /\ invitation[i] # None
    <3>1. InvitationSound(work[h]) /\ work[h].step \in Marks
      BY <1>7 DEF RevokeInvitation, MarkAccepted, MemberInv, InvitationsKnown, OfInvitation, At, Marks
    <3> QED
      BY <2>1, <3>1 DEF InvitationSound, Sends, Marks
  <2>3. /\ invitation' \in [Invitations -> Invitation \cup {None}]
        /\ \A j \in Invitations : invitation[j] # None => invitation'[j] # None
    BY <2>2, <2>5, InvitationMarked
  <2>4. work' = [work EXCEPT ![h] = None]
    BY <1>7 DEF RevokeInvitation, MarkAccepted, Finish, Continue
  <2> QED
    BY <1>1, <1>2, <2>3, <2>4, MemberGoes
<1> QED
  BY <1>5, <1>6, <1>7

\* The clock ends invitations.
LEMMA InvitationExpiresOK ==
  ASSUME MemberInv, NEW i \in Invitations, InvitationExpires(i)
  PROVE  MemberInv'
<1>1. /\ invitation[i] # None /\ invitation' = [invitation EXCEPT ![i].state = "expired"]
      /\ UNCHANGED <<work, workspace, role, orgMember, edits, staleEdit>>
  BY DEF InvitationExpires
<1>2. /\ invitation' \in [Invitations -> Invitation \cup {None}]
      /\ \A j \in Invitations : invitation[j] # None => invitation'[j] # None
  BY <1>1, InvitationMarked
<1>3. MemberTypeOK' /\ WorkIn(MemberTask)' /\ (Founded' <=> Founded)
  BY <1>1, <1>2 DEF MemberInv, MemberTypeOK, WorkIn, Founded
<1>4. InvitationsKnown'
  <2>1. \A o \in Handlers : OfInvitation(o)' => OfInvitation(o) /\ work'[o] = work[o]
    BY <1>1 DEF OfInvitation
  <2> QED
    BY <1>2, <2>1, InvitationsStay
<1> QED
  BY <1>1, <1>3, <1>4, MemberRest DEF At

\* A request that is cut writes nothing more.
LEMMA CutMemberOK ==
  ASSUME MemberInv, NEW h \in Handlers, Cut(h), UNCHANGED memberVars
  PROVE  MemberInv'
<1>1. work' = [work EXCEPT ![h] = None]
  BY DEF Cut, Finish, Continue
<1>2. UNCHANGED <<workspace, role, orgMember, invitation, edits, staleEdit>>
  BY DEF memberVars
<1> QED
  BY <1>1, <1>2, MemberGoes DEF MemberInv, MemberTypeOK

\* Every step of the members keeps the invariant.
LEMMA MemberStepOK == MemberInv /\ [MemberNext(Edit)]_<<work, memberVars>> => MemberInv'
<1> SUFFICES ASSUME MemberInv, [MemberNext(Edit)]_<<work, memberVars>> PROVE MemberInv'
  OBVIOUS
<1>1. CASE UNCHANGED <<work, memberVars>>
  <2>1. UNCHANGED <<work, workspace, role, orgMember, invitation, edits, staleEdit>>
    BY <1>1 DEF memberVars
  <2>2. MemberTypeOK' /\ WorkIn(MemberTask)' /\ (Founded' <=> Founded)
    BY <2>1 DEF MemberInv, MemberTypeOK, WorkIn, Founded
  <2>3. InvitationsKnown'
    BY <2>1 DEF MemberInv, InvitationsKnown, OfInvitation, InvitationSound
  <2> QED
    BY <2>1, <2>2, <2>3, MemberRest DEF At
<1>2. ASSUME NEW h \in Handlers, MemberHandler(h, Edit)
      PROVE  MemberInv'
  <2>1. CASE work[h] = None /\ \E u \in Users, w \in Workspaces :
                 /\ Administers(u, w)
                 /\ \E t \in Users : \/ \E e \in Edit : RequestEdit(h, u, w, t, e)
                                   \/ RequestRemoval(h, u, w, t)
                                   \/ \E r \in Roles : Invite(h, w, t, r)
    <3>1. PICK u \in Users, w \in Workspaces, t \in Users :
            /\ Administers(u, w)
            /\ \/ \E e \in Edit : RequestEdit(h, u, w, t, e)
               \/ RequestRemoval(h, u, w, t)
               \/ \E r \in Roles : Invite(h, w, t, r)
      BY <2>1
    <3> QED
      BY <3>1, RequestEditOK, MemberBeginsOK
  <2>2. ASSUME NEW i \in Invitations, AcceptInvitation(h, i)
        PROVE  MemberInv'
    <3>1. invitation[i].workspace \in Workspaces /\ invitation[i].user \in Users
      BY <2>2 DEF AcceptInvitation, MemberInv, MemberTypeOK, Invitation
    <3> QED
      BY <2>2, <3>1, MemberBeginsOK
  <2>3. ASSUME NEW i \in Invitations, NEW u \in Users, RequestInvitationRevocation(h, u, i)
        PROVE  MemberInv'
    <3>1. invitation[i].workspace \in Workspaces
      BY <2>3 DEF RequestInvitationRevocation, MemberInv, MemberTypeOK, Invitation
    <3> QED
      BY <2>3, <3>1, MemberBeginsOK
  <2> QED
    BY <1>2, <2>1, <2>2, <2>3, ApplyEditOK, RemoveMemberOK, InvitationsOK, JoinOK, CutMemberOK
    DEF MemberHandler
<1> QED
  BY <1>1, <1>2, CreateOrganizationOK, WorkspacesOK, InvitationExpiresOK DEF MemberNext

\* An organization with a workspace has an administrator with access, whatever its
\* members change, remove, invite and join at the same time and however many they are,
\* unless a change was written after another one to what it had checked.
THEOREM AnAdminIsKept == MemberSpec => []OrgAdminKept
<1>1. MemberInv => OrgAdminKept
  BY DEF MemberInv
<1> QED
  BY <1>1, MemberInitOK, MemberStepOK, PTL DEF MemberSpec

\* Members, invitations and what requests have read of them keep their types.
THEOREM MembersAreTyped == MemberSpec => [](MemberTypeOK /\ WorkIn(MemberTask))
<1>1. MemberInv => MemberTypeOK /\ WorkIn(MemberTask)
  BY DEF MemberInv
<1> QED
  BY <1>1, MemberInitOK, MemberStepOK, PTL DEF MemberSpec

=============================================================================
