------------------------------- MODULE Paging -------------------------------
(***************************************************************************)
(* The lists of the public API and a client that walks one of them, page   *)
(* by page, as the integration policy says: ask for offset + returned      *)
(* while hasMore is true.  Rows enter and leave the list between pages.    *)
(***************************************************************************)
EXTENDS ApiRequests, Naturals, Sequences, FiniteSets

CONSTANTS
  Entries,    \* rows of one table
  Instants,   \* values of created_at
  PageSizes,  \* limits that clients ask for
  PageCap,    \* 500 in the code, 100 for exports
  OffsetCap   \* 10,000 in the code

ASSUME PagingAssumption ==
  /\ Instants \subseteq Nat /\ PageSizes \subseteq Nat \ {0}
  /\ PageCap \in Nat \ {0} /\ OffsetCap \in Nat

ListRoutes == {"projects", "attestations", "events", "endpoints", "deliveries", "exports"}

VARIABLES
  route,      \* the list
  createdAt,  \* created_at of the rows that were inserted
  inList,     \* rows that pass the list's WHERE clause
  walk        \* the client's walk

pagingVars == <<route, createdAt, inList, walk>>

Walk == [offset : Nat, limit : PageSizes, hasMore : BOOLEAN,
         got    : SUBSET Entries,    \* rows returned so far
         stayed : SUBSET Entries,    \* rows in the list since the first page
         loose  : BOOLEAN]           \* a row left meanwhile, or two share an instant

ASSUME WalkAssumption == None \notin Instants \cup Walk

PagingTypeOK ==
  /\ route \in ListRoutes
  /\ createdAt \in [Entries -> Instants \cup {None}]
  /\ inList \subseteq {e \in Entries : createdAt[e] # None}
  /\ walk \in Walk \cup {None}

PagingInit ==
  /\ route \in ListRoutes
  /\ createdAt = [e \in Entries |-> None] /\ inList = {} /\ walk = None

Tied == \E e, f \in inList : e # f /\ createdAt[e] = createdAt[f]
Loosened(w, is) == IF w = None THEN None ELSE [w EXCEPT !.loose = @ \/ is]

-----------------------------------------------------------------------------
\* a row is inserted or, as a restored project, comes back where it was; now() is
\* the beginning of a transaction, so rows need not appear in the order of created_at,
\* and the deliveries of one event, inserted by one statement, share theirs
Enter(e, t) ==
  /\ e \notin inList
  /\ createdAt[e] \in {None, t}
  /\ createdAt' = [createdAt EXCEPT ![e] = t] /\ inList' = inList \cup {e}
  /\ walk' = Loosened(walk, Tied')
  /\ UNCHANGED route

Leave(e) ==
  /\ e \in inList
  /\ inList' = inList \ {e}
  /\ walk' = IF walk = None THEN None
             ELSE [Loosened(walk, TRUE) EXCEPT !.stayed = @ \ {e}]
  /\ UNCHANGED <<route, createdAt>>

-----------------------------------------------------------------------------
\* ORDER BY created_at DESC: any order of the rows that share an instant
NewestFirst ==
  {s \in [1..Cardinality(inList) -> inList] :
     \A i, j \in DOMAIN s : i < j => s[i] # s[j] /\ createdAt[s[i]] >= createdAt[s[j]]}

Least(a, b) == IF a < b THEN a ELSE b

\* mutant: no row beyond the page is read
FetchedNoMore(rows, offset, limit) == SubSeq(rows, offset + 1, Least(offset + limit, Len(rows)))

ParseOffset(offset) == Least(offset, OffsetCap)
ParseLimit(limit) == Least(limit, PageCap)
\* one row more than the page shows
Fetched(rows, offset, limit) == SubSeq(rows, offset + 1, Least(offset + limit + 1, Len(rows)))
PageRows(fetched, limit) ==
  LET shown == SubSeq(fetched, 1, Least(limit, Len(fetched)))
  IN  [rows |-> {shown[i] : i \in DOMAIN shown}, returned |-> Len(shown),
       hasMore |-> Len(fetched) > limit]

GetPage(w) ==
  /\ \E rows \in NewestFirst :
       LET at    == ParseOffset(w.offset)
           limit == ParseLimit(w.limit)
           page  == PageRows(Fetched(rows, at, limit), limit)
       IN  walk' = [w EXCEPT !.offset = at + page.returned, !.hasMore = page.hasMore,
                             !.got = @ \cup page.rows]
  /\ UNCHANGED <<route, createdAt, inList>>

\* what leaves a list of projects without the archived ones, and of the attestations of
\* one status; endpoints that are disabled stay in theirs, and the other lists only grow
ArchiveProject(e) == route = "projects" /\ Leave(e)
ChangeState(e) == route = "attestations" /\ Leave(e)

GetProjects(w) == route = "projects" /\ GetPage(w)
GetAttestations(w) == route = "attestations" /\ GetPage(w)
GetEvents(w) == route = "events" /\ GetPage(w)
GetWebhookEndpoints(w) == route = "endpoints" /\ GetPage(w)
GetWebhookDeliveries(w) == route = "deliveries" /\ GetPage(w)
GetExportJobs(w) == route = "exports" /\ GetPage(w)
Get(w) ==
  \/ GetProjects(w) \/ GetAttestations(w) \/ GetEvents(w)
  \/ GetWebhookEndpoints(w) \/ GetWebhookDeliveries(w) \/ GetExportJobs(w)

BeginWalk(limit) ==
  /\ walk # None => ~walk.hasMore
  /\ Get([offset |-> 0, limit |-> limit, hasMore |-> FALSE, got |-> {}, stayed |-> inList,
          loose |-> Tied])
NextPage == walk # None /\ walk.hasMore /\ Get(walk)

PagingNext ==
  \/ \E e \in Entries : \/ ArchiveProject(e) \/ ChangeState(e)
                        \/ \E t \in Instants : Enter(e, t)
  \/ \E limit \in PageSizes : BeginWalk(limit)
  \/ NextPage

-----------------------------------------------------------------------------
\* A walk that ends has returned every row that was in the list from its first
\* page to its last, whatever was inserted meanwhile.  Excepted are walks during
\* which a row left the list, which moves the later ones up past the offset, or
\* two rows shared an instant, whose order may differ from page to page.
WalkReturnsAll ==
  walk # None /\ ~walk.hasMore /\ ~walk.loose => walk.stayed \subseteq walk.got
=============================================================================
