------------------------------ MODULE ListViews ------------------------------
(***************************************************************************)
(* The tables of the desktop: what the server sent, searched, filtered,    *)
(* sorted and cut into pages.  The rows are fetched again behind the       *)
(* user's back, at intervals, after commands and when the workspace is     *)
(* switched; what the user has chosen stays.  A row of the table of        *)
(* attestations has its state from a second query if that has the row.     *)
(***************************************************************************)
EXTENDS Integers, SequencesExt, ApiRequests   \* of the requests, None only

CONSTANTS
  Rows,          \* identities in the order of the names, and in that of the server
  PageSize,      \* STANDARD_TABLE_PAGE_SIZE
  RecentLimit,   \* rows of the second query
  MarksUsed      \* bound: the marks that rows have

ASSUME ListsAssumption ==
  Rows \subseteq Nat /\ IsFiniteSet(Rows) /\ PageSize \in Nat \ {0} /\ RecentLimit \in Nat

VARIABLES
  table,       \* the table that is looked at
  sent,        \* data of its query: the marks of each row, by which it is filtered
  recent,      \* recentAttestations
  query,       \* a text to search, standing for the row that has it
  filter, sort, at,
  stale        \* controls used before the rows were last fetched

listVars == <<table, sent, recent, query, filter, sort, at, stale>>

-----------------------------------------------------------------------------
(* The tables: marks of their rows, options of the filter, and what there  *)
(* must be for the controls to be shown                                     *)

Single(marks) == {{m} : m \in marks}

Attestations ==
  [name |-> "attestations", marks |-> Single({"active", "confirmed", "failed", "other"}),
   fixed |-> TRUE, gate |-> "none"]
Projects ==
  [name |-> "projects", marks |-> Single({"active", "archived"}), fixed |-> TRUE, gate |-> "rows"]
Workspaces == [name |-> "workspaces", marks |-> {{}}, fixed |-> TRUE, gate |-> "none"]
\* members and invitations; an administrator of the organization has two marks
Members ==
  [name |-> "members",
   marks |-> Single({"tenant_admin", "producer"})
             \cup {{"producer", "organization_admin"}},
   fixed |-> TRUE, gate |-> "matches"]
Requests ==
  [name |-> "requests", marks |-> Single({"pending", "approved", "denied"}), fixed |-> TRUE,
   gate |-> "rows"]
\* the categories on offer are those of the events that were sent
Events ==
  [name |-> "events", marks |-> Single({"auth", "attestation"}), fixed |-> FALSE, gate |-> "rows"]
Verifiers ==
  [name |-> "verifiers", marks |-> Single({"claimed", "pending"}), fixed |-> TRUE,
   gate |-> "rows"]
DetailEvents ==
  [name |-> "detail_events", marks |-> Single({"access", "attestation"}), fixed |-> FALSE,
   gate |-> "rows"]

Tables == {Attestations, Projects, Workspaces, Members, Requests, Events, Verifiers, DetailEvents}
\* tables of one attestation
OfDetail == {Verifiers, DetailEvents}

ASSUME MarksAssumption == \A t \in Tables : None \notin t.marks

Data(t) == [Rows -> (t.marks \cap MarksUsed) \cup {None}]
Sort == [key : {"name", "marks"}, up : BOOLEAN]

ListTypeOK ==
  /\ table \in Tables
  /\ sent \in Data(table)
  /\ recent \in Data(Attestations)
  /\ query \in Rows \cup {None}
  /\ filter \in (UNION table.marks) \cup {"all"}
  /\ sort \in Sort
  /\ at \in Nat \ {0}
  /\ stale \subseteq {"page", "filter"}

ListInit ==
  /\ table \in Tables
  /\ sent = [r \in Rows |-> None] /\ recent = [r \in Rows |-> None]
  /\ query = None /\ filter = "all" /\ sort = [key |-> "marks", up |-> FALSE] /\ at = 1
  /\ stale = {}

-----------------------------------------------------------------------------
(* What is shown                                                            *)

HasRow(r) == sent[r] # None
\* the newer query first, although either may have been answered last
MarkOf(r) == IF table = Attestations /\ recent[r] # None THEN recent[r] ELSE sent[r]

Matches(r) ==
  /\ filter = "all" \/ filter \in MarkOf(r)
  /\ query \in {None, r}
Visible == {r \in Rows : HasRow(r) /\ Matches(r)}

\* the names of the marks in their order
Rank(marks) ==
  CASE marks \in {{"active"}, {"approved"}, {"tenant_admin"}, {"access"}, {"claimed"}} -> 1
    [] marks \in {{"archived"}, {"confirmed"}, {"denied"}, {"attestation"}} -> 2
    [] marks \in {{"failed"}, {"pending"}, {"auth"}} -> 3
    [] OTHER -> 4

\* the comparison of the table, negated for "desc"; rows that compare equal keep their order
Compared(a, b) ==
  LET result == IF sort.key = "name" THEN a - b ELSE Rank(MarkOf(a)) - Rank(MarkOf(b))
  IN  IF sort.up THEN result ELSE -result
Before(a, b) == Compared(a, b) < 0 \/ (Compared(a, b) = 0 /\ a < b)
Place(r) == Cardinality({x \in Visible : x = r \/ Before(x, r)})
Sorted == [i \in 1..Cardinality(Visible) |-> CHOOSE r \in Visible : Place(r) = i]

Least(a, b) == IF a < b THEN a ELSE b
PageCount ==
  LET full == (Cardinality(Visible) + PageSize - 1) \div PageSize
  IN  IF full = 0 THEN 1 ELSE full

\* mutant: the page is the one asked for
AskedPage == at

ActivePage == Least(at, PageCount)
RowsOf(p) == ToSet(SubSeq(Sorted, (p - 1) * PageSize + 1, Least(p * PageSize, Len(Sorted))))

Options == IF table.fixed THEN UNION table.marks ELSE UNION {sent[r] : r \in {x \in Rows : HasRow(x)}}
\* a select without the option of its value shows the first one
FilterShown == IF filter \in Options THEN filter ELSE "all"
ControlsShown ==
  CASE table.gate = "none" -> TRUE
    [] table.gate = "rows" -> \E r \in Rows : HasRow(r)
    [] table.gate = "matches" -> Visible # {}

-----------------------------------------------------------------------------
(* The user                                                                 *)

Search(q) ==
  /\ ControlsShown
  /\ query' = q /\ at' = 1
  /\ stale' = stale \ {"page"}
  /\ UNCHANGED <<table, sent, recent, filter, sort>>

Filter(f) ==
  /\ ControlsShown /\ f \in Options \cup {"all"}
  /\ filter' = f /\ at' = 1
  /\ stale' = {}
  /\ UNCHANGED <<table, sent, recent, query, sort>>

\* the effect of the attestations goes to the first page
SortBy(key) ==
  /\ ControlsShown
  /\ sort' = [key |-> key, up |-> ~(sort.key = key /\ sort.up)]
  /\ at' = IF table = Attestations THEN 1 ELSE at
  /\ UNCHANGED <<table, sent, recent, query, filter, stale>>

Previous ==
  /\ ControlsShown /\ ActivePage > 1
  /\ at' = IF at > 1 THEN at - 1 ELSE 1
  /\ UNCHANGED <<table, sent, recent, query, filter, sort, stale>>

NextPage ==
  /\ ControlsShown /\ ActivePage < PageCount
  /\ at' = Least(at + 1, PageCount)
  /\ UNCHANGED <<table, sent, recent, query, filter, sort, stale>>

\* openRecentAttestation, openAttestationDetail: the tables of another attestation
OpenAnother(data) ==
  /\ table \in OfDetail
  /\ sent' = data
  /\ query' = None /\ filter' = "all" /\ at' = 1
  /\ stale' = {}
  /\ UNCHANGED <<table, recent, sort>>

\* another project: its rows are fetched, and the list goes to the first page
ListProject ==
  /\ table = Attestations
  /\ sent' = [r \in Rows |-> None]
  /\ at' = 1
  /\ stale' = stale \ {"page"}
  /\ UNCHANGED <<table, recent, query, filter, sort>>

-----------------------------------------------------------------------------
(* The queries                                                              *)

\* an attestation that is confirmed, or has failed, is never sent as active again
Follows(data) ==
  \A r \in Rows : data[r] = {"active"} => {sent[r], recent[r]} \subseteq {None, {"active"}}

\* the rows are sent again, or those of another workspace are
RowsFetched(data) ==
  /\ table = Attestations => Follows(data)
  /\ sent' = data
  /\ stale' = {"page", "filter"}
  /\ UNCHANGED <<table, recent, query, filter, sort, at>>

RecentFetched(data) ==
  /\ table = Attestations /\ Follows(data)
  /\ Cardinality({r \in Rows : data[r] # None}) <= RecentLimit
  /\ recent' = data
  /\ stale' = {"page", "filter"}
  /\ UNCHANGED <<table, sent, query, filter, sort, at>>

ListNext ==
  \/ \E q \in Rows \cup {None} : Search(q)
  \/ \E f \in (UNION table.marks) \cup {"all"} : Filter(f)
  \/ \E key \in {"name", "marks"} : SortBy(key)
  \/ Previous \/ NextPage \/ ListProject
  \/ \E data \in Data(table) : OpenAnother(data) \/ RowsFetched(data) \/ RecentFetched(data)

-----------------------------------------------------------------------------
\* The pages hold every row that matches, and the one shown is not empty.  Until rows
\* are fetched anew, the page that the buttons count from is the one shown, and the
\* filter applied is the one on the control.
PagesTrue ==
  /\ UNION {RowsOf(p) : p \in 1..PageCount} = Visible
  /\ Visible # {} => RowsOf(ActivePage) # {}
  /\ "page" \notin stale => at = ActivePage
  /\ "filter" \notin stale => filter = FilterShown

\* What the user has narrowed can be widened: the controls are there, except in the
\* table of members, which takes them away when no row matches.
CanWiden == (\E r \in Rows : HasRow(r)) /\ table # Members => ControlsShown

\* A row shown as confirmed is not shown as active again, unless it has left the second
\* query and the first one was answered before.
NeverBack ==
  \A r \in Rows : MarkOf(r) = {"confirmed"} /\ table = Attestations =>
     MarkOf(r)' # {"active"} \/ (recent[r] # None /\ recent'[r] = None /\ sent'[r] = sent[r])

\* The table shows what was sent, filtered by what its controls show, and no older
\* state of an attestation, except where rows were fetched under the user's hands.
ListsTrue == [](PagesTrue /\ CanWiden) /\ [][NeverBack]_listVars
=============================================================================
