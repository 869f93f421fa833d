---------------------------- MODULE DetailPanel ----------------------------
(***************************************************************************)
(* The attestation the window of a desktop has selected, and the panel of  *)
(* its details: the public link of the receipt, the receipt itself, the    *)
(* form that grants a verifier access with a message.  Each is state of    *)
(* its own, set by calls that end later and cleared by some of the ways    *)
(* the selection changes: opening a row, a batch that is confirmed, a      *)
(* project that is chosen or archived.                                     *)
(***************************************************************************)
EXTENDS Naturals, ApiRequests   \* of the requests, None only

CONSTANTS
  Ids,       \* attestations
  MaxLinks,  \* links of a receipt, each issued after the last was revoked
  Asked      \* the answer is on its way

ASSUME PanelConstantsOK ==
  MaxLinks \in Nat /\ {None, Asked} \cap (Ids \cup 0..MaxLinks) = {}

VARIABLES
  link,      \* number of the receipt's link on the server, 0 until the receipt is issued
  \* the query cache
  detail,    \* the link in the cached detail of an attestation
  fetching,  \* its fetch under way: asked, or the link in the answer
  \* the window
  view,      \* attestationViewMode
  selected,  \* selectedAttestationId
  loop,      \* submitAttestation is under way
  batch,     \* the attestation that the form of the view "new" has submitted first
  override,  \* receiptLinkIdOverride
  receiptJson, receiptSummary,   \* the attestation whose receipt is shown
  checking,  \* the call of loadReceipt
  form,      \* verifierFormOpen
  note,      \* the attestation that the text of the form, grantNote, is about
  edited,    \* grantNoteEdited
  \* where the panel may show another attestation
  late,      \* an answer came when the panel was not open on its attestation, or with
             \* an older link
  slid,      \* the panel stayed open while the selection went to the first row
  oldText    \* the form was open when its attestation changed, or opened on a text left

served == <<link, detail, fetching>>
receipt == <<receiptJson, receiptSummary, checking>>
grant == <<form, note, edited>>
ghosts == <<late, slid, oldText>>
panelVars == <<served, view, selected, loop, batch, override, receipt, grant, ghosts>>

LinkOf == [of : Ids, link : 1..MaxLinks]

PanelTypeOK ==
  /\ link \in [Ids -> 0..MaxLinks]
  /\ detail \in [Ids -> 0..MaxLinks \cup {None}]
  /\ fetching \in [Ids -> 0..MaxLinks \cup {None, Asked}]
  /\ view \in {"list", "detail", "new"}
  /\ selected \in Ids \cup {None} /\ loop \in BOOLEAN /\ batch \in Ids \cup {None}
  /\ override \in LinkOf \cup {None}
  /\ receiptJson \in Ids \cup {None} /\ receiptSummary \in Ids \cup {None}
  /\ checking \in [of : Ids, link : 1..MaxLinks \cup {None, Asked}] \cup {None}
  /\ form \in BOOLEAN /\ note \in Ids \cup {None} /\ edited \in BOOLEAN
  /\ late \in BOOLEAN /\ slid \in BOOLEAN /\ oldText \in BOOLEAN

PanelInit ==
  /\ link = [a \in Ids |-> 0]
  /\ detail = [a \in Ids |-> None] /\ fetching = [a \in Ids |-> None]
  /\ view = "list" /\ selected = None /\ loop = FALSE /\ batch = None /\ override = None
  /\ receiptJson = None /\ receiptSummary = None /\ checking = None
  /\ form = FALSE /\ note = None /\ edited = FALSE
  /\ late = FALSE /\ slid = FALSE /\ oldText = FALSE

-----------------------------------------------------------------------------
(* The server and the query cache                                           *)

\* the receipt is issued; later, its link is revoked and the next reader gets a new one
NewLink(a) ==
  /\ link[a] < MaxLinks
  /\ link' = [link EXCEPT ![a] = @ + 1]
  /\ UNCHANGED <<detail, fetching, view, selected, loop, batch, override, receipt, grant, ghosts>>

\* on selection, at intervals, when the lists say otherwise, by the button; a fetch
\* under way is dropped for a new one once there is a detail
Refetch(a) ==
  /\ a = selected
  /\ fetching[a] = None \/ detail[a] # None
  /\ fetching' = [fetching EXCEPT ![a] = Asked]
  /\ UNCHANGED <<link, detail, view, selected, loop, batch, override, receipt, grant, ghosts>>

ServeDetail(a) ==
  /\ fetching[a] = Asked
  /\ fetching' = [fetching EXCEPT ![a] = link[a]]
  /\ UNCHANGED <<link, detail, view, selected, loop, batch, override, receipt, grant, ghosts>>

\* the link in the detail of a, as the override it becomes
Heard(a, l) == IF l \in 1..MaxLinks THEN [of |-> a, link |-> l] ELSE None

DetailArrives(a) ==
  /\ fetching[a] \in 0..MaxLinks
  /\ detail' = [detail EXCEPT ![a] = fetching[a]]
  /\ fetching' = [fetching EXCEPT ![a] = None]
  /\ override' = IF a = selected /\ detail[a] # fetching[a] /\ fetching[a] # 0
                   THEN Heard(a, fetching[a])
                   ELSE override
  /\ UNCHANGED <<link, view, selected, loop, batch, receipt, grant, ghosts>>

DetailFails(a) ==
  /\ fetching[a] # None
  /\ fetching' = [fetching EXCEPT ![a] = None]
  /\ UNCHANGED <<link, detail, view, selected, loop, batch, override, receipt, grant, ghosts>>

-----------------------------------------------------------------------------
(* The selection                                                            *)

\* mutant: the override is left to the next selection
OverrideStays(a) == override

\* what the effects make of the override when a is selected: reset, then set again
OverrideFor(a) ==
  IF a = selected THEN override ELSE IF a = None THEN None ELSE Heard(a, detail[a])

Select(a) ==
  /\ selected' = a
  /\ override' = OverrideFor(a)

\* openAttestationDetail, openRecentAttestation; the summary of the receipt stays
OpenDetail(a) ==
  /\ Select(a)
  /\ view' = "detail" /\ batch' = None
  /\ receiptJson' = None /\ form' = FALSE
  /\ late' = (late /\ a = selected) /\ slid' = FALSE /\ oldText' = FALSE
  /\ UNCHANGED <<served, loop, receiptSummary, checking, note, edited>>

\* the list of a project is chosen
ChooseProject ==
  /\ view = "list"
  /\ Select(None)
  /\ receiptJson' = None
  /\ UNCHANGED <<served, view, loop, batch, receiptSummary, checking, grant, ghosts>>

\* the project is chosen in the form for new attestations, or leaves the list of
\* those that are active: the panel, if it is open, stays so
ProjectGone ==
  /\ selected # None
  /\ Select(None)
  /\ UNCHANGED <<served, view, loop, batch, receipt, grant, ghosts>>

\* the effect that selects the first row of the list
SelectFirst(a) ==
  /\ selected = None
  /\ Select(a)
  /\ slid' = (slid \/ view = "detail")
  /\ oldText' = (oldText \/ form)
  /\ UNCHANGED <<served, view, loop, batch, receipt, grant, late>>

ShowList ==
  /\ view' = "list" /\ batch' = None
  /\ UNCHANGED <<served, selected, loop, override, receipt, grant, ghosts>>

NewAttestation ==
  /\ view = "list"
  /\ view' = "new"
  /\ UNCHANGED <<served, selected, loop, batch, override, receipt, grant, ghosts>>

SubmitBatch ==
  /\ view = "new" /\ batch = None /\ ~loop
  /\ loop' = TRUE
  /\ UNCHANGED <<served, view, selected, batch, override, receipt, grant, ghosts>>

\* submitAttestation ends: the first that succeeded is selected, also when the form
\* was left meanwhile and the panel of another is open
BatchSubmitted(a, inForm) ==
  /\ loop /\ (inForm => view = "new" /\ batch = None)
  /\ loop' = FALSE
  /\ batch' = IF inForm THEN a ELSE batch
  /\ Select(a)
  /\ receiptJson' = None /\ receiptSummary' = None
  /\ oldText' = (oldText \/ form)
  /\ UNCHANGED <<served, view, checking, grant, late, slid>>

\* the effect that opens the detail when all of the batch are confirmed
BatchConfirmed ==
  /\ view = "new" /\ batch # None
  /\ Select(batch)
  /\ view' = "detail" /\ batch' = None
  /\ oldText' = (oldText \/ form)
  /\ UNCHANGED <<served, loop, receipt, grant, late, slid>>

-----------------------------------------------------------------------------
(* The panel; it is shown when its detail is loaded                         *)

Shown == view = "detail" /\ selected # None /\ detail[selected] # None

\* a part of the receipt is unfolded, which loads it unless one is there
LoadReceipt ==
  /\ Shown /\ detail[selected] # 0
  /\ receiptJson = None /\ receiptSummary = None /\ checking = None
  /\ checking' = [of |-> selected, link |-> Asked]
  /\ UNCHANGED <<served, view, selected, loop, batch, override, receiptJson, receiptSummary, grant,
                 ghosts>>

ServeReceipt ==
  /\ checking # None /\ checking.link = Asked
  /\ checking' = [checking EXCEPT !.link = link[checking.of]]
  /\ UNCHANGED <<served, view, selected, loop, batch, override, receiptJson, receiptSummary, grant,
                 ghosts>>

Older(a, l) == detail[a] \in 0..MaxLinks /\ l < detail[a]

ReceiptArrives ==
  /\ checking # None /\ checking.link # Asked
  /\ receiptJson' = checking.of /\ receiptSummary' = checking.of
  /\ override' = checking
  /\ late' = (late \/ view # "detail" \/ checking.of # selected
                \/ Older(checking.of, checking.link))
  /\ checking' = None
  /\ UNCHANGED <<served, view, selected, loop, batch, grant, slid, oldText>>

ReceiptFails ==
  /\ checking # None
  /\ checking' = None
  /\ UNCHANGED <<served, view, selected, loop, batch, override, receiptJson, receiptSummary, grant,
                 ghosts>>

\* toggleVerifierForm, the button over the list of verifiers
ToggleForm ==
  /\ Shown
  /\ form' = ~form
  /\ IF form THEN UNCHANGED <<note, edited, oldText>>
             ELSE note' = selected /\ edited' = FALSE /\ oldText' = FALSE
  /\ UNCHANGED <<served, view, selected, loop, batch, override, receipt, late, slid>>

\* the button in the place of an empty list: the text is the one that was left
OpenFormFromEmpty ==
  /\ Shown /\ ~form
  /\ form' = TRUE
  /\ oldText' = (note # None)
  /\ UNCHANGED <<served, view, selected, loop, batch, override, receipt, note, edited, late, slid>>

\* the email is typed: the text is written again unless it was edited
TypeEmail ==
  /\ Shown /\ form
  /\ note' = IF edited THEN note ELSE selected
  /\ oldText' = (oldText /\ edited)
  /\ UNCHANGED <<served, view, selected, loop, batch, override, receipt, form, edited, late, slid>>

TypeNote ==
  /\ Shown /\ form
  /\ edited' = TRUE
  /\ UNCHANGED <<served, view, selected, loop, batch, override, receipt, form, note, ghosts>>

\* createAccessGrant has succeeded
Granted ==
  /\ form
  /\ form' = FALSE /\ note' = None /\ edited' = FALSE
  /\ UNCHANGED <<served, view, selected, loop, batch, override, receipt, ghosts>>

-----------------------------------------------------------------------------
PanelNext ==
  \/ \E a \in Ids :
       \/ NewLink(a)
       \/ Refetch(a) \/ ServeDetail(a) \/ DetailArrives(a) \/ DetailFails(a)
       \/ OpenDetail(a) \/ SelectFirst(a)
       \/ \E inForm \in BOOLEAN : BatchSubmitted(a, inForm)
  \/ ChooseProject \/ ProjectGone \/ ShowList \/ NewAttestation
  \/ SubmitBatch \/ BatchConfirmed
  \/ LoadReceipt \/ ServeReceipt \/ ReceiptArrives \/ ReceiptFails
  \/ ToggleForm \/ OpenFormFromEmpty \/ TypeEmail \/ TypeNote \/ Granted

\* The panel shows the public link, the receipt and the message for the attestation
\* that is selected, and a link at least as new as that of the detail, whatever
\* batches, projects and rows were selected before.  Excepted are an answer that
\* comes late, a panel that stays open when its project goes or a batch opens it
\* with the form still open, and the form opened from the empty list.
PanelIsOfSelected ==
  Shown =>
    /\ override # None /\ ~late =>
         override.of = selected /\ override.link >= detail[selected]
    /\ receiptJson # None /\ ~late /\ ~slid => receiptJson = selected
    /\ form /\ note # None /\ ~oldText => note = selected
=============================================================================
