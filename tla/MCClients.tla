----------------------------- MODULE MCClients -----------------------------
(***************************************************************************)
(* The programs in the hands of the users: the command line tool, the page *)
(* of the verifier and the window of the desktop.  Each behaviour runs one *)
(* module, the focus, while the state of the others stays as it is.        *)
(***************************************************************************)
EXTENDS CliKeys, EvidencePackage, VerifierPage, DetailPanel, AttestationForm,
        ListViews, LookupResults, TextProofs, Submissions, TLC

CONSTANTS
  Focuses,                    \* the modules to run
  f1, f2, p1, p2, d1, d2      \* two files, two passages, the hashes of their windows

VARIABLE focus

mcVars == <<work, cliVars, packageVars, verifierVars, panelVars, formVars,
            listVars, lookupVars, textVars, submissionVars, focus>>

\* the texts have a window in common; the attestation holds a file, an image, a passage
MCWindowsOf == (p1 :> {d1, d2}) @@ (p2 :> {d2})
MCLeaves == ("whole_file" :> {f1}) @@ ("exact_image" :> {f2}) @@ ("content" :> {d1})

\* of each table, two kinds of rows
MCMarksUsed ==
  {{"active"}, {"confirmed"}, {"archived"}, {"pending"}, {"approved"}, {}, {"producer"},
   {"producer", "organization_admin"}, {"auth"}, {"attestation"}, {"claimed"}, {"access"}}

\* a document of two paragraphs, and one with a word of it written differently
MCText ==
  [words |-> << <<"ex", "ample">>, <<"well", "-", "known">>, <<"text", ".">>, <<"end">> >>,
   starts |-> {1, 4}]
MCDocuments ==
  {MCText, [words  |-> << <<"text">>, <<"end">>, <<"ex", "ample">>, <<"well", "known">> >>,
            starts |-> {1}]}

Busy == {h \in Handlers : work[h] # None}
Begun == \E h \in Handlers : work[h] = None /\ work'[h] # None
StartsAlone == Begun => Busy = {}

\* bounds: commands run at the same time while nothing has been set by hand, ended or
\* clobbered, and one at a time after that; keys end between commands
OneThing ==
  /\ Begun => (Busy = {} \/ (withdrawnKeys = {} /\ config.session /\ ~config.byHand))
  /\ Begun => ~clobbered
  /\ (work' = work /\ apiKey' # apiKey) => Busy = {}

\* bounds: commands meet in an empty folder, when every job has its bundle; the server
\* moves while one command waits for it, or between commands
OneFolder ==
  /\ (Begun /\ Busy # {}) =>
       folder.bundle = None /\ \A x \in Filters : export[x] # None => export[x].status = "completed"
  /\ (work' = work) => IF folder.bundle = None THEN Cardinality(Busy) <= 1 ELSE Busy = {}

\* bounds: one exception of the panel, one fetch, one link that is issued anew, while no
\* batch is sent and the form is closed; receipts are shown while no message has been
\* written, and no call begins with the form open
OnePanel ==
  LET exception == late \/ slid \/ oldText
  IN  /\ exception => ~exception'
      /\ Cardinality({a \in Ids : link'[a] = MaxLinks}) <= IF loop' \/ form' THEN 0 ELSE 1
      /\ Cardinality({a \in Ids : fetching'[a] # None}) <= 1
      /\ fetching' # fetching \/ checking' # checking \/ link' # link => ~form'
      /\ receiptSummary' # None => note' = None /\ ~form'

\* bounds: a second hashing or loop begins while nothing is attested; an entry that clears
\* the form is chosen before it is astray, or alone; records are edited and hashed, and
\* hashes typed, before anything else is done; the worker confirms between loops
OneBatch ==
  LET made == {n \in Titles : attested[n] # None}
  IN  /\ Begun => Busy = {} \/ made = {}
      /\ (entry' \notin {entry, "file"}) => (Busy = {} \/ ~astray)
      /\ record' # record \/ external' \notin {external, None} => Busy = {} /\ made = {}
      /\ recordHash' # recordHash => entry = "release"
      /\ Begun /\ entry # "release" => recordHash = None
      /\ (work' = work /\ attested' # attested) => Busy = {}

\* bounds: rows are narrowed by a text or by an option, and not while they are sorted by
\* name; a fetch brings all of them before that, or changes one
FewRows ==
  LET changed == {r \in Rows : sent'[r] # sent[r]}
  IN  /\ query' = None \/ filter' = "all"
      /\ sort'.key = "name" => query' = None /\ filter' = "all"
      /\ Cardinality(changed) > 1 => /\ \A r \in changed : None \in {sent[r], sent'[r]}
                                    /\ query = None /\ filter = "all" /\ at = 1

\* bounds: requests in flight ask one question; only a plain one is asked by two, with a
\* session or again, and of its answer the link ends and the PDF is fetched; minutes pass
\* after lookups
Plain(q) == q.kind = None /\ q.candidates = <<>>
OneQuestion ==
  LET asked == {work'[h].question : h \in {x \in Handlers : work'[x] # None}}
      followed == <<shared', rendered', pdfTry'>> # <<shared, rendered, pdfTry>>
  IN  /\ Begun => /\ linkPage = "none" /\ shared = "live" /\ ~rendered
                  /\ counted[minute] <= PerMinute
                  /\ Cardinality(asked) = 1
                  /\ \/ \A q \in asked : Plain(q)
                     \/ Busy = {} /\ answer = None /\ ~\E h \in Handlers : At(h, "count")'
                  /\ answer # None => answer.question \in asked
      /\ minute' # minute => counted[minute] > 0
      /\ linkPage' # linkPage \/ followed => Busy = {} /\ counted[1] = 0
      /\ followed => Plain(answer'.question)

\* bounds: one document is attested, of which a page is scanned when its lines are plain;
\* lines break in what is copied of it for the page or the command line, in the same place
\* if in both; of the other document the page alone is asked
OneText ==
  /\ source' # source => source'.doc = MCText /\ (source'.scanned # {} => source'.layout.line = None)
  /\ copied' # copied =>
       /\ copied'.asker = "sdk" => copied'.layout.line = None
       /\ copied'.doc # MCText => copied'.asker = "page" /\ copied'.layout.line = None
       /\ copied'.layout.line # None =>
            source.layout.page = 0 /\ source.layout.line \in {None, copied'.layout.line}

\* bounds: an odd attestation is alone; an attempt is repaired once, of one attestation
OneOddity ==
  LET made == {x \in Slots : submission'[x] # None}
      plain == {x \in made : /\ submission'[x].label.form = "plain"
                             /\ submission'[x].attempts[1].source = None}
      repaired == {x \in made : Len(submission'[x].attempts) > 1}
  IN  /\ Cardinality(made) > 1 => plain = made /\ repaired = {}
      /\ \A x \in repaired : Len(submission'[x].attempts) = 2

MCInit ==
  /\ focus \in Focuses
  /\ NoWork
  /\ CliInit /\ PackageInit
  /\ VerifierInit /\ (focus = "verifier" \/ access)
  /\ PanelInit
  /\ FormInit /\ record = CHOOSE r \in Records : TRUE   \* the versions are alike
  /\ ListInit /\ (focus = "lists" \/ table = Attestations)
  /\ LookupInit /\ (focus = "lookups" \/ leaves = <<>>)
  /\ TextInit
  /\ SubmissionInit /\ (focus = "submissions" \/ tenantPlan = "free")

MCNext ==
  /\ \/ /\ focus = "keys" /\ CliNext /\ OneThing
        /\ UNCHANGED <<packageVars, verifierVars, panelVars, formVars, listVars, lookupVars, textVars, submissionVars>>
     \/ /\ focus = "package" /\ PackageNext /\ OneFolder
        /\ UNCHANGED <<cliVars, verifierVars, panelVars, formVars, listVars, lookupVars, textVars, submissionVars>>
     \/ /\ focus = "verifier" /\ VerifierNext
        /\ UNCHANGED <<cliVars, packageVars, panelVars, formVars, listVars, lookupVars, textVars, submissionVars>>
     \/ /\ focus = "panel" /\ PanelNext /\ OnePanel
        /\ UNCHANGED <<work, cliVars, packageVars, verifierVars, formVars, listVars, lookupVars, textVars, submissionVars>>
     \/ /\ focus = "form" /\ FormNext /\ OneBatch
        /\ UNCHANGED <<cliVars, packageVars, verifierVars, panelVars, listVars, lookupVars, textVars, submissionVars>>
     \/ /\ focus = "lists" /\ ListNext /\ FewRows
        /\ UNCHANGED <<work, cliVars, packageVars, verifierVars, panelVars, formVars, lookupVars, textVars, submissionVars>>
     \/ /\ focus = "lookups" /\ LookupNext /\ OneQuestion
        /\ UNCHANGED <<cliVars, packageVars, verifierVars, panelVars, formVars, listVars,
                      textVars, submissionVars>>
     \/ /\ focus = "texts" /\ TextNext /\ OneText
        /\ UNCHANGED <<work, cliVars, packageVars, verifierVars, panelVars, formVars,
                      listVars, lookupVars, submissionVars>>
     \/ /\ focus = "submissions" /\ SubmissionNext /\ OneOddity
        /\ UNCHANGED <<work, cliVars, packageVars, verifierVars, panelVars, formVars,
                      listVars, lookupVars, textVars>>
  /\ UNCHANGED focus

\* the handlers are alike, and the members of a set: none is ever chosen among others;
\* modules share them, which keeps the permutations few
MCSymmetry == Permutations(Handlers) \cup Permutations(Ids) \cup Permutations(Sites)

MCSpec == MCInit /\ [][MCNext]_mcVars

\* What each program holds, in its files, its window and its tasks, is what its module
\* says it may hold; that of the programs out of focus does not change.
MCTypeOK ==
  CASE focus = "keys"        -> WorkIn(Command) /\ CliTypeOK
    [] focus = "package"     -> WorkIn(PackageTask) /\ PackageTypeOK
    [] focus = "verifier"    -> WorkIn(VerifierTask) /\ VerifierTypeOK
    [] focus = "panel"       -> PanelTypeOK
    [] focus = "form"        -> WorkIn(FormTask) /\ FormTypeOK
    [] focus = "lists"       -> ListTypeOK
    [] focus = "lookups"     -> WorkIn(LookupStep) /\ LookupTypeOK
    [] focus = "texts"       -> TextTypeOK
    [] focus = "submissions" -> SubmissionTypeOK
=============================================================================
