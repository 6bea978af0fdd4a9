------------------------------ MODULE ArxivLake ------------------------------
(***************************************************************************)
(* The arXiv pipeline: ingest/arxiv.py captures one OAI datestamp day as   *)
(* an immutable snapshot, and the EMR job overwrites the day's landing     *)
(* partition and rewrites the papers it changed, one commit after the      *)
(* other.  Days are captured and published in any order, a task may be     *)
(* killed between any two commits, and papers change while it runs.        *)
(*                                                                         *)
(* A paper's metadata is a version number; it has one author and one       *)
(* category row, which carry that version.  An OAI page lists one paper.   *)
(***************************************************************************)
EXTENDS Lake, Naturals, Sequences, FiniteSets, SequencesExt

CONSTANTS Papers, Days,
          MaxVersions,   \* bound: mutations of one paper
          ArxivAttempts  \* bound: task attempts

\* An OAI record: a paper's metadata, or its deletion, under a datestamp.
Records == [paper : Papers, stamp : 1..Days, version : 1..MaxVersions, deleted : BOOLEAN]

ASSUME ArxivAssumption ==
    /\ Days \in Nat \ {0} /\ MaxVersions \in Nat /\ IsFiniteSet(Papers)
    /\ None \notin Records

VARIABLES oai,           \* the provider's current record of each paper, or None
          day,           \* the provider's date
          arxivTask,     \* the running task, or NoTask
          arxivTries,
          manifests,     \* terminal manifest of each datestamp day, or None
          landing,       \* oai_records_raw and oai_publications of each day
          papers, authors, categories

arxivVars == <<oai, day, arxivTask, arxivTries, manifests, landing, papers, authors,
               categories>>

NoTask == [name |-> "none", day |-> 0, step |-> 0, data |-> {}]
PageOrder == SetToSeq(Papers)

ArxivInit ==
    /\ oai = [p \in Papers |-> None] /\ day = 1
    /\ arxivTask = NoTask /\ arxivTries = 0
    /\ manifests = [d \in 1..Days |-> None]
    /\ landing = [d \in 1..Days |-> [records |-> {}, publication |-> None]]
    /\ papers = [p \in Papers |-> None]
    /\ authors = [p \in Papers |-> <<>>] /\ categories = [p \in Papers |-> <<>>]

\* arXiv publishes, revises or deletes a paper under today's datestamp.
Mutate(p) ==
    LET version == IF oai[p] = None THEN 1 ELSE oai[p].version + 1
    IN  /\ version <= MaxVersions /\ arxivTask.name # "publish"
        /\ \E deleted \in BOOLEAN :
              oai' = [oai EXCEPT ![p] = [paper |-> p, stamp |-> day, version |-> version,
                                         deleted |-> deleted]]
        /\ UNCHANGED <<day, arxivTask, arxivTries, manifests, landing, papers, authors,
                       categories>>

Midnight ==
    /\ day < Days /\ arxivTask.name # "publish"
    /\ day' = day + 1
    /\ UNCHANGED <<oai, arxivTask, arxivTries, manifests, landing, papers, authors,
                   categories>>

BeginArxiv(task) ==
    /\ arxivTask = NoTask /\ arxivTries < ArxivAttempts
    /\ arxivTries' = arxivTries + 1 /\ arxivTask' = task
    /\ UNCHANGED <<oai, day, manifests, landing, papers, authors, categories>>

KillArxiv ==
    /\ arxivTask # NoTask
    /\ arxivTask' = NoTask
    /\ UNCHANGED <<oai, day, arxivTries, manifests, landing, papers, authors, categories>>

(***************************************************************************)
(* Capture: a completed capture is reused, otherwise the pages are read    *)
(* one by one and the manifest that makes them visible is put last.        *)
(***************************************************************************)
_reuse_capture(d) == manifests[d] # None

CaptureDay(d) ==
    /\ d <= day /\ ~_reuse_capture(d)
    /\ BeginArxiv([name |-> "capture", day |-> d, step |-> 1, data |-> {}])

_harvest ==
    LET record == oai[PageOrder[arxivTask.step]]
        listed == IF record = None THEN FALSE ELSE record.stamp = arxivTask.day
    IN  /\ arxivTask.name = "capture" /\ arxivTask.step <= Len(PageOrder)
        /\ arxivTask' = [arxivTask EXCEPT !.step = @ + 1,
                                          !.data = IF listed THEN @ \cup {record} ELSE @]
        /\ UNCHANGED <<oai, day, arxivTries, manifests, landing, papers, authors, categories>>

PutManifest ==
    /\ arxivTask.name = "capture" /\ arxivTask.step = Len(PageOrder) + 1
    /\ manifests' = [manifests EXCEPT ![arxivTask.day] = arxivTask.data]
    /\ arxivTask' = NoTask
    /\ UNCHANGED <<oai, day, arxivTries, landing, papers, authors, categories>>

(***************************************************************************)
(* Publication.                                                            *)
(***************************************************************************)
\* Mutant: every record that differs is pending.
PendingDifferent(d) ==
    {r \in landing[d].records :
        IF papers[r.paper] = None THEN TRUE ELSE r.version # papers[r.paper].version}

\* arxiv_pending: the day's records that are newer than the published paper.
Pending(d) ==
    {r \in landing[d].records :
        IF papers[r.paper] = None THEN TRUE
        ELSE \/ r.stamp > papers[r.paper].stamp
             \/ r.stamp = papers[r.paper].stamp /\ r.version # papers[r.paper].version}

\* Mutant: the papers are merged before their children are rewritten.
PAPERS_FIRST ==
    <<"records", "publication", "pending", "papers", "delete_authors", "delete_categories",
      "append_authors", "append_categories">>

\* The commits of arxiv/landing.publish and arxiv/curated.publish, in their order.
\* "pending" commits nothing: the view is cached, and without rows the job is done.
ARXIV_COMMITS ==
    <<"records", "publication", "pending", "delete_authors", "delete_categories",
      "append_authors", "append_categories", "papers">>

PublishDay(d) ==
    /\ manifests[d] # None
    /\ LET current == landing[d].publication = manifests[d]
       IN  BeginArxiv([name |-> "publish", day |-> d, step |-> IF current THEN 3 ELSE 1,
                       data |-> {}])

Cleared(children) ==
    [p \in Papers |-> IF \E r \in arxivTask.data : r.paper = p THEN <<>> ELSE children[p]]

Appended(children) ==
    [p \in Papers |->
        children[p] \o SetToSeq({r.version : r \in {r \in arxivTask.data :
                                                       r.paper = p /\ ~r.deleted}})]

Merged ==
    [p \in Papers |-> IF \E r \in arxivTask.data : r.paper = p
                      THEN CHOOSE r \in arxivTask.data : r.paper = p ELSE papers[p]]

CommitDay ==
    LET d == arxivTask.day
        commit == ARXIV_COMMITS[arxivTask.step]
        last == \/ arxivTask.step = Len(ARXIV_COMMITS)
                \/ commit = "pending" /\ Pending(d) = {}
    IN  /\ arxivTask.name = "publish"
        /\ landing' =
              CASE commit = "records" -> [landing EXCEPT ![d].records = manifests[d]]
                [] commit = "publication" -> [landing EXCEPT ![d].publication = manifests[d]]
                [] OTHER -> landing
        /\ authors' = CASE commit = "delete_authors" -> Cleared(authors)
                        [] commit = "append_authors" -> Appended(authors)
                        [] OTHER -> authors
        /\ categories' = CASE commit = "delete_categories" -> Cleared(categories)
                           [] commit = "append_categories" -> Appended(categories)
                           [] OTHER -> categories
        /\ papers' = IF commit = "papers" THEN Merged ELSE papers
        /\ arxivTask' = IF last THEN NoTask
                        ELSE [arxivTask EXCEPT
                                !.step = @ + 1,
                                !.data = IF commit = "pending" THEN Pending(d) ELSE @]
        /\ UNCHANGED <<oai, day, arxivTries, manifests>>

ArxivNext ==
    \/ \E p \in Papers : Mutate(p)
    \/ Midnight \/ KillArxiv
    \/ \E d \in 1..Days : CaptureDay(d) \/ PublishDay(d)
    \/ _harvest \/ PutManifest \/ CommitDay

-----------------------------------------------------------------------------
Children(p) ==
    IF papers[p] = None THEN <<>>
    ELSE IF papers[p].deleted THEN <<>> ELSE <<papers[p].version>>

\* A paper's authors and categories are those of its papers row, exactly once each, or a
\* landed day still holds that paper as pending, so that publishing the day again repairs
\* it: five commits, a kill between any two of them, and other days published in between.
ChildrenMatchPapers ==
    \A p \in Papers :
        \/ authors[p] = Children(p) /\ categories[p] = Children(p)
        \/ \E d \in 1..Days : \E r \in Pending(d) : r.paper = p

\* A published paper never goes back to an older datestamp or version, whatever order the
\* days are published and retried in.
PapersMoveForward ==
    [][\A p \in Papers : papers[p] # None /\ papers'[p] # papers[p] =>
          papers'[p].stamp >= papers[p].stamp /\ papers'[p].version > papers[p].version]_papers
=============================================================================
