----------------------------- MODULE GithubLake -----------------------------
(***************************************************************************)
(* The GitHub Archive pipeline: ingest/github_archive.py copies the hour   *)
(* files of one UTC day to immutable objects and puts the manifest last;   *)
(* the EMR job overwrites the day's landing partition and merges events,   *)
(* actors and repositories.  Days are processed in any order and a task    *)
(* may be killed between any two writes.                                   *)
(*                                                                         *)
(* An archive file is a set of events [id, actor, at].  An actor stands    *)
(* for a repository too: both are merged by the same rule.  source_hour    *)
(* orders the files; a file is captured once, so ingested_at and the file  *)
(* name never decide between two records of an event.                      *)
(***************************************************************************)
EXTENDS Lake, Naturals, FiniteSets

CONSTANTS Archive,       \* day |-> hour |-> the events of the published file
          GithubAttempts \* bound: task attempts

VARIABLES published,     \* <<day, hour>> files the archive serves
          githubTask,    \* the running task, or None
          githubTries,
          objects,       \* <<day, hour>> captured objects
          complete,      \* days with a manifest
          raw,           \* events_raw: the landing partition of each day
          events, actors, \* current rows by event id and by actor
          merged         \* days whose job has completed

githubVars == <<published, githubTask, githubTries, objects, complete, raw, events, actors,
                merged>>

ArchiveDays == DOMAIN Archive
Hours(d) == DOMAIN Archive[d]
AllEvents == UNION {Archive[d][h] : d \in ArchiveDays, h \in UNION {Hours(x) : x \in ArchiveDays}}
Actors == {e.actor : e \in AllEvents}
Ids == {e.id : e \in AllEvents}

\* The landing rows of a day: each event under the hour of its file.
EventRow(e, d, h) == [id |-> e.id, actor |-> e.actor, at |-> e.at, hour |-> <<d, h>>]
Frame(d) == UNION {{EventRow(e, d, h) : e \in Archive[d][h]} : h \in Hours(d)}

\* Days, hours, times and ids are ordered; a day is finite and its rows are present.
ASSUME GithubAssumption ==
    \A d \in ArchiveDays :
       /\ d \in Nat /\ Hours(d) \subseteq Nat /\ IsFiniteSet(Frame(d))
       /\ \A x \in Frame(d) : x # None /\ x.at \in Nat /\ x.id \in Nat

GithubInit ==
    /\ published = {} /\ githubTask = None /\ githubTries = 0
    /\ objects = {} /\ complete = {} /\ merged = {}
    /\ raw = [d \in ArchiveDays |-> {}]
    /\ events = [i \in Ids |-> None] /\ actors = [a \in Actors |-> None]

PublishHour(d, h) ==
    /\ <<d, h>> \notin published
    /\ published' = published \cup {<<d, h>>}
    /\ UNCHANGED <<githubTask, githubTries, objects, complete, raw, events, actors, merged>>

BeginGithub(task) ==
    /\ githubTask = None /\ githubTries + 1 <= GithubAttempts
    /\ githubTries' = githubTries + 1 /\ githubTask' = task
    /\ UNCHANGED <<published, objects, complete, raw, events, actors, merged>>

KillGithub ==
    /\ githubTask # None
    /\ githubTask' = None
    /\ UNCHANGED <<published, githubTries, objects, complete, raw, events, actors, merged>>

(***************************************************************************)
(* Capture.                                                                *)
(***************************************************************************)
Missing(d) == {h \in Hours(d) : <<d, h>> \notin objects}

\* require_available: nothing is transferred while a missing hour is unpublished.
CaptureArchive(d) ==
    /\ \A h \in Missing(d) : <<d, h>> \in published
    /\ BeginGithub([name |-> "capture", day |-> d, step |-> 0])

\* The pool's workers transfer the missing hours in any order.
_download(h) ==
    /\ githubTask.name = "capture" /\ h \in Missing(githubTask.day)
    /\ objects' = objects \cup {<<githubTask.day, h>>}
    /\ UNCHANGED <<published, githubTask, githubTries, complete, raw, events, actors, merged>>

FinishArchive ==
    /\ githubTask.name = "capture" /\ Missing(githubTask.day) = {}
    /\ complete' = complete \cup {githubTask.day} /\ githubTask' = None
    /\ UNCHANGED <<published, githubTries, objects, raw, events, actors, merged>>

(***************************************************************************)
(* Publication.                                                            *)
(***************************************************************************)

\* _deduplicate_exact_events: one event id with two distinct records is refused.
Ambiguous(frame) == \E x, y \in frame : x.id = y.id /\ x # y

Later(h, k) == h[1] > k[1] \/ (h[1] = k[1] /\ h[2] > k[2])

\* Mutant: the merge updates every match.
NewerAlways(x, y) == TRUE

\* The guard of the actor merge: struct(last_observed_at, last_event_id).
Newer(x, y) == x.at > y.at \/ (x.at = y.at /\ x.id > y.id)

\* max_by(..., struct(occurred_at, event_id)) over one day's rows.
Newest(rows) ==
    CHOOSE x \in rows : \A y \in rows : x.at > y.at \/ (x.at = y.at /\ x.id >= y.id)

\* The job validates the whole day before it overwrites the landing partition.
PublishArchive(d) ==
    /\ d \in complete /\ ~Ambiguous(Frame(d))
    /\ BeginGithub([name |-> "publish", day |-> d, step |-> 1])

Overwrite(d) == [raw EXCEPT ![d] = Frame(d)]

MergeEvents(d) ==
    [i \in Ids |->
        LET new == {x \in raw[d] : x.id = i}
        IN  IF new = {} THEN events[i]
            ELSE LET x == CHOOSE x \in new : TRUE
                 IN  IF events[i] = None THEN x
                     ELSE IF Later(x.hour, events[i].hour) THEN x ELSE events[i]]

MergeActors(d) ==
    [a \in Actors |->
        LET new == {x \in raw[d] : x.actor = a}
        IN  IF new = {} THEN actors[a]
            ELSE IF actors[a] = None THEN Newest(new)
            ELSE IF Newer(Newest(new), actors[a]) THEN Newest(new) ELSE actors[a]]

CommitArchive ==
    LET d == githubTask.day
        step == githubTask.step
    IN  /\ githubTask.name = "publish"
        /\ raw' = IF step = 1 THEN Overwrite(d) ELSE raw
        /\ events' = IF step = 2 THEN MergeEvents(d) ELSE events
        /\ actors' = IF step = 3 THEN MergeActors(d) ELSE actors
        /\ githubTask' = IF step = 3 THEN None ELSE [githubTask EXCEPT !.step = step + 1]
        /\ merged' = IF step = 3 THEN merged \cup {d} ELSE merged
        /\ UNCHANGED <<published, githubTries, objects, complete>>

GithubTaskStep ==
    /\ githubTask # None
    /\ (\E h \in Hours(githubTask.day) : _download(h)) \/ FinishArchive \/ CommitArchive

GithubNext ==
    \/ \E d \in ArchiveDays : \E h \in Hours(d) : PublishHour(d, h)
    \/ \E d \in ArchiveDays : CaptureArchive(d) \/ PublishArchive(d)
    \/ KillGithub \/ GithubTaskStep

-----------------------------------------------------------------------------
\* The current row of an actor or a repository is a landed observation, and no completed
\* day holds a later one; an event's row comes from its latest archive file.  Days may be
\* published in any order, killed half way and published again.
CurrentIsLatest ==
    LET seen == UNION {raw[d] : d \in ArchiveDays}
        settled == UNION {raw[d] : d \in merged}
    IN  /\ \A a \in Actors : actors[a] # None => actors[a] \in seen
        /\ \A x \in settled :
              /\ LET row == actors[x.actor]
                 IN  row.at > x.at \/ (row.at = x.at /\ row.id >= x.id)
              /\ ~Later(x.hour, events[x.id].hour)
=============================================================================
