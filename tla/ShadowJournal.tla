---------------------------- MODULE ShadowJournal ----------------------------
(***************************************************************************)
(* arbitration/journal.py, publication.py, recovery.py and audit.py with   *)
(* the capture service that drives them (capture/stream.py, cli.py).  The  *)
(* live journal decides each clock one watermark behind receipt time, is   *)
(* published through the spool when the process ends cleanly, and is later *)
(* audited against, or rebuilt from, the certified capture of the day.     *)
(*                                                                         *)
(* The decision pipeline is deterministic (module TradingDay), so a record *)
(* of the journal is represented by what it is a function of: its clock,   *)
(* the rows applied before it and whether it is marked CAPTURE_GAP.        *)
(***************************************************************************)
EXTENDS Integers, Sequences, FiniteSets, SequencesExt

CONSTANTS Clocks,        \* decision_times, ascending
          Cadence,       \* the watermark delay
          Warmup, StaleAfter,
          Opening, Closing, \* the trading window
          Deadline,      \* the end of the capture window
          None,
          MaxTime, MaxRows, MaxSessions, MaxProcesses  \* bounds

Rows == [ses : Nat \X Nat, seq : Nat, at : Nat]

\* A connected session: its envelopes so far and the provider's last heartbeat.
Segments == [id : Nat \X Nat, connected : Nat, hb : Nat \cup {None}, rows : Seq(Rows)]

\* A day has more than one clock: its windows are hours long and a cadence is at most
\* a minute and a warm-up at least a second (configuration.py lines 211 and 213).
ASSUME JournalAssumption ==
    /\ Clocks \in Seq(Nat) /\ Len(Clocks) >= 2
    /\ \A i, k \in DOMAIN Clocks : i < k => Clocks[i] < Clocks[k]
    /\ Opening <= Clocks[1] /\ Clocks[Len(Clocks)] <= Closing /\ Closing <= Deadline
    /\ Opening \in Nat /\ Closing \in Nat /\ Deadline \in Nat
    /\ Cadence \in Nat /\ Warmup \in Nat \ {0}
    /\ None \notin Nat /\ None \notin Segments

VARIABLES now,
          proc,    \* the capture command: "off", "run", "closing" or "publish"
          procs,
          cur,     \* the connected session, or None
          late,    \* a message stamped by the callback and not queued yet, or None
          queue,   \* the receiver's queue
          j,       \* the live ShadowArbitrationJournal
          uris,    \* sessions whose terminal manifest URI the command holds
          day,     \* terminal manifests of the day, in order
          staged,  \* objects of the journal in the spool, in order
          store,   \* the journal's objects in S3: object |-> body
          job,     \* ensure-shadow-journal: "idle", the object it puts next, or an outcome
          missed   \* a row of an earlier clock came after the last clock and was dropped

vars == <<now, proc, procs, cur, late, queue, j, uris, day, staged, store, job, missed>>

\* Mutant: the manifest is published before the journals it commits.
MANIFEST_FIRST == <<"manifest", "candidate", "arbitration">>

\* publication.py: the journals before their commit marker.
OBJECTS == <<"candidate", "arbitration", "manifest">>
CLEAN == {"completed", "shutdown"}

-----------------------------------------------------------------------------
(***************************************************************************)
(* ShadowArbitrationJournal.  A failed or closed journal ignores every     *)
(* call (_safe); an exception in one closes it for good (_fail).           *)
(***************************************************************************)
NewJournal == [next |-> 1, pending |-> <<>>, lastIn |-> None, applied |-> {}, open |-> None,
               gaps |-> {}, ids |-> <<>>, first |-> None, failed |-> FALSE, manifest |-> None,
               log |-> {}]

Failed(jj) == [jj EXCEPT !.failed = TRUE]
Safe(jj, op) == IF jj.failed \/ jj.manifest # None THEN jj ELSE op

connected(jj, id, at) ==
    Safe(jj, IF \/ jj.first = None /\ at > Clocks[1]
                \/ id \in Range(jj.ids)
                \/ jj.open # None /\ at < jj.open
             THEN Failed(jj)
             ELSE [jj EXCEPT !.first = IF @ = None THEN at ELSE @, !.ids = Append(@, id),
                             !.open = None,
                             !.gaps = IF jj.open # None /\ at > jj.open
                                      THEN @ \cup {[start |-> jj.open, end |-> at]} ELSE @])

ingest(jj, rows) ==
    LET all == (IF jj.lastIn = None THEN <<>> ELSE <<jj.lastIn>>)
               \o [i \in DOMAIN rows |-> rows[i].at]
    IN  Safe(jj, IF jj.next > Len(Clocks) \/ rows = <<>> THEN jj
                 ELSE IF \E i \in 1..(Len(all) - 1) : all[i + 1] < all[i] THEN Failed(jj)
                 ELSE [jj EXCEPT !.pending = @ \o rows, !.lastIn = all[Len(all)]])

_gap_affected(jj, t) ==
    \/ jj.open # None /\ t >= jj.open
    \/ \E g \in jj.gaps : g.start <= t /\ t < g.end + Warmup

LastDecided(jj) == IF jj.next = 1 THEN None ELSE Clocks[jj.next - 1]

\* Mutant: the feature engine takes a row older than its last decision.
RefusesNothing(jj, row) == FALSE

\* FeatureEngine.apply refuses a row older than the last decision, not one as old.
RefusesRow(jj, row) == LastDecided(jj) # None /\ row.at < LastDecided(jj)

\* The front of the queue, popped while it is not after the cutoff.
Due(pending, cutoff) ==
    LET n == CHOOSE k \in 0..Len(pending) :
               /\ \A i \in 1..k : pending[i].at <= cutoff
               /\ k < Len(pending) => pending[k + 1].at > cutoff
    IN  SubSeq(pending, 1, n)

_apply_until(jj, cutoff) ==
    LET due == Due(jj.pending, cutoff)
    IN  IF \E r \in Range(due) : RefusesRow(jj, r) THEN Failed(jj)
        ELSE [jj EXCEPT !.applied = @ \cup Range(due),
                        !.pending = SubSeq(@, Len(due) + 1, Len(@))]

\* One clock of _advance.
Decided(jj, t) ==
    LET a == _apply_until(jj, t)
    IN  IF jj.failed \/ a.failed THEN Failed(jj)
        ELSE [a EXCEPT !.next = @ + 1,
                       !.log = @ \cup {[at |-> t, rows |-> a.applied,
                                        gap |-> _gap_affected(a, t)]}]

\* The loop of _advance: the journal after its n-th clock, decided if it was the next.
DecidedUpTo(jj, cutoff) ==
    LET d[n \in 0..Len(Clocks)] ==
          IF n = 0 THEN jj
          ELSE IF d[n - 1].next = n /\ Clocks[n] <= cutoff THEN Decided(d[n - 1], Clocks[n])
          ELSE d[n - 1]
    IN  d

_advance(jj, cutoff) ==
    LET d == DecidedUpTo(jj, cutoff)[Len(Clocks)]
    IN  IF d.failed THEN d
        ELSE IF d.next > Len(Clocks) THEN [d EXCEPT !.pending = <<>>]
        ELSE _apply_until(d, cutoff)

advance(jj, at) == Safe(jj, _advance(jj, at - Cadence))

disconnected(jj, at, unavailable) ==
    Safe(jj, _advance([jj EXCEPT !.open = IF unavailable /\ @ = None THEN at ELSE @], at))

\* Mutant: the manifest is built from whatever URIs there are.
NamesNothing(jj, manifests) == jj.ids = <<>>

\* validate_manifest: one capture manifest for every session, in order.
Misnamed(jj, manifests) == jj.ids = <<>> \/ manifests # jj.ids

\* close: every clock is needed, and one capture manifest for every session.
close(jj, at, manifests, by) ==
    LET a == _advance(jj, at)
    IN  Safe(jj, IF \/ a.failed \/ a.next <= Len(Clocks) \/ a.first = None
                    \/ Misnamed(a, manifests)
                 THEN Failed(a)
                 ELSE [a EXCEPT !.manifest = [log |-> a.log, ids |-> a.ids, uris |-> manifests,
                                              first |-> a.first, completed |-> at, by |-> by]])

Body(manifest, object) == IF object = "manifest" THEN manifest ELSE manifest.log

-----------------------------------------------------------------------------
\* reader.py: what the terminal manifests of the day say.

covered_until(s) ==
    IF s.kind = "stale" THEN IF s.hb = None THEN s.connected ELSE s.hb ELSE s.disconnected

CaptureGaps(sessions) ==
    {[start |-> covered_until(sessions[i]), end |-> sessions[i + 1].connected] :
        i \in {k \in 1..(Len(sessions) - 1) :
                  covered_until(sessions[k]) < sessions[k + 1].connected}}

CaptureRows(sessions) == UNION {Range(sessions[i].rows) : i \in DOMAIN sessions}

\* The sessions of a set, in the day's order.
Among(sessions, S) ==
    LET f[n \in 0..Len(sessions)] ==
          IF n = 0 THEN <<>>
          ELSE IF sessions[n] \in S THEN Append(f[n - 1], sessions[n]) ELSE f[n - 1]
    IN  f[Len(sessions)]

\* certify_market_day: the one full session, or the relevant ones when together they
\* cover the window; <<>> when the day is refused.  A row beyond the coverage of its
\* session stops the replay.
Certified(sessions) ==
    LET ready == {s \in Range(sessions) : s.hb # None}
        full == Among(sessions, {s \in ready : /\ s.connected <= Opening
                                              /\ covered_until(s) >= Closing})
        relevant == Among(sessions, {s \in ready : /\ s.connected <= Closing
                                                  /\ covered_until(s) >= Opening})
        chosen == IF full # <<>> THEN full ELSE relevant
    IN  IF \/ Len(full) > 1 \/ relevant = <<>>
           \/ relevant[1].connected > Opening
           \/ \A i \in DOMAIN relevant : covered_until(relevant[i]) < Closing
           \/ \E i \in DOMAIN chosen : \E r \in Range(chosen[i].rows) :
                 r.at > covered_until(chosen[i])
        THEN <<>> ELSE chosen

\* replay_features and the rest of the audit's replay: every row received by the clock.
AuditLog(sessions) ==
    {[at |-> t, rows |-> {r \in CaptureRows(sessions) : r.at <= t},
      gap |-> \E g \in CaptureGaps(sessions) : g.start <= t /\ t < g.end + Warmup] :
        t \in Range(Clocks)}

\* audit_shadow_journal with certified evidence: the sessions and clocks the manifest
\* declares; beyond the certified sessions only connections after the close.
LineageMatches(manifest, certified) ==
    LET declared == Among(day, {s \in Range(day) : s.id \in Range(manifest.uris)})
    IN  /\ [i \in DOMAIN declared |-> declared[i].id] = manifest.ids
        /\ declared # <<>> /\ declared[1].connected = manifest.first
        /\ manifest.first <= Clocks[1] /\ manifest.completed >= Clocks[Len(Clocks)]
        /\ \A i \in DOMAIN declared : declared[i].published <= manifest.completed
        /\ Range(certified) \subseteq Range(declared)
        /\ \A s \in Range(declared) \ Range(certified) : s.connected > Closing

AuditPasses(manifest, certified) ==
    /\ DOMAIN store = Range(OBJECTS)
    /\ store["candidate"] = manifest.log /\ store["arbitration"] = manifest.log
    /\ LineageMatches(manifest, certified)
    /\ manifest.log = AuditLog(certified)

\* recovery.py, _replay_journal: the journal of the certified sessions.
\* All rows of one instant are ingested before the journal moves past it.
ReplayRow(jj, rows, n) ==
    LET a == ingest(jj, <<rows[n]>>)
    IN  IF n < Len(rows) /\ rows[n + 1].at = rows[n].at THEN a
        ELSE advance(a, rows[n].at + Cadence)

ReplayRows(jj, rows) ==
    LET r[n \in 0..Len(rows)] == IF n = 0 THEN jj ELSE ReplayRow(r[n - 1], rows, n)
    IN  r[Len(rows)]

ReplaySession(jj, s) ==
    LET unavailable == s.kind \notin CLEAN
    IN  disconnected(ReplayRows(connected(jj, s.id, s.connected), s.rows),
                     IF unavailable THEN covered_until(s) ELSE s.disconnected, unavailable)

Replayed(sessions) ==
    LET r[n \in 0..Len(sessions)] ==
          IF n = 0 THEN NewJournal ELSE ReplaySession(r[n - 1], sessions[n])
    IN  r[Len(sessions)]

_replay_journal(sessions) ==
    LET published == {sessions[i].published : i \in DOMAIN sessions}
    IN  close(Replayed(sessions), CHOOSE t \in published : \A u \in published : u <= t,
              [i \in DOMAIN sessions |-> sessions[i].id], "recovery")

-----------------------------------------------------------------------------
Init ==
    /\ now = 0 /\ proc = "run" /\ procs = 1 /\ cur = None /\ late = None /\ queue = <<>>
    /\ j = NewJournal /\ uris = <<>> /\ day = <<>> /\ staged = <<>>
    /\ store = <<>> /\ job = "idle" /\ missed = FALSE

\* Time passes, and the server's heartbeat may come with it.
Tick(beat) ==
    /\ now < MaxTime /\ now' = now + 1
    /\ beat => cur # None
    /\ cur' = IF beat THEN [cur EXCEPT !.hb = now + 1] ELSE cur
    /\ UNCHANGED <<proc, procs, late, queue, j, uris, day, staged, store, job, missed>>

\* capture-stream again: a fresh journal in a temporary directory.
Start ==
    /\ proc = "off" /\ procs < MaxProcesses /\ now < Deadline
    /\ proc' = "run" /\ procs' = procs + 1 /\ j' = NewJournal /\ uris' = <<>>
    /\ UNCHANGED <<now, cur, late, queue, day, staged, store, job, missed>>

\* capture_stream_resilient: the next transport segment, at least a second after the last.
Connect ==
    /\ proc = "run" /\ cur = None /\ now < Deadline /\ Len(day) < MaxSessions
    /\ \A i \in DOMAIN day : day[i].disconnected < now
    /\ LET id == <<procs, Len(day) + 1>>
       IN  /\ cur' = [id |-> id, connected |-> now, hb |-> None, rows |-> <<>>]
           /\ j' = connected(j, id, now)
    /\ UNCHANGED <<now, proc, procs, late, queue, uris, day, staged, store, job, missed>>

\* _Receiver.record reads the clock, then queues the envelope.
Stamp ==
    /\ cur # None /\ late = None /\ Cardinality(CaptureRows(day)) + Len(cur.rows) + Len(queue) < MaxRows
    /\ late' = now
    /\ UNCHANGED <<now, proc, procs, cur, queue, j, uris, day, staged, store, job, missed>>

Enqueue ==
    /\ late # None
    /\ queue' = Append(queue, [ses |-> cur.id, seq |-> Len(cur.rows) + Len(queue) + 1, at |-> late])
    /\ late' = None
    /\ UNCHANGED <<now, proc, procs, cur, j, uris, day, staged, store, job, missed>>

\* ingest ignores every row once the last clock is decided.
Misses == /\ j.next > Len(Clocks) /\ ~j.failed
          /\ \E r \in Range(queue) : r.at <= Clocks[Len(Clocks)]

\* One turn of the capture loop: drain and ingest, then advance.
Loop ==
    /\ cur # None
    /\ j' = advance(ingest(j, queue), now)
    /\ missed' = (missed \/ Misses)
    /\ cur' = [cur EXCEPT !.rows = @ \o queue] /\ queue' = <<>>
    /\ j' # j \/ queue # <<>>
    /\ UNCHANGED <<now, proc, procs, late, uris, day, staged, store, job>>

MayEnd(kind) ==
    CASE kind = "stale" ->
            \/ now - (IF cur.hb = None THEN cur.connected ELSE cur.hb) > StaleAfter
            \/ now >= Deadline /\ cur.hb = None
      [] kind = "capture_error" -> TRUE
      [] kind = "shutdown" -> cur.hb # None
      [] kind = "completed" -> cur.hb # None /\ now >= Deadline

\* The end of a segment: drain, tell the journal, commit the manifest.  delivered is
\* FALSE when the terminal drain of the spool cannot reach the store: the manifest
\* stays in the spool, but its URI is not returned.
End(kind, delivered) ==
    /\ cur # None /\ MayEnd(kind)
    /\ LET s == [id |-> cur.id, connected |-> cur.connected, disconnected |-> now,
                 published |-> now, kind |-> kind, hb |-> cur.hb, rows |-> cur.rows \o queue]
       IN  /\ day' = Append(day, s)
           /\ j' = disconnected(ingest(j, queue), covered_until(s), kind \notin CLEAN)
           /\ uris' = IF delivered THEN Append(uris, s.id) ELSE uris
    /\ missed' = (missed \/ Misses)
    /\ cur' = None /\ late' = None /\ queue' = <<>>
    /\ proc' = IF kind \in CLEAN \/ now >= Deadline THEN "closing" ELSE "run"
    /\ UNCHANGED <<now, procs, staged, store, job>>

\* The window closes while the service waits to reconnect.
GiveUp ==
    /\ proc = "run" /\ cur = None /\ now >= Deadline
    /\ proc' = "closing"
    /\ UNCHANGED <<now, procs, cur, late, queue, j, uris, day, staged, store, job, missed>>

Close ==
    /\ proc = "closing"
    /\ j' = close(j, now, uris, "live")
    /\ proc' = IF j'.failed THEN "off" ELSE "publish"
    /\ UNCHANGED <<now, procs, cur, late, queue, uris, day, staged, store, job, missed>>

\* publish_shadow_journal: candidates, arbitrations, then the manifest, into the spool.
Stage ==
    /\ proc = "publish"
    /\ staged' = Append(staged, [object |-> OBJECTS[Len(staged) + 1],
                                 body |-> Body(j.manifest, OBJECTS[Len(staged) + 1])])
    /\ proc' = IF Len(staged') = Len(OBJECTS) THEN "off" ELSE "publish"
    /\ UNCHANGED <<now, procs, cur, late, queue, j, uris, day, store, job, missed>>

\* An immutable object is put once; the same body again is no error.
Puts(object, body) == object \in DOMAIN store => store[object] = body

Put(object, body) ==
    [o \in DOMAIN store \cup {object} |-> IF o = object THEN body ELSE store[o]]

\* CaptureSpool.drain: entries in order, a manifest only after everything before it.
Deliver ==
    \E i \in DOMAIN staged :
        /\ staged[i].object \notin DOMAIN store
        /\ \A k \in 1..(i - 1) : /\ staged[k].object \in DOMAIN store
                                 /\ store[staged[k].object] = staged[k].body
        /\ store' = Put(staged[i].object, staged[i].body)
        /\ UNCHANGED <<now, proc, procs, cur, late, queue, j, uris, day, staged, job, missed>>

\* The process dies; an open session leaves no terminal manifest.
Crash ==
    /\ proc # "off"
    /\ proc' = "off" /\ cur' = None /\ late' = None /\ queue' = <<>>
    /\ UNCHANGED <<now, procs, j, uris, day, staged, store, job, missed>>

(***************************************************************************)
(* ensure_shadow_journal, run after the window over a certified day.       *)
(***************************************************************************)
Ensure ==
    /\ job = "idle" /\ now >= Deadline /\ cur = None /\ proc # "run" /\ Certified(day) # <<>>
    /\ job' = IF "manifest" \in DOMAIN store
              THEN IF AuditPasses(store["manifest"], Certified(day)) THEN "audited" ELSE "refused"
              ELSE IF _replay_journal(Certified(day)).failed THEN "refused" ELSE "candidate"
    /\ UNCHANGED <<now, proc, procs, cur, late, queue, j, uris, day, staged, store, missed>>

\* The rebuilt journal is put directly, its manifest last.
Rebuild ==
    /\ job \in Range(OBJECTS)
    /\ LET body == Body(_replay_journal(Certified(day)).manifest, job)
           i == CHOOSE k \in DOMAIN OBJECTS : OBJECTS[k] = job
       IN  IF Puts(job, body)
           THEN /\ store' = Put(job, body)
                /\ job' = IF i = Len(OBJECTS) THEN "idle" ELSE OBJECTS[i + 1]
           ELSE job' = "refused" /\ UNCHANGED store
    /\ UNCHANGED <<now, proc, procs, cur, late, queue, j, uris, day, staged, missed>>

\* The job dies between two puts and is run again.
JobCrash ==
    /\ job \in Range(OBJECTS) /\ job' = "idle"
    /\ UNCHANGED <<now, proc, procs, cur, late, queue, j, uris, day, staged, store, missed>>

Next ==
    \/ \E beat \in BOOLEAN : Tick(beat)
    \/ Start \/ Connect \/ Stamp \/ Enqueue \/ Loop
    \/ \E kind \in {"stale", "capture_error", "shutdown", "completed"}, d \in BOOLEAN : End(kind, d)
    \/ GiveUp \/ Close \/ Stage \/ Deliver \/ Crash
    \/ Ensure \/ Rebuild \/ JobCrash

Spec == Init /\ [][Next]_vars

-----------------------------------------------------------------------------
\* The ids are those of all the sessions the process ended, in order.
Names(ids, p) ==
    /\ Range(ids) = {s.id : s \in {x \in Range(day) : x.id[1] = p}}
    /\ \A i, k \in DOMAIN ids : i < k => ids[i][2] < ids[k][2]

(***************************************************************************)
(* A committed journal is whole: the manifest in the store names bodies    *)
(* that are the ones stored, and has a record for every clock; no crash,   *)
(* late spool delivery or rebuild mixes two journals (publication.py).     *)
(* When the service published it, it names every session the service       *)
(* ended: if the store could not be reached at the end of one, its URI is  *)
(* missing and no journal is published at all (stream.py line 444).        *)
(***************************************************************************)
CommittedJournalIsWhole ==
    "manifest" \in DOMAIN store =>
        /\ DOMAIN store = Range(OBJECTS)
        /\ store["candidate"] = store["manifest"].log
        /\ store["arbitration"] = store["manifest"].log
        /\ {d.at : d \in store["manifest"].log} = Range(Clocks)
        /\ store["manifest"].by = "live" =>
             \E p \in 1..procs : Names(store["manifest"].uris, p)

\* A clean stop before the close leaves a restart gap inside the day.
StoppedEarly == \E i \in DOMAIN day : day[i].kind \in CLEAN /\ day[i].disconnected < Closing

\* A row or the end of a session falls exactly on a clock, to the microsecond.
Coincides ==
    \E i \in DOMAIN day : \/ covered_until(day[i]) \in Range(Clocks)
                          \/ \E r \in Range(day[i].rows) : r.at \in Range(Clocks)

\* The capture is over and certified, and the audit accepts the lineage of its journal.
Auditable == /\ "manifest" \in DOMAIN store /\ cur = None /\ proc # "run"
             /\ Certified(day) # <<>> /\ ~Coincides /\ ~missed
             /\ LineageMatches(store["manifest"], Certified(day))

(***************************************************************************)
(* The published journal of a certified day is its replay: late callbacks, *)
(* reconnects, crashes and rebuilds either leave the records the replay    *)
(* computes or publish nothing.  Excepted are a live journal over a stale  *)
(* session (the finding), a rebuild over a clean stop inside the day, a    *)
(* row dropped after the last clock and an event that coincides with one.  *)
(***************************************************************************)
PublishedIsReplay ==
    Auditable
    /\ (store["manifest"].by = "live" => \A i \in DOMAIN day : day[i].kind # "stale")
    /\ (store["manifest"].by = "recovery" => ~StoppedEarly)
    => store["manifest"].log = AuditLog(Certified(day))

(***************************************************************************)
(* What the documentation says of every journal: its audit compares equal  *)
(* with the deterministic replay.  Stale sessions are not excepted.        *)
(***************************************************************************)
AuditFindsParity ==
    Auditable /\ ~StoppedEarly => store["manifest"].log = AuditLog(Certified(day))
=============================================================================
