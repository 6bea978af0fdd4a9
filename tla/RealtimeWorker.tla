---------------------------- MODULE RealtimeWorker ----------------------------
(***************************************************************************)
(* The bounded handoff from the capture thread to the shadow outbox        *)
(* (realtime.py, with DurableShadowSink of notifications/runtime.py).  The *)
(* producer (the capture thread) offers selections, reports disconnects    *)
(* and closes; the worker thread persists the disconnect watermark and     *)
(* writes selections.  A step is what one thread does under one hold of    *)
(* the lock, or one database call; the two threads interleave freely.      *)
(*                                                                         *)
(* The outbox is ShadowDelivery's, without notifiers.  Health counters are *)
(* left out; the failure the health report shows is kept.                  *)
(***************************************************************************)
EXTENDS ShadowDelivery, Sequences

CONSTANTS
    Capacity,          \* queue size
    MaximumAttempts,   \* sink attempts for one selection
    DatabaseFails      \* database calls may fail

ASSUME WorkerConstants ==
    /\ 0 \notin Selections
    /\ Capacity \in Nat \ {0} /\ MaximumAttempts \in Nat \ {0}
    /\ DatabaseFails \in BOOLEAN

VARIABLES
    queue,
    stop,        \* the stop event
    failure,     \* the failure health() reports
    failed,      \* symbols disabled by a permanent error
    last,        \* symbol -> the selection last admitted, or NoSelection
    notBefore,   \* in-memory disconnect watermark; 0 is None
    persisted,   \* _invalidated_through; 0 is None
    thread,      \* the worker thread's control state
    producer     \* the capture thread: "open", "joining" or "closed"

outbox == <<now, rows, control, notifier, wire, delivered>>
shared == <<queue, stop, failure, failed, last, notBefore, persisted>>
allVars == <<outbox, shared, thread, producer>>

NoSelection == 0
SymbolSet == {Symbol[s] : s \in Selections}

WorkerInit ==
    /\ Init
    /\ queue = <<>> /\ stop = FALSE /\ failure = "none" /\ failed = {}
    /\ last = [y \in SymbolSet |-> NoSelection]
    /\ notBefore = 0 /\ persisted = 0
    /\ thread = [pc |-> "sync", caller |-> "run", at |-> 0, synchronized |-> FALSE,
                 selection |-> NoSelection, attempts |-> 0]
    /\ producer = "open"

-----------------------------------------------------------------------------
\* The capture thread.

Offer(s) ==
    /\ producer = "open"
    /\ ~stop /\ Symbol[s] \notin failed
    /\ IF Len(queue) < Capacity
       THEN queue' = Append(queue, s) /\ UNCHANGED <<stop, failure>>
       ELSE stop' = TRUE /\ failure' = "overflow" /\ UNCHANGED queue
    /\ UNCHANGED <<outbox, failed, last, notBefore, persisted, thread, producer>>

Disconnected(at) ==
    /\ producer = "open"
    /\ at > notBefore
    /\ notBefore' = at
    /\ UNCHANGED <<outbox, queue, stop, failure, failed, last, persisted, thread, producer>>

\* close: set the event, join the thread for a while, then discard the queue.
Close ==
    /\ producer # "joining"
    /\ producer' = "joining" /\ stop' = TRUE
    /\ UNCHANGED <<outbox, queue, failure, failed, last, notBefore, persisted, thread>>

Discard ==
    /\ producer = "joining"
    /\ producer' = "closed" /\ queue' = <<>>
    /\ failure' = IF thread.pc = "done" THEN failure ELSE "shutdown_timeout"
    /\ UNCHANGED <<outbox, stop, failed, last, notBefore, persisted, thread>>

-----------------------------------------------------------------------------
\* The worker thread.

Goto(pc) == thread' = [thread EXCEPT !.pc = pc]

\* The loop is entered again: _run calls _sync_invalidation.
Resume == thread' = [thread EXCEPT !.pc = "sync", !.caller = "run",
                                   !.selection = NoSelection, !.attempts = 0]

\* _sync_invalidation returns to the loop or to _deliver.
SyncReturn(ok) ==
    IF thread.caller = "run"
    THEN thread' = [thread EXCEPT !.pc = "loop", !.synchronized = ok]
    ELSE Goto(IF ok THEN "recheck" ELSE "check")

WithoutTransient == IF failure = "transient" THEN "none" ELSE failure

SyncRead ==
    /\ thread.pc = "sync"
    /\ IF notBefore = persisted THEN SyncReturn(TRUE)
       ELSE thread' = [thread EXCEPT !.pc = "invalidate", !.at = notBefore]
    /\ UNCHANGED <<outbox, shared, producer>>

\* The database call of _sync_invalidation.
InvalidateCall ==
    /\ thread.pc = "invalidate"
    /\ Invalidate(thread.at)
    /\ Goto("record")
    /\ UNCHANGED <<shared, producer>>

\* A transient error, before or after the transaction took effect.
InvalidateTransient ==
    /\ DatabaseFails /\ thread.pc = "invalidate"
    /\ Invalidate(thread.at) \/ UNCHANGED outbox
    /\ failure' = "transient"
    /\ SyncReturn(FALSE)
    /\ UNCHANGED <<queue, stop, failed, last, notBefore, persisted, producer>>

InvalidateFails ==
    /\ DatabaseFails /\ thread.pc = "invalidate"
    /\ failure' = "invalidation" /\ stop' = TRUE
    /\ SyncReturn(FALSE)
    /\ UNCHANGED <<outbox, queue, failed, last, notBefore, persisted, producer>>

\* Mutant: whatever was reported meanwhile counts as persisted.
RecordLatest ==
    /\ thread.pc = "record"
    /\ persisted' = notBefore /\ failure' = WithoutTransient
    /\ SyncReturn(TRUE)
    /\ UNCHANGED <<outbox, queue, stop, failed, last, notBefore, producer>>

Record ==
    /\ thread.pc = "record"
    /\ persisted' = thread.at /\ failure' = WithoutTransient
    /\ SyncReturn(thread.at = notBefore)
    /\ UNCHANGED <<outbox, queue, stop, failed, last, notBefore, producer>>

Loop ==
    /\ thread.pc = "loop"
    /\ IF stop THEN Goto("done")
       ELSE IF ~thread.synchronized THEN Resume ELSE Goto("get")
    /\ UNCHANGED <<outbox, shared, producer>>

\* queue.get, or its timeout on an empty queue.
Get ==
    /\ thread.pc = "get"
    /\ IF queue = <<>> THEN Resume /\ UNCHANGED queue
       ELSE /\ thread' = [thread EXCEPT !.pc = "admit", !.selection = Head(queue)]
            /\ queue' = Tail(queue)
    /\ UNCHANGED <<outbox, stop, failure, failed, last, notBefore, persisted, producer>>

\* Mutant: the previous decision is not compared.
AdmitAny ==
    LET s == thread.selection
    IN  /\ thread.pc = "admit"
        /\ IF stop \/ Symbol[s] \in failed THEN Resume /\ UNCHANGED last
           ELSE Goto("check") /\ last' = [last EXCEPT ![Symbol[s]] = s]
        /\ UNCHANGED <<outbox, queue, stop, failure, failed, notBefore, persisted, producer>>

\* Conflicting, repeated and regressing decisions are turned away.
Admit ==
    LET s == thread.selection
        p == last[Symbol[s]]
    IN  /\ thread.pc = "admit"
        /\ \/ /\ stop \/ Symbol[s] \in failed
              /\ Resume /\ UNCHANGED <<last, failed, failure>>
           \/ /\ ~stop /\ Symbol[s] \notin failed
              /\ p # NoSelection /\ DecisionAt[s] = DecisionAt[p] /\ s # p
              /\ failed' = failed \cup {Symbol[s]} /\ failure' = "conflict"
              /\ Resume /\ UNCHANGED last
           \/ /\ ~stop /\ Symbol[s] \notin failed
              /\ p # NoSelection
              /\ DecisionAt[s] < DecisionAt[p] \/ s = p
              /\ Resume /\ UNCHANGED <<last, failed, failure>>
           \/ /\ ~stop /\ Symbol[s] \notin failed
              /\ p # NoSelection => DecisionAt[s] > DecisionAt[p]
              /\ last' = [last EXCEPT ![Symbol[s]] = s]
              /\ Goto("check") /\ UNCHANGED <<failed, failure>>
        /\ UNCHANGED <<outbox, queue, stop, notBefore, persisted, producer>>

CanDeliver(s) ==
    /\ ~stop /\ DecisionAt[s] > notBefore
    /\ DecisionAt[s] <= now /\ now <= DecisionAt[s] + Lifetime

\* _can_deliver before and after _sync_invalidation.
Check ==
    /\ thread.pc = "check"
    /\ IF CanDeliver(thread.selection)
       THEN thread' = [thread EXCEPT !.pc = "sync", !.caller = "deliver"]
       ELSE Resume
    /\ UNCHANGED <<outbox, shared, producer>>

Recheck ==
    /\ thread.pc = "recheck"
    /\ IF CanDeliver(thread.selection) THEN Goto("sink") ELSE Resume
    /\ UNCHANGED <<outbox, shared, producer>>

Stored(s) == \E t \in Selections : SameClock(s, t) /\ rows[t] # NoRow

\* enqueue's transaction: a new row, or the same row again.
Write(s) == Enqueue(s) \/ (rows[s] # NoRow /\ UNCHANGED outbox)

SinkCall ==
    /\ thread.pc = "sink"
    /\ Write(thread.selection)
    /\ Goto("delivered")
    /\ UNCHANGED <<shared, producer>>

Delivered ==
    /\ thread.pc = "delivered"
    /\ failure' = WithoutTransient
    /\ Resume
    /\ UNCHANGED <<outbox, queue, stop, failed, last, notBefore, persisted, producer>>

\* A transient error, before or after the row was committed: retried through
\* _can_deliver while the budget lasts.
SinkTransient ==
    /\ DatabaseFails /\ thread.pc = "sink"
    /\ Write(thread.selection) \/ UNCHANGED outbox
    /\ failure' = "transient"
    /\ IF thread.attempts + 1 >= MaximumAttempts THEN Resume
       ELSE thread' = [thread EXCEPT !.pc = "check", !.attempts = @ + 1]
    /\ UNCHANGED <<queue, stop, failed, last, notBefore, persisted, producer>>

\* A permanent error disables the symbol; so does a conflicting stored row.
SinkFails ==
    /\ thread.pc = "sink"
    /\ DatabaseFails \/ (rows[thread.selection] = NoRow /\ Stored(thread.selection))
    /\ failed' = failed \cup {Symbol[thread.selection]} /\ failure' = "sink"
    /\ Resume
    /\ UNCHANGED <<outbox, queue, stop, last, notBefore, persisted, producer>>

WorkerTick == Tick /\ UNCHANGED <<shared, thread, producer>>

Database == InvalidateCall \/ SinkCall
Run == \/ SyncRead \/ Record \/ Loop \/ Get \/ Admit \/ Check \/ Recheck \/ Delivered
       \/ Database \/ InvalidateTransient \/ InvalidateFails
       \/ SinkTransient \/ SinkFails

WorkerNext ==
    \/ \E s \in Selections : Offer(s)
    \/ \E at \in Disconnects : Disconnected(at)
    \/ Close \/ Discard
    \/ Run
    \/ WorkerTick

WorkerSpec == WorkerInit /\ [][WorkerNext]_allVars

\* The worker thread is scheduled, and a database that is asked again and
\* again sometimes answers.  Nothing is assumed of the capture thread.
FairWorkerSpec == WorkerSpec /\ WF_allVars(Run) /\ SF_allVars(Database)

-----------------------------------------------------------------------------
WorkerTypeOK ==
    /\ TypeOK
    /\ queue \in Seq(Selections) /\ Len(queue) <= Capacity
    /\ stop \in BOOLEAN /\ failed \subseteq SymbolSet
    /\ notBefore \in Nat /\ persisted \in 0 .. notBefore
    /\ thread.attempts < MaximumAttempts

\* Rows of one symbol are written in decision order, one per decision clock,
\* and none once the symbol is disabled, although selections repeat, regress,
\* conflict, wait in the queue, and writes are retried after lost answers
\* (_run, _deliver).
WritesInOrder ==
    [][\A s \in Selections : rows[s] = NoRow /\ rows'[s] # NoRow =>
          /\ Symbol[s] \notin failed
          /\ \A t \in Selections : Symbol[t] = Symbol[s] /\ rows[t] # NoRow
                => DecisionAt[t] < DecisionAt[s]]_allVars

\* What the thread believes durable is durable, although disconnects arrive
\* during the call and its answer may be lost (_sync_invalidation).
PersistedIsDurable == persisted <= control.invalidated

\* A reported disconnect is persisted or the worker is disabled, without any
\* later selection and although the database fails for a while
\* (disconnected, _sync_invalidation).
DisconnectPersisted ==
    \A at \in Disconnects : notBefore >= at ~> control.invalidated >= at \/ stop

\* A graceful close with a working database persists the last disconnect
\* (test_graceful_close_persists_disconnect_without_draining_selections).
ClosePersistsDisconnect == thread.pc = "done" => control.invalidated >= notBefore

\* A worker disabled by overflow reports a failure
\* (test_overflow_is_fail_closed_and_capture_producer_does_not_wait_for_sink).
DisabledReportsFailure == stop /\ producer = "open" => failure # "none"
=============================================================================
