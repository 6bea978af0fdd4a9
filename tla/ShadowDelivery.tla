---------------------------- MODULE ShadowDelivery ----------------------------
(***************************************************************************)
(* The durable outbox of shadow alerts and the notifier processes that     *)
(* drain it (notifications/postgres.py, telegram.py, cli.py).  PostgreSQL  *)
(* owns claims, leases, deadlines and the shared cooldown; Telegram has no *)
(* idempotency key, so a message on the wire may be accepted although its  *)
(* answer is lost, or long after its sender gave up or died.               *)
(*                                                                         *)
(* Time is the database clock.  Every repository method is one transaction *)
(* and one step; the methods of different processes interleave.  A lease's *)
(* uuid token is modelled by the row's attempt number, which no two claims *)
(* of a row share.                                                         *)
(***************************************************************************)
EXTENDS Naturals

CONSTANTS
    Selections,   \* arbitration digests, in the order ORDER BY compares them
    Symbol,       \* Selections -> symbol
    DecisionAt,   \* Selections -> decision clock
    Corrupt,      \* selections whose stored payload fails its checksum
    Lifetime,     \* --realtime-max-delay-seconds
    Notifiers,
    Timeout,      \* send timeout
    Lease,        \* claim lease
    MaxAttempts,  \* Notifiers -> the attempt budget each was started with
    RetryAfters,  \* delays Telegram may ask for
    Disconnects,  \* clocks the capture process may invalidate through
    MaxTime       \* bound: the database clock stops here

ASSUME DeliveryConstants ==
    /\ Selections \subseteq Nat /\ Corrupt \subseteq Selections
    /\ DecisionAt \in [Selections -> Nat \ {0}]
    /\ Lifetime \in Nat \ {0}
    /\ Timeout \in Nat \ {0} /\ Lease \in Nat /\ Lease > Timeout
    /\ MaxAttempts \in [Notifiers -> Nat \ {0}]
    /\ RetryAfters \subseteq Nat \ {0} /\ Disconnects \subseteq Nat
    /\ MaxTime \in Nat

VARIABLES
    now,        \* clock_timestamp()
    rows,       \* shadow_deliveries
    control,    \* shadow_delivery_control
    notifier,   \* each process's control state
    wire,       \* requests Telegram has not processed
    delivered   \* how often each selection reached the chat

vars == <<now, rows, control, notifier, wire, delivered>>

Final == {"SENT", "EXPIRED", "FAILED", "UNKNOWN"}
NoRow == [status |-> "ABSENT", attempts |-> 0, available |-> 0, until |-> 0]
Resting == [pc |-> "idle"]
Request(s, token) == [selection |-> s, token |-> token]

ExpiresAt(s) == DecisionAt[s] + Lifetime

Init ==
    /\ now = 1
    /\ rows = [s \in Selections |-> NoRow]
    \* cooldown_until is -infinity and invalidated_through NULL: before any clock.
    /\ control = [cooldown |-> 0, invalidated |-> 0]
    /\ notifier = [n \in Notifiers |-> Resting]
    /\ wire = {}
    /\ delivered = [s \in Selections |-> 0]

-----------------------------------------------------------------------------
\* The capture process's writes.

Fenced(s) == DecisionAt[s] <= control.invalidated

FirstStatus(s) ==
    IF ExpiresAt(s) <= now \/ Fenced(s) THEN "EXPIRED"
    ELSE IF DecisionAt[s] > now THEN "FAILED" ELSE "PENDING"

SameClock(s, t) == Symbol[s] = Symbol[t] /\ DecisionAt[s] = DecisionAt[t]

\* Mutant: a repeated write overwrites the row.
EnqueueUpsert(s) ==
    /\ rows' = [rows EXCEPT ![s] = [NoRow EXCEPT !.status = FirstStatus(s),
                                                 !.available = now]]
    /\ UNCHANGED <<now, control, notifier, wire, delivered>>

\* INSERT ... ON CONFLICT DO NOTHING; a repeat or a conflicting selection
\* (which raises) changes no row.
Enqueue(s) ==
    /\ \A t \in Selections : SameClock(s, t) => rows[t] = NoRow
    /\ rows' = [rows EXCEPT ![s] = [NoRow EXCEPT !.status = FirstStatus(s),
                                                 !.available = now]]
    /\ UNCHANGED <<now, control, notifier, wire, delivered>>

\* The disconnect watermark only moves forward and expires what it fences.
Invalidate(at) ==
    LET through == IF at > control.invalidated THEN at ELSE control.invalidated
    IN  /\ control' = [control EXCEPT !.invalidated = through]
        /\ rows' = [s \in Selections |->
               IF rows[s].status = "PENDING" /\ DecisionAt[s] <= through
               THEN [rows[s] EXCEPT !.status = "EXPIRED"] ELSE rows[s]]
        /\ UNCHANGED <<now, notifier, wire, delivered>>

-----------------------------------------------------------------------------
\* claim, in one transaction: sweep, then take the oldest eligible record.

\* Mutants: a lost lease is handed out again, or is never swept.
SweptForRetry(s) ==
    IF rows[s].status = "SENDING" /\ rows[s].until <= now
    THEN [rows[s] EXCEPT !.status = "PENDING", !.until = 0]
    ELSE rows[s]
SweptPendingOnly(s) ==
    IF rows[s].status = "PENDING" /\ ExpiresAt(s) <= now
    THEN [rows[s] EXCEPT !.status = "EXPIRED"]
    ELSE rows[s]

Swept(s) ==
    IF rows[s].status = "SENDING" /\ rows[s].until <= now
    THEN [rows[s] EXCEPT !.status = "UNKNOWN", !.until = 0]
    ELSE IF rows[s].status = "PENDING" /\ ExpiresAt(s) <= now
    THEN [rows[s] EXCEPT !.status = "EXPIRED"]
    ELSE rows[s]

Eligible(s) ==
    /\ Swept(s).status = "PENDING" /\ rows[s].available <= now
    /\ DecisionAt[s] <= now /\ ExpiresAt(s) > now
    /\ \A t \in Selections : Swept(t).status # "SENDING"
    /\ control.cooldown <= now /\ ~Fenced(s)

Older(s, t) ==
    DecisionAt[s] < DecisionAt[t] \/ (DecisionAt[s] = DecisionAt[t] /\ s < t)
Oldest(s) == Eligible(s) /\ \A t \in Selections \ {s} : Eligible(t) => Older(s, t)

\* Nothing to claim: only the sweep is committed.
ClaimNone(n) ==
    /\ notifier[n].pc = "idle"
    /\ \A s \in Selections : ~Eligible(s)
    /\ rows' = [s \in Selections |-> Swept(s)]
    /\ UNCHANGED <<now, control, notifier, wire, delivered>>

Claim(n) ==
    /\ notifier[n].pc = "idle"
    /\ \E s \in Selections :
          /\ Oldest(s)
          /\ rows' = [t \in Selections |->
                 IF t = s THEN [rows[s] EXCEPT !.status = "SENDING", !.until = now + Lease,
                                               !.attempts = rows[s].attempts + 1]
                 ELSE Swept(t)]
          /\ notifier' = [notifier EXCEPT
                 ![n] = [pc |-> "claimed", request |-> Request(s, rows[s].attempts + 1)]]
    /\ UNCHANGED <<now, control, wire, delivered>>

-----------------------------------------------------------------------------
\* dispatch_one between claim and finish.

\* window: up to when the check reserved the send (no code reads it again).
InFlight(pc, request, window) == [pc |-> pc, request |-> request, window |-> window]
Finishing(request, status, delay, limited) ==
    [pc |-> "finish", request |-> request, status |-> status, delay |-> delay,
     limited |-> limited]
WillFinish(n, status, delay, limited) ==
    notifier' = [notifier EXCEPT ![n] = Finishing(@.request, status, delay, limited)]

Holds(r) ==
    rows[r.selection].status = "SENDING" /\ rows[r.selection].attempts = r.token

\* Mutant: the send window is not reserved, only open.
MaySendNow(r) ==
    Holds(r) /\ control.cooldown <= now /\ ~Fenced(r.selection)
    /\ ExpiresAt(r.selection) > now /\ rows[r.selection].until > now

MaySend(r) ==
    /\ Holds(r) /\ control.cooldown <= now /\ ~Fenced(r.selection)
    /\ ExpiresAt(r.selection) > now + Timeout
    /\ rows[r.selection].until > now + Timeout

\* Validate the payload, check the window, check the budget.
Dispatch(n) ==
    LET r == notifier[n].request
    IN  /\ notifier[n].pc = "claimed"
        /\ \/ /\ r.selection \in Corrupt
              /\ WillFinish(n, "FAILED", 0, FALSE)
           \/ /\ r.selection \notin Corrupt /\ ~MaySend(r)
              /\ WillFinish(n, "EXPIRED", 0, FALSE)
           \/ /\ r.selection \notin Corrupt /\ MaySend(r)
              /\ r.token > MaxAttempts[n]
              /\ WillFinish(n, "FAILED", 0, FALSE)
           \/ /\ r.selection \notin Corrupt /\ MaySend(r)
              /\ r.token <= MaxAttempts[n]
              /\ notifier' = [notifier EXCEPT ![n] = InFlight("checked", r, now + Timeout)]
        /\ UNCHANGED <<now, rows, control, wire, delivered>>

\* Start the request, however long after the check.
Send(n) ==
    LET r == notifier[n].request
    IN  /\ notifier[n].pc = "checked"
        /\ notifier' = [notifier EXCEPT ![n] = InFlight("sending", r, notifier[n].window)]
        /\ wire' = wire \cup {r}
        /\ UNCHANGED <<now, rows, control, delivered>>

Awaits(n, r) == notifier[n].pc = "sending" /\ notifier[n].request = r

\* Telegram accepts a request, whether or not anyone still waits for it.
Accept(r) ==
    /\ wire' = wire \ {r}
    /\ delivered' = [delivered EXCEPT ![r.selection] = @ + 1]
    /\ \/ \E n \in Notifiers : Awaits(n, r) /\ WillFinish(n, "SENT", 0, FALSE)
       \/ UNCHANGED notifier
    /\ UNCHANGED <<now, rows, control>>

\* RetryAfter: this attempt was not delivered; the last one is not retried.
RateLimit(r, delay) ==
    /\ wire' = wire \ {r}
    /\ \/ \E n \in Notifiers :
             /\ Awaits(n, r)
             /\ WillFinish(n, IF r.token >= MaxAttempts[n] THEN "FAILED" ELSE "PENDING",
                           delay, TRUE)
       \/ UNCHANGED notifier
    /\ UNCHANGED <<now, rows, control, delivered>>

\* BadRequest, Forbidden, InvalidToken or ChatMigrated.
Reject(r) ==
    /\ wire' = wire \ {r}
    /\ \/ \E n \in Notifiers : Awaits(n, r) /\ WillFinish(n, "FAILED", 0, FALSE)
       \/ UNCHANGED notifier
    /\ UNCHANGED <<now, rows, control, delivered>>

Telegram(r) == Accept(r) \/ Reject(r) \/ \E d \in RetryAfters : RateLimit(r, d)

\* Mutant: a network error is taken for a rejection.
GiveUpFailed(n) ==
    /\ notifier[n].pc = "sending"
    /\ WillFinish(n, "FAILED", 0, FALSE)
    /\ UNCHANGED <<now, rows, control, wire, delivered>>

\* The send timeout or a network error; the request may still be on the wire.
GiveUp(n) ==
    /\ notifier[n].pc = "sending"
    /\ WillFinish(n, "UNKNOWN", 0, FALSE)
    /\ UNCHANGED <<now, rows, control, wire, delivered>>

-----------------------------------------------------------------------------
\* finish.

FinalStatus(f) ==
    IF /\ f.status = "PENDING"
       /\ ExpiresAt(f.request.selection) <= now + f.delay \/ Fenced(f.request.selection)
    THEN "EXPIRED" ELSE f.status

Leased(r) == Holds(r) /\ rows[r.selection].until > now

\* Mutant: the shared cooldown is left alone.
CooledNever(f) == control

Cooled(f) ==
    IF f.limited /\ control.cooldown < now + f.delay
    THEN [control EXCEPT !.cooldown = now + f.delay] ELSE control

\* A lost lease raises: the transaction rolls back, the cooldown with it, and
\* the process exits and is restarted.  If the transaction commits but its
\* answer is lost the process reconnects, which ends the same way.
Finish(n) ==
    LET f == notifier[n]
    IN  /\ f.pc = "finish"
        /\ notifier' = [notifier EXCEPT ![n] = Resting]
        /\ IF Leased(f.request)
           THEN /\ control' = Cooled(f)
                /\ rows' = [rows EXCEPT ![f.request.selection] =
                       [@ EXCEPT !.status = FinalStatus(f), !.until = 0,
                                 !.available = now + f.delay]]
           ELSE UNCHANGED <<rows, control>>
        /\ UNCHANGED <<now, wire, delivered>>

\* The process dies, or a transient database error makes it reconnect: the
\* claim is forgotten and its lease left behind.
Abandon(n) ==
    /\ notifier[n].pc # "idle"
    /\ notifier' = [notifier EXCEPT ![n] = Resting]
    /\ UNCHANGED <<now, rows, control, wire, delivered>>

Tick ==
    /\ now < MaxTime
    /\ now' = now + 1
    /\ UNCHANGED <<rows, control, notifier, wire, delivered>>

Work(n) == \/ ClaimNone(n) \/ Claim(n) \/ Dispatch(n) \/ Send(n)
           \/ GiveUp(n) \/ Finish(n)

Next ==
    \/ \E s \in Selections : Enqueue(s)
    \/ \E at \in Disconnects : Invalidate(at)
    \/ \E n \in Notifiers : Work(n) \/ Abandon(n)
    \/ \E r \in wire : Telegram(r)
    \/ Tick

Spec == Init /\ [][Next]_vars

\* The clock runs and every notifier polls and goes on with what it started.
\* Nothing is assumed of the capture process or of Telegram.
FairSpec == Spec /\ WF_vars(Tick) /\ \A n \in Notifiers : WF_vars(Work(n))

-----------------------------------------------------------------------------
Requests == [selection : Selections, token : Nat]

TypeOK ==
    /\ now \in Nat
    /\ rows \in [Selections -> [status : Final \cup {"ABSENT", "PENDING", "SENDING"},
                                attempts : Nat, available : Nat, until : Nat]]
    /\ control \in [cooldown : Nat, invalidated : Nat]
    /\ notifier \in [Notifiers ->
          {Resting} \cup [pc : {"claimed"}, request : Requests]
          \cup [pc : {"checked", "sending"}, request : Requests, window : Nat]
          \cup [pc : {"finish"}, request : Requests, status : Final \cup {"PENDING"},
                delay : Nat, limited : BOOLEAN]]
    /\ wire \subseteq Requests
    /\ delivered \in [Selections -> Nat]
    \* the table's CHECK: a lease exactly while SENDING
    /\ \A s \in Selections : rows[s].status = "SENDING" <=> rows[s].until # 0

\* No alert reaches the chat twice, with any number of notifiers, crashes,
\* pauses beyond the lease, lost answers and requests delivered late
\* (claim, dispatch_one: "Never resend it").
AtMostOnce == \A s \in Selections : delivered[s] <= 1

\* The recorded status never lies about the chat: what reached it, or still
\* may, is SENDING, SENT or UNKNOWN, never FAILED, EXPIRED or scheduled again;
\* and SENT means it arrived (dispatch_one, _finish).
HonestStatus ==
    /\ \A s \in Selections : delivered[s] > 0 =>
          rows[s].status \in {"SENDING", "SENT", "UNKNOWN"}
    /\ \A r \in wire : rows[r.selection].status \in {"SENDING", "UNKNOWN"}
    /\ \A s \in Selections : rows[s].status = "SENT" => delivered[s] = 1

\* Nothing decided before a committed disconnect is scheduled, not even by a
\* rate-limited notifier that claimed it earlier (invalidate, _finish).
NothingFencedPending ==
    \A s \in Selections : rows[s].status = "PENDING" => ~Fenced(s)

\* A record that reached a final status keeps it: no repeated write, late
\* finish or sweep revives it (enqueue, _finish, claim).
FinalForever ==
    [][\A s \in Selections : rows[s].status \in Final => rows'[s] = rows[s]]_vars

\* Checked or sending, and not beyond the window that the check reserved.
InTime(n) ==
    IF notifier[n].pc \in {"checked", "sending"} THEN now <= notifier[n].window ELSE FALSE

\* A rate limit silences the whole destination: until the delay Telegram asked
\* for on any record is over, also after its last attempt, no notifier starts
\* to send any other record within the window it reserved, although others
\* claim, fail and commit between its check and its send (finish, claim,
\* may_send, dispatch_one).
RateLimitSilencesAll ==
    [][\A n \in Notifiers :
          InTime(n) /\ notifier[n].pc = "checked" /\ notifier'[n].pc = "sending"
             => \A s \in Selections : rows[s].available <= now]_vars

\* Without the window it does not hold: a notifier that stalls between
\* may_send and its request sends whatever was committed meanwhile.
EverySendObservesLimits ==
    [][\A n \in Notifiers : notifier[n].pc = "checked" /\ notifier'[n].pc = "sending"
          => \A s \in Selections : rows[s].available <= now]_vars

\* A notifier within the window it reserved, from the check to the end of its send, holds
\* its own lease, is before the alert's deadline, and is the only such notifier,
\* however late other processes are (may_send, claim).
SendsHoldTheirLease ==
    \A n \in Notifiers : InTime(n) =>
       /\ Leased(notifier[n].request)
       /\ now < ExpiresAt(notifier[n].request.selection)
       /\ \A m \in Notifiers \ {n} : ~InTime(m)

\* Every record gets a final status, whatever is lost (claim's sweep).
EveryRecordEnds ==
    \A s \in Selections : rows[s] # NoRow ~> rows[s].status \in Final
=============================================================================
