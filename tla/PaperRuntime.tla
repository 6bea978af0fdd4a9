----------------------------- MODULE PaperRuntime -----------------------------
(***************************************************************************)
(* Worker processes that run PaperRuntime over PostgresPaperRepository     *)
(* (execution/runtime.py, execution/postgres.py).  A command is a load (two *)
(* SELECTs on an autocommit connection), a transition in memory, and a     *)
(* commit: one transaction that compares and swaps the checkpoint row and  *)
(* inserts the new operations.  Workers interleave between those steps,    *)
(* crash anywhere, and may not learn that their commit succeeded.          *)
(*                                                                         *)
(* A checkpoint's sha256 is the checkpoint itself.  All workers trade the  *)
(* same date; `Accounts' are snapshots of the one account.                 *)
(***************************************************************************)
EXTENDS PaperSession

CONSTANTS
    Workers, Accounts,
    MaxCrashes   \* bound: process crashes in one behaviour

VARIABLES
    rows,     \* paper_sessions: account_sha256 -> checkpoint
    log,      \* paper_operations: account_sha256 -> operations by sequence
    worker,   \* each process's control state
    crashes

vars == <<rows, log, worker, crashes>>

NoRow == [ok |-> FALSE]
Nothing == [kind |-> "none"]

Idle(account, enabled, acked) ==
    [pc |-> "idle", account |-> account, enabled |-> enabled, cmd |-> Nothing,
     prev |-> NoRow, new |-> NoRow, acked |-> acked]

Init ==
    /\ rows = [a \in Accounts |-> NoRow]
    /\ log = [a \in Accounts |-> <<>>]
    /\ \E account \in [Workers -> Accounts], enabled \in [Workers -> BOOLEAN] :
          worker = [w \in Workers |-> Idle(account[w], enabled[w], FALSE)]
    /\ crashes = 0

Row(w) == rows[worker[w].account]

\* The session the database holds; before the first INSERT, the empty one.
Session == IF \E a \in Accounts : rows[a] # NoRow
           THEN rows[CHOOSE a \in Accounts : rows[a] # NoRow]
           ELSE EmptySession

Serial == INSTANCE AtomicSession WITH session <- Session

\* The command returns; `acked' when its PaperRuntimeResult is COMMITTED.
Return(w, acked) ==
    worker' = [worker EXCEPT ![w] = Idle(@.account, @.enabled, acked)]

(***************************************************************************)
(* initialize: INSERT ... ON CONFLICT (trade_date, account_sha256) DO      *)
(* NOTHING.  A second snapshot for the date violates the unique index on   *)
(* trade_date and raises.                                                  *)
(***************************************************************************)
\* Mutant: only the worker's own snapshot is looked for.
InitializeSnapshot(w) ==
    /\ worker[w].pc = "idle"
    /\ rows' = [rows EXCEPT ![worker[w].account] = IF @ = NoRow THEN EmptySession ELSE @]
    /\ Return(w, FALSE)
    /\ UNCHANGED <<log, crashes>>

Initialize(w) ==
    /\ worker[w].pc = "idle"
    /\ \/ /\ \A a \in Accounts : rows[a] = NoRow
          /\ rows' = [rows EXCEPT ![worker[w].account] = EmptySession]
       \/ /\ \E a \in Accounts : rows[a] # NoRow
          /\ UNCHANGED rows
    /\ Return(w, FALSE)
    /\ UNCHANGED <<log, crashes>>

\* A caller's command.  Entries carry the ledger the caller has just loaded.
\* A disabled runtime answers OBSERVE_ONLY to entry, exit and quote.
Issue(w, c) ==
    /\ worker[w].pc = "idle"
    /\ ValidCommand(c)
    /\ worker[w].enabled \/ ~Observes(c)
    /\ worker' = [worker EXCEPT ![w].pc = "load", ![w].cmd = c,
                                ![w].acked = FALSE]
    /\ UNCHANGED <<rows, log, crashes>>

IssueClock(w) == \E c \in ClockCommands : Issue(w, c)
IssueAny(w) ==
    \/ \E c \in ExitCommands \cup QuoteCommands \cup ClockCommands \cup CancelCommands :
          Issue(w, c)
    \/ /\ Row(w) # NoRow
       /\ \E c \in EntryCommands(Row(w).ledger) : Issue(w, c)

\* load, first SELECT: the checkpoint row.
LoadCheckpoint(w) ==
    /\ worker[w].pc = "load"
    /\ IF Row(w) = NoRow THEN Return(w, FALSE)
       ELSE worker' = [worker EXCEPT ![w].pc = "log", ![w].prev = Row(w)]
    /\ UNCHANGED <<rows, log, crashes>>

\* load, second SELECT: the operations up to the checkpoint's length.
\* Mutant: the SELECT does not stop at the checkpoint's length.
LoggedAll(w) == log[worker[w].account]

LoggedFor(w) ==
    LET all == log[worker[w].account]
        n == Len(worker[w].prev.ops)
    IN  SubSeq(all, 1, IF n < Len(all) THEN n ELSE Len(all))

\* commit refuses a session that does not extend its predecessor.
Prefix(s, t) == Len(s) <= Len(t) /\ SubSeq(t, 1, Len(s)) = s
Committable(previous, current) ==
    current.rev = previous.rev + 1 /\ Prefix(previous.ops, current.ops)

\* The log is compared with the checkpoint, then the transition runs.
LoadLog(w) ==
    LET s == worker[w].prev
        c == worker[w].cmd
    IN  /\ worker[w].pc = "log"
        /\ \E next \in {Transition(s, c)} :
              IF \/ LoggedFor(w) # s.ops
                 \/ ~WithinBound(s, c)
                 \/ ~next.ok \/ next = s
                 \/ ~Committable(s, next)
              THEN Return(w, FALSE)
              ELSE worker' = [worker EXCEPT ![w].pc = "commit", ![w].new = next]
        /\ UNCHANGED <<rows, log, crashes>>

\* Mutants: every operation is inserted again; the checkpoint row is
\* overwritten without comparing it.
SwapAllOperations(w) ==
    LET a == worker[w].account
    IN  /\ worker[w].pc = "commit"
        /\ rows[a] = worker[w].prev
        /\ rows' = [rows EXCEPT ![a] = worker[w].new]
        /\ log' = [log EXCEPT ![a] = @ \o worker[w].new.ops]
        /\ UNCHANGED crashes
SwapBlindly(w) ==
    LET a == worker[w].account
    IN  /\ worker[w].pc = "commit"
        /\ rows' = [rows EXCEPT ![a] = worker[w].new]
        /\ log' = [log EXCEPT ![a] = worker[w].new.ops]
        /\ UNCHANGED crashes

\* The commit transaction when the compare-and-swap finds its row.
Swap(w) ==
    LET a == worker[w].account
        n == Len(worker[w].prev.ops)
    IN  /\ worker[w].pc = "commit"
        /\ rows[a] = worker[w].prev
        /\ rows' = [rows EXCEPT ![a] = worker[w].new]
        /\ log' = [log EXCEPT ![a] = @ \o SubSeq(worker[w].new.ops, n + 1,
                                                 Len(worker[w].new.ops))]
        /\ UNCHANGED crashes

Commit(w) == Swap(w) /\ Return(w, TRUE)

\* The transaction committed but its response is lost: PaperRuntime answers
\* ERROR, or a caller of the repository retries exactly the same transition.
CommitUnanswered(w) == Swap(w) /\ (Return(w, FALSE) \/ UNCHANGED worker)

\* Mutant: the retry compares the revision instead of the checkpoint.
CommitConflictByRevision(w) ==
    /\ worker[w].pc = "commit"
    /\ Row(w) # worker[w].prev
    /\ Return(w, Row(w).rev = worker[w].new.rev)
    /\ UNCHANGED <<rows, log, crashes>>

\* No row matched: success if the stored checkpoint is this very transition's
\* result, otherwise PaperConflict.
CommitConflict(w) ==
    /\ worker[w].pc = "commit"
    /\ Row(w) # worker[w].prev
    /\ Return(w, Row(w) = worker[w].new)
    /\ UNCHANGED <<rows, log, crashes>>

\* A process dies between two statements and restarts, possibly with paper
\* execution switched on or off.
Crash(w) ==
    /\ crashes < MaxCrashes
    /\ crashes' = crashes + 1
    /\ \E e \in BOOLEAN :
          worker' = [worker EXCEPT ![w] = Idle(@.account, e, FALSE)]
    /\ UNCHANGED <<rows, log>>

Step(w) == LoadCheckpoint(w) \/ LoadLog(w) \/ Commit(w) \/ CommitConflict(w)

Next == \E w \in Workers :
    Initialize(w) \/ IssueAny(w) \/ Step(w) \/ CommitUnanswered(w) \/ Crash(w)

Spec == Init /\ [][Next]_vars

\* A running command goes on to its end, and every process's clock ticks
\* again and again, whatever else it is asked to do.
Fairness == \A w \in Workers : WF_vars(Step(w)) /\ SF_vars(IssueClock(w))
FairSpec == Spec /\ Fairness

-----------------------------------------------------------------------------
TypeOK ==
    /\ DOMAIN rows = Accounts /\ DOMAIN log = Accounts
    /\ \A a \in Accounts : rows[a] = NoRow \/ rows[a].ok = TRUE
    /\ \A w \in Workers : worker[w].pc \in {"idle", "load", "log", "commit"}
    /\ crashes \in 0 .. MaxCrashes

\* One cash and inventory budget per trade date: a refreshed account snapshot
\* never opens a second session (initialize, paper_sessions_one_account_per_day).
OneBudgetPerDay ==
    \A a, b \in Accounts : rows[a] # NoRow /\ rows[b] # NoRow => a = b

\* The operation log is exactly the checkpoint's operations, after every
\* interleaving of commits and crashes (commit).
LogMatchesCheckpoint ==
    \A a \in Accounts : log[a] = IF rows[a] = NoRow THEN <<>> ELSE rows[a].ops

\* A load never reports a torn or incomplete log although its two SELECTs see
\* different database states and commits land between them (load).
LoadNeverTorn ==
    \A w \in Workers : worker[w].pc = "log" => LoggedFor(w) = worker[w].prev.ops

\* The two tables tell one story to every reader, whenever it reads them
\* (load and commit against crashes and each other).
LogIsWhole == LogMatchesCheckpoint /\ LoadNeverTorn

\* COMMITTED is reported only when the reported transition is in the database,
\* also after a lost response and a retry, and nothing committed is ever
\* rewritten (PaperRuntime._run, commit).
AcknowledgedIsDurable ==
    [][/\ \A a \in Accounts : Prefix(log[a], log'[a])
       /\ \A w \in Workers :
             worker[w].pc = "commit" /\ worker'[w].acked
             => Prefix(worker[w].new.ops, log'[worker[w].account])]_vars

\* Two planners never spend the same resources: an entry enters the session
\* only if it was planned against the ledger it is reserved from, however the
\* caller's load, the runtime's load and other commits interleave.
NoStaleAdmission ==
    [][\A w \in Workers : Swap(w) /\ worker[w].cmd.kind = "entry"
                             => worker[w].cmd.resources = Row(w).ledger]_vars

\* The workers together behave like one session that executes whole commands.
Serializable == Serial!Spec

Ended(i) == i \in DOMAIN Session.orders /\ ~Live(Session.orders[i])

\* Every order ends although commits conflict, responses are lost, processes
\* crash and paper execution may be switched off: the clock alone does it.
OrdersEnd == \A i \in 1 .. MaxIntents : i \in DOMAIN Session.orders ~> Ended(i)
=============================================================================
