---------------------------- MODULE PaperExecution ----------------------------
(***************************************************************************)
(* A paper session driven by its callers' commands, one at a time.         *)
(***************************************************************************)
EXTENDS PaperSession, FiniteSetsExt

VARIABLE session

sessionVars == <<session>>

Atomic == INSTANCE AtomicSession

SessionInit == Atomic!Init

Entry  == \E c \in EntryCommands(session.ledger) : Atomic!Execute(c)
Exit   == \E c \in ExitCommands : Atomic!Execute(c)
Quote  == \E c \in QuoteCommands : Atomic!Execute(c)
Clock  == \E c \in ClockCommands : Atomic!Execute(c)
Cancel == \E c \in CancelCommands : Atomic!Execute(c)

SessionNext == Entry \/ Exit \/ Quote \/ Clock \/ Cancel

SessionSpec == SessionInit /\ [][SessionNext]_sessionVars

-----------------------------------------------------------------------------
Filled(s, leg) ==
    MapThenSumSet(LAMBDA i : s.orders[i].filled,
                  {i \in DOMAIN s.orders : s.orders[i].leg = leg})

SessionTypeOK ==
    /\ session.ok = TRUE
    /\ session.rev \in Nat
    /\ session.ledger.cash \in Nat
    /\ session.ledger.pos \in [Symbols -> Nat]
    /\ Len(session.ops) >= Len(session.orders)
    /\ session.cursor \in [Symbols -> Quotes \cup {NoQuote}]

\* No lookahead, and expiry wins at the deadline: an order is filled only by
\* quotes received strictly after it was created, so never by the quote it was
\* planned from, and never at or after expires_at (match_quote).
FillsInsideOrderLife ==
    \A i \in DOMAIN session.orders :
        LET o == session.orders[i] IN
        /\ o.filled > 0 => o.created < o.lastFill[1] /\ o.lastFill[1] < o.expires
        /\ o.status \in FillTypes => o.lastAt < o.expires

\* The cash reserve is held across concurrent cycles, fills, settlements and
\* releases: once a cycle has started, available cash never falls below it
\* (plan_paper_order, settle_paper_entry).
CashReserveHeld ==
    session.ledger.cycles > 0 => session.ledger.cash >= CashReserve

\* Exits only sell what one cycle bought, at or after its exit horizon, and a
\* cycle never has two live exits (submit_exit, reserve_paper_exit).
ExitsFollowEntries ==
    \A x \in DOMAIN session.orders :
        LET o == session.orders[x] IN
        o.leg = "EXIT" =>
            /\ ~Live(session.orders[o.parent])
            /\ o.qty <= session.orders[o.parent].filled
            /\ o.created >= ExitFrom[o.arb]
            /\ \A y \in DOMAIN session.orders :
                  session.orders[y].parent = o.parent /\ Live(o)
                     /\ Live(session.orders[y]) => y = x

\* Both legs of a cycle keep to their lives: fills inside the order's own,
\* exits after the entry's (match_quote, submit_exit, advance_clock).
OrdersKeepTheirLives == FillsInsideOrderLife /\ ExitsFollowEntries

\* Displayed liquidity is shared, not multiplied: one quote fills at most what
\* it displays on each side over all orders, and a quote that repeats the
\* previous price adds only the increase in displayed quantity (process_quote).
LiquidityNotReused ==
    [][\A sym \in Symbols :
         LET p == session.cursor[sym]
             q == session'.cursor[sym]
             bought == Filled(session', "ENTRY") - Filled(session, "ENTRY")
             sold == Filled(session', "EXIT") - Filled(session, "EXIT")
         IN  p # q => /\ bought <= q.askQty /\ sold <= q.bidQty
                      /\ p # NoQuote /\ p.ask = q.ask => bought <= Delta(q.askQty, p.askQty)
                      /\ p # NoQuote /\ p.bid = q.bid => sold <= Delta(q.bidQty, p.bidQty)
      ]_sessionVars

\* What the stream of quotes gives PriorityRespected: a position of a symbol's
\* stream has one receipt time, and the quotes of a symbol received at one
\* instant came in one session of the stream.
SessionsApart ==
    \A p, q \in Quotes :
       p.sym = q.sym => /\ p.received = q.received => p.sess = q.sess
                        /\ p.sess = q.sess /\ p.seq = q.seq => p.received = q.received

\* Price-time priority on one side of the book: a quote that fills an order
\* leaves no live order of better priority and acceptable limit unfilled.
PriorityRespected ==
    [][\A i, j \in DOMAIN session.orders :
         LET a == session.orders[i]
             b == session.orders[j]
             q == session'.cursor[a.sym]
         IN  /\ i # j /\ a.leg = b.leg /\ a.sym = b.sym
             /\ Precedes(session, i, j)
             /\ session'.orders[j].filled > b.filled
             /\ Live(session'.orders[i])
             => \/ q.received <= a.created
                \/ ~LimitRespected(a, IF a.leg = "ENTRY" THEN q.ask ELSE q.bid)
      ]_sessionVars
=============================================================================
