------------------------------ MODULE RiskEngine -----------------------------
(***************************************************************************)
(* The pure half of risk control: evaluate_risk (risk/engine.py), the      *)
(* classification of active broker orders (risk/external_orders.py), the   *)
(* daily ledger (risk/accounting.py) and the assembly of a snapshot from   *)
(* runtime facts (service/risk_runtime.py, risk/snapshot_builder.py).      *)
(*                                                                         *)
(* Decimals are exact in the code and integers here; rates are percents.   *)
(***************************************************************************)
EXTENDS Integers, FiniteSets, Sequences, SequencesExt

\* RiskPolicy and StrategyPolicy: the values their constructors accept.
ValidPolicy(p) ==
  /\ {p.accountAge, p.strategyAge, p.marketAge} \subseteq Nat \ {0}
  /\ {p.minCash, p.maxGross, p.maxLoss, p.maxTurnover, p.maxOrders, p.maxCancels,
      p.maxNotional, p.maxSecurity, p.strategyGross, p.strategyTurnover, p.maxPositions}
       \subseteq Nat
  /\ {p.fee, p.deviation} \subseteq 0..99
  /\ p.versions # {} /\ p.symbols # {}

\* OrderIntent: what its constructor accepts.
IsIntent(i) == i.side \in {"BUY", "SELL"} /\ {i.quantity, i.price} \subseteq Nat \ {0}

\* The five health facts evaluate_risk reads, and the reason code of each.
HealthCode == [DATABASE |-> "DATABASE_UNHEALTHY", OMS |-> "DATA_STALE",
               LEADER |-> "LEADER_NOT_HELD", RECONCILIATION |-> "DATA_STALE",
               QMT |-> "DATA_STALE"]

\* Mutant: facts never become too old.
IsStale_FutureOnly(at, now, age) == at > now

\* Old facts and facts from the future are both stale.
IsStale(at, now, age) == at > now \/ at < now - age

Notional(intent) == intent.price * intent.quantity

\* What a long exposure becomes when the order is executed completely.
ProjectedLong(side, total, inSymbol, notional) ==
  IF side = "BUY" THEN total + notional
  ELSE LET left == total - (IF inSymbol < notional THEN inSymbol ELSE notional)
       IN  IF left < 0 THEN 0 ELSE left

ProjectedPositions(intent, s) ==
  IF intent.side = "BUY"
  THEN s.positions + (IF s.inSecurity = 0 THEN 1 ELSE 0)
  ELSE IF s.inSecurity > 0 /\ Notional(intent) >= s.inSecurity /\ s.positions > 0
       THEN s.positions - 1 ELSE s.positions

Rule(id, code, broken) == [rule |-> id, code |-> code, broken |-> broken]

GlobalRules(i, s, p, now) ==
  LET Health(c) == Rule(c, HealthCode[c], ~s.health[c])
      a == s.account
  IN << Health("DATABASE"), Health("OMS"), Health("LEADER"), Health("RECONCILIATION"),
        Rule("RUNTIME_MODE", "MODE_NOT_ARMED", s.mode # "SIMULATION"),
        Rule("QMT", HealthCode["QMT"], p.needQmt /\ ~s.health["QMT"]),
        Rule("BLOCKING_AMBIGUITY", "UNKNOWN_ORDER", s.ambiguous),
        Rule("MARKET_OPEN", "MARKET_CLOSED", ~s.open),
        Rule("DAILY_LOSS", "LIMIT_EXCEEDED", a.pnl < -p.maxLoss),
        Rule("DAILY_TURNOVER", "LIMIT_EXCEEDED", a.turnover + Notional(i) > p.maxTurnover),
        Rule("DAILY_ORDERS", "LIMIT_EXCEEDED", a.orders + 1 > p.maxOrders),
        Rule("DAILY_CANCELS", "LIMIT_EXCEEDED", a.cancels > p.maxCancels) >>

AccountRules(i, s, p, now) ==
  LET a == s.account
  IN << Rule("FINGERPRINT", "ACCOUNT_MISMATCH", i.account # p.account \/ a.id # p.account),
        Rule("ACCOUNT_FRESHNESS", "DATA_STALE", IsStale(a.at, now, p.accountAge)),
        Rule("CONSISTENCY", "DATA_STALE", s.security.gross > a.gross),
        Rule("STRATEGY_CONSISTENCY", "DATA_STALE", s.strategy.gross > a.gross),
        Rule("MIN_CASH", "LIMIT_EXCEEDED", a.cash < p.minCash),
        Rule("ACCOUNT_EXPOSURE", "LIMIT_EXCEEDED",
             ProjectedLong(i.side, a.gross, s.security.gross, Notional(i)) > p.maxGross) >>

StrategyRules(i, s, p, now) ==
  LET t == s.strategy
  IN << Rule("STRATEGY_ALLOWED", "STRATEGY_NOT_ALLOWED",
             i.version \notin p.versions \/ t.version # i.version),
        Rule("HEARTBEAT", "DATA_STALE", IsStale(t.at, now, p.strategyAge)),
        Rule("UNIVERSE", "STRATEGY_NOT_ALLOWED", i.symbol \notin p.symbols),
        Rule("STRATEGY_EXPOSURE", "LIMIT_EXCEEDED",
             ProjectedLong(i.side, t.gross, t.inSecurity, Notional(i)) > p.strategyGross),
        Rule("STRATEGY_TURNOVER", "LIMIT_EXCEEDED",
             t.turnover + Notional(i) > p.strategyTurnover),
        Rule("POSITION_COUNT", "LIMIT_EXCEEDED",
             ProjectedPositions(i, t) > p.maxPositions) >>

OrderRules(i, s, p, now) ==
  LET x == s.security
      off == IF i.price < x.reference THEN x.reference - i.price ELSE i.price - x.reference
  IN << Rule("EXPIRY", "INTENT_EXPIRED", now >= i.expires),
        Rule("SECURITY", "INVALID_ORDER", x.symbol # i.symbol),
        Rule("MARKET_FRESHNESS", "DATA_STALE", IsStale(x.at, now, p.marketAge)),
        Rule("SYMBOL_AMBIGUITY", "UNKNOWN_ORDER", i.symbol \in s.blocked),
        Rule("TICK", "INVALID_ORDER", i.price % x.tick # 0),
        Rule("BAND", "INVALID_ORDER", ~(x.lower <= i.price /\ i.price <= x.upper)),
        Rule("DEVIATION", "INVALID_ORDER", off * 100 > p.deviation * x.reference),
        Rule("LOT", "INVALID_ORDER", i.quantity % x.lot[i.side] # 0),
        Rule("NOTIONAL", "LIMIT_EXCEEDED", Notional(i) > p.maxNotional),
        Rule("SECURITY_EXPOSURE", "LIMIT_EXCEEDED",
             ProjectedLong(i.side, x.gross, x.gross, Notional(i)) > p.maxSecurity),
        IF i.side = "BUY"
        THEN Rule("CASH", "LIMIT_EXCEEDED",
                  (s.account.cash - p.minCash) * 100 < Notional(i) * (100 + p.fee))
        ELSE Rule("SELLABLE", "LIMIT_EXCEEDED", i.quantity > x.sellable) >>

\* evaluate_risk: the rules in their fixed order; the first one broken names the reason.
EvaluateRisk(i, s, p, now) ==
  LET rules  == GlobalRules(i, s, p, now) \o AccountRules(i, s, p, now)
                  \o StrategyRules(i, s, p, now) \o OrderRules(i, s, p, now)
      broken == { k \in DOMAIN rules : rules[k].broken }
  IN [accepted |-> broken = {},
      reason   |-> IF broken = {} THEN "OK" ELSE rules[Min(broken)].code]

-----------------------------------------------------------------------------
(* Active broker orders of other origin.  A fact is [event, symbol, side,  *)
(* remaining (a notional), token]; the same fact may be seen several times.*)

FactConflict(facts) ==
  \E f, g \in Range(facts) : f.event = g.event /\ f # g

External(facts, tokens) == { f \in Range(facts) : f.token \notin tokens }

BlockedSymbols(facts, tokens) == { f.symbol : f \in External(facts, tokens) }

\* remaining_notional of a set of orders.
Remaining(orders) == MapThenSumSet(LAMBDA f : f.remaining, orders)

PendingBuy(facts, tokens, symbols) ==
  Remaining({ f \in External(facts, tokens) : f.side = "BUY" /\ f.symbol \in symbols })

-----------------------------------------------------------------------------
(* DailyRiskLedger: append-only facts with a durable identity.             *)

NoFacts == [events |-> {}, pnl |-> {}]

\* A fact is recorded unless its key is known (a replay) or contradicts (a conflict).
RecordEvent(l, e) ==
  IF \E x \in l.events : x.key = e.key THEN l ELSE [l EXCEPT !.events = @ \cup {e}]

RecordPnl(l, e) ==
  IF \E x \in l.pnl : x.key = e.key \/ x.at = e.at THEN l ELSE [l EXCEPT !.pnl = @ \cup {e}]

NewestPnl(l) == CHOOSE x \in l.pnl : \A y \in l.pnl : y.at <= x.at

OfKind(l, k) == { e \in l.events : e.kind = k }

Turnover(l) == MapThenSumSet(LAMBDA e : e.notional, OfKind(l, "TRADE"))

-----------------------------------------------------------------------------
(* The snapshot.  A book holds what the caller knows of the account:       *)
(* own (the strategy's exposure per symbol), other (the rest of the        *)
(* account's), cash, when it was observed, and the active broker orders.   *)

\* AccountState, StrategyState and ActiveBrokerOrderFact: no exposure is negative.
IsBook(b) ==
  /\ DOMAIN b = {"own", "other", "cash", "at", "facts", "tokens", "sellable", "ambiguous"}
  /\ IsFiniteSet(DOMAIN b.own) /\ DOMAIN b.other = DOMAIN b.own
  /\ \A x \in DOMAIN b.own : {b.own[x], b.other[x]} \subseteq Nat
  /\ IsFiniteSet(Range(b.facts)) /\ \A f \in Range(b.facts) : f.remaining \in Nat

Gross(f) == MapThenSumSet(LAMBDA x : f[x], DOMAIN f)

\* MarketDataService.latest: both the broker's and the local time must be recent.
FreshQuote(quote, now, age) ==
  /\ quote # {}
  /\ \A q \in quote : ~IsStale(q.broker, now, age) /\ ~IsStale(q.seen, now, age)

\* StrategyRuntimeService.require_fresh
FreshBeat(beat, now, age) == beat # {} /\ \A b \in beat : ~IsStale(b.at, now, age)

\* RuntimeRiskAssembler.build: the runtime facts it insists on.
Buildable(l, beat, quote, p, now) ==
  /\ l.pnl # {} /\ ~IsStale(NewestPnl(l).at, now, p.accountAge)
  /\ FreshBeat(beat, now, p.strategyAge) /\ FreshQuote(quote, now, p.marketAge)

\* RiskSnapshotBuilder.build over the account, strategy and security facts the caller
\* knows (on its own it is the mutant that forgets the external orders).
Snapshot_NoExternal(mode, health, open, l, beat, quote, book, x, p) ==
  [mode |-> mode, health |-> health, open |-> open, ambiguous |-> book.ambiguous,
   blocked  |-> BlockedSymbols(book.facts, book.tokens),
   account  |-> [id |-> p.account, cash |-> book.cash, at |-> book.at,
                 gross |-> Gross(book.own) + Gross(book.other),
                 pnl |-> NewestPnl(l).pnl, turnover |-> Turnover(l),
                 orders |-> Cardinality(OfKind(l, "ORDER")),
                 cancels |-> Cardinality(OfKind(l, "CANCEL"))],
   strategy |-> [version |-> beat.version, gross |-> Gross(book.own),
                 inSecurity |-> book.own[x], turnover |-> Turnover(l), at |-> beat.at,
                 positions |-> Cardinality({ y \in DOMAIN book.own : book.own[y] > 0 })],
   security |-> [symbol |-> x, reference |-> quote.price, at |-> quote.broker,
                 gross |-> book.own[x] + book.other[x],
                 tick |-> p.tick, lower |-> p.lower, upper |-> p.upper, lot |-> p.lot,
                 sellable |-> book.sellable]]

\* The snapshot with the unfilled external buys added to the exposures.
Snapshot(mode, health, open, l, beat, quote, book, x, p) ==
  LET s == Snapshot_NoExternal(mode, health, open, l, beat, quote, book, x, p)
  IN [s EXCEPT
        !.account.gross  = @ + PendingBuy(book.facts, book.tokens, DOMAIN book.own),
        !.security.gross = @ + PendingBuy(book.facts, book.tokens, {x})]

\* AccountRiskSnapshot, StrategyRiskSnapshot and SecurityRiskSnapshot: what their
\* constructors accept.
WellFormed(s) ==
  LET a == s.account  t == s.strategy  x == s.security IN
  /\ {a.cash, a.gross, a.turnover, t.inSecurity, t.turnover, x.sellable, x.gross} \subseteq Nat
  /\ t.inSecurity <= t.gross
  /\ {x.tick, x.lower, x.upper, x.reference, x.lot["BUY"], x.lot["SELL"]} \subseteq Nat \ {0}
  /\ x.lower <= x.upper
=============================================================================
