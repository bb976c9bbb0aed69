------------------------------ MODULE MCRuntime ------------------------------
EXTENDS RuntimeOperations, TLC

SmallPolicy ==
  [account |-> "acc", needQmt |-> TRUE, accountAge |-> 2, strategyAge |-> 2, marketAge |-> 1,
   minCash |-> 5, fee |-> 10, maxGross |-> 50, maxLoss |-> 5, maxTurnover |-> 40,
   maxOrders |-> 2, maxCancels |-> 1, maxNotional |-> 20, maxSecurity |-> 30,
   deviation |-> 10, versions |-> {"v1"}, symbols |-> {"A"}, strategyGross |-> 30,
   strategyTurnover |-> 40, maxPositions |-> 1, tick |-> 5, lower |-> 10, upper |-> 15,
   lot |-> [BUY |-> 1, SELL |-> 1]]

Release == [app |-> 1, commit |-> 1, terminal |-> 1, bridge |-> 1, config |-> 1, schema |-> 1]
Deployed(binary, database) ==
  [f \in DOMAIN Release \cup {"binary", "database"} |->
     IF f = "binary" THEN binary ELSE IF f = "database" THEN database ELSE 1]

Quiet == [components |-> <<"QMT">>, does |-> {}, targets |-> {"OBSERVE", "SIMULATION"},
          sessions |-> {"s1"}, clock |-> 4, back |-> {}, skew |-> {0}, lags |-> {0}, health |-> {TRUE},
          gaps |-> {FALSE}, prices |-> {10}, strategies |-> {"p"}, versions |-> {"v1"},
          beats |-> 1, unknown |-> {"0"}, facts |-> {}, books |-> {}, intents |-> {},
          windows |-> {<<1, 9>>}, rows |-> 4, release |-> Release, observed |-> Deployed(1, 1)]

\* The supervisor while health comes and goes, over time (back too) and between components.
Supervised == [Quiet EXCEPT !.gaps = BOOLEAN, !.does = {"ingress", "control", "tick"}]
Corrected  == [Supervised EXCEPT !.clock = 3, !.back = {2}, !.gaps = {FALSE}]
Refreshing == [Quiet EXCEPT !.components = <<"QMT", "MARKET_DATA">>, !.clock = 3,
                            !.does = {"ingress", "quote", "control", "tick"}]

\* Every mode, requests repeated later.
Controlled == [Quiet EXCEPT !.does = {"ingress", "control", "halt"}, !.gaps = BOOLEAN, !.clock = 3,
                            !.targets = {"DISABLED", "OBSERVE", "SHADOW", "SIMULATION", "LIVE_ARMED"}]

\* Halts, shutdowns, crashes and restarts; a clock set back before the restart.
Restarted == [Quiet EXCEPT !.components = <<"OMS">>, !.health = BOOLEAN, !.sessions = {"s1", "s2"},
                           !.does = {"report", "halt", "tick", "shutdown", "die"}, !.clock = 3]
Ambiguous == [Restarted EXCEPT !.components = <<>>, !.unknown = {"0", "1", "2"},
                               !.back = {1, 2}, !.does = {"tick", "die"}]

\* News out of order and contradictory, from several strategy processes.
Noisy == [Quiet EXCEPT !.components = <<"QMT", "STRATEGY">>, !.does = {"ingress", "heartbeat"},
                       !.skew = {-1, 0, 1}, !.gaps = BOOLEAN,
                       !.strategies = {"p", "q"}, !.versions = {"v1", "v0"}, !.beats = 2]

NotMigrated == [Quiet EXCEPT !.observed = Deployed(1, 0)]

Order(side, quantity, price) ==
  [symbol |-> "A", side |-> side, quantity |-> quantity, price |-> price, expires |-> 6,
   account |-> "acc", version |-> "v1"]

Active(e, x, side, token) == [event |-> e, symbol |-> x, side |-> side, remaining |-> 20, token |-> token]

BookOf(a, b, other, cash, facts) ==
  [own |-> [A |-> a, B |-> b], other |-> [A |-> other, B |-> 0], cash |-> cash, at |-> 0,
   facts |-> facts, tokens |-> {"ours"}, sellable |-> 1, ambiguous |-> FALSE]

Books == { BookOf(a, b, other, cash, facts) :
             a \in {0, 10, 20}, b \in {0, 10}, other \in {0, 10}, cash \in {16, 40},
             facts \in { <<>>, <<Active(1, "B", "BUY", "theirs")>>, <<Active(1, "A", "SELL", "ours")>>,
                         <<Active(1, "B", "BUY", "theirs"), Active(1, "B", "BUY", "theirs")>>,
                         <<Active(1, "A", "BUY", "none")>>,
                         <<Active(1, "B", "BUY", "theirs"), Active(2, "B", "BUY", "none")>> } }

Fact(k, kind, notional) == [key |-> k, kind |-> kind, notional |-> notional, pnl |-> -5]

Trading == {"ingress", "quote", "heartbeat", "control", "ledger", "decide"}

\* One armed runtime decides on one intent over one book.
Deciding ==
  { [Quiet EXCEPT !.does = Trading, !.clock = 2, !.books = {b},
                  !.intents = {i}, !.facts = {Fact("pnl", "PNL", 0)}] :
    b \in Books, i \in {Order(s, n, p) : s \in {"BUY", "SELL"}, n \in {1, 2}, p \in {10, 11}} }

\* The day's limits.
Accounting ==
  [Quiet EXCEPT !.does = Trading, !.clock = 2,
                !.books = {BookOf(0, 0, 0, 40, <<>>)}, !.intents = {Order("BUY", 2, 10)},
                !.facts = {Fact("pnl", "PNL", 0), Fact("t1", "TRADE", 20), Fact("t2", "TRADE", 5),
                           Fact("o1", "ORDER", 0), Fact("o2", "ORDER", 0), Fact("c1", "CANCEL", 0),
                           Fact("c2", "CANCEL", 0)}]

\* A snapshot is held while the mode changes and time passes, or is set back.
Holding ==
  [Quiet EXCEPT !.does = Trading \cup {"halt"},
                !.lags = {-1, 0}, !.books = {BookOf(0, 0, 0, 40, <<>>)},
                !.intents = {Order("BUY", 1, 10)}, !.facts = {Fact("pnl", "PNL", 0)}]

HoldingOn == [Holding EXCEPT !.clock = 3, !.back = {2}, !.lags = {0}]

Plans == {Supervised, Corrected, Refreshing, Controlled, Restarted, Ambiguous, Noisy, NotMigrated,
          Accounting, Holding, HoldingOn} \cup Deciding

RequestSymmetry == Permutations(RequestId)

HaltPlans == {Supervised}
=============================================================================
