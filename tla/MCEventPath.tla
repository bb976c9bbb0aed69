----------------------------- MODULE MCEventPath -----------------------------
EXTENDS EventPath

Quiet == [oms |-> FALSE, other |-> {}, flaky |-> FALSE, misses |-> {}, types |-> {},
          sessions |-> 1, events |-> 3, queue |-> 2, deaths |-> 0, fails |-> 0,
          days |-> 1, trades |-> 0, cash |-> 1]

\* A disk that fails, a short queue and queries that fail or find nothing.
Dropping == [Quiet EXCEPT !.flaky = TRUE, !.misses = {"account"}, !.events = 5,
                          !.types = {"account", "error"}, !.cash = 2]

\* Snapshots in which any of the queries comes back without rows, between trades.
Missing == [Quiet EXCEPT !.oms = TRUE, !.misses = Query, !.events = 5, !.types = {"account", "deal"},
                         !.trades = 1]

\* Host restarts while days close.
Archiving == [Quiet EXCEPT !.deaths = 1, !.days = 2, !.events = 4, !.types = {"account"},
                           !.flaky = TRUE]

\* The operator selects another account in the second session.
Switching == [Quiet EXCEPT !.other = {2}, !.sessions = 2, !.events = 3, !.deaths = 1]

\* The OMS host with failing handlers.
Feeding == [Quiet EXCEPT !.oms = TRUE, !.trades = 2, !.deaths = 1, !.fails = 1,
                         !.events = 5, !.types = {"deal"}]

\* The same for an order that is filled completely.
Filling == [Quiet EXCEPT !.oms = TRUE, !.trades = 3, !.deaths = 1, !.events = 4,
                         !.types = {"order", "deal"}]

\* The terminal restarts under an OMS host.
Rolling == [Quiet EXCEPT !.oms = TRUE, !.sessions = 2, !.events = 3]

Plans == {Dropping, Missing, Archiving, Switching, Feeding, Filling, Rolling}

\* For the findings: a host restart between two deals; leftovers of an earlier session.
RestartPlans == {[Quiet EXCEPT !.oms = TRUE, !.trades = 2, !.deaths = 1, !.events = 5,
                              !.types = {"deal"}]}
RolloverPlans == {Rolling}
=============================================================================
