---------------------------- MODULE MCOwnerCalls ----------------------------
EXTENDS OwnerCalls
CONSTANTS g1, g2

Floors == [g \in {g1, g2} |-> IF g = g1 THEN 2 ELSE 1]
Starts == [g \in {g1, g2} |-> IF g = g1 THEN 1 ELSE 2]

Src(kind, g, id, amount) ==
    [kind |-> kind, gw |-> g, id |-> id, at |-> 0, rank |-> <<0, 0, 0>>,
     amount |-> amount]
Lists == {<<>>,
          <<Src("withdrawal", NoGw, NoId, 1), Src("delegation", NoGw, NoId, 1)>>,
          <<Src("balance", NoGw, NoId, 1), Src("delegation", g1, NoId, 1)>>}

Base == [liquid |-> 0, hasAta |-> TRUE, payeeAta |-> FALSE,
         stake |-> [g \in {g1, g2} |-> 0],
         status |-> [g \in {g1, g2} |-> "joined"], own |-> 0, joined |-> FALSE,
         vaults |-> <<>>, locks |-> <<>>, lockAtas |-> {}, price |-> 2,
         premium |-> 0, paid |-> 0]
Stakes(a, b) == [g \in {g1, g2} |-> IF g = g1 THEN a ELSE b]

Delegator == [Base EXCEPT !.liquid = 1, !.stake = Stakes(3, 1),
                          !.vaults = <<New(1, g1, FALSE)>>]
Operator  == [Base EXCEPT !.own = 2, !.joined = TRUE, !.premium = 1, !.liquid = 1,
                          !.vaults = <<New(1, NoGw, TRUE), New(1, NoGw, FALSE)>>]
Holder    == [Base EXCEPT !.hasAta = FALSE,
                          !.locks = <<[New(1, NoGw, FALSE) EXCEPT !.matured = TRUE]>>]
Staker    == [Base EXCEPT !.stake = Stakes(3, 0), !.price = 3,
                          !.vaults = <<New(1, g1, FALSE)>>]
AllPortfolios == {Delegator, Operator, Holder, Staker}
=============================================================================
