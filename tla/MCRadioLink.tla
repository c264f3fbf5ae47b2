---------------------------- MODULE MCRadioLink ----------------------------
EXTENDS RadioLink, TLC

Capable == [ios |-> FALSE, secure |-> TRUE, api |-> TRUE, browser |-> "chrome"]
OneOfEach == {Capable, [Capable EXCEPT !.ios = TRUE], [Capable EXCEPT !.secure = FALSE],
              [Capable EXCEPT !.api = FALSE]}
Refusals == {[name |-> "NotFoundError", adapter |-> FALSE],
             [name |-> "NetworkError", adapter |-> FALSE]}
Costs == [k \in Kind |-> IF k = "order" THEN 2 ELSE 1]
=============================================================================
