------------------------------ MODULE MCClient ------------------------------
(* Small instances of clients and their bridge for TLC. *)
EXTENDS BridgeClient

CONSTANTS near, far, r1, r2

\* The far client is too new for the first bridge, and speaks the last version of
\* the second; its clock is a skew ahead.
Versions == [c \in Clients |-> IF c = near THEN <<1, 3>> ELSE <<1, 10>>]
FarAhead == [c \in Clients |-> IF c = near THEN 0 ELSE Skew]
Calls == [c \in Clients |-> IF c = near THEN {r1} ELSE {r2}]
Ranges == [b \in Boots |-> IF b = 0
                           THEN [min_supported |-> <<1, 1>>, max_supported |-> <<1, 3>>]
                           ELSE [min_supported |-> <<1, 3>>, max_supported |-> <<1, 10>>]]
\* HMAC is off at first (BRIDGE_ENABLE_HMAC=0), then on.
OffThenOn == [b \in Boots |-> b > 0]

==============================================================================
