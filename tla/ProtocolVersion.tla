--------------------------- MODULE ProtocolVersion ---------------------------
(***************************************************************************)
(* bridge/middleware.py: which protocol versions a bridge talks to.  A     *)
(* version is the sequence of the numbers between its dots.  Python        *)
(* compares such tuples place by place, and a proper prefix comes first:   *)
(* 1.9 < 1.10, but also 1.3 < 1.3.0.                                       *)
(***************************************************************************)
EXTENDS Integers, Sequences

Version == Seq(Nat)

\* PROTOCOL_RANGE.
ProtocolRange == [min_supported : Version, max_supported : Version]

\* v < w.
Older(v, w) ==
    \/ \E k \in 1 .. Len(v) :
          /\ k <= Len(w)
          /\ \A i \in 1 .. k - 1 : v[i] = w[i]
          /\ v[k] < w[k]
    \/ /\ Len(v) < Len(w)
       /\ \A i \in 1 .. Len(v) : v[i] = w[i]

\* Mutant: numbers compared as the strings they are written with, so that their
\* first digits decide.
Digits(n) == IF n < 10 THEN <<n>> ELSE <<n \div 10, n % 10>>
AsText(v) == [i \in DOMAIN v |-> Digits(v[i])[1]]
VerdictAsText(v, range) ==
    IF Older(AsText(v), AsText(range.min_supported)) THEN "too_old"
    ELSE IF Older(AsText(range.max_supported), AsText(v)) THEN "too_new"
    ELSE "supported"

\* What validate_protocol_headers makes of the version that a client sends.
Verdict(v, range) ==
    IF Older(v, range.min_supported) THEN "too_old"
    ELSE IF Older(range.max_supported, v) THEN "too_new"
    ELSE "supported"

==============================================================================
