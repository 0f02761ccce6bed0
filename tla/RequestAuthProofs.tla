-------------------------- MODULE RequestAuthProofs --------------------------
(***************************************************************************)
(* That the bridge acts upon a signed request at most once, for any        *)
(* requests, clocks, copies and restarts, as long as a nonce is kept for   *)
(* two skews and the most that the clock is set back (WindowAssumption).   *)
(*                                                                         *)
(* AcceptedOnce is not inductive: that a nonce is not in the cache must    *)
(* mean that its request is not accepted any more.  NonceOutlives says so: *)
(* an entry lasts until the clock has been past stamp - Skew + NonceTTL,   *)
(* and then even a clock that was set back is past stamp + Skew.           *)
(***************************************************************************)
EXTENDS RequestAuth, TLAPS

ClockIsNear == peak - SetBack <= clock

UnsignedIsUnknown == \A r \in Requests : stamp[r] = Unsigned => accepts[r] = 0

NonceOutlives ==
    \A r \in Requests :
        accepts[r] > 0 =>
            IF seen[r] = NotSeen THEN peak > stamp[r] - Skew + NonceTTL
                                 ELSE seen[r] >= stamp[r] - Skew + NonceTTL

NonceInv ==
    /\ AuthTypeOK
    /\ ClockIsNear
    /\ UnsignedIsUnknown
    /\ NonceOutlives
    /\ AcceptedOnce
    /\ OnlyAcceptedIsRemembered

USE AuthAssumption, WindowAssumption DEF Time, NotSeen, Unsigned

-----------------------------------------------------------------------------

\* What pruning makes of an entry.
LEMMA PrunedEntry ==
    ASSUME AuthTypeOK, NEW r \in Requests
    PROVE  /\ Pruned \in [Requests -> Int]
           /\ Pruned[r] = IF seen[r] < clock THEN NotSeen ELSE seen[r]
BY DEF AuthTypeOK, Pruned

\* A request that verify accepts was not accepted before by this process.
LEMMA AcceptedIsNew ==
    ASSUME NonceInv, NEW r \in Requests, NEW intact \in BOOLEAN,
           VerifyAnswer(r, intact) = "accepted"
    PROVE  accepts[r] = 0
<1>1. clock - stamp[r] <= Skew /\ Pruned[r] = NotSeen
  BY DEF VerifyAnswer, OnTime
<1>2. seen[r] < clock \/ seen[r] = NotSeen
  BY <1>1, PrunedEntry DEF NonceInv
<1>3. clock \in Int /\ peak \in Int /\ stamp[r] \in Int /\ seen[r] \in Int
      /\ clock <= peak /\ accepts[r] \in Nat
  BY DEF NonceInv, AuthTypeOK
<1>4. ASSUME accepts[r] > 0 PROVE peak > stamp[r] - Skew + NonceTTL
  BY <1>2, <1>3, <1>4 DEF NonceInv, NonceOutlives
<1>5. peak - SetBack <= clock
  BY DEF NonceInv, ClockIsNear
<1> QED
  BY <1>1, <1>3, <1>4, <1>5

\* The values that verify gives the cache and the counts.
LEMMA VerifyValues ==
    ASSUME AuthTypeOK, NEW r \in Requests, NEW intact \in BOOLEAN, Verify(r, intact)
    PROVE  /\ seen' \in [Requests -> Int]
           /\ accepts' \in [Requests -> Nat]
           /\ \A q \in Requests :
                \/ /\ q = r /\ VerifyAnswer(r, intact) = "accepted"
                   /\ seen'[q] = clock + NonceTTL /\ accepts'[q] = accepts[q] + 1
                \/ /\ seen'[q] = seen[q] \/ (seen[q] < clock /\ seen'[q] = NotSeen)
                   /\ accepts'[q] = accepts[q]
<1>1. Pruned \in [Requests -> Int]
      /\ \A q \in Requests : Pruned[q] = IF seen[q] < clock THEN NotSeen ELSE seen[q]
  BY PrunedEntry
<1>2. clock \in Nat /\ seen \in [Requests -> Int] /\ accepts \in [Requests -> Nat]
  BY DEF AuthTypeOK
<1>3. CASE VerifyAnswer(r, intact) = "accepted"
  BY <1>1, <1>2, <1>3 DEF Verify
<1>4. CASE VerifyAnswer(r, intact) # "accepted"
  BY <1>1, <1>2, <1>4 DEF Verify
<1> QED
  BY <1>3, <1>4

-----------------------------------------------------------------------------

LEMMA InitHolds == AuthInit => NonceInv
BY DEF AuthInit, NonceInv, AuthTypeOK, ClockIsNear, UnsignedIsUnknown, NonceOutlives,
       AcceptedOnce, OnlyAcceptedIsRemembered

LEMMA SignKeeps ==
    ASSUME NonceInv, NEW r \in Requests, NEW t \in ClientTimes, Sign(r, t)
    PROVE  NonceInv'
<1>1. t \in Nat /\ UNCHANGED <<clock, peak, seen, accepts, boots>>
  BY DEF Sign
<1>2. stamp' \in [Requests -> Int]
  BY <1>1 DEF Sign, NonceInv, AuthTypeOK
<1>3. \A q \in Requests : q # r => stamp'[q] = stamp[q]
  BY DEF Sign, NonceInv, AuthTypeOK
<1>4. stamp'[r] = t /\ accepts[r] = 0
  BY DEF Sign, NonceInv, AuthTypeOK, UnsignedIsUnknown
<1>5. AuthTypeOK' /\ ClockIsNear'
  BY <1>1, <1>2 DEF NonceInv, AuthTypeOK, ClockIsNear
<1>6. UnsignedIsUnknown'
  BY <1>1, <1>3, <1>4 DEF NonceInv, UnsignedIsUnknown
<1>7. NonceOutlives'
  BY <1>1, <1>3, <1>4 DEF NonceInv, NonceOutlives
<1>8. AcceptedOnce' /\ OnlyAcceptedIsRemembered'
  BY <1>1 DEF NonceInv, AcceptedOnce, OnlyAcceptedIsRemembered
<1> QED
  BY <1>5, <1>6, <1>7, <1>8 DEF NonceInv

LEMMA DeliverKeeps ==
    ASSUME NonceInv, NEW r \in Requests, NEW intact \in BOOLEAN, Deliver(r, intact)
    PROVE  NonceInv'
<1>1. Verify(r, intact) /\ stamp[r] # Unsigned /\ AuthTypeOK
  BY DEF Deliver, NonceInv
<1>2. UNCHANGED <<clock, peak, stamp, boots>>
  BY <1>1 DEF Verify
<1>3. /\ seen' \in [Requests -> Int]
      /\ accepts' \in [Requests -> Nat]
      /\ \A q \in Requests :
           \/ /\ q = r /\ VerifyAnswer(r, intact) = "accepted"
              /\ seen'[q] = clock + NonceTTL /\ accepts'[q] = accepts[q] + 1
           \/ /\ seen'[q] = seen[q] \/ (seen[q] < clock /\ seen'[q] = NotSeen)
              /\ accepts'[q] = accepts[q]
  BY <1>1, VerifyValues
<1>4. /\ clock \in Nat /\ peak \in Nat /\ clock <= peak
      /\ \A q \in Requests : stamp[q] \in Int /\ seen[q] \in Int /\ accepts[q] \in Nat
  BY <1>1 DEF AuthTypeOK
<1>5. AuthTypeOK' /\ ClockIsNear'
  BY <1>2, <1>3 DEF NonceInv, AuthTypeOK, ClockIsNear
<1>6. VerifyAnswer(r, intact) = "accepted" => accepts[r] = 0 /\ stamp[r] - clock <= Skew
  BY AcceptedIsNew DEF VerifyAnswer, OnTime
<1>7. UnsignedIsUnknown'
  BY <1>1, <1>2, <1>3 DEF NonceInv, UnsignedIsUnknown
<1>8. NonceOutlives'
  <2> SUFFICES ASSUME NEW q \in Requests, accepts'[q] > 0
               PROVE  IF seen'[q] = NotSeen THEN peak > stamp[q] - Skew + NonceTTL
                                            ELSE seen'[q] >= stamp[q] - Skew + NonceTTL
    BY <1>2 DEF NonceOutlives
  <2>1. CASE q = r /\ VerifyAnswer(r, intact) = "accepted"
             /\ seen'[q] = clock + NonceTTL /\ accepts'[q] = accepts[q] + 1
    BY <2>1, <1>4, <1>6
  <2>2. CASE /\ seen'[q] = seen[q] \/ (seen[q] < clock /\ seen'[q] = NotSeen)
             /\ accepts'[q] = accepts[q]
    BY <2>2, <1>4 DEF NonceInv, NonceOutlives
  <2> QED
    BY <2>1, <2>2, <1>3
<1>9. AcceptedOnce'
  BY <1>3, <1>4, <1>6 DEF NonceInv, AcceptedOnce
<1>10. OnlyAcceptedIsRemembered'
  BY <1>3, <1>4 DEF NonceInv, OnlyAcceptedIsRemembered
<1> QED
  BY <1>5, <1>7, <1>8, <1>9, <1>10 DEF NonceInv

LEMMA ClockKeeps ==
    ASSUME NonceInv, Tick \/ StepBack
    PROVE  NonceInv'
<1>1. UNCHANGED <<stamp, seen, accepts, boots>>
  BY DEF Tick, StepBack
<1>2. /\ clock' \in Time /\ peak' \in Time /\ clock' <= peak' /\ peak <= peak'
      /\ peak' - SetBack <= clock'
  BY DEF Tick, StepBack, NonceInv, AuthTypeOK, ClockIsNear
<1>3. AuthTypeOK' /\ ClockIsNear'
  BY <1>1, <1>2 DEF NonceInv, AuthTypeOK, ClockIsNear
<1>4. NonceOutlives'
  BY <1>1, <1>2 DEF NonceInv, NonceOutlives, AuthTypeOK
<1>5. UnsignedIsUnknown' /\ AcceptedOnce' /\ OnlyAcceptedIsRemembered'
  BY <1>1 DEF NonceInv, UnsignedIsUnknown, AcceptedOnce, OnlyAcceptedIsRemembered
<1> QED
  BY <1>3, <1>4, <1>5 DEF NonceInv

LEMMA RebootKeeps ==
    ASSUME NonceInv, Reboot
    PROVE  NonceInv'
BY DEF Reboot, NonceInv, AuthTypeOK, ClockIsNear, UnsignedIsUnknown, NonceOutlives,
       AcceptedOnce, OnlyAcceptedIsRemembered

LEMMA StutterKeeps ==
    ASSUME NonceInv, UNCHANGED authVars
    PROVE  NonceInv'
BY DEF authVars, NonceInv, AuthTypeOK, ClockIsNear, UnsignedIsUnknown, NonceOutlives,
       AcceptedOnce, OnlyAcceptedIsRemembered

\* Every reachable state of signer and cache keeps the invariant: types, the clock no
\* further back than it may be put, and nonces that outlive their requests.
THEOREM NonceInvariant == AuthSpec => []NonceInv
<1>1. AuthInit => NonceInv
  BY InitHolds
<1>2. NonceInv /\ [AuthNext]_authVars => NonceInv'
  BY SignKeeps, DeliverKeeps, ClockKeeps, RebootKeeps, StutterKeeps DEF AuthNext
<1> QED
  BY <1>1, <1>2, PTL DEF AuthSpec

\* One run of the bridge acts upon a signed request at most once
\* (RequestSigner.verify), for any clocks and copies.
THEOREM AtMostOnce == AuthSpec => []AcceptedOnce
<1>1. NonceInv => AcceptedOnce
  BY DEF NonceInv
<1> QED
  BY <1>1, NonceInvariant, PTL

\* A nonce in the cache is that of a request that was let through
\* (RequestSigner.verify adds it last).
THEOREM SeenWereAccepted == AuthSpec => []OnlyAcceptedIsRemembered
<1>1. NonceInv => OnlyAcceptedIsRemembered
  BY DEF NonceInv
<1> QED
  BY <1>1, NonceInvariant, PTL

==============================================================================
