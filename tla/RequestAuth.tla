----------------------------- MODULE RequestAuth -----------------------------
(***************************************************************************)
(* bridge_security.py: RequestSigner and its NonceCache.  A client stamps  *)
(* a request with its clock and a nonce of its own; the bridge accepts it  *)
(* within Skew of its own clock, and remembers the nonce for NonceTTL so   *)
(* that a copy of the request is not acted upon again.  verify() awaits    *)
(* nothing, so it is one step of the event loop.                           *)
(*                                                                         *)
(* Both clocks are time.time(): they jump forward, and when they are set   *)
(* right they go back.  A request stands for its nonce: secrets draws 24   *)
(* bytes, and no two requests have the same.                               *)
(***************************************************************************)
EXTENDS Integers

CONSTANTS
    Requests,     \* requests that clients may sign
    ClientTimes,  \* what the clocks of clients may read
    Skew,         \* DEFAULT_SKEW_SECONDS
    NonceTTL,     \* NONCE_TTL_SECONDS
    SetBack,      \* how far behind its highest reading the clock may be put
    MaxTime,      \* bound on the time explored
    MaxBoots      \* bound on the restarts explored

VARIABLES
    clock,        \* the bridge's time.time(), whole seconds
    peak,         \* the highest reading of clock so far
    stamp,        \* per request: its X-Signature-Timestamp, once it is signed
    seen,         \* NonceCache._seen: when the entry of a nonce expires
    accepts,      \* how often this process has let a request through
    boots         \* restarts so far

authVars == <<clock, peak, stamp, seen, accepts, boots>>

Unsigned == -1
NotSeen == -1
Time == 0 .. MaxTime

ASSUME AuthAssumption ==
    /\ ClientTimes \subseteq Nat
    /\ Skew \in Nat /\ NonceTTL \in Nat /\ SetBack \in Nat
    /\ MaxTime \in Nat /\ MaxBoots \in Nat

\* 300 s against 2 * 120 s: the code leaves 60 s for a clock that is set back.
ASSUME WindowAssumption == 2 * Skew + SetBack <= NonceTTL

AuthTypeOK ==
    /\ clock \in Time /\ peak \in Time /\ clock <= peak
    /\ stamp \in [Requests -> Int]
    /\ seen \in [Requests -> Int]
    /\ accepts \in [Requests -> Nat]
    /\ boots \in Nat

AuthInit ==
    /\ clock \in Time /\ peak = clock
    /\ stamp = [r \in Requests |-> Unsigned]
    /\ seen = [r \in Requests |-> NotSeen]
    /\ accepts = [r \in Requests |-> 0]
    /\ boots = 0

\* RequestSigner.sign, with the reading t of the client's clock.
Sign(r, t) ==
    /\ stamp[r] = Unsigned
    /\ stamp' = [stamp EXCEPT ![r] = t]
    /\ UNCHANGED <<clock, peak, seen, accepts, boots>>

-----------------------------------------------------------------------------
(* RequestSigner.verify.  A copy is intact when its body has the hash and its      *)
(* headers the signature that the bridge computes with its own secret.             *)

OnTime(r) == clock - stamp[r] <= Skew /\ stamp[r] - clock <= Skew

\* Mutant: an entry is dropped when its request is a skew old.
PrunedAfterSkew == [r \in Requests |-> IF seen[r] + Skew < clock + NonceTTL
                                       THEN NotSeen ELSE seen[r]]

\* _prune: what NonceCache.add keeps.  NotSeen is less than any reading.
Pruned == [r \in Requests |-> IF seen[r] < clock THEN NotSeen ELSE seen[r]]

\* The error that verify raises, or "accepted".  The nonce is looked up last.
VerifyAnswer(r, intact) ==
    IF ~OnTime(r) THEN "expired"
    ELSE IF ~intact THEN "mismatch"
    ELSE IF Pruned[r] # NotSeen THEN "replayed"
    ELSE "accepted"

\* Mutant: the nonce is noted before the signature is looked at.
VerifyNotesFirst(r, intact) ==
    /\ seen' = IF OnTime(r) THEN [Pruned EXCEPT ![r] = clock + NonceTTL] ELSE seen
    /\ accepts' = IF VerifyAnswer(r, intact) = "accepted"
                 THEN [accepts EXCEPT ![r] = @ + 1] ELSE accepts
    /\ UNCHANGED <<clock, peak, stamp, boots>>

\* A copy of r arrives and goes through verify; NonceCache.add prunes even when
\* it then finds the nonce.
Verify(r, intact) ==
    /\ seen' = IF VerifyAnswer(r, intact) = "accepted"
              THEN [Pruned EXCEPT ![r] = clock + NonceTTL]
              ELSE IF VerifyAnswer(r, intact) = "replayed" THEN Pruned ELSE seen
    /\ accepts' = IF VerifyAnswer(r, intact) = "accepted"
                 THEN [accepts EXCEPT ![r] = @ + 1] ELSE accepts
    /\ UNCHANGED <<clock, peak, stamp, boots>>

Deliver(r, intact) == stamp[r] # Unsigned /\ Verify(r, intact)

-----------------------------------------------------------------------------

\* Time passes, by any amount.
Tick ==
    /\ \E t \in Time :
          /\ t > clock
          /\ clock' = t
          /\ peak' = IF t > peak THEN t ELSE peak
    /\ UNCHANGED <<stamp, seen, accepts, boots>>

\* The clock is set right.
StepBack ==
    /\ \E t \in Time : t < clock /\ peak - SetBack <= t /\ clock' = t
    /\ UNCHANGED <<peak, stamp, seen, accepts, boots>>

\* A new process has an empty cache.
Reboot ==
    /\ boots < MaxBoots
    /\ boots' = boots + 1
    /\ seen' = [r \in Requests |-> NotSeen]
    /\ accepts' = [r \in Requests |-> 0]
    /\ UNCHANGED <<clock, peak, stamp>>

AuthNext ==
    \/ \E r \in Requests, t \in ClientTimes : Sign(r, t)
    \/ \E r \in Requests, intact \in BOOLEAN : Deliver(r, intact)
    \/ Tick \/ StepBack \/ Reboot

AuthSpec == AuthInit /\ [][AuthNext]_authVars

\* One run of the bridge acts upon a signed request at most once, whatever copies
\* of it arrive and whenever the clocks are set (NonceCache.add, verify).
AcceptedOnce == \A r \in Requests : accepts[r] <= 1

\* Only a request that was let through counts as seen: no copy that is late or
\* does not check makes the bridge turn the good one away.
OnlyAcceptedIsRemembered ==
    \A r \in Requests : seen[r] # NotSeen => accepts[r] > 0

==============================================================================
