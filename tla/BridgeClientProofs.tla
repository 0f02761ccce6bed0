------------------------- MODULE BridgeClientProofs -------------------------
(***************************************************************************)
(* Clients and bridges together implement RequestAuth, so what is proved   *)
(* there holds of them, whatever versions, secrets, settings and clocks    *)
(* they have; and what a client knows of its bridge is right until the     *)
(* next restart.                                                           *)
(***************************************************************************)
EXTENDS BridgeClient, RequestAuthProofs

CallUnderWay == \A c \in Clients : pc[c] # "idle" => call[c] \in Requests

NoLaterHandshake == \A c \in Clients : handshake[c] <= boots

AcceptedWasActedUpon == \A r \in Requests : accepts[r] > 0 => acted[r] # {}

ReplayedIsKnown ==
    \A c \in Clients : answer[c] = "replayed" /\ pc[c] = "idle" => call[c] \in Requests

ClientInv ==
    /\ ClientTypeOK
    /\ boots <= MaxBoots
    /\ NonceInv
    /\ CallUnderWay
    /\ NoLaterHandshake
    /\ FreshHandshakeHolds
    /\ AcceptedWasActedUpon
    /\ ReplayedWasActedUpon
    /\ ReplayedIsKnown

USE ClientAssumption DEF Boots, NoBoot

-----------------------------------------------------------------------------

LEMMA ClientInit == Init => ClientInv
<1> SUFFICES ASSUME Init PROVE ClientInv
  OBVIOUS
<1>1. NonceInv /\ AuthTypeOK /\ boots = 0 /\ boots <= MaxBoots
  BY InitHolds, AuthAssumption DEF Init, AuthInit, NonceInv
<1>2. ClientTypeOK
  BY <1>1 DEF Init, ClientTypeOK
<1>3. \A c \in Clients : pc[c] = "idle" /\ handshake[c] = -1 /\ answer[c] = "none"
  BY DEF Init
<1>4. \A r \in Requests : accepts[r] = 0
  BY DEF Init, AuthInit
<1>5. CallUnderWay /\ NoLaterHandshake /\ FreshHandshakeHolds
      /\ AcceptedWasActedUpon /\ ReplayedWasActedUpon /\ ReplayedIsKnown
  BY <1>1, <1>3, <1>4 DEF CallUnderWay, NoLaterHandshake, FreshHandshakeHolds,
                         AcceptedWasActedUpon, ReplayedWasActedUpon, ReplayedIsKnown
<1> QED
  BY <1>1, <1>2, <1>5 DEF ClientInv

\* A verdict is one of three words.
LEMMA VerdictWords ==
    \A v, range : Verdict(v, range) \in {"too_old", "too_new", "supported"}
BY DEF Verdict

LEMMA VerifyWords ==
    ASSUME NEW r, NEW intact
    PROVE  VerifyAnswer(r, intact) \in {"expired", "mismatch", "replayed", "accepted"}
BY DEF VerifyAnswer

\* The authentication state is left alone: what speaks of it alone still holds.
LEMMA AuthKept ==
    ASSUME NonceInv, UNCHANGED authVars
    PROVE  NonceInv' /\ AuthTypeOK'
BY StutterKeeps DEF NonceInv

LEMMA CallKeeps ==
    ASSUME ClientInv, NEW c \in Clients, Call(c)
    PROVE  ClientInv'
<1>1. NonceInv' /\ AuthTypeOK'
  BY AuthKept DEF ClientInv, Call
<1>2. UNCHANGED <<clock, peak, stamp, seen, accepts, boots, handshake, signs, answer, acted>>
  BY DEF Call, authVars
<1>3. PICK r \in CallsOf[c] : call' = [call EXCEPT ![c] = r]
  BY DEF Call
<1>4. r \in Requests
  BY <1>3
<1>5. pc' = [pc EXCEPT ![c] = IF handshake[c] = NoBoot THEN "shake" ELSE "send"]
  BY DEF Call
<1>6. pc \in [Clients -> {"idle", "shake", "send", "wait"}]
      /\ call \in [Clients -> Requests \cup {NoCall}]
  BY DEF ClientInv, ClientTypeOK
<1>7. \A d \in Clients : d # c => pc'[d] = pc[d] /\ call'[d] = call[d]
  BY <1>3, <1>5, <1>6
<1>8. call'[c] = r /\ pc'[c] \in {"shake", "send"}
  BY <1>3, <1>5, <1>6
<1>9. ClientTypeOK'
  BY <1>1, <1>2, <1>3, <1>4, <1>5 DEF ClientInv, ClientTypeOK
<1>10. CallUnderWay' /\ ReplayedWasActedUpon' /\ ReplayedIsKnown'
  BY <1>2, <1>4, <1>7, <1>8 DEF ClientInv, CallUnderWay, ReplayedWasActedUpon, ReplayedIsKnown
<1>11. boots' <= MaxBoots /\ NoLaterHandshake' /\ AcceptedWasActedUpon'
  BY <1>2 DEF ClientInv, NoLaterHandshake, AcceptedWasActedUpon
<1>12. FreshHandshakeHolds'
  BY <1>2 DEF ClientInv, FreshHandshakeHolds, VerdictOn, Bridge
<1> QED
  BY <1>1, <1>9, <1>10, <1>11, <1>12 DEF ClientInv

\* A call that ends with one of the answers of the type leaves the client idle.
LEMMA EndFacts ==
    ASSUME ClientTypeOK, NEW c \in Clients,
           NEW result \in Refusals \cup {"none", "ok", "unreachable"}, End(c, result)
    PROVE  /\ pc' \in [Clients -> {"idle", "shake", "send", "wait"}]
           /\ answer' \in [Clients -> Refusals \cup {"none", "ok", "unreachable"}]
           /\ pc'[c] = "idle" /\ answer'[c] = result
           /\ \A d \in Clients : d # c => pc'[d] = pc[d] /\ answer'[d] = answer[d]
BY DEF End, ClientTypeOK

\* An end that is no refusal as replayed, whether or not the request is forgotten.
LEMMA AbandonKeeps ==
    ASSUME ClientInv, AuthTypeOK', NEW c \in Clients,
           NEW result \in (Refusals \ {"replayed"}) \cup {"ok", "unreachable"},
           End(c, result),
           call' = [call EXCEPT ![c] = NoCall] \/ call' = call,
           handshake' \in [Clients -> Boots \cup {NoBoot}], signs' = signs,
           acted' = acted
    PROVE  ClientTypeOK' /\ CallUnderWay' /\ ReplayedWasActedUpon' /\ ReplayedIsKnown'
<1>1. ClientTypeOK
  BY DEF ClientInv
<1>2. /\ pc' \in [Clients -> {"idle", "shake", "send", "wait"}]
      /\ answer' \in [Clients -> Refusals \cup {"none", "ok", "unreachable"}]
      /\ pc'[c] = "idle" /\ answer'[c] = result
      /\ \A d \in Clients : d # c => pc'[d] = pc[d] /\ answer'[d] = answer[d]
  BY <1>1, EndFacts
<1>3. /\ call' \in [Clients -> Requests \cup {NoCall}]
      /\ \A d \in Clients : d # c => call'[d] = call[d]
  BY <1>1 DEF ClientTypeOK
<1>4. ClientTypeOK'
  BY <1>1, <1>2, <1>3 DEF ClientTypeOK
<1>5. result # "replayed"
  BY DEF Refusals
<1>6. CallUnderWay' /\ ReplayedWasActedUpon' /\ ReplayedIsKnown'
  BY <1>2, <1>3, <1>5 DEF ClientInv, CallUnderWay, ReplayedWasActedUpon, ReplayedIsKnown
<1> QED
  BY <1>4, <1>6

LEMMA ShakeKeeps ==
    ASSUME ClientInv, NEW c \in Clients, Shake(c)
    PROVE  ClientInv'
<1>1. NonceInv' /\ AuthTypeOK' /\ pc[c] = "shake"
  BY AuthKept DEF ClientInv, Shake
<1>2. UNCHANGED <<clock, peak, stamp, seen, accepts, boots, acted>>
  BY DEF Shake, authVars
<1>3. ClientTypeOK /\ boots \in Boots
  BY DEF ClientInv, ClientTypeOK, AuthTypeOK
<1>4. boots' <= MaxBoots /\ AcceptedWasActedUpon'
  BY <1>2 DEF ClientInv, AcceptedWasActedUpon
<1>5. CASE VerdictOn(c) = "supported"
  <2>1. /\ handshake' = [handshake EXCEPT ![c] = boots]
        /\ signs' = [signs EXCEPT ![c] = Bridge.hmac]
        /\ pc' = [pc EXCEPT ![c] = "send"]
        /\ call' = call /\ answer' = answer
    BY <1>5 DEF Shake
  <2>2. Bridge.hmac \in BOOLEAN /\ Bridge.hmac = RequiresHmac[boots]
    BY <1>3 DEF Bridge
  <2>3. ClientTypeOK'
    BY <1>1, <1>2, <1>3, <2>1, <2>2 DEF ClientTypeOK
  <2>4. call[c] \in Requests
    BY <1>1 DEF ClientInv, CallUnderWay
  <2>5. \A d \in Clients : d # c => /\ pc'[d] = pc[d] /\ handshake'[d] = handshake[d]
                                   /\ signs'[d] = signs[d]
    BY <1>3, <2>1 DEF ClientTypeOK
  <2>6. pc'[c] = "send" /\ handshake'[c] = boots /\ signs'[c] = Bridge.hmac
    BY <1>3, <2>1 DEF ClientTypeOK
  <2>7. CallUnderWay' /\ ReplayedWasActedUpon' /\ ReplayedIsKnown'
    BY <1>2, <2>1, <2>4, <2>5, <2>6 DEF ClientInv, CallUnderWay, ReplayedWasActedUpon, ReplayedIsKnown
  <2>8. NoLaterHandshake'
    BY <1>2, <1>3, <2>5, <2>6 DEF ClientInv, NoLaterHandshake
  <2>9. FreshHandshakeHolds'
    BY <1>2, <1>5, <2>5, <2>6 DEF ClientInv, FreshHandshakeHolds, VerdictOn, Bridge
  <2> QED
    BY <1>1, <1>4, <2>3, <2>7, <2>8, <2>9 DEF ClientInv
<1>6. CASE VerdictOn(c) # "supported"
  <2>1. VerdictOn(c) \in Refusals \ {"replayed"}
    BY <1>6, VerdictWords DEF VerdictOn, Refusals
  <2>2. End(c, VerdictOn(c)) /\ call' = [call EXCEPT ![c] = NoCall]
        /\ UNCHANGED <<handshake, signs>>
    BY <1>6 DEF Shake, Abandon
  <2>3. ClientTypeOK' /\ CallUnderWay' /\ ReplayedWasActedUpon' /\ ReplayedIsKnown'
    BY <1>1, <1>2, <1>3, <2>1, <2>2, AbandonKeeps DEF ClientTypeOK
  <2>4. NoLaterHandshake' /\ FreshHandshakeHolds'
    BY <1>2, <2>2 DEF ClientInv, NoLaterHandshake, FreshHandshakeHolds, VerdictOn, Bridge
  <2> QED
    BY <1>1, <1>4, <2>3, <2>4 DEF ClientInv
<1> QED
  BY <1>5, <1>6

LEMMA SendKeeps ==
    ASSUME ClientInv, NEW c \in Clients, Send(c)
    PROVE  ClientInv'
<1>1. /\ pc[c] = "send" /\ pc' = [pc EXCEPT ![c] = "wait"]
      /\ UNCHANGED <<call, handshake, signs, answer, acted>>
  BY DEF Send
<1>2. NonceInv' /\ UNCHANGED <<accepts, boots>>
  <2>1. CASE signs[c]
    <3>1. Sign(call[c], clock + ClockAhead[c])
      BY <2>1 DEF Send
    <3>2. call[c] \in Requests /\ clock + ClockAhead[c] \in ClientTimes
      BY <1>1 DEF ClientInv, CallUnderWay, ClientTypeOK, AuthTypeOK
    <3> QED
      BY <3>1, <3>2, SignKeeps DEF ClientInv, Sign
  <2>2. CASE ~signs[c]
    BY <2>2, StutterKeeps DEF Send, ClientInv, authVars
  <2> QED
    BY <2>1, <2>2
<1>3. \A d \in Clients : pc'[d] = IF d = c THEN "wait" ELSE pc[d]
  BY <1>1 DEF ClientInv, ClientTypeOK
<1>4. ClientTypeOK'
  BY <1>1, <1>2 DEF ClientInv, ClientTypeOK, NonceInv
<1>5. CallUnderWay' /\ ReplayedWasActedUpon' /\ ReplayedIsKnown'
  <2>1. \A d \in Clients : /\ pc'[d] # "idle" => pc[d] # "idle"
                           /\ pc'[d] = "idle" => pc[d] = "idle"
    BY <1>1, <1>3
  <2> QED
    BY <1>1, <2>1 DEF ClientInv, CallUnderWay, ReplayedWasActedUpon, ReplayedIsKnown
<1>6. boots' <= MaxBoots /\ NoLaterHandshake' /\ AcceptedWasActedUpon'
  BY <1>1, <1>2 DEF ClientInv, NoLaterHandshake, AcceptedWasActedUpon
<1>7. FreshHandshakeHolds'
  BY <1>1, <1>2 DEF ClientInv, FreshHandshakeHolds, VerdictOn, Bridge
<1> QED
  BY <1>2, <1>4, <1>5, <1>6, <1>7 DEF ClientInv

LEMMA FailKeeps ==
    ASSUME ClientInv, NEW c \in Clients, Fail(c)
    PROVE  ClientInv'
<1>1. NonceInv' /\ AuthTypeOK'
  BY AuthKept DEF ClientInv, Fail
<1>2. UNCHANGED <<clock, peak, stamp, seen, accepts, boots, handshake, signs, acted>>
  BY DEF Fail, authVars
<1>3. End(c, "unreachable") /\ (call' = [call EXCEPT ![c] = NoCall] \/ call' = call)
  BY DEF Fail, Abandon
<1>4. ClientTypeOK' /\ CallUnderWay' /\ ReplayedWasActedUpon' /\ ReplayedIsKnown'
  BY <1>1, <1>2, <1>3, AbandonKeeps DEF ClientInv, ClientTypeOK
<1>5. boots' <= MaxBoots /\ NoLaterHandshake' /\ AcceptedWasActedUpon'
  BY <1>2 DEF ClientInv, NoLaterHandshake, AcceptedWasActedUpon
<1>6. FreshHandshakeHolds'
  BY <1>2 DEF ClientInv, FreshHandshakeHolds, VerdictOn, Bridge
<1> QED
  BY <1>1, <1>4, <1>5, <1>6 DEF ClientInv

-----------------------------------------------------------------------------
(* The bridge *)

\* What verify, reached through Deliver, does to the counts.
LEMMA DeliverCounts ==
    ASSUME NonceInv, NEW r \in Requests, NEW intact \in BOOLEAN, Deliver(r, intact)
    PROVE  /\ NonceInv' /\ boots' = boots
           /\ \A q \in Requests : accepts'[q] > 0 =>
                 accepts[q] > 0 \/ (q = r /\ VerifyAnswer(r, intact) = "accepted")
<1>1. NonceInv'
  BY DeliverKeeps
<1>2. Verify(r, intact) /\ boots' = boots
  BY DEF Deliver, Verify
<1>3. \A q \in Requests :
        \/ q = r /\ VerifyAnswer(r, intact) = "accepted"
        \/ accepts'[q] = accepts[q]
  BY <1>2, VerifyValues DEF NonceInv
<1> QED
  BY <1>1, <1>2, <1>3

LEMMA ReplayedIsAccepted ==
    ASSUME NonceInv, NEW r \in Requests, NEW intact \in BOOLEAN,
           VerifyAnswer(r, intact) = "replayed"
    PROVE  accepts[r] > 0
<1>1. Pruned[r] # NotSeen
  BY DEF VerifyAnswer
<1>2. seen[r] # NotSeen
  BY <1>1, PrunedEntry DEF NonceInv
<1> QED
  BY <1>2 DEF NonceInv, OnlyAcceptedIsRemembered

LEMMA HandleKeeps ==
    ASSUME ClientInv, NEW c \in Clients, Handle(c)
    PROVE  ClientInv'
<1> DEFINE r == call[c]
           intact == c \notin WrongSecret
<1>1. pc[c] = "wait" /\ r \in Requests /\ intact \in BOOLEAN
  BY DEF Handle, ClientInv, CallUnderWay
<1>2. UNCHANGED <<call, handshake, signs>> /\ End(c, MiddlewareAnswer(c))
  BY DEF Handle
<1>3. acted' = IF MiddlewareAnswer(c) = "ok"
               THEN [acted EXCEPT ![r] = @ \cup {boots}] ELSE acted
  BY DEF Handle
<1>4. MiddlewareAnswer(c) \in Refusals \cup {"ok"}
  BY VerdictWords, VerifyWords DEF MiddlewareAnswer, VerdictOn, AuthAnswer, Refusals
<1>5. /\ NonceInv' /\ boots' = boots
      /\ \A q \in Requests : accepts'[q] > 0 =>
            accepts[q] > 0 \/ (q = r /\ MiddlewareAnswer(c) = "ok")
  <2>1. CASE VerdictOn(c) = "supported" /\ Bridge.hmac /\ signs[c]
    <3>1. Deliver(r, intact)
      BY <2>1 DEF Handle
    <3>2. VerifyAnswer(r, intact) = "accepted" => MiddlewareAnswer(c) = "ok"
      BY <2>1 DEF MiddlewareAnswer, AuthAnswer
    <3> QED
      BY <1>1, <3>1, <3>2, DeliverCounts DEF ClientInv
  <2>2. CASE ~(VerdictOn(c) = "supported" /\ Bridge.hmac /\ signs[c])
    BY <2>2, AuthKept DEF Handle, ClientInv, authVars
  <2> QED
    BY <2>1, <2>2
<1>6. MiddlewareAnswer(c) = "replayed" => accepts[r] > 0
  <2> SUFFICES ASSUME MiddlewareAnswer(c) = "replayed" PROVE accepts[r] > 0
    OBVIOUS
  <2>1. VerdictOn(c) # "replayed"
    BY VerdictWords DEF VerdictOn
  <2>2. VerifyAnswer(r, intact) = "replayed"
    BY <2>1 DEF MiddlewareAnswer, AuthAnswer
  <2> QED
    BY <1>1, <2>2, ReplayedIsAccepted DEF ClientInv
<1>7. ClientTypeOK /\ boots \in Boots
  BY DEF ClientInv, ClientTypeOK, AuthTypeOK
<1>8. /\ pc' \in [Clients -> {"idle", "shake", "send", "wait"}]
      /\ answer' \in [Clients -> Refusals \cup {"none", "ok", "unreachable"}]
      /\ pc'[c] = "idle" /\ answer'[c] = MiddlewareAnswer(c)
      /\ \A d \in Clients : d # c => pc'[d] = pc[d] /\ answer'[d] = answer[d]
  BY <1>2, <1>4, <1>7, EndFacts
<1>9. /\ acted' \in [Requests -> SUBSET Boots]
      /\ \A q \in Requests : acted[q] # {} => acted'[q] # {}
      /\ MiddlewareAnswer(c) = "ok" => acted'[r] # {}
  BY <1>1, <1>3, <1>7 DEF ClientTypeOK
<1>10. ClientTypeOK'
  BY <1>2, <1>5, <1>7, <1>8, <1>9 DEF ClientTypeOK, NonceInv
<1>11. CallUnderWay' /\ NoLaterHandshake' /\ boots' <= MaxBoots
  BY <1>2, <1>5, <1>8 DEF ClientInv, CallUnderWay, NoLaterHandshake
<1>12. FreshHandshakeHolds'
  BY <1>2, <1>5 DEF ClientInv, FreshHandshakeHolds, VerdictOn, Bridge
<1>13. AcceptedWasActedUpon'
  BY <1>5, <1>9 DEF ClientInv, AcceptedWasActedUpon
<1>14. ASSUME NEW d \in Clients, answer'[d] = "replayed", pc'[d] = "idle"
       PROVE  call[d] \in Requests /\ acted[call[d]] # {}
  <2>1. CASE d = c
    BY <1>1, <1>6, <1>8, <1>14, <2>1 DEF ClientInv, AcceptedWasActedUpon
  <2>2. CASE d # c
    BY <1>8, <1>14, <2>2 DEF ClientInv, ReplayedWasActedUpon, ReplayedIsKnown
  <2> QED
    BY <2>1, <2>2
<1>15. ReplayedWasActedUpon' /\ ReplayedIsKnown'
  BY <1>2, <1>9, <1>14 DEF ReplayedWasActedUpon, ReplayedIsKnown
<1> QED
  BY <1>5, <1>10, <1>11, <1>12, <1>13, <1>15 DEF ClientInv

LEMMA HandleCopyKeeps ==
    ASSUME ClientInv, NEW r \in Requests, NEW copy \in BOOLEAN, HandleCopy(r, copy)
    PROVE  ClientInv'
<1>1. PICK c \in Clients :
        /\ Deliver(r, copy /\ c \notin WrongSecret)
        /\ acted' = IF VerifyAnswer(r, copy /\ c \notin WrongSecret) = "accepted"
                   THEN [acted EXCEPT ![r] = @ \cup {boots}] ELSE acted
  BY DEF HandleCopy
<1> DEFINE intact == copy /\ c \notin WrongSecret
<1>2. UNCHANGED <<pc, call, handshake, signs, answer>>
  BY DEF HandleCopy
<1>3. /\ NonceInv' /\ boots' = boots
      /\ \A q \in Requests : accepts'[q] > 0 =>
            accepts[q] > 0 \/ (q = r /\ VerifyAnswer(r, intact) = "accepted")
  <2>1. intact \in BOOLEAN
    OBVIOUS
  <2> QED
    BY <1>1, <2>1, DeliverCounts DEF ClientInv
<1>4. ClientTypeOK /\ boots \in Boots
  BY DEF ClientInv, ClientTypeOK, AuthTypeOK
<1>5. /\ acted' \in [Requests -> SUBSET Boots]
      /\ \A q \in Requests : acted[q] # {} => acted'[q] # {}
      /\ VerifyAnswer(r, intact) = "accepted" => acted'[r] # {}
  BY <1>1, <1>4 DEF ClientTypeOK
<1>6. ClientTypeOK'
  BY <1>2, <1>3, <1>4, <1>5 DEF ClientTypeOK, NonceInv
<1>7. CallUnderWay' /\ NoLaterHandshake' /\ boots' <= MaxBoots
  BY <1>2, <1>3 DEF ClientInv, CallUnderWay, NoLaterHandshake
<1>8. FreshHandshakeHolds'
  BY <1>2, <1>3 DEF ClientInv, FreshHandshakeHolds, VerdictOn, Bridge
<1>9. AcceptedWasActedUpon'
  BY <1>3, <1>5 DEF ClientInv, AcceptedWasActedUpon
<1>10. ASSUME NEW d \in Clients, answer'[d] = "replayed", pc'[d] = "idle"
       PROVE  acted'[call'[d]] # {}
  <2>1. answer[d] = "replayed" /\ pc[d] = "idle" /\ call'[d] = call[d]
    BY <1>2, <1>10
  <2>2. acted[call[d]] # {}
    BY <2>1 DEF ClientInv, ReplayedWasActedUpon, ReplayedIsKnown
  <2>3. call[d] \in Requests
    BY <2>1 DEF ClientInv, ReplayedIsKnown
  <2> QED
    BY <1>5, <2>1, <2>2, <2>3
<1>11. ReplayedWasActedUpon' /\ ReplayedIsKnown'
  BY <1>2, <1>10 DEF ClientInv, ReplayedWasActedUpon, ReplayedIsKnown
<1> QED
  BY <1>3, <1>6, <1>7, <1>8, <1>9, <1>11 DEF ClientInv

LEMMA NextBootKeeps ==
    ASSUME ClientInv, NextBoot
    PROVE  ClientInv'
<1>1. NonceInv' /\ AuthTypeOK'
  BY RebootKeeps DEF NextBoot, ClientInv, NonceInv
<1>2. UNCHANGED clientVars /\ boots' = boots + 1 /\ boots' <= MaxBoots
      /\ \A r \in Requests : accepts'[r] = 0
  BY AuthAssumption DEF NextBoot, Reboot, ClientInv, ClientTypeOK, AuthTypeOK
<1>3. ClientTypeOK' /\ CallUnderWay' /\ ReplayedWasActedUpon' /\ ReplayedIsKnown'
  BY <1>1, <1>2 DEF clientVars, ClientInv, ClientTypeOK, CallUnderWay,
                    ReplayedWasActedUpon, ReplayedIsKnown
<1>4. AcceptedWasActedUpon'
  BY <1>2 DEF AcceptedWasActedUpon
<1>5. \A c \in Clients : handshake'[c] \in Int /\ handshake'[c] < boots'
  BY <1>2 DEF clientVars, ClientInv, ClientTypeOK, AuthTypeOK, NoLaterHandshake
<1>6. NoLaterHandshake' /\ FreshHandshakeHolds'
  BY <1>2, <1>5 DEF NoLaterHandshake, FreshHandshakeHolds, ClientInv, ClientTypeOK, AuthTypeOK
<1> QED
  BY <1>1, <1>2, <1>3, <1>4, <1>6 DEF ClientInv

LEMMA TimeKeeps ==
    ASSUME ClientInv, Clock \/ UNCHANGED vars
    PROVE  ClientInv'
<1>1. UNCHANGED clientVars /\ boots' = boots /\ accepts' = accepts
  BY DEF Clock, vars, Tick, StepBack, authVars
<1>2. NonceInv'
  BY ClockKeeps, StutterKeeps DEF Clock, vars, ClientInv
<1>3. ClientTypeOK' /\ CallUnderWay' /\ ReplayedWasActedUpon' /\ ReplayedIsKnown'
  BY <1>1, <1>2 DEF clientVars, ClientInv, ClientTypeOK, CallUnderWay,
                    ReplayedWasActedUpon, ReplayedIsKnown, NonceInv
<1>4. boots' <= MaxBoots /\ NoLaterHandshake' /\ AcceptedWasActedUpon'
  BY <1>1 DEF clientVars, ClientInv, NoLaterHandshake, AcceptedWasActedUpon
<1>5. FreshHandshakeHolds'
  BY <1>1 DEF clientVars, ClientInv, FreshHandshakeHolds, VerdictOn, Bridge
<1> QED
  BY <1>2, <1>3, <1>4, <1>5 DEF ClientInv

LEMMA NextKeeps == ClientInv /\ [Next]_vars => ClientInv'
BY CallKeeps, ShakeKeeps, SendKeeps, FailKeeps, HandleKeeps, HandleCopyKeeps,
   NextBootKeeps, TimeKeeps DEF Next

\* Every reachable state of clients and bridges satisfies the invariant.
THEOREM ClientInvariant == Spec => []ClientInv
<1> QED
  BY ClientInit, NextKeeps, PTL DEF Spec

\* Clients and bridges are well typed (client.py, app.py), for any of them.
THEOREM ClientTypeCorrect == Spec => []ClientTypeOK
<1>1. ClientInv => ClientTypeOK
  BY DEF ClientInv
<1> QED
  BY <1>1, ClientInvariant, PTL

\* Until the bridge restarts, what a client learnt in its handshake (client.py
\* preflight_handshake) is what the bridge demands.
THEOREM HandshakeHolds == Spec => []FreshHandshakeHolds
<1>1. ClientInv => FreshHandshakeHolds
  BY DEF ClientInv
<1> QED
  BY <1>1, ClientInvariant, PTL

\* A client is told that its request was used already only if it was acted upon.
THEOREM ReplayedIsTrue == Spec => []ReplayedWasActedUpon
<1>1. ClientInv => ReplayedWasActedUpon
  BY DEF ClientInv
<1> QED
  BY <1>1, ClientInvariant, PTL

-----------------------------------------------------------------------------

\* A step of clients and bridge is one of the signer and its cache, or none.
LEMMA StepRefines == ClientInv /\ [Next]_vars => [AuthNext]_authVars
<1> SUFFICES ASSUME ClientInv, [Next]_vars PROVE [AuthNext]_authVars
  OBVIOUS
<1>1. ASSUME NEW c \in Clients, Call(c) \/ Shake(c) \/ Fail(c) PROVE UNCHANGED authVars
  BY <1>1 DEF Call, Shake, Fail
<1>2. ASSUME NEW c \in Clients, Send(c) PROVE [AuthNext]_authVars
  <2>1. call[c] \in Requests /\ clock + ClockAhead[c] \in ClientTimes
    BY <1>2 DEF Send, ClientInv, CallUnderWay, ClientTypeOK, AuthTypeOK
  <2> QED
    BY <1>2, <2>1 DEF Send, AuthNext
<1>3. ASSUME NEW c \in Clients, Handle(c) PROVE [AuthNext]_authVars
  <2>1. call[c] \in Requests /\ (c \notin WrongSecret) \in BOOLEAN
    BY <1>3 DEF Handle, ClientInv, CallUnderWay
  <2>2. Deliver(call[c], c \notin WrongSecret) \/ UNCHANGED authVars
    BY <1>3 DEF Handle
  <2> QED
    BY <2>1, <2>2 DEF AuthNext
<1>4. ASSUME NEW r \in Requests, NEW copy \in BOOLEAN, HandleCopy(r, copy)
      PROVE  [AuthNext]_authVars
  <2>1. PICK c \in Clients : Deliver(r, copy /\ c \notin WrongSecret)
    BY <1>4 DEF HandleCopy
  <2>2. (copy /\ c \notin WrongSecret) \in BOOLEAN
    OBVIOUS
  <2> QED
    BY <2>1, <2>2 DEF AuthNext
<1>5. CASE NextBoot \/ Clock
  BY <1>5 DEF NextBoot, Clock, AuthNext
<1>6. CASE UNCHANGED vars
  BY <1>6 DEF vars
<1> QED
  BY <1>1, <1>2, <1>3, <1>4, <1>5, <1>6 DEF Next

\* What holds of the signer and its cache (RequestAuth) holds of them among clients and
\* bridges, whose steps are steps of the signer by the way Handle and HandleCopy are put
\* together: what is proved of the signer alone can be cited.
LEMMA SignerEmbedded == Spec => AuthSpec
<1>1. Init => AuthInit
  BY DEF Init
<1> QED
  BY <1>1, StepRefines, ClientInvariant, PTL DEF Spec, AuthSpec

\* No bridge process acts twice upon a signed request, for any clients and copies.
THEOREM ActedUponOnce == Spec => []AcceptedOnce
<1> QED
  BY SignerEmbedded, AtMostOnce, PTL

-----------------------------------------------------------------------------
(* The versions that get through *)

\* A call under way carries a request of its own client.
OwnRequests == \A c \in Clients : pc[c] # "idle" => call[c] \in CallsOf[c]

LEMMA OwnRequestsKept ==
    ASSUME ClientTypeOK, OwnRequests, [Next]_vars
    PROVE  OwnRequests'
<1> USE DEF ClientTypeOK, OwnRequests
<1>1. ASSUME NEW c \in Clients, Call(c) PROVE OwnRequests'
  <2>1. PICK r \in CallsOf[c] : call' = [call EXCEPT ![c] = r]
    BY <1>1 DEF Call
  <2>2. call'[c] = r /\ \A d \in Clients \ {c} : call'[d] = call[d] /\ pc'[d] = pc[d]
    BY <1>1, <2>1 DEF Call
  <2> QED
    BY <2>2
<1>2. ASSUME NEW c \in Clients, Shake(c) PROVE OwnRequests'
  <2>1. pc[c] = "shake" /\ call[c] \in CallsOf[c]
    BY <1>2 DEF Shake
  <2>2. \A d \in Clients \ {c} : pc'[d] = pc[d] /\ call'[d] = call[d]
    BY <1>2 DEF Shake, Abandon, End
  <2>3. call' = call \/ pc' = [pc EXCEPT ![c] = "idle"]
    BY <1>2 DEF Shake, Abandon, End
  <2>4. call'[c] \in CallsOf[c] \/ pc'[c] = "idle"
    BY <2>1, <2>3
  <2> QED
    BY <2>2, <2>4
<1>3. ASSUME NEW c \in Clients, Send(c) PROVE OwnRequests'
  BY <1>3 DEF Send
<1>4. ASSUME NEW c \in Clients, Fail(c) \/ Handle(c) PROVE OwnRequests'
  BY <1>4 DEF Fail, Handle, Abandon, End
<1>5. CASE (\E r \in Requests, intact \in BOOLEAN : HandleCopy(r, intact))
           \/ NextBoot \/ Clock \/ UNCHANGED vars
  <2>1. UNCHANGED <<pc, call>>
    BY <1>5 DEF HandleCopy, NextBoot, Clock, vars, clientVars
  <2> QED
    BY <2>1
<1> QED
  BY <1>1, <1>2, <1>3, <1>4, <1>5 DEF Next

\* What a handler sees a request of, a verdict has let through.
LEMMA ActedOnVerdict ==
    ASSUME ClientTypeOK, OwnRequests, [Next]_vars,
           NEW c \in Clients, NEW r \in CallsOf[c], acted'[r] # acted[r]
    PROVE  VerdictOn(c) = "supported"
<1>1. r \in Requests
  OBVIOUS
<1>2. ASSUME NEW d \in Clients, Handle(d) PROVE VerdictOn(c) = "supported"
  <2>1. pc[d] = "wait" /\ MiddlewareAnswer(d) = "ok" /\ r = call[d]
    BY <1>1, <1>2 DEF Handle, ClientTypeOK
  <2>2. d = c
    BY <2>1 DEF OwnRequests
  <2> QED
    BY <2>1, <2>2, VerdictWords DEF MiddlewareAnswer, VerdictOn
<1>3. ASSUME NEW q \in Requests, NEW intact \in BOOLEAN, HandleCopy(q, intact)
      PROVE  VerdictOn(c) = "supported"
  <2>1. PICK d \in Clients :
          /\ q \in CallsOf[d] /\ VerdictOn(d) = "supported"
          /\ acted' = acted \/ acted' = [acted EXCEPT ![q] = @ \cup {boots}]
    BY <1>3 DEF HandleCopy
  <2>2. r = q
    BY <1>1, <2>1 DEF ClientTypeOK
  <2> QED
    BY <2>1, <2>2
<1>4. CASE UNCHANGED acted
  BY <1>4
<1>5. \/ UNCHANGED acted \/ \E d \in Clients : Handle(d)
      \/ \E q \in Requests, intact \in BOOLEAN : HandleCopy(q, intact)
  BY DEF Next, Call, Shake, Send, Fail, NextBoot, Clock, vars, clientVars
<1> QED
  BY <1>2, <1>3, <1>4, <1>5

\* The versions this bridge and its clients write: two numbers, the second of at most
\* three digits.
TwoPlaces(v) == Len(v) = 2 /\ v[2] < 1000

\* Place by place is the order of the numbers.
LEMMA OlderByNumber ==
    ASSUME NEW v \in Version, NEW w \in Version, TwoPlaces(v), TwoPlaces(w), ~Older(v, w)
    PROVE  Number(w) <= Number(v)
<1>0. Len(v) = 2 /\ Len(w) = 2 /\ v \in Seq(Nat) /\ w \in Seq(Nat)
  BY DEF TwoPlaces, Version
<1>1. v[1] \in Nat /\ v[2] \in Nat /\ w[1] \in Nat /\ w[2] \in Nat
  <2>1. ASSUME NEW u \in Seq(Nat), Len(u) = 2 PROVE u[1] \in Nat /\ u[2] \in Nat
    BY ONLY <2>1
  <2> QED
    BY <1>0, <2>1
<1>2. ~(v[1] < w[1])
  <2>1. 1 \in 1 .. Len(v) /\ 1 <= Len(w) /\ \A i \in 1 .. 1 - 1 : v[i] = w[i]
    BY <1>0
  <2> QED
    BY <2>1 DEF Older
<1>3. ~(v[1] = w[1] /\ v[2] < w[2])
  <2>1. 2 \in 1 .. Len(v) /\ 2 <= Len(w)
    BY <1>0
  <2>2. v[1] = w[1] => \A i \in 1 .. 2 - 1 : v[i] = w[i]
    OBVIOUS
  <2> QED
    BY <2>1, <2>2 DEF Older
<1> QED
  BY <1>1, <1>2, <1>3 DEF TwoPlaces, Number

\* Whatever the bridge acts upon comes from a client whose version lies in its range as a
\* number does, late copies and restarts included, for versions of two places.
THEOREM ActedOnInRange ==
    ASSUME \A c \in Clients : TwoPlaces(VersionOf[c]),
           \A b \in Boots : /\ TwoPlaces(RangeOf[b].min_supported)
                            /\ TwoPlaces(RangeOf[b].max_supported)
    PROVE  Spec => ActedOnSupported
<1>1. Init => OwnRequests
  BY DEF Init, OwnRequests
<1>2. ClientInv /\ OwnRequests /\ [Next]_vars => OwnRequests'
  BY OwnRequestsKept DEF ClientInv
<1>3. ASSUME ClientInv, OwnRequests, [Next]_vars,
             NEW c \in Clients, NEW r \in Requests, r \in CallsOf[c], acted'[r] # acted[r]
      PROVE  /\ Number(Bridge.range.min_supported) <= Number(VersionOf[c])
             /\ Number(VersionOf[c]) <= Number(Bridge.range.max_supported)
  <2>1. VerdictOn(c) = "supported"
    BY <1>3, ActedOnVerdict DEF ClientInv
  <2>2. boots \in Boots /\ Bridge.range = RangeOf[boots]
    BY <1>3 DEF ClientInv, ClientTypeOK, AuthTypeOK, Bridge
  <2>3. /\ VersionOf[c] \in Version
        /\ Bridge.range.min_supported \in Version /\ Bridge.range.max_supported \in Version
    BY <2>2 DEF ProtocolRange
  <2>4. /\ ~Older(VersionOf[c], Bridge.range.min_supported)
        /\ ~Older(Bridge.range.max_supported, VersionOf[c])
    BY <2>1 DEF VerdictOn, Verdict
  <2>5. /\ TwoPlaces(VersionOf[c])
        /\ TwoPlaces(Bridge.range.min_supported) /\ TwoPlaces(Bridge.range.max_supported)
    <3>1. TwoPlaces(RangeOf[boots].min_supported) /\ TwoPlaces(RangeOf[boots].max_supported)
      BY <2>2
    <3> QED
      BY <2>2, <3>1
  <2> QED
    BY <2>3, <2>4, <2>5, OlderByNumber
<1>4. ClientInv /\ OwnRequests /\ [Next]_vars =>
          [\A c \in Clients, r \in Requests :
              r \in CallsOf[c] /\ acted'[r] # acted[r] =>
                  /\ Number(Bridge.range.min_supported) <= Number(VersionOf[c])
                  /\ Number(VersionOf[c]) <= Number(Bridge.range.max_supported)]_vars
  BY <1>3
<1> QED
  BY <1>1, <1>2, <1>4, ClientInvariant, PTL DEF Spec, ActedOnSupported

==============================================================================
