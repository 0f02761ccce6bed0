---------------------------- MODULE BridgeClient ----------------------------
(***************************************************************************)
(* bridge/client.py against the middleware of bridge/app.py.               *)
(*                                                                         *)
(* A client shakes hands once, on its first call, and keeps what it learnt *)
(* for as long as it lives: whether the bridge wants signatures.  Bridges  *)
(* come and go meanwhile (boots), and the next may have other settings and *)
(* speak other versions.  Every call is a request of its own.  Copies of a *)
(* request may arrive at any time, the network may lose a request or its   *)
(* answer, and the clock of the bridge moves as RequestAuth lets it; that  *)
(* of a client is the same on loopback, and another with BRIDGE_HOST.      *)
(***************************************************************************)
EXTENDS RequestAuth, ProtocolVersion

CONSTANTS
    Clients,
    CallsOf,        \* the requests a client may send, per client: disjoint sets
    VersionOf,      \* ClientConfig.protocol_version
    ClockAhead,     \* how far the clock of a client is ahead of the bridge's
    WrongSecret,    \* clients configured with another secret
    RangeOf,        \* PROTOCOL_RANGE of the bridge of each boot
    RequiresHmac,   \* app.state.require_hmac of each boot
    NoCall

VARIABLES
    pc,             \* where the call of a client is
    call,           \* the request of the call under way, or of the last one
    handshake,      \* the boot a client shook hands with, or NoBoot
    signs,          \* _hmac_required
    answer,         \* what came of the last call
    acted           \* the boots that passed a request on to its handler

clientVars == <<pc, call, handshake, signs, answer, acted>>
vars == <<authVars, clientVars>>

Boots == 0 .. MaxBoots
NoBoot == -1

ASSUME ClientAssumption ==
    /\ CallsOf \in [Clients -> SUBSET Requests]
    /\ \A c, d \in Clients : c # d => CallsOf[c] \cap CallsOf[d] = {}
    /\ VersionOf \in [Clients -> Version]
    /\ RangeOf \in [Boots -> ProtocolRange]
    /\ RequiresHmac \in [Boots -> BOOLEAN]
    /\ ClockAhead \in [Clients -> Nat]
    /\ \A c \in Clients, t \in Time : t + ClockAhead[c] \in ClientTimes
    /\ NoCall \notin Requests

Refusals == {"too_old", "too_new", "expired", "mismatch", "replayed"}

ClientTypeOK ==
    /\ AuthTypeOK
    /\ pc \in [Clients -> {"idle", "shake", "send", "wait"}]
    /\ call \in [Clients -> Requests \cup {NoCall}]
    /\ handshake \in [Clients -> Boots \cup {NoBoot}]
    /\ signs \in [Clients -> BOOLEAN]
    /\ answer \in [Clients -> Refusals \cup {"none", "ok", "unreachable"}]
    /\ acted \in [Requests -> SUBSET Boots]

Init ==
    /\ AuthInit
    /\ pc = [c \in Clients |-> "idle"]
    /\ call = [c \in Clients |-> NoCall]
    /\ handshake = [c \in Clients |-> NoBoot]
    /\ signs = [c \in Clients |-> TRUE]
    /\ answer = [c \in Clients |-> "none"]
    /\ acted = [r \in Requests |-> {}]

Bridge == [range |-> RangeOf[boots], hmac |-> RequiresHmac[boots]]
VerdictOn(c) == Verdict(VersionOf[c], Bridge.range)

-----------------------------------------------------------------------------
(* The client. *)

\* _urlopen_json returns or raises: the call is over.
End(c, result) ==
    /\ pc' = [pc EXCEPT ![c] = "idle"]
    /\ answer' = [answer EXCEPT ![c] = result]

\* The call is over before its request was sent.
Abandon(c, result) == End(c, result) /\ call' = [call EXCEPT ![c] = NoCall]

\* create_text_job and its likes, up to the handshake.  A request that no bridge has
\* seen may stand for the next one.
Call(c) ==
    /\ pc[c] = "idle"
    /\ \E r \in CallsOf[c] :
          /\ stamp[r] = Unsigned /\ acted[r] = {}
          /\ call' = [call EXCEPT ![c] = r]
    /\ pc' = [pc EXCEPT ![c] = IF handshake[c] = NoBoot THEN "shake" ELSE "send"]
    /\ UNCHANGED <<authVars, handshake, signs, answer, acted>>

\* Mutant: _handshake_done is set before the versions are compared.
ShakeNotesFirst(c) ==
    /\ pc[c] = "shake"
    /\ handshake' = [handshake EXCEPT ![c] = boots]
    /\ IF VerdictOn(c) = "supported"
       THEN /\ signs' = [signs EXCEPT ![c] = Bridge.hmac]
            /\ pc' = [pc EXCEPT ![c] = "send"]
            /\ UNCHANGED <<call, answer>>
       ELSE Abandon(c, VerdictOn(c)) /\ UNCHANGED signs
    /\ UNCHANGED <<authVars, acted>>

\* preflight_handshake.  /capabilities needs no signature; the middleware looks at
\* the version and so does the client, with the range it is sent.
Shake(c) ==
    /\ pc[c] = "shake"
    /\ IF VerdictOn(c) = "supported"
       THEN /\ handshake' = [handshake EXCEPT ![c] = boots]
            /\ signs' = [signs EXCEPT ![c] = Bridge.hmac]
            /\ pc' = [pc EXCEPT ![c] = "send"]
            /\ UNCHANGED <<call, answer>>
       ELSE Abandon(c, VerdictOn(c)) /\ UNCHANGED <<handshake, signs>>
    /\ UNCHANGED <<authVars, acted>>

\* _headers and the sending.
Send(c) ==
    /\ pc[c] = "send"
    /\ pc' = [pc EXCEPT ![c] = "wait"]
    /\ IF signs[c] THEN Sign(call[c], clock + ClockAhead[c]) ELSE UNCHANGED authVars
    /\ UNCHANGED <<call, handshake, signs, answer, acted>>

\* The connection fails (URLError), with the request or with its answer.
Fail(c) ==
    /\ \/ pc[c] = "shake" /\ Abandon(c, "unreachable")
       \/ pc[c] = "wait" /\ End(c, "unreachable") /\ UNCHANGED call
    /\ UNCHANGED <<authVars, handshake, signs, acted>>

-----------------------------------------------------------------------------
(* The bridge: protocol_security_middleware. *)

\* Mutant: a header that is missing is no number, and int raises TypeError.
AuthAnswerCrash(c) ==
    IF signs[c] THEN VerifyAnswer(call[c], c \notin WrongSecret) ELSE "internal error"

\* A header that is missing reads as timestamp 0.
AuthAnswer(c) ==
    IF signs[c] THEN VerifyAnswer(call[c], c \notin WrongSecret) ELSE "expired"

MiddlewareAnswer(c) ==
    IF VerdictOn(c) # "supported" THEN VerdictOn(c)
    ELSE IF Bridge.hmac /\ AuthAnswer(c) # "accepted" THEN AuthAnswer(c)
    ELSE "ok"

\* The request of c gets to the middleware, and c its answer.
Handle(c) ==
    /\ pc[c] = "wait"
    /\ IF VerdictOn(c) = "supported" /\ Bridge.hmac /\ signs[c]
       THEN Deliver(call[c], c \notin WrongSecret)
       ELSE UNCHANGED authVars
    /\ acted' = IF MiddlewareAnswer(c) = "ok"
               THEN [acted EXCEPT ![call[c]] = @ \cup {boots}] ELSE acted
    /\ End(c, MiddlewareAnswer(c))
    /\ UNCHANGED <<call, handshake, signs>>

\* A copy of a signed request that nobody waits for: it was delayed, or sent
\* twice, or its body was cut short (not intact).
HandleCopy(r, intact) ==
    /\ Bridge.hmac
    /\ \E c \in Clients :
          /\ r \in CallsOf[c]
          /\ VerdictOn(c) = "supported"
          /\ Deliver(r, intact /\ c \notin WrongSecret)
          /\ acted' = IF VerifyAnswer(r, intact /\ c \notin WrongSecret) = "accepted"
                     THEN [acted EXCEPT ![r] = @ \cup {boots}] ELSE acted
    /\ UNCHANGED <<pc, call, handshake, signs, answer>>

\* Another bridge process comes up in place of the first.
NextBoot == Reboot /\ UNCHANGED clientVars

Clock == (Tick \/ StepBack) /\ UNCHANGED clientVars

Next ==
    \/ \E c \in Clients : Call(c) \/ Shake(c) \/ Send(c) \/ Fail(c) \/ Handle(c)
    \/ \E r \in Requests, intact \in BOOLEAN : HandleCopy(r, intact)
    \/ NextBoot
    \/ Clock

Spec == Init /\ [][Next]_vars

-----------------------------------------------------------------------------

\* Python's order against the numbers themselves, for versions of two places.
Number(v) == 1000 * v[1] + v[2]

\* A handler only ever sees requests of clients whose version lies between the two
\* ends of the range, in numbers: 1.10 lies after 1.9 (middleware.py _parse_version).
ActedOnSupported ==
    [][\A c \in Clients, r \in Requests :
          r \in CallsOf[c] /\ acted'[r] # acted[r] =>
              /\ Number(Bridge.range.min_supported) <= Number(VersionOf[c])
              /\ Number(VersionOf[c]) <= Number(Bridge.range.max_supported)]_vars

\* A client that shook hands with the bridge it talks to sends what that bridge
\* takes: a version of its range, and signatures if it wants them.  Only a restart
\* makes the handshake of client.py:94 wrong.
FreshHandshakeHolds ==
    \A c \in Clients :
        handshake[c] = boots => VerdictOn(c) = "supported" /\ (Bridge.hmac => signs[c])

\* "nonce has already been used" is the truth: the request was acted upon, so the
\* client that got the refusal need not send it again.
ReplayedWasActedUpon ==
    \A c \in Clients : answer[c] = "replayed" /\ pc[c] = "idle" => acted[call[c]] # {}

==============================================================================
