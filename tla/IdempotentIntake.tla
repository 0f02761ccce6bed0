-------------------------- MODULE IdempotentIntake --------------------------
(***************************************************************************)
(* What the bridge promises to whoever creates a job: the first request to *)
(* be accepted under a key owns it for good, and every request that is     *)
(* answered under that key, retries included, is told of the owner.        *)
(***************************************************************************)
CONSTANTS Requests, Key, NoAnswer

VARIABLES
    accepted,    \* requests that became jobs
    answer       \* per request: the job it was told of

Init ==
    /\ accepted = {}
    /\ answer = [r \in Requests |-> NoAnswer]

Accept(r) ==
    /\ \A a \in accepted : Key[a] # Key[r]
    /\ accepted' = accepted \cup {r}
    /\ UNCHANGED answer

Tell(r) ==
    /\ answer[r] = NoAnswer
    /\ \E a \in accepted : Key[a] = Key[r] /\ answer' = [answer EXCEPT ![r] = a]
    /\ UNCHANGED accepted

Next == \E r \in Requests : Accept(r) \/ Tell(r)

Spec == Init /\ [][Next]_<<accepted, answer>>

==============================================================================
