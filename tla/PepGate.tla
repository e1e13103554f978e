------------------------------- MODULE PepGate -------------------------------
(***************************************************************************)
(* A business service that asks the PDP before each API call: RequireAPI    *)
(* and Client.Decide of sdk/pdp, with its default client and its timeout,   *)
(* and the HTTP exchange in between.                                       *)
(*                                                                         *)
(* What the PDP would answer is one variable, which policies and roles      *)
(* change at any time; PolicyDecision shows how an answer comes about.  The *)
(* PDP works on whether or not the caller still waits.                      *)
(***************************************************************************)
CONSTANTS
    Calls,              \* API calls being served, each with its connection
    Subjects,           \* users
    Endpoints           \* API endpoints

VARIABLES
    granted,            \* what the PDP would allow now
    call,               \* each API call, at the middleware
    pdp,                \* its request at the PDP, and the answer
    ever                \* calls that the PDP would have allowed at some moment

vars == <<granted, call, pdp, ever>>

\* What the exchange can come to: the connection fails, the status is not 200,
\* the body is not JSON, or names a decision.
Replies == {"failure", "status", "malformed", "unknown", "allow", "deny"}

Idle == [pc |-> "idle"]

Call == [pc : {"ask", "wait", "served", "refused"}, subject : Subjects, endpoint : Endpoints]

TypeOK ==
    /\ granted \subseteq Subjects \X Endpoints
    /\ call \in [Calls -> Call \cup {Idle}]
    /\ pdp \in [Calls -> {"none", "asked"} \cup Replies]
    /\ ever \subseteq Calls

Init ==
    /\ granted \in SUBSET (Subjects \X Endpoints)
    /\ call = [c \in Calls |-> Idle]
    /\ pdp = [c \in Calls |-> "none"]
    /\ ever = {}

-----------------------------------------------------------------------------
\* A call whose identity and endpoint are resolved, or the PDP is not asked.
Arrive(c, s, e, resolved) ==
    /\ call[c] = Idle
    /\ call' = [call EXCEPT ![c] = [pc |-> IF resolved THEN "ask" ELSE "refused",
                                    subject |-> s, endpoint |-> e]]
    /\ UNCHANGED <<granted, pdp>>

Send(c) ==
    /\ call[c].pc = "ask"
    /\ call' = [call EXCEPT ![c].pc = "wait"]
    /\ pdp' = [pdp EXCEPT ![c] = "asked"]
    /\ UNCHANGED granted

\* The PDP decides, on what is granted then.
Decide(c) ==
    /\ pdp[c] = "asked"
    /\ pdp' = [pdp EXCEPT ![c] =
         IF <<call[c].subject, call[c].endpoint>> \in granted THEN "allow" ELSE "deny"]
    /\ UNCHANGED <<granted, call>>

\* The PDP or the connection fails, before or after the decision.
Spoil(c, reply) ==
    /\ pdp[c] # "none"
    /\ pdp' = [pdp EXCEPT ![c] = reply]
    /\ UNCHANGED <<granted, call>>

\* Faulty: only what is a decision to deny, or an error of Decide, is refused.
PassesUnlessDenied(reply) == reply \in {"allow", "unknown"}

\* err == nil and Decision == allow.
Passes(reply) == reply = "allow"

\* Faulty: the outcome of the exchange is taken for that of the call.
SettledPlain(reply) == reply

Settled(reply) == IF Passes(reply) THEN "served" ELSE "refused"

\* An answer the caller still waits for decides its call.
Answer(c) ==
    /\ call[c].pc = "wait"
    /\ pdp[c] \in Replies
    /\ call' = [call EXCEPT ![c].pc = Settled(pdp[c])]
    /\ UNCHANGED <<granted, pdp>>

\* Faulty: only an exchange that has got its answer times out.
ExpiresAnswered(c) == call[c].pc = "wait" /\ pdp[c] \in Replies

\* The timeout covers the whole exchange.
Expires(c) == call[c].pc = "wait"

Timeout(c) ==
    /\ Expires(c)
    /\ call' = [call EXCEPT ![c].pc = "refused"]
    /\ UNCHANGED <<granted, pdp>>

\* The call is over.  Its connection was closed if the answer had not come, so
\* that nobody reads it.
Finish(c) ==
    /\ call[c].pc \in {"served", "refused"}
    /\ pdp[c] # "asked"
    /\ call' = [call EXCEPT ![c] = Idle]
    /\ pdp' = [pdp EXCEPT ![c] = "none"]
    /\ UNCHANGED granted

\* Policies, roles and endpoints change.
Regrant(s, e) ==
    /\ granted' = IF <<s, e>> \in granted THEN granted \ {<<s, e>>} ELSE granted \cup {<<s, e>>}
    /\ UNCHANGED <<call, pdp>>

Step ==
    \/ \E c \in Calls :
         \/ \E s \in Subjects, e \in Endpoints, b \in BOOLEAN : Arrive(c, s, e, b)
         \/ \E reply \in Replies \ {"allow", "deny"} : Spoil(c, reply)
         \/ Send(c) \/ Decide(c) \/ Answer(c) \/ Timeout(c) \/ Finish(c)
    \/ \E s \in Subjects, e \in Endpoints : Regrant(s, e)

\* ever is a history variable.
Remember ==
    ever' = {c \in Calls :
               /\ call'[c] # Idle
               /\ \/ c \in ever
                  \/ <<call'[c].subject, call'[c].endpoint>> \in granted'}

Next == Step /\ Remember

Spec == Init /\ [][Next]_vars

\* The middleware goes on and its clock runs.  Nothing is assumed of the PDP.
FairSpec ==
    /\ Spec
    /\ \A c \in Calls : WF_vars(Send(c) /\ Remember) /\ WF_vars(Timeout(c) /\ Remember)

-----------------------------------------------------------------------------
\* A call that reaches the business handler was allowed at some moment since it
\* arrived: failures, late answers and answers to other calls let nothing
\* through (RequireAPI).
ServedWasAllowed == \A c \in Calls : call[c].pc = "served" => c \in ever

\* A call ends even if the PDP never answers (the timeout of NewClient).
CallsEnd ==
    \A c \in Calls : call[c].pc \in {"ask", "wait"} ~> call[c].pc \in {"served", "refused"}
=============================================================================
