---------------------------- MODULE SessionCookie ----------------------------
(***************************************************************************)
(* Logging in and out of the dashboard: auth.Service keeps nothing, all of   *)
(* a browser's state is one encrypted cookie that every response replaces   *)
(* as a whole.  Tabs of one browser share the cookie, so responses overlap: *)
(* a response overwrites whatever has come in since its request was sent.   *)
(*                                                                         *)
(* state, nonce and PKCE verifier of a login are one value, its flow; the    *)
(* user a flow logs in is named by the flow as well, and so is the session. *)
(***************************************************************************)
EXTENDS Naturals

CONSTANTS
    Flows,              \* what Login draws at random, never twice
    Requests,           \* requests of the browser that are on their way
    None                \* no flow, or no session, in a cookie

ASSUME SessionAssumption == None \notin Flows

VARIABLES
    cookie,             \* what the browser holds
    drawn,              \* the flows that Login has drawn
    codes,              \* the provider's authorization code of each flow
    tried,              \* how often a code was sent to the provider, up to 2
    expired,            \* flows older than flowMaxAge
    ended,              \* sessions past the expiry of their id token
    req                 \* requests, with the cookie they carry, and responses

vars == <<cookie, drawn, codes, tried, expired, ended, req>>

Cookie == [flow : Flows \cup {None}, session : Flows \cup {None}]

Empty == [flow |-> None, session |-> None]

\* A response without Set-Cookie.
Keep == [flow |-> None, session |-> None, keep |-> TRUE]

Idle == [op |-> "idle"]

\* bearer is the Authorization header of an API call: none, or an access token
\* that is valid or not.  user says as whom an API call was served.
Request == [op : {"login", "callback", "logout", "api"},
            pc : {"sent", "exchange", "answered"},
            flow : Flows \cup {None}, sent : Cookie,
            reply : Cookie \cup {Keep},
            bearer : {"none", "valid", "invalid"},
            user : {"nobody", "bearer", "session"}]

TypeOK ==
    /\ cookie \in Cookie
    /\ drawn \subseteq Flows
    /\ codes \in [Flows -> {"none", "issued", "redeemed"}]
    /\ tried \in [Flows -> 0 .. 2]
    /\ expired \subseteq drawn
    /\ ended \subseteq drawn
    /\ req \in [Requests -> Request \cup {Idle}]

Init ==
    /\ cookie = Empty
    /\ drawn = {} /\ expired = {} /\ ended = {}
    /\ codes = [f \in Flows |-> "none"]
    /\ tried = [f \in Flows |-> 0]
    /\ req = [q \in Requests |-> Idle]

-----------------------------------------------------------------------------
\* The browser sends a request, with the cookie it holds now.
Send(q, op, f, bearer) ==
    /\ req[q] = Idle
    /\ req' = [req EXCEPT ![q] = [op |-> op, pc |-> "sent", flow |-> f, sent |-> cookie,
                                  reply |-> Keep, bearer |-> bearer, user |-> "nobody"]]
    /\ UNCHANGED <<cookie, drawn, codes, tried, expired, ended>>

SendLogin(q) == Send(q, "login", None, "none")
SendLogout(q) == Send(q, "logout", None, "none")
SendAPI(q, bearer) == Send(q, "api", None, bearer)

\* The provider redirects to the callback; the browser may repeat the URL.
SendCallback(q, f) == codes[f] # "none" /\ Send(q, "callback", f, "none")

Answer(q, reply) ==
    req' = [req EXCEPT ![q] = [req[q] EXCEPT !.pc = "answered", !.reply = reply]]

Serving(q, op) == req[q].op = op /\ req[q].pc = "sent"

-----------------------------------------------------------------------------
\* load: what the cookie says, without a flow that is too old.
Loaded(c) == IF c.flow \in expired THEN [c EXCEPT !.flow = None] ELSE c

\* Faulty: the user stays in the cookie.
LoginReplyKeepingUser(c, f) == [c EXCEPT !.flow = f]

\* Faulty: the cookie is built anew, without the field for the user.
LoginReplyFlowOnly(c, f) == [flow |-> f]

\* A login forgets the user and overwrites the flow of an earlier login.
LoginReply(c, f) == [flow |-> f, session |-> None]

Login(q, f) ==
    /\ Serving(q, "login")
    /\ f \notin drawn
    /\ drawn' = drawn \cup {f}
    /\ Answer(q, LoginReply(Loaded(req[q].sent), f))
    /\ UNCHANGED <<cookie, codes, tried, expired, ended>>

\* External: the user signs in at NexusAuth, which issues a code for the flow.
Authorize(f) ==
    /\ f \in drawn /\ codes[f] = "none"
    /\ codes' = [codes EXCEPT ![f] = "issued"]
    /\ UNCHANGED <<cookie, drawn, tried, expired, ended, req>>

\* The cookie holds the flow that the state parameter names.
Matches(q) == Loaded(req[q].sent).flow = req[q].flow

\* Callback up to the exchange: without its flow it only answers with an error.
CheckState(q) ==
    /\ Serving(q, "callback")
    /\ IF Matches(q) THEN req' = [req EXCEPT ![q] = [req[q] EXCEPT !.pc = "exchange"]]
                     ELSE Answer(q, Keep)
    /\ UNCHANGED <<cookie, drawn, codes, tried, expired, ended>>

\* Faulty: the user is put into the session before the provider has confirmed it.
FailedAsUser(q) == [flow |-> None, session |-> req[q].flow]

\* The first Set-Cookie of a callback: the cookie with its flow consumed.
Failed(q) == [req[q].sent EXCEPT !.flow = None]

\* The exchange with the provider, which takes a code once.  When it fails, or
\* the answer is lost, or the id token is refused or too big for a cookie, the
\* response still carries the first Set-Cookie.  The verifier and the nonce sent
\* along are those of the cookie.
Exchange(q) ==
    LET f == req[q].flow IN
    /\ req[q].op = "callback" /\ req[q].pc = "exchange"
    /\ tried[f] < 2
    /\ tried' = [tried EXCEPT ![f] = @ + 1]
    /\ \/ /\ codes[f] = "issued" /\ req[q].sent.flow = f
          /\ codes' = [codes EXCEPT ![f] = "redeemed"]
          /\ \E reply \in {[flow |-> None, session |-> f], Failed(q)} :
               Answer(q, reply)
       \/ Answer(q, Failed(q)) /\ UNCHANGED codes
    /\ UNCHANGED <<cookie, drawn, expired, ended>>

Logout(q) ==
    /\ Serving(q, "logout")
    /\ Answer(q, Empty)
    /\ UNCHANGED <<cookie, drawn, codes, tried, expired, ended>>

\* Me: the user of a session that has not ended.
Me(c) == c.session # None /\ c.session \notin ended

\* Faulty: a token that is refused leaves the cookie to decide.
ServedAsEither(q) ==
    IF req[q].bearer = "valid" THEN "bearer"
    ELSE IF Me(req[q].sent) THEN "session" ELSE "nobody"

\* Middleware: a bearer token decides alone, the cookie only without one.
ServedAs(q) ==
    CASE req[q].bearer = "valid" -> "bearer"
      [] req[q].bearer = "invalid" -> "nobody"
      [] OTHER -> IF Me(req[q].sent) THEN "session" ELSE "nobody"

ServeAPI(q) ==
    /\ Serving(q, "api")
    /\ req' = [req EXCEPT ![q] = [req[q] EXCEPT !.pc = "answered", !.user = ServedAs(q)]]
    /\ UNCHANGED <<cookie, drawn, codes, tried, expired, ended>>

-----------------------------------------------------------------------------
\* The response arrives, and its cookie replaces the browser's.
Deliver(q) ==
    /\ req[q] # Idle /\ req[q].pc = "answered"
    /\ cookie' = IF req[q].reply = Keep THEN cookie ELSE req[q].reply
    /\ req' = [req EXCEPT ![q] = Idle]
    /\ UNCHANGED <<drawn, codes, tried, expired, ended>>

\* Request or response is lost, or the tab is closed; the server may have
\* done its part.
Lose(q) ==
    /\ req[q] # Idle
    /\ req' = [req EXCEPT ![q] = Idle]
    /\ UNCHANGED <<cookie, drawn, codes, tried, expired, ended>>

\* Ten minutes after Login.
ExpireFlow(f) ==
    /\ f \in drawn \ expired
    /\ expired' = expired \cup {f}
    /\ UNCHANGED <<cookie, drawn, codes, tried, ended, req>>

\* The id token expires.
EndSession(f) ==
    /\ codes[f] = "redeemed" /\ f \notin ended
    /\ ended' = ended \cup {f}
    /\ UNCHANGED <<cookie, drawn, codes, tried, expired, req>>

\* The cookie's MaxAge is over.
DropCookie ==
    /\ cookie # Empty
    /\ cookie' = Empty
    /\ UNCHANGED <<drawn, codes, tried, expired, ended, req>>

Serve(q) ==
    \/ \E f \in Flows : Login(q, f)
    \/ CheckState(q) \/ Exchange(q) \/ Logout(q) \/ ServeAPI(q)

Next ==
    \/ \E q \in Requests :
         \/ SendLogin(q) \/ SendLogout(q)
         \/ \E bearer \in {"none", "valid", "invalid"} : SendAPI(q, bearer)
         \/ \E f \in Flows : SendCallback(q, f)
         \/ Serve(q) \/ Deliver(q) \/ Lose(q)
    \/ \E f \in Flows : Authorize(f) \/ ExpireFlow(f) \/ EndSession(f)
    \/ DropCookie

Spec == Init /\ [][Next]_vars

-----------------------------------------------------------------------------
(* Properties *)

\* A session appears in the browser only as the answer to the callback of its
\* own login: no late or failed response of another request brings back a
\* session that a logout or a later login has ended (Login forgetting the user,
\* Callback saving the consumed flow before the exchange).
SessionFromItsCallback ==
    [][cookie'.session \notin {cookie.session, None} =>
         \E q \in Requests : /\ req[q].op = "callback"
                             /\ req[q].flow = cookie'.session
                             /\ req'[q] = Idle]_vars

\* No response carries a session whose code the provider has not taken, whichever
\* of the exchange's steps fails or is repeated, and a callback's own session goes
\* to the browser that began its flow (Callback's two saves, state and verifier).
SessionFromOwnFlow ==
    \A q \in Requests :
        req[q] # Idle /\ req[q].reply.session # None =>
            /\ req[q].op = "callback" => req[q].sent.flow = req[q].reply.session
            /\ codes[req[q].reply.session] = "redeemed"

\* An API call with a bearer token is answered for the token's user or refused,
\* never for the user of the cookie that came along; and one served from a
\* cookie carried a session that its own callback established (Middleware).
ServedForItsCaller ==
    \A q \in Requests :
        req[q].op = "api" /\ req[q].user = "session" =>
            /\ req[q].bearer = "none"
            /\ codes[req[q].sent.session] = "redeemed"

\* A login's transaction is used once: its code goes to the provider in one
\* callback, whatever URL the browser repeats.
FlowUsedOnce == \A f \in Flows : tried[f] <= 1
=============================================================================
