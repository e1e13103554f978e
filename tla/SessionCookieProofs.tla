------------------------- MODULE SessionCookieProofs -------------------------
(***************************************************************************)
(* Proofs about SessionCookie, for every number of flows and requests.      *)
(***************************************************************************)
EXTENDS SessionCookie, TLAPS

USE SessionAssumption

-----------------------------------------------------------------------------
(* Type correctness *)

\* The provider knows no flow that was not drawn, so that a session that ends
\* has been one.
CodesDrawn == \A f \in Flows : codes[f] # "none" => f \in drawn

LEMMA InitType == Init => TypeOK /\ CodesDrawn
BY DEF Init, TypeOK, CodesDrawn, Cookie, Empty

\* A request that is on its way is one, and not idle.
LEMMA OnItsWay ==
    ASSUME TypeOK, NEW q \in Requests, req[q].op # "idle" \/ req[q] # Idle
    PROVE  req[q] \in Request
BY DEF TypeOK, Idle

LEMMA RequestIsOne == \A r \in Request : r # Idle /\ r.op # "idle"
BY DEF Request, Idle

\* What the cookie of a request can become.
LEMMA Replies ==
    /\ Empty \in Cookie
    /\ \A f \in Flows : [flow |-> None, session |-> f] \in Cookie
    /\ \A c \in Cookie, f \in Flows : LoginReply(c, f) \in Cookie
    /\ \A c \in Cookie : [c EXCEPT !.flow = None] \in Cookie
BY DEF Cookie, Empty, LoginReply

\* A request that is sent, answered or served stays one.
LEMMA Updated ==
    ASSUME NEW r \in Request
    PROVE  /\ \A reply \in Cookie \cup {Keep} :
                [r EXCEPT !.pc = "answered", !.reply = reply] \in Request
           /\ [r EXCEPT !.pc = "exchange"] \in Request
           /\ \A u \in {"nobody", "bearer", "session"} :
                [r EXCEPT !.pc = "answered", !.user = u] \in Request
BY DEF Request

LEMMA SendType ==
    ASSUME TypeOK, NEW q \in Requests, NEW op \in {"login", "callback", "logout", "api"},
           NEW f \in Flows \cup {None}, NEW bearer \in {"none", "valid", "invalid"},
           Send(q, op, f, bearer)
    PROVE  TypeOK'
<1>1. [op |-> op, pc |-> "sent", flow |-> f, sent |-> cookie, reply |-> Keep,
       bearer |-> bearer, user |-> "nobody"] \in Request
    BY DEF TypeOK, Request
<1> QED BY <1>1 DEF TypeOK, Send

LEMMA AnswerType ==
    ASSUME TypeOK, NEW q \in Requests, req[q] \in Request, NEW reply \in Cookie \cup {Keep},
           Answer(q, reply)
    PROVE  req' \in [Requests -> Request \cup {Idle}]
BY Updated DEF TypeOK, Answer

LEMMA NextType == TypeOK /\ CodesDrawn /\ [Next]_vars => TypeOK'
<1> SUFFICES ASSUME TypeOK, CodesDrawn, [Next]_vars PROVE TypeOK'
    OBVIOUS
<1>1. ASSUME NEW q \in Requests,
             \/ SendLogin(q) \/ SendLogout(q)
             \/ \E bearer \in {"none", "valid", "invalid"} : SendAPI(q, bearer)
             \/ \E f \in Flows : SendCallback(q, f)
      PROVE  TypeOK'
    BY <1>1, SendType DEF SendLogin, SendLogout, SendAPI, SendCallback
<1>2. ASSUME NEW q \in Requests, NEW f \in Flows, Login(q, f) PROVE TypeOK'
  <2>1. req[q] \in Request
      BY <1>2, OnItsWay DEF Login, Serving
  <2>2. LoginReply(Loaded(req[q].sent), f) \in Cookie
      BY DEF LoginReply, Cookie
  <2> QED BY <1>2, <2>1, <2>2, AnswerType DEF TypeOK, Login
<1>3. ASSUME NEW q \in Requests, CheckState(q) PROVE TypeOK'
  <2>1. req[q] \in Request
      BY <1>3, OnItsWay DEF CheckState, Serving
  <2> QED BY <1>3, <2>1, AnswerType, Updated DEF TypeOK, CheckState
<1>4. ASSUME NEW q \in Requests, Exchange(q) PROVE TypeOK'
  <2>1. req[q] \in Request
      BY <1>4, OnItsWay DEF Exchange
  <2>2. req[q].sent \in Cookie /\ req[q].flow \in Flows \cup {None}
      BY <2>1 DEF Request
  <2>3. Failed(q) \in Cookie
      BY <2>2, Replies DEF Failed
  <2>4. tried' \in [Flows -> 0 .. 2]
    <3>1. CASE req[q].flow \in Flows
      <4>1. tried[req[q].flow] \in 0 .. 2 /\ tried[req[q].flow] < 2
          BY <1>4, <3>1 DEF TypeOK, Exchange
      <4>2. tried[req[q].flow] + 1 \in 0 .. 2
          BY <4>1
      <4> QED BY <1>4, <4>2 DEF TypeOK, Exchange
    <3>2. CASE req[q].flow \notin Flows
        BY <1>4, <3>2 DEF TypeOK, Exchange
    <3> QED BY <3>1, <3>2
  <2>5. CASE Answer(q, Failed(q)) /\ UNCHANGED codes
      BY <1>4, <2>1, <2>3, <2>4, <2>5, AnswerType DEF TypeOK, Exchange
  <2>6. CASE /\ codes[req[q].flow] = "issued" /\ req[q].sent.flow = req[q].flow
             /\ codes' = [codes EXCEPT ![req[q].flow] = "redeemed"]
             /\ \E reply \in {[flow |-> None, session |-> req[q].flow], Failed(q)} : Answer(q, reply)
    <3>1. [flow |-> None, session |-> req[q].flow] \in Cookie
        BY <2>2 DEF Cookie
    <3>2. req' \in [Requests -> Request \cup {Idle}]
        BY <2>1, <2>3, <2>6, <3>1, AnswerType
    <3> QED BY <1>4, <2>4, <2>6, <3>2 DEF TypeOK, Exchange
  <2> QED BY <1>4, <2>5, <2>6 DEF Exchange
<1>5. ASSUME NEW q \in Requests, Logout(q) PROVE TypeOK'
  <2>1. req[q] \in Request
      BY <1>5, OnItsWay DEF Logout, Serving
  <2> QED BY <1>5, <2>1, Replies, AnswerType DEF TypeOK, Logout
<1>6. ASSUME NEW q \in Requests, ServeAPI(q) PROVE TypeOK'
  <2>1. req[q] \in Request
      BY <1>6, OnItsWay DEF ServeAPI, Serving
  <2>2. ServedAs(q) \in {"nobody", "bearer", "session"}
      BY <2>1 DEF ServedAs, Request
  <2> QED BY <1>6, <2>1, <2>2, Updated DEF TypeOK, ServeAPI
<1>7. ASSUME NEW q \in Requests, Deliver(q) PROVE TypeOK'
  <2>1. req[q].reply \in Cookie \cup {Keep}
      BY <1>7, OnItsWay DEF Deliver, Request
  <2> QED BY <1>7, <2>1 DEF TypeOK, Deliver
<1>8. ASSUME NEW q \in Requests, Lose(q) PROVE TypeOK'
    BY <1>8 DEF TypeOK, Lose
<1>9. ASSUME NEW f \in Flows, Authorize(f) PROVE TypeOK'
    BY <1>9 DEF TypeOK, Authorize
<1>10. ASSUME NEW f \in Flows, ExpireFlow(f) PROVE TypeOK'
    BY <1>10 DEF TypeOK, ExpireFlow
<1>11. ASSUME NEW f \in Flows, EndSession(f) PROVE TypeOK'
    BY <1>11 DEF TypeOK, CodesDrawn, EndSession
<1>12. CASE DropCookie
    BY <1>12, Replies DEF TypeOK, DropCookie
<1>13. CASE UNCHANGED vars
    BY <1>13 DEF TypeOK, vars
<1> QED BY <1>1, <1>2, <1>3, <1>4, <1>5, <1>6, <1>7, <1>8, <1>9, <1>10, <1>11, <1>12, <1>13
    DEF Next, Serve

\* A code is issued for a flow that was drawn, and redeemed once it is issued.
LEMMA NextDrawn == TypeOK /\ CodesDrawn /\ [Next]_vars => CodesDrawn'
<1> SUFFICES ASSUME TypeOK, CodesDrawn, [Next]_vars, NEW f \in Flows, codes'[f] # "none"
             PROVE  f \in drawn'
    BY DEF CodesDrawn
<1>1. drawn \subseteq drawn'
    BY DEF Next, Serve, Send, SendLogin, SendLogout, SendAPI, SendCallback, Login, CheckState,
       Exchange, Logout, ServeAPI, Deliver, Lose, Authorize, ExpireFlow, EndSession, DropCookie, vars
<1>2. ASSUME NEW g \in Flows, Authorize(g) PROVE f \in drawn
    BY <1>2 DEF Authorize, TypeOK, CodesDrawn
<1>3. ASSUME NEW q \in Requests, Exchange(q) PROVE f \in drawn
  <2>1. CASE codes' = codes
      BY <2>1 DEF CodesDrawn
  <2>2. CASE codes[req[q].flow] = "issued" /\ codes' = [codes EXCEPT ![req[q].flow] = "redeemed"]
      BY <2>2 DEF CodesDrawn, TypeOK
  <2> QED BY <1>3, <2>1, <2>2 DEF Exchange
<1>4. CASE UNCHANGED codes
    BY <1>1, <1>4 DEF CodesDrawn
<1> QED BY <1>1, <1>2, <1>3, <1>4 DEF Next, Serve, Send, SendLogin, SendLogout, SendAPI,
           SendCallback, Login, CheckState, Logout, ServeAPI, Deliver, Lose, ExpireFlow,
           EndSession, DropCookie, vars

LEMMA TypeAlways == Spec => [](TypeOK /\ CodesDrawn)
BY InitType, NextType, NextDrawn, PTL DEF Spec

\* The cookie, the provider's state and requests keep their types.
THEOREM TypeCorrect == Spec => []TypeOK
BY TypeAlways, PTL

-----------------------------------------------------------------------------
(* Sessions *)

\* A cookie has a flow or a session, and a session only of a user who has signed
\* in.
Sane(c) ==
    /\ c.flow = None \/ c.session = None
    /\ c.session # None => c.session \in Flows /\ codes[c.session] = "redeemed"

\* A response carries a session only as the answer to the callback of its flow.
ReplyOK(r) ==
    r.reply.session # None =>
        r.op = "callback" /\ r.flow = r.reply.session /\ r.sent.flow = r.reply.session

\* A request between CheckState and Exchange is a callback of the flow its cookie
\* holds.
FlowOK(r) == r.pc = "exchange" => r.op = "callback" /\ r.flow # None /\ r.sent.flow = r.flow

\* A callback has a flow.
CallbackOK(r) == r.op = "callback" => r.flow # None

\* Whom an API call was served for.
UserOK(r) == r.user = "session" => r.bearer = "none" /\ r.sent.session # None

RequestOK(r) ==
    Sane(r.sent) /\ Sane(r.reply) /\ ReplyOK(r) /\ FlowOK(r) /\ CallbackOK(r) /\ UserOK(r)

IInv ==
    /\ TypeOK
    /\ Sane(cookie)
    /\ \A q \in Requests : req[q] # Idle => RequestOK(req[q])

LEMMA InitInv == Init => IInv
BY InitType DEF Init, IInv, Sane, Empty, Idle

\* A code that is redeemed stays so; a cookie that is sane stays so.
LEMMA StaysSane ==
    ASSUME TypeOK, [Next]_vars, NEW c, Sane(c)
    PROVE  Sane(c)'
<1>1. \A f \in Flows : codes[f] = "redeemed" => codes'[f] = "redeemed"
  <2>1. ASSUME NEW g \in Flows, Authorize(g)
        PROVE  \A f \in Flows : codes[f] = "redeemed" => codes'[f] = "redeemed"
      BY <2>1 DEF Authorize, TypeOK
  <2>2. ASSUME NEW q \in Requests, Exchange(q)
        PROVE  \A f \in Flows : codes[f] = "redeemed" => codes'[f] = "redeemed"
    <3>1. CASE codes' = [codes EXCEPT ![req[q].flow] = "redeemed"]
        BY <3>1 DEF TypeOK
    <3> QED BY <2>2, <3>1 DEF Exchange
  <2> QED BY <2>1, <2>2 DEF Next, Serve, Send, SendLogin, SendLogout, SendAPI, SendCallback,
             Login, CheckState, Logout, ServeAPI, Deliver, Lose, ExpireFlow, EndSession,
             DropCookie, vars
<1> QED BY <1>1 DEF Sane

LEMMA StaysOK ==
    ASSUME TypeOK, [Next]_vars, NEW r, RequestOK(r)
    PROVE  RequestOK(r)'
BY StaysSane DEF RequestOK, ReplyOK, FlowOK, CallbackOK, UserOK

\* A step that touches one request need only keep that one right, and the cookie.
LEMMA OneRequest ==
    ASSUME IInv, CodesDrawn, [Next]_vars, NEW q \in Requests, NEW next \in Request \cup {Idle},
           req' = [req EXCEPT ![q] = next], UNCHANGED cookie,
           next # Idle => RequestOK(next)'
    PROVE  IInv'
<1>1. TypeOK' /\ Sane(cookie)'
  <2>1. PICK c : c = cookie
      OBVIOUS
  <2>2. Sane(c)'
      BY <2>1, StaysSane DEF IInv
  <2> QED BY <2>1, <2>2, NextType DEF IInv, Sane
<1>2. ASSUME NEW p \in Requests, req'[p] # Idle PROVE RequestOK(req[p])'
  <2>1. CASE p = q
    <3>1. req'[p] = next
        BY <2>1 DEF IInv, TypeOK
    <3> QED BY <1>2, <3>1 DEF RequestOK, Sane, ReplyOK, FlowOK, CallbackOK, UserOK
  <2>2. CASE p # q
    <3>1. req'[p] = req[p]
        BY <2>2 DEF IInv, TypeOK
    <3>2. PICK r : r = req[p]
        OBVIOUS
    <3>3. RequestOK(r)'
        BY <1>2, <3>1, <3>2, StaysOK DEF IInv
    <3> QED BY <3>1, <3>2, <3>3 DEF RequestOK, Sane, ReplyOK, FlowOK, CallbackOK, UserOK
  <2> QED BY <2>1, <2>2
<1> QED BY <1>1, <1>2 DEF IInv

LEMMA SendInv ==
    ASSUME IInv, CodesDrawn, [Next]_vars, NEW q \in Requests,
           NEW op \in {"login", "callback", "logout", "api"}, NEW f \in Flows \cup {None},
           NEW bearer \in {"none", "valid", "invalid"},
           Send(q, op, f, bearer), op = "callback" => f # None
    PROVE  IInv'
<1>1. PICK c \in Cookie : c = cookie
    BY DEF IInv, TypeOK
<1> DEFINE next == [op |-> op, pc |-> "sent", flow |-> f, sent |-> c, reply |-> Keep,
                    bearer |-> bearer, user |-> "nobody"]
<1>2. next \in Request
    BY DEF Request
<1>3. Sane(c)'
    BY <1>1, StaysSane DEF IInv
<1>4. RequestOK(next)'
    BY <1>3 DEF RequestOK, Sane, ReplyOK, FlowOK, CallbackOK, UserOK, Keep
<1>5. req' = [req EXCEPT ![q] = next] /\ UNCHANGED cookie
    BY <1>1 DEF Send
<1> HIDE DEF next
<1> QED BY <1>2, <1>4, <1>5, OneRequest

\* A response without a session is right for any request, as is one to a callback
\* with the session of its flow.
LEMMA AnswerInv ==
    ASSUME IInv, CodesDrawn, [Next]_vars, NEW q \in Requests, req[q] \in Request,
           NEW reply \in Cookie \cup {Keep}, Answer(q, reply), UNCHANGED cookie,
           \/ reply.session = None
           \/ /\ reply.flow = None /\ reply.session \in Flows
              /\ codes'[reply.session] = "redeemed"
              /\ req[q].op = "callback" /\ req[q].flow = reply.session
              /\ req[q].sent.flow = reply.session
    PROVE  IInv'
<1>1. PICK r \in Request : r = req[q]
    OBVIOUS
<1> DEFINE next == [r EXCEPT !.pc = "answered", !.reply = reply]
<1>2. next \in Request
    BY Updated
<1>3. /\ next.op = r.op /\ next.pc = "answered" /\ next.flow = r.flow /\ next.sent = r.sent
      /\ next.reply = reply /\ next.bearer = r.bearer /\ next.user = r.user
    BY DEF Request
<1>4. RequestOK(r)'
    BY <1>1, RequestIsOne, StaysOK DEF IInv
<1>5. Sane(reply)' /\ ReplyOK(next)
    BY <1>1, <1>3 DEF Sane, ReplyOK
<1>6. RequestOK(next)'
    BY <1>3, <1>4, <1>5 DEF RequestOK, Sane, ReplyOK, FlowOK, CallbackOK, UserOK
<1>7. req' = [req EXCEPT ![q] = next]
    BY <1>1 DEF Answer
<1> HIDE DEF next
<1> QED BY <1>2, <1>6, <1>7, OneRequest

\* The flow of a request that has passed CheckState is the one of its cookie.
LEMMA CheckStateInv ==
    ASSUME IInv, CodesDrawn, [Next]_vars, NEW q \in Requests, CheckState(q)
    PROVE  IInv'
<1>1. PICK r \in Request : r = req[q]
    BY OnItsWay DEF CheckState, Serving, IInv
<1>2. CASE ~Matches(q)
    BY <1>1, <1>2, AnswerInv DEF CheckState, Keep
<1>3. CASE Matches(q)
  <2> DEFINE next == [r EXCEPT !.pc = "exchange"]
  <2>1. next \in Request
      BY Updated
  <2>2. /\ next.op = r.op /\ next.pc = "exchange" /\ next.flow = r.flow /\ next.sent = r.sent
        /\ next.reply = r.reply /\ next.bearer = r.bearer /\ next.user = r.user
      BY DEF Request
  <2>3. RequestOK(r) /\ RequestOK(r)'
      BY <1>1, RequestIsOne, StaysOK DEF IInv
  <2>4. r.op = "callback" /\ r.flow # None
      BY <1>1, <2>3 DEF CheckState, Serving, RequestOK, CallbackOK
  <2>5. r.sent.flow = r.flow
    <3>1. CASE r.sent.flow \in expired
      <4>1. Loaded(r.sent).flow = None
          BY <3>1 DEF Loaded, Request, Cookie
      <4> QED BY <1>1, <1>3, <2>4, <4>1 DEF Matches
    <3>2. CASE r.sent.flow \notin expired
        BY <1>1, <1>3, <3>2 DEF Matches, Loaded
    <3> QED BY <3>1, <3>2
  <2>6. RequestOK(next)'
      BY <2>2, <2>3, <2>4, <2>5 DEF RequestOK, Sane, ReplyOK, FlowOK, CallbackOK, UserOK
  <2>7. req' = [req EXCEPT ![q] = next] /\ UNCHANGED cookie
      BY <1>1, <1>3 DEF CheckState
  <2> HIDE DEF next
  <2> QED BY <2>1, <2>6, <2>7, OneRequest
<1> QED BY <1>2, <1>3

\* A session is set only for a code the provider has just redeemed, and the
\* cookie that is left when the exchange fails has none.
LEMMA ExchangeInv ==
    ASSUME IInv, CodesDrawn, [Next]_vars, NEW q \in Requests, Exchange(q)
    PROVE  IInv'
<1>1. PICK r \in Request : r = req[q]
    BY OnItsWay DEF Exchange, IInv
<1>2. RequestOK(r)
    BY <1>1, RequestIsOne DEF IInv
<1>3. r.op = "callback" /\ r.sent.flow = r.flow /\ r.flow \in Flows /\ r.sent.session = None
    BY <1>1, <1>2 DEF Exchange, RequestOK, FlowOK, Sane, Request
<1>4. Failed(q) \in Cookie /\ Failed(q).session = None
    BY <1>1, <1>3 DEF Failed, Request, Cookie
<1>5. UNCHANGED cookie
    BY DEF Exchange
<1>6. CASE Answer(q, Failed(q))
  <2>1. PICK reply \in Cookie : reply = Failed(q)
      BY <1>4
  <2> QED BY <1>1, <1>4, <1>5, <1>6, <2>1, AnswerInv
<1>7. CASE /\ codes' = [codes EXCEPT ![req[q].flow] = "redeemed"]
           /\ Answer(q, [flow |-> None, session |-> req[q].flow])
  <2> DEFINE reply == [flow |-> None, session |-> r.flow]
  <2>1. reply \in Cookie /\ reply.flow = None /\ reply.session = r.flow
      BY <1>3 DEF Cookie
  <2>2. codes'[r.flow] = "redeemed"
      BY <1>1, <1>3, <1>7 DEF IInv, TypeOK
  <2>3. Answer(q, reply)
      BY <1>1, <1>7
  <2> HIDE DEF reply
  <2> QED BY <1>1, <1>3, <1>5, <2>1, <2>2, <2>3, AnswerInv
<1> QED BY <1>6, <1>7 DEF Exchange

LEMMA ServeAPIInv ==
    ASSUME IInv, CodesDrawn, [Next]_vars, NEW q \in Requests, ServeAPI(q)
    PROVE  IInv'
<1>1. PICK r \in Request : r = req[q]
    BY OnItsWay DEF ServeAPI, Serving, IInv
<1>2. PICK u : u = ServedAs(q)
    OBVIOUS
<1>3. u \in {"nobody", "bearer", "session"}
      /\ (u = "session" => r.bearer = "none" /\ r.sent.session # None)
    BY <1>1, <1>2 DEF ServedAs, Me, Request
<1> DEFINE next == [r EXCEPT !.pc = "answered", !.user = u]
<1>4. next \in Request
    BY <1>3, Updated
<1>5. /\ next.op = r.op /\ next.pc = "answered" /\ next.flow = r.flow /\ next.sent = r.sent
      /\ next.reply = r.reply /\ next.bearer = r.bearer /\ next.user = u
    BY DEF Request
<1>6. RequestOK(r)'
    BY <1>1, RequestIsOne, StaysOK DEF IInv
<1>7. RequestOK(next)'
    BY <1>3, <1>5, <1>6 DEF RequestOK, Sane, ReplyOK, FlowOK, CallbackOK, UserOK
<1>8. req' = [req EXCEPT ![q] = next] /\ UNCHANGED cookie
    BY <1>1, <1>2 DEF ServeAPI
<1> HIDE DEF next
<1> QED BY <1>4, <1>7, <1>8, OneRequest

\* The browser takes over cookies that are sane.
LEMMA DeliverInv ==
    ASSUME IInv, CodesDrawn, [Next]_vars, NEW q \in Requests, Deliver(q)
    PROVE  IInv'
<1>1. PICK c : c = cookie'
    OBVIOUS
<1>2. Sane(c)
    BY <1>1 DEF Deliver, IInv, RequestOK
<1>3. Sane(cookie)'
    BY <1>1, <1>2, StaysSane DEF IInv, Sane
<1>4. ASSUME NEW p \in Requests, req'[p] # Idle PROVE RequestOK(req[p])'
  <2>1. req'[p] = req[p]
      BY <1>4 DEF Deliver, IInv, TypeOK
  <2>2. PICK r : r = req[p]
      OBVIOUS
  <2>3. RequestOK(r)'
      BY <1>4, <2>1, <2>2, StaysOK DEF IInv
  <2> QED BY <2>1, <2>2, <2>3 DEF RequestOK, Sane, ReplyOK, FlowOK, CallbackOK, UserOK
<1> QED BY <1>3, <1>4, NextType DEF IInv

\* A step that leaves every request alone, and the cookie or its contents.
LEMMA NoRequest ==
    ASSUME IInv, CodesDrawn, [Next]_vars, UNCHANGED req, cookie' = cookie \/ cookie' = Empty
    PROVE  IInv'
<1>1. PICK c : c = cookie'
    OBVIOUS
<1>2. Sane(c)
    BY <1>1 DEF IInv, Sane, Empty
<1>3. Sane(cookie)'
    BY <1>1, <1>2, StaysSane DEF IInv, Sane
<1>4. ASSUME NEW p \in Requests, req'[p] # Idle PROVE RequestOK(req[p])'
  <2>1. PICK r : r = req[p]
      OBVIOUS
  <2>2. RequestOK(r)'
      BY <1>4, <2>1, StaysOK DEF IInv
  <2> QED BY <2>1, <2>2 DEF RequestOK, Sane, ReplyOK, FlowOK, CallbackOK, UserOK
<1> QED BY <1>3, <1>4, NextType DEF IInv

LEMMA NextInv == IInv /\ CodesDrawn /\ [Next]_vars => IInv'
<1> SUFFICES ASSUME IInv, CodesDrawn, [Next]_vars PROVE IInv'
    OBVIOUS
<1>1. ASSUME NEW q \in Requests,
             \/ SendLogin(q) \/ SendLogout(q)
             \/ \E bearer \in {"none", "valid", "invalid"} : SendAPI(q, bearer)
             \/ \E f \in Flows : SendCallback(q, f)
      PROVE  IInv'
  <2>1. CASE SendLogin(q) \/ SendLogout(q)
      BY <2>1, SendInv DEF SendLogin, SendLogout
  <2>2. ASSUME NEW bearer \in {"none", "valid", "invalid"}, SendAPI(q, bearer) PROVE IInv'
      BY <2>2, SendInv DEF SendAPI
  <2>3. ASSUME NEW f \in Flows, SendCallback(q, f) PROVE IInv'
    <3>1. f # None
        OBVIOUS
    <3> QED BY <2>3, <3>1, SendInv DEF SendCallback
  <2> QED BY <1>1, <2>1, <2>2, <2>3
<1>2. ASSUME NEW q \in Requests, NEW f \in Flows, Login(q, f) PROVE IInv'
  <2>1. req[q] \in Request
      BY <1>2, OnItsWay DEF Login, Serving, IInv
  <2> DEFINE reply == [flow |-> f, session |-> None]
  <2>2. reply \in Cookie /\ reply.session = None
      BY DEF Cookie
  <2>3. Answer(q, reply) /\ UNCHANGED cookie
      BY <1>2 DEF Login, LoginReply
  <2> HIDE DEF reply
  <2> QED BY <2>1, <2>2, <2>3, AnswerInv
<1>3. ASSUME NEW q \in Requests, Logout(q) PROVE IInv'
  <2>1. req[q] \in Request
      BY <1>3, OnItsWay DEF Logout, Serving, IInv
  <2>2. Empty \in Cookie /\ Empty.session = None
      BY DEF Empty, Cookie
  <2> QED BY <1>3, <2>1, <2>2, AnswerInv DEF Logout
<1>4. ASSUME NEW q \in Requests, Lose(q) PROVE IInv'
    BY <1>4, OneRequest DEF Lose
<1>5. ASSUME \/ \E f \in Flows : Authorize(f) \/ ExpireFlow(f) \/ EndSession(f)
             \/ DropCookie
             \/ UNCHANGED vars
      PROVE  IInv'
    BY <1>5, NoRequest DEF Authorize, ExpireFlow, EndSession, DropCookie, vars
<1> QED BY <1>1, <1>2, <1>3, <1>4, <1>5, CheckStateInv, ExchangeInv, ServeAPIInv, DeliverInv
    DEF Next, Serve

LEMMA InvAlways == Spec => [](IInv /\ CodesDrawn)
<1>1. Init => CodesDrawn
    BY InitType
<1>2. IInv => TypeOK
    BY DEF IInv
<1> QED BY <1>1, <1>2, InitInv, NextInv, NextDrawn, PTL DEF Spec

\* No response ever carries a session whose code the provider has not taken, and a
\* callback's session is that of the flow its browser began.
THEOREM OwnFlow == Spec => []SessionFromOwnFlow
<1>1. IInv => SessionFromOwnFlow
    BY DEF IInv, SessionFromOwnFlow, RequestOK, Sane, ReplyOK
<1> QED BY <1>1, InvAlways, PTL

\* An API call is served for its bearer or, without one, for a session that its own
\* callback established.
THEOREM ServedForCaller == Spec => []ServedForItsCaller
<1>1. IInv => ServedForItsCaller
    BY DEF IInv, ServedForItsCaller, RequestOK, Sane, UserOK, Idle
<1> QED BY <1>1, InvAlways, PTL

\* What a step may do to the session in the browser.
OnlyItsCallback ==
    cookie'.session \notin {cookie.session, None} =>
        \E q \in Requests : /\ req[q].op = "callback"
                            /\ req[q].flow = cookie'.session
                            /\ req'[q] = Idle

LEMMA NextSession == IInv /\ [Next]_vars => OnlyItsCallback
<1> SUFFICES ASSUME IInv, [Next]_vars, cookie'.session # cookie.session, cookie'.session # None
             PROVE  \E q \in Requests :
                      req[q].op = "callback" /\ req[q].flow = cookie'.session /\ req'[q] = Idle
    BY DEF OnlyItsCallback
<1>1. ASSUME NEW q \in Requests, Deliver(q)
      PROVE  req[q].op = "callback" /\ req[q].flow = cookie'.session /\ req'[q] = Idle
    BY <1>1 DEF Deliver, IInv, RequestOK, ReplyOK, TypeOK
<1>2. CASE UNCHANGED cookie \/ cookie' = Empty
    BY <1>2 DEF Empty
<1> QED BY <1>1, <1>2 DEF Next, Serve, Send, SendLogin, SendLogout, SendAPI, SendCallback,
           Login, CheckState, Exchange, Logout, ServeAPI, Lose, Authorize, ExpireFlow,
           EndSession, DropCookie, vars

\* However late responses arrive, a session comes into the browser only as the
\* answer to the callback of its own login.
THEOREM SessionsComeFromCallbacks == Spec => SessionFromItsCallback
<1>1. IInv /\ [Next]_vars => [OnlyItsCallback]_vars
    BY NextSession
<1> QED BY <1>1, InvAlways, PTL DEF Spec, SessionFromItsCallback, OnlyItsCallback
=============================================================================
