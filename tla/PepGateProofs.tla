---------------------------- MODULE PepGateProofs ----------------------------
(***************************************************************************)
(* Proofs about PepGate, for every number of calls, users and endpoints.    *)
(***************************************************************************)
EXTENDS PepGate, TLAPS

-----------------------------------------------------------------------------
(* Type correctness *)

LEMMA InitType == Init => TypeOK
BY DEF Init, TypeOK

LEMMA NextType == TypeOK /\ [Next]_vars => TypeOK'
<1> SUFFICES ASSUME TypeOK, [Next]_vars PROVE TypeOK'
    OBVIOUS
<1>1. CASE UNCHANGED vars
    BY <1>1 DEF vars, TypeOK
<1>2. CASE Next
  <2>1. ever' \subseteq Calls
      BY <1>2 DEF Next, Remember
  <2>2. ASSUME NEW c \in Calls, NEW s \in Subjects, NEW e \in Endpoints, NEW b \in BOOLEAN,
               Arrive(c, s, e, b)
        PROVE  TypeOK'
    <3>1. [pc |-> IF b THEN "ask" ELSE "refused", subject |-> s, endpoint |-> e] \in Call
        BY DEF Call
    <3> QED BY <2>1, <2>2, <3>1 DEF TypeOK, Arrive
  <2>3. ASSUME NEW c \in Calls, Send(c) PROVE TypeOK'
      BY <2>1, <2>3 DEF TypeOK, Send, Call, Idle
  <2>4. ASSUME NEW c \in Calls, Decide(c) PROVE TypeOK'
      BY <2>1, <2>4 DEF TypeOK, Decide, Replies
  <2>5. ASSUME NEW c \in Calls, NEW reply \in Replies \ {"allow", "deny"}, Spoil(c, reply)
        PROVE  TypeOK'
      BY <2>1, <2>5 DEF TypeOK, Spoil
  <2>6. ASSUME NEW c \in Calls, Answer(c) \/ Timeout(c) PROVE TypeOK'
      BY <2>1, <2>6 DEF TypeOK, Answer, Timeout, Expires, Settled, Call, Idle
  <2>7. ASSUME NEW c \in Calls, Finish(c) PROVE TypeOK'
      BY <2>1, <2>7 DEF TypeOK, Finish
  <2>8. ASSUME NEW s \in Subjects, NEW e \in Endpoints, Regrant(s, e) PROVE TypeOK'
      BY <2>1, <2>8 DEF TypeOK, Regrant
  <2> QED BY <1>2, <2>2, <2>3, <2>4, <2>5, <2>6, <2>7, <2>8 DEF Next, Step
<1> QED BY <1>1, <1>2

\* Calls, answers and permissions keep their types.
THEOREM TypeCorrect == Spec => []TypeOK
BY InitType, NextType, PTL DEF Spec

-----------------------------------------------------------------------------
(* What is served was allowed *)

\* An answer of allow, and a call it let through, belong to a call that the PDP
\* would have allowed while it was served; a connection that has no call any more
\* has no answer either.
IInv ==
    /\ TypeOK
    /\ \A c \in Calls :
         /\ call[c] = Idle => pdp[c] = "none"
         /\ pdp[c] = "allow" => c \in ever
         /\ call[c].pc = "served" => c \in ever

LEMMA InitInv == Init => IInv
BY InitType DEF Init, IInv, Idle

\* A call remembers that it would have been allowed until it is over.
LEMMA Remembered ==
    ASSUME IInv, Remember, NEW c \in Calls, call'[c] # Idle
    PROVE  /\ c \in ever => c \in ever'
           /\ <<call'[c].subject, call'[c].endpoint>> \in granted' => c \in ever'
BY DEF Remember

LEMMA NextInv == IInv /\ [Next]_vars => IInv'
<1> SUFFICES ASSUME IInv, [Next]_vars, NEW c \in Calls
             PROVE  /\ call'[c] = Idle => pdp'[c] = "none"
                    /\ pdp'[c] = "allow" => c \in ever'
                    /\ call'[c].pc = "served" => c \in ever'
    BY NextType DEF IInv
<1> USE DEF IInv, TypeOK
<1>1. CASE UNCHANGED vars
    BY <1>1 DEF vars
<1>2. CASE Next
  <2>0. call[c] \in Call \cup {Idle} /\ (call[c] \in Call => call[c] # Idle)
      BY DEF Call, Idle
  <2>1. CASE call'[c] = call[c] /\ pdp'[c] = pdp[c]
    <3>1. CASE call[c] = Idle
        BY <2>1, <3>1 DEF Idle
    <3>2. CASE call[c] # Idle
        BY <1>2, <2>1, <3>2, Remembered DEF Next
    <3> QED BY <3>1, <3>2
  <2>2. ASSUME NEW s \in Subjects, NEW e \in Endpoints, NEW b \in BOOLEAN, Arrive(c, s, e, b)
        PROVE  pdp'[c] = "none" /\ call'[c].pc # "served"
      BY <2>2 DEF Arrive
  <2>3. CASE Send(c)
      BY <2>0, <2>3 DEF Send, Call, Idle
  <2>4. CASE Decide(c)
    <3>1. call[c] # Idle /\ call' = call /\ granted' = granted
        BY <2>4 DEF Decide
    <3>2. CASE <<call[c].subject, call[c].endpoint>> \in granted
        BY <1>2, <2>4, <3>1, <3>2, Remembered DEF Decide, Next
    <3>3. CASE <<call[c].subject, call[c].endpoint>> \notin granted
        BY <1>2, <2>4, <3>1, <3>3, Remembered DEF Decide, Next
    <3> QED BY <3>2, <3>3
  <2>5. ASSUME NEW reply \in Replies \ {"allow", "deny"}, Spoil(c, reply)
        PROVE  /\ call'[c] # Idle /\ pdp'[c] # "allow"
               /\ call'[c].pc = "served" => c \in ever'
      BY <1>2, <2>5, Remembered DEF Spoil, Next
  <2>6. CASE Answer(c) \/ Timeout(c)
    <3>1. call[c] \in Call /\ call[c].pc = "wait"
        BY <2>0, <2>6 DEF Answer, Timeout, Expires, Idle
    <3>2. call'[c] # Idle /\ pdp' = pdp
        BY <2>6, <3>1 DEF Answer, Timeout, Settled, Call, Idle
    <3>3. call'[c].pc = "served" => pdp[c] = "allow"
        BY <2>6, <3>1 DEF Answer, Timeout, Settled, Passes, Call
    <3> QED BY <1>2, <3>2, <3>3, Remembered DEF Next
  <2>7. CASE Finish(c)
      BY <2>7 DEF Finish, Idle
  <2>8. ASSUME NEW d \in Calls \ {c},
               \/ \E s \in Subjects, e \in Endpoints, b \in BOOLEAN : Arrive(d, s, e, b)
               \/ \E reply \in Replies \ {"allow", "deny"} : Spoil(d, reply)
               \/ Send(d) \/ Decide(d) \/ Answer(d) \/ Timeout(d) \/ Finish(d)
        PROVE  call'[c] = call[c] /\ pdp'[c] = pdp[c]
      BY <2>8 DEF Arrive, Spoil, Send, Decide, Answer, Timeout, Finish
  <2>9. ASSUME NEW s \in Subjects, NEW e \in Endpoints, Regrant(s, e)
        PROVE  call'[c] = call[c] /\ pdp'[c] = pdp[c]
      BY <2>9 DEF Regrant
  <2>10. \/ \E d \in Calls :
              \/ \E s \in Subjects, e \in Endpoints, b \in BOOLEAN : Arrive(d, s, e, b)
              \/ \E reply \in Replies \ {"allow", "deny"} : Spoil(d, reply)
              \/ Send(d) \/ Decide(d) \/ Answer(d) \/ Timeout(d) \/ Finish(d)
         \/ \E s \in Subjects, e \in Endpoints : Regrant(s, e)
      BY <1>2 DEF Next, Step
  <2> QED BY <2>1, <2>2, <2>3, <2>4, <2>5, <2>6, <2>7, <2>8, <2>9, <2>10 DEF Idle
<1> QED BY <1>1, <1>2

\* However late, lost or garbled the answers of the PDP are, no call reaches the
\* business handler that was not allowed at some moment since it arrived.
THEOREM OnlyAllowedIsServed == Spec => []ServedWasAllowed
<1>1. IInv => ServedWasAllowed
    BY DEF IInv, ServedWasAllowed
<1> QED BY <1>1, InitInv, NextInv, PTL DEF Spec
=============================================================================
