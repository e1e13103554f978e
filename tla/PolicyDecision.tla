---------------------------- MODULE PolicyDecision ----------------------------
(***************************************************************************)
(* The policy decision point: AuthorizationPolicyService.Decide.           *)
(*                                                                         *)
(* A decision reads the scope, the endpoint, the subject's roles and the   *)
(* published snapshots one after the other, each in a statement of its     *)
(* own, while administrators change all four.  Policies appear as          *)
(* PublishedCatalog, which PolicyLifecycle is proved to implement: what    *)
(* ListPublishedByEndpoint joins is what is served.                        *)
(*                                                                         *)
(* The decision log is not modelled: an answer does not depend on it.      *)
(***************************************************************************)
EXTENDS Directory, PublishedCatalog

CONSTANTS
    ScopeOfPolicy,      \* authorization_policies.service_resource
    Rules,              \* authorization type and condition of a snapshot, as one
    DenyRules,          \* those whose effect is deny
    Attributes,         \* for the attributes a call can have, the rules they satisfy
    Decisions           \* decision calls being served at the same time

ASSUME DecisionAssumption ==
    /\ ScopeOfPolicy \in [Policies -> Scopes]
    /\ DenyRules \subseteq Rules
    /\ Attributes \subseteq SUBSET Rules
    /\ Contents \subseteq
         [rule : Rules, roles : SUBSET Roles, endpoints : SUBSET Endpoints]

VARIABLES
    dec,                \* what each decision call knows
    held                \* the policies that have applied at every moment of the call

decisionVars == <<dirVars, catalogVars, dec, held>>

Idle == [pc |-> "idle"]

\* Why access is denied.
Reasons == {"scope_mismatch", "endpoint_disabled", "explicit_deny", "default_deny"}

Deleted == [roles : SUBSET Roles, endpoints : SUBSET Endpoints, policies : SUBSET Policies]

\* `matching` are the rules of the asked authorization type whose condition the
\* attributes of the call satisfy; `gone` is what was deleted when it began.
Deciding ==
    [pc : {"endpoint", "roles", "policies"}, subject : Subjects, scope : Scopes,
     endpoint : Endpoints, matching : SUBSET Rules, roles : SUBSET Roles, gone : Deleted]

Denied == [pc : {"denied"}, reason : Reasons]

\* `grants` are the policies the answer rests on.
Allowed == [pc : {"allowed"}, endpoint : Endpoints, grants : SUBSET Policies, gone : Deleted]

DecisionTypeOK ==
    /\ DirTypeOK
    /\ frozen \in [Policies -> SUBSET Contents]
    /\ served \in [Policies -> SUBSET Contents]
    /\ retired \subseteq Policies
    /\ dec \in [Decisions -> Deciding \cup Denied \cup Allowed \cup {Idle}]
    /\ held \in [Decisions -> SUBSET Policies]

-----------------------------------------------------------------------------
\* A snapshot counts: it is of the scope, the endpoint is among its targets,
\* type and condition match, and it binds one of the roles.
Matches(p, content, c, roles) ==
    /\ ScopeOfPolicy[p] = c.scope
    /\ c.endpoint \in content.endpoints
    /\ content.rule \in c.matching
    /\ content.roles \cap roles # {}

\* Faulty: the snapshots of policies that were withdrawn or deleted count as well.
MatchedFrozen(c, roles) ==
    {p \in Policies : \E content \in frozen[p] : Matches(p, content, c, roles)}

\* ListPublishedByEndpoint and the loop of evaluateByAuthorizationType.
Matched(c, roles) ==
    {p \in Policies : \E content \in served[p] : Matches(p, content, c, roles)}

Denies(p) == \E content \in served[p] : content.rule \in DenyRules

\* Faulty: a matching allow ends the loop.
ReasonAllowFirst(matched) ==
    IF \E p \in matched : ~Denies(p) THEN "allowed_by_policy"
    ELSE IF matched # {} THEN "explicit_deny"
    ELSE "default_deny"

\* Faulty: a reason outside the enumeration.
ReasonUnlisted(matched) ==
    IF \E p \in matched : Denies(p) THEN "explicit_deny"
    ELSE IF matched # {} THEN "allowed_by_policy"
    ELSE "no_policy"

\* Deny overrides, and without an allow the answer is deny.
Reason(matched) ==
    IF \E p \in matched : Denies(p) THEN "explicit_deny"
    ELSE IF matched # {} THEN "allowed_by_policy"
    ELSE "default_deny"

-----------------------------------------------------------------------------
Init ==
    /\ DirInit
    /\ CatalogInit
    /\ dec = [d \in Decisions |-> Idle]
    /\ held = [d \in Decisions |-> {}]

\* Decide, with the first read, ensureScope, which must succeed.
Decide(d, subject, scope, endpoint, matching) ==
    /\ dec[d] = Idle
    /\ scopeActive[scope]
    /\ dec' = [dec EXCEPT ![d] =
         [pc |-> "endpoint", subject |-> subject, scope |-> scope, endpoint |-> endpoint,
          matching |-> matching, roles |-> {},
          gone |-> [roles |-> {r \in Roles : roleState[r] = "deleted"},
                    endpoints |-> {e \in Endpoints : endpointState[e] = "deleted"},
                    policies |-> retired]]]

Deny(d, reason) == dec' = [dec EXCEPT ![d] = [pc |-> "denied", reason |-> reason]]

Allow(d, grants) ==
    dec' = [dec EXCEPT ![d] = [pc |-> "allowed", endpoint |-> @.endpoint,
                               grants |-> grants, gone |-> @.gone]]

\* The endpoint is read: a deleted one is an error, one of another scope or a
\* disabled one is denied.
GetEndpoint(d) ==
    LET c == dec[d] IN
    /\ c.pc = "endpoint"
    /\ IF endpointState[c.endpoint] = "deleted" THEN dec' = [dec EXCEPT ![d] = Idle]
       ELSE IF ScopeOfEndpoint[c.endpoint] # c.scope THEN Deny(d, "scope_mismatch")
       ELSE IF endpointState[c.endpoint] = "disabled" THEN Deny(d, "endpoint_disabled")
       ELSE dec' = [dec EXCEPT ![d].pc = "roles"]

\* Faulty: the roles of the request are kept, here none.
RoleIDsOfRequest(d) ==
    LET c == dec[d] IN
    /\ c.pc = "roles"
    /\ dec' = [dec EXCEPT ![d].pc = "policies"]

\* The subject's roles come from the database, never from the request.
RoleIDs(d) ==
    LET c == dec[d] IN
    /\ c.pc = "roles"
    /\ dec' = [dec EXCEPT ![d].pc = "policies",
                          ![d].roles = EffectiveRoles(c.subject, c.scope)]

\* The snapshots are read in one statement and evaluated in memory.
Evaluate(d) ==
    LET c == dec[d] IN
    /\ c.pc = "policies"
    /\ LET matched == Matched(c, c.roles)
           reason == Reason(matched)
       IN  IF reason = "allowed_by_policy" THEN Allow(d, matched) ELSE Deny(d, reason)

\* The answer reaches the PEP, or the call fails on the way and the PEP denies.
Return(d) ==
    /\ dec[d] # Idle
    /\ dec' = [dec EXCEPT ![d] = Idle]

DecisionStep ==
    \E d \in Decisions :
        \/ \E u \in Subjects, s \in Scopes, e \in Endpoints, m \in Attributes :
             Decide(d, u, s, e, m)
        \/ GetEndpoint(d)
        \/ RoleIDs(d)
        \/ Evaluate(d)
        \/ Return(d)

\* History: which policies have applied to the call all along.
Applying(d) == Matched(dec[d], EffectiveRoles(dec[d].subject, dec[d].scope))

Observe ==
    held' = [d \in Decisions |->
               IF dec'[d] = Idle THEN {}
               ELSE IF dec'[d].pc \in {"denied", "allowed"} THEN held[d]
               ELSE IF dec[d] = Idle THEN Applying(d)'
               ELSE held[d] \cap Applying(d)']

Next ==
    /\ \/ DecisionStep /\ UNCHANGED <<dirVars, catalogVars>>
       \/ DirNext /\ UNCHANGED <<catalogVars, dec>>
       \/ CatalogNext /\ UNCHANGED <<dirVars, dec>>
    /\ Observe

Spec == Init /\ [][Next]_decisionVars

-----------------------------------------------------------------------------
(* Properties *)

\* An answer of allow rests on nothing that was deleted before the call began:
\* not the endpoint, not the policy, not every role it binds (the is_deleted
\* filters of Get, ListRoleIDs and ListPublishedByEndpoint, DeleteRole taking the
\* assignments with it).
DeletedNeverGrants ==
    \A d \in Decisions : dec[d].pc = "allowed" =>
        /\ dec[d].endpoint \notin dec[d].gone.endpoints
        /\ dec[d].grants \cap dec[d].gone.policies = {}
        /\ \A p \in dec[d].grants : \A content \in frozen[p] :
             ~ content.roles \subseteq dec[d].gone.roles

\* A deny policy that applied during the whole call is never overruled, whatever
\* else was changed meanwhile (the order of the reads in Decide, deny overrides
\* in Evaluate).
StandingDenyWins ==
    \A d \in Decisions : dec[d].pc = "allowed" =>
        \A p \in held[d] : \A content \in frozen[p] : content.rule \notin DenyRules

\* A subject whom a policy allowed during the whole call is not denied for want
\* of a policy: the reads, although made one by one, do not miss it.
StandingAllowCounts ==
    \A d \in Decisions :
        dec[d] = [pc |-> "denied", reason |-> "default_deny"] => held[d] = {}
=============================================================================
