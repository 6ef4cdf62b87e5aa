---------------------------- MODULE RequestGate ----------------------------
(***************************************************************************)
(* What stands between an HTTP request and a tool: MCPHttpApp.mcp_asgi,    *)
(* the rate limiter, the API keys and their audit trail.  Reading the body *)
(* suspends for as long as the client likes.  From authentication to the   *)
(* slot nothing suspends (no lock of the limiter is ever contended on one  *)
(* event loop), so no other request of the server moves meanwhile; but the *)
(* key is read and the mark written in transactions of their own, and the  *)
(* process that creates and revokes keys commits between them.             *)
(***************************************************************************)
EXTENDS Naturals, FiniteSets, Sequences, SequencesExt

CONSTANTS
    Posts, ApiKeys,
    Rpm, WriteRpm,      \* requests_per_minute, write_requests_per_minute
    MaxConcurrent,      \* max_concurrent_requests
    Minute,             \* the 60 seconds of a window, in ticks
    MaxTime,            \* bound on the clock
    Expiries            \* the expires_at keys are created with

GateAssumption ==
    /\ Rpm \in Nat /\ WriteRpm \in Nat /\ MaxConcurrent \in Nat
    /\ Minute \in Nat /\ MaxTime \in Nat /\ Expiries \subseteq Nat

VARIABLES
    time,
    keyOf,      \* api_keys: status, expires_at and whether graph:write is a scope
    admin,      \* the key calls of the other process that still owe their audit event
    call,       \* each request: its phase, key and bucket; history: was the key fit when it was read
    window,     \* _request_windows and _write_windows, by bucket and key
    concurrent, \* _concurrent
    draining,   \* MCPHttpApp.draining
    audit,      \* audit_events
    admitted    \* history: the admissions, and whether the key was dead by then

gateVars == <<time, keyOf, admin, call, window, concurrent, draining, audit, admitted>>
keys == <<keyOf, admin>>
limits == <<window, concurrent>>

Buckets == {"read", "write"}
Limit(b) == IF b = "write" THEN WriteRpm ELSE Rpm
Never == MaxTime + 1
NoKey == [status |-> "none", expires |-> Never, writes |-> FALSE]
NewPost == [at |-> "none", key |-> "none", bucket |-> "none", fit |-> TRUE]

GateInit ==
    /\ time = 0
    /\ keyOf = [k \in ApiKeys |-> NoKey]
    /\ admin = {}
    /\ call = [r \in Posts |-> NewPost]
    /\ window = [b \in Buckets |-> [k \in ApiKeys |-> <<>>]]
    /\ concurrent = [k \in ApiKeys |-> 0]
    /\ draining = FALSE
    /\ audit = {} /\ admitted = {}

(***************************************************************************)
(* create-api-key and revoke-api-key: the row in one transaction, then the *)
(* audit event in another; the process may end between the two.            *)
(***************************************************************************)
CreateKey(k, expires, writes) ==
    /\ keyOf[k].status = "none"
    /\ keyOf' = [keyOf EXCEPT ![k] = [status |-> "active", expires |-> expires, writes |-> writes]]
    /\ admin' = admin \union {<<"api_key.created", k>>}
    /\ UNCHANGED <<time, call, limits, draining, audit, admitted>>

RevokeKey(k) ==
    /\ keyOf[k].status = "active"
    /\ keyOf' = [keyOf EXCEPT ![k].status = "revoked"]
    /\ admin' = admin \union {<<"api_key.revoked", k>>}
    /\ UNCHANGED <<time, call, limits, draining, audit, admitted>>

AuditKey(e) ==
    /\ e \in admin
    /\ audit' = audit \union {e} /\ admin' = admin \ {e}
    /\ UNCHANGED <<time, keyOf, call, limits, draining, admitted>>

AdminEnds(e) ==
    /\ e \in admin
    /\ admin' = admin \ {e}
    /\ UNCHANGED <<time, keyOf, call, limits, draining, audit, admitted>>

(***************************************************************************)
(* The limiter.  Entries older than a minute leave the left of the window, *)
(* up to the first that is not.                                            *)
(***************************************************************************)
From(w, age) ==
    LET young == {i \in DOMAIN w : time - w[i] <= age}
    IN IF young = {} THEN <<>> ELSE SubSeq(w, Min(young), Len(w))

Recent(w) == From(w, Minute)

\* A mutant: an entry leaves the window the moment it is a minute old.
Recent_Early(w) == From(w, Minute - 1)

InWindow(w) == Recent(w)
Full(b, k) == Len(InWindow(window[b][k])) >= Limit(b)

Slotted(k) == concurrent[k] < MaxConcurrent

(***************************************************************************)
(* mcp_asgi.  Refused: 401 key, 403 scope, 413 body, 415 type, 429 rate or *)
(* slots, 503 draining.  Answered: 200, 500 an error, 504 a timeout.       *)
(***************************************************************************)
Ended(r, how) == [call EXCEPT ![r] = [NewPost EXCEPT !.at = how]]

\* The event loop is between a request's authentication and its slot.
Passing == {r \in Posts : call[r].at \in {"known", "marked"}}

Arrive(r, k, b) ==
    /\ call[r].at = "none" /\ Passing = {}
    /\ call' = IF draining THEN Ended(r, "refused")
               ELSE [call EXCEPT ![r] = [NewPost EXCEPT !.at = "body", !.key = k, !.bucket = b]]
    /\ UNCHANGED <<time, keys, limits, draining, audit, admitted>>

BadBody(r) ==
    /\ call[r].at = "body" /\ Passing = {}
    /\ call' = Ended(r, "refused")
    /\ UNCHANGED <<time, keys, limits, draining, audit, admitted>>

Accepted(k) == keyOf[k].status = "active" /\ keyOf[k].expires > time

Dead(k) == keyOf[k].status = "revoked" \/ (keyOf[k].status = "active" /\ keyOf[k].expires <= time)

\* The row of the key is read: what it says now is what the request goes on with.
\* A key's scopes never change, so they need not be kept.
Authenticate(r) ==
    LET k == call[r].key IN
    /\ call[r].at = "body" /\ Passing = {}
    /\ call' = IF ~Accepted(k) THEN Ended(r, "refused")
               ELSE [call EXCEPT ![r].at = "known",
                                 ![r].fit = <<"api_key.revoked", k>> \notin audit /\ time < keyOf[k].expires]
    /\ UNCHANGED <<time, keys, limits, draining, audit, admitted>>

\* The tenant is there, and the request's mark is on the trail.
Mark(r) ==
    /\ call[r].at = "known"
    /\ call' = [call EXCEPT ![r].at = "marked"]
    /\ audit' = audit \union {<<"api_key.used", r>>}
    /\ UNCHANGED <<time, keys, limits, draining, admitted>>

\* One of the writes before the mark finds the database locked: a 500.
StoreFails(r) ==
    /\ call[r].at = "known"
    /\ call' = Ended(r, "refused")
    /\ UNCHANGED <<time, keys, limits, draining, audit, admitted>>

\* The scope, the rate and the slot, in memory and without a pause.
Admit(r) ==
    LET c == call[r] b == c.bucket k == c.key IN
    /\ c.at = "marked"
    /\ \/ /\ b = "write" /\ ~keyOf[k].writes
          /\ call' = Ended(r, "refused")
          /\ UNCHANGED <<limits, admitted>>
       \/ /\ b = "write" => keyOf[k].writes
          /\ Full(b, k)
          /\ call' = Ended(r, "refused")
          /\ window' = [window EXCEPT ![b][k] = InWindow(@)]
          /\ UNCHANGED <<concurrent, admitted>>
       \/ /\ b = "write" => keyOf[k].writes
          /\ ~Full(b, k)
          /\ window' = [window EXCEPT ![b][k] = Append(InWindow(@), time)]
          /\ IF Slotted(k)
             THEN /\ concurrent' = [concurrent EXCEPT ![k] = @ + 1]
                  /\ call' = [call EXCEPT ![r].at = "working"]
                  /\ admitted' = admitted \union
                       {[by |-> r, key |-> k, bucket |-> b, time |-> time, fit |-> c.fit, late |-> Dead(k)]}
             ELSE call' = Ended(r, "refused") /\ UNCHANGED <<concurrent, admitted>>
    /\ UNCHANGED <<time, keys, draining, audit>>

Release(k) == [concurrent EXCEPT ![k] = IF @ = 0 THEN 0 ELSE @ - 1]

\* The tool answered, or it raised; past fail_after the request is a 504
\* whether or not the tool's thread has stored its work by then.
Finish(r) ==
    /\ call[r].at = "working" /\ Passing = {}
    /\ call' = Ended(r, "answered")
    /\ concurrent' = Release(call[r].key)
    /\ UNCHANGED <<time, keys, window, draining, audit, admitted>>

Drain ==
    /\ ~draining /\ draining' = TRUE /\ Passing = {}
    /\ UNCHANGED <<time, keys, call, limits, audit, admitted>>

Tick ==
    /\ time < MaxTime /\ time' = time + 1
    /\ UNCHANGED <<keys, call, limits, draining, audit, admitted>>

\* What the event loop does with the request it is passing, before anything else.
Proceed(r) == Mark(r) \/ StoreFails(r) \/ Admit(r)

GateNext ==
    \/ \E k \in ApiKeys, e \in Expiries, w \in BOOLEAN : CreateKey(k, e, w)
    \/ \E k \in ApiKeys : RevokeKey(k)
    \/ \E e \in admin : AuditKey(e) \/ AdminEnds(e)
    \/ \E r \in Posts, k \in ApiKeys, b \in Buckets : Arrive(r, k, b)
    \/ \E r \in Posts : BadBody(r) \/ Authenticate(r) \/ Proceed(r) \/ Finish(r)
    \/ Drain \/ Tick

GateSpec == GateInit /\ [][GateNext]_gateVars
\* fail_after bounds the work of an admitted request; the busy timeout and the
\* event loop take a request on from its authentication.
GateFairness == \A r \in Posts : WF_gateVars(Finish(r)) /\ WF_gateVars(Proceed(r))
GateFairSpec == GateSpec /\ GateFairness

-----------------------------------------------------------------------------
GateTypeOK ==
    /\ time \in 0..MaxTime
    /\ \A k \in ApiKeys : keyOf[k].status \in {"none", "active", "revoked"}
    /\ \A b \in Buckets, k \in ApiKeys : window[b][k] \in Seq(0..time)
    /\ concurrent \in [ApiKeys -> 0..MaxConcurrent]

\* A slot is held exactly while the request that took it is working.
SlotsExact ==
    \A k \in ApiKeys :
        concurrent[k] = Cardinality({r \in Posts : call[r].at = "working" /\ call[r].key = k})

\* In no sixty seconds, both ends included, is a key admitted more often than
\* the limit of the bucket, whatever its other bucket holds.
RateHeld ==
    \A k \in ApiKeys, b \in Buckets, t \in 0..MaxTime :
        Cardinality({a \in admitted : a.key = k /\ a.bucket = b
                                      /\ t <= a.time /\ a.time <= t + Minute}) <= Limit(b)

\* Every request admitted came with a key that was neither revoked on the trail nor
\* expired when it was read, and left its mark; and of all requests at most one, the
\* one the event loop was passing, gets in with a key that has died meanwhile.
AdmittedByLiveKey ==
    /\ \A a \in admitted : a.fit /\ <<"api_key.used", a.by>> \in audit
    /\ \A a, c \in admitted : a.late /\ c.late /\ a.key = c.key => a = c
    /\ \A k \in ApiKeys : <<"api_key.revoked", k>> \in audit => keyOf[k].status = "revoked"

\* What the gate keeps of slots, rates, keys and their trail.
GateSound == GateTypeOK /\ SlotsExact /\ RateHeld /\ AdmittedByLiveKey

\* Every request the gate admits is answered and gives its slot back.
AdmittedIsAnswered == \A r \in Posts : call[r].at = "working" ~> call[r].at = "answered"
=============================================================================
