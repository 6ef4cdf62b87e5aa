-------------------------- MODULE ComponentsProofs --------------------------
(***************************************************************************)
(* Proofs about five components MCComponents runs: RequestGate's slots,    *)
(* rates and live keys, LockOrder's file lock, StoreAdministration's saves *)
(* and prunes, DemoTenants' admissions, SandboxCalls' costs and results;   *)
(* for any processes and bounds.                                           *)
(***************************************************************************)
EXTENDS RequestGate, LockOrder, StoreAdministration, DemoTenants, SandboxCalls, FiniteSetTheorems, SequenceTheorems, TLAPS

KeyStatuses == {"none", "active", "revoked"}
Phases == {"none", "body", "known", "marked", "working", "refused", "answered"}
Begun == {"body", "known", "marked", "working"}

Working(k) == {r \in Posts : call[r].at = "working" /\ call[r].key = k}
CountedBy(b, k) == {a \in admitted : a.key = k /\ a.bucket = b /\ time <= a.time + Minute}

CallShape ==
    /\ call \in [Posts -> [at : Phases, key : ApiKeys \union {"none"}, bucket : Buckets \union {"none"}, fit : BOOLEAN]]
    /\ \A r \in Posts : call[r].at \in Begun => call[r].key \in ApiKeys /\ call[r].bucket \in Buckets

\* The types a step keeps.
Shape ==
    /\ time \in 0..MaxTime
    /\ keyOf \in [ApiKeys -> [status : KeyStatuses, expires : Nat, writes : BOOLEAN]]
    /\ CallShape
    /\ window \in [Buckets -> [ApiKeys -> Seq(Nat)]]
    /\ \A b \in Buckets, k \in ApiKeys : \A i \in 1..Len(window[b][k]) : window[b][k][i] <= time
    /\ concurrent \in [ApiKeys -> 0..MaxConcurrent]

\* A slot is counted once for each request at work.
SlotsCounted == \A k \in ApiKeys : IsFiniteSet(Working(k)) /\ concurrent[k] = Cardinality(Working(k))

\* A revocation is announced when the key is revoked, and nobody revives a key.
Revocations == \A k \in ApiKeys : <<"api_key.revoked", k>> \in admin \union audit => keyOf[k].status = "revoked"

\* What was read of a passing request's key was good, and its mark is written before it goes in.
Marks ==
    /\ \A a \in admitted : a.fit /\ <<"api_key.used", a.by>> \in audit
    /\ \A r \in Posts : call[r].at \in {"known", "marked"} => call[r].fit
    /\ \A r \in Posts : call[r].at = "marked" => <<"api_key.used", r>> \in audit

\* One request passes at a time, and none with a key that has let in a late one: a
\* key is dead for good, and the next request to name it is refused.
Lates ==
    /\ \A r, q \in Passing : r = q
    /\ \A a \in admitted : a.key \in ApiKeys /\ (a.late => Dead(a.key))
    /\ \A a \in admitted, r \in Passing : a.late => a.key # call[r].key
    /\ \A a, c \in admitted : a.late /\ c.late /\ a.key = c.key => a = c

\* Every admission of the last minute has an entry of its own in its window.
Entries(f, w, A) ==
    /\ f \in [A -> 1..Len(w)]
    /\ \A a, c \in A : f[a] = f[c] => a = c
    /\ \A a \in A : w[f[a]] = a.time
Covers(f, b, k) == Entries(f, window[b][k], CountedBy(b, k))
Covered == \A b \in Buckets, k \in ApiKeys : \E f : Covers(f, b, k)

\* The admissions of a minute that began at t.
WithinMinute(b, k, t) == {a \in admitted : a.key = k /\ a.bucket = b /\ t <= a.time /\ a.time <= t + Minute}
Past == IsFiniteSet(admitted) /\ \A a \in admitted : a.time \in 0..time
Rates == \A k \in ApiKeys, b \in Buckets, t \in 0..MaxTime : Cardinality(WithinMinute(b, k, t)) <= Limit(b)

GateInv == Shape /\ SlotsCounted /\ Revocations /\ Marks /\ Lates /\ Covered /\ Past /\ Rates

-----------------------------------------------------------------------------
(* Facts about the operators.                                              *)

\* A set of naturals that is not empty has a least element.
LEMMA LeastNatural ==
    ASSUME NEW T, T \subseteq Nat, T # {}
    PROVE  \E n \in T : \A m \in T : n <= m
<1>1. PICK b \in T : TRUE
  OBVIOUS
<1> DEFINE Upto == {0 .. n : n \in {m \in T : m <= b}}
           Less == StrictSubsetOrdering(0 .. b)
<1>2. IsFiniteSet(0 .. b)
  BY <1>1, FS_Interval
<1>3. Upto \subseteq FiniteSubsetsOf(0 .. b) /\ Upto # {}
  <2>1. \A n \in T : n <= b => 0 .. n \in SUBSET (0 .. b)
    BY <1>1
  <2>2. FiniteSubsetsOf(0 .. b) = SUBSET (0 .. b)
    BY <1>2, FS_FiniteSubsetsOfFinite
  <2>3. b \in {m \in T : m <= b}
    BY <1>1
  <2> QED
    BY <2>1, <2>2, <2>3
<1>4. IsWellFoundedOn(Less, FiniteSubsetsOf(0 .. b))
  BY FS_StrictSubsetOrderingWellFounded
<1>5. PICK I \in Upto : \A J \in Upto : <<J, I>> \notin Less
  <2> HIDE DEF Upto, Less
  <2> QED
    BY <1>3, <1>4, WFMin
<1>6. PICK n \in T : n <= b /\ I = 0 .. n
  BY <1>5
<1>7. \A m \in T : n <= m
  <2> SUFFICES ASSUME NEW m \in T, m < n
               PROVE  FALSE
    OBVIOUS
  <2>1. m \in Nat /\ n \in Nat /\ b \in Nat /\ m <= b
    BY <1>1, <1>6
  <2>2. 0 .. m \in Upto
    BY <2>1
  <2>3. 0 .. m \subseteq 0 .. n /\ 0 .. n \subseteq 0 .. b
    BY <2>1, <1>6
  <2>4. n \in 0 .. n /\ n \notin 0 .. m
    BY <2>1
  <2>5. <<0 .. m, 0 .. n>> \in Less
    BY <2>3, <2>4 DEF StrictSubsetOrdering
  <2> QED
    BY <1>5, <1>6, <2>2, <2>5
<1> QED
  BY <1>7

\* What is left of a window is its tail from some entry on, and no entry as young
\* as asked for was before it.
Tail_From(w, v, o) ==
    /\ v \in Seq(Nat) /\ o \in 0..Len(w) /\ Len(v) = Len(w) - o
    /\ \A i \in 1..Len(v) : v[i] = w[i + o]
    /\ \A i \in 1..o : time - w[i] > Minute

LEMMA RecentIsTail ==
    ASSUME time \in Nat, Minute \in Nat, NEW w \in Seq(Nat)
    PROVE  \E o \in 0..Len(w) : Tail_From(w, InWindow(w), o)
<1> DEFINE young == {i \in DOMAIN w : time - w[i] <= Minute}
<1>1. InWindow(w) = IF young = {} THEN <<>> ELSE SubSeq(w, Min(young), Len(w))
  BY DEF InWindow, Recent, From
<1>2. Len(w) \in Nat /\ DOMAIN w = 1..Len(w) /\ \A i \in 1..Len(w) : w[i] \in Nat
  OBVIOUS
<1>3. CASE young = {}
  <2>1. InWindow(w) = <<>>
    BY <1>1, <1>3
  <2>2. \A i \in 1..Len(w) : time - w[i] > Minute
    BY <1>2, <1>3
  <2>3. Tail_From(w, InWindow(w), Len(w))
    BY <2>1, <2>2, <1>2 DEF Tail_From
  <2> QED
    BY <2>3, <1>2
<1>4. CASE young # {}
  <2>1. \E n \in young : \A m \in young : n <= m
    <3>1. young \subseteq Nat
      BY <1>2
    <3> HIDE DEF young
    <3> QED
      BY <3>1, <1>4, LeastNatural
  <2>2. PICK n : n = Min(young)
    OBVIOUS
  <2>3. n \in young /\ \A m \in young : n <= m
    BY <2>1, <2>2 DEF Min
  <2>4. n \in 1..Len(w) /\ \A i \in 1..(n - 1) : time - w[i] > Minute
    <3>1. n \in 1..Len(w)
      BY <2>3, <1>2
    <3> SUFFICES ASSUME NEW i \in 1..(n - 1), ~(time - w[i] > Minute) PROVE FALSE
      BY <3>1
    <3>2. i \in 1..Len(w) /\ i < n /\ w[i] \in Nat
      BY <3>1, <1>2
    <3>3. i \in young
      BY <3>2, <1>2
    <3> QED
      BY <3>1, <3>2, <3>3, <2>3
  <2>5. InWindow(w) = SubSeq(w, n, Len(w))
    BY <1>1, <1>4, <2>2
  <2> HIDE DEF young
  <2>6. /\ InWindow(w) \in Seq(Nat) /\ Len(InWindow(w)) = Len(w) - n + 1
        /\ \A i \in 1..(Len(w) - n + 1) : InWindow(w)[i] = w[n + i - 1]
    BY <2>4, <2>5, <1>2
  <2>7. Tail_From(w, InWindow(w), n - 1)
    BY <2>4, <2>6, <1>2 DEF Tail_From
  <2> QED
    BY <2>4, <2>7, <1>2
<1> QED
  BY <1>3, <1>4

-----------------------------------------------------------------------------
(* Every step keeps the invariant.                                         *)

\* What a step keeps that touches neither the clock, the windows nor the admissions.
LEMMA SameAdmissions ==
    ASSUME GateInv, UNCHANGED <<time, window, admitted>>
    PROVE  Covered' /\ Past' /\ Rates'
<1>1. time' = time /\ window' = window /\ admitted' = admitted
  OBVIOUS
<1>2. Covered'
  <2>1. \A b \in Buckets, k \in ApiKeys : CountedBy(b, k)' = CountedBy(b, k)
    BY <1>1 DEF CountedBy
  <2>2. ASSUME NEW b \in Buckets, NEW k \in ApiKeys PROVE (\E f : Covers(f, b, k))'
    <3>1. PICK f : Covers(f, b, k)
      BY DEF GateInv, Covered
    <3>2. Covers(f, b, k)'
      BY <1>1, <2>1, <3>1 DEF Covers, Entries
    <3> QED
      BY <3>2
  <2> QED
    BY <2>2 DEF Covered
<1>3. Past' /\ Rates'
  BY <1>1 DEF GateInv, Past, Rates, WithinMinute
<1> QED
  BY <1>2, <1>3

\* What a step keeps in which no request begins or ends its work.
LEMMA SameSlots ==
    ASSUME GateInv, UNCHANGED concurrent,
           \A r \in Posts : /\ call'[r].at = "working" <=> call[r].at = "working"
                            /\ call[r].at = "working" => call'[r] = call[r]
    PROVE  SlotsCounted'
<1>1. \A k \in ApiKeys : Working(k)' = Working(k)
  BY DEF Working
<1> QED
  BY <1>1 DEF GateInv, SlotsCounted

\* What a step keeps that only changes how a request that is not at work stands.
LEMMA RequestEnds ==
    ASSUME GateInv, NEW r \in Posts, NEW how \in {"refused", "answered"}, call[r].at # "working", call' = Ended(r, how)
    PROVE  /\ CallShape'
           /\ \A x \in Posts : call'[x].at \in {"known", "marked"} => call'[x] = call[x] /\ x # r
           /\ \A x \in Posts : /\ call'[x].at = "working" <=> call[x].at = "working"
                               /\ call[x].at = "working" => call'[x] = call[x]
<1>1. PICK e : e = [NewPost EXCEPT !.at = how]
  OBVIOUS
<1>2. e = [at |-> how, key |-> "none", bucket |-> "none", fit |-> TRUE]
  BY <1>1 DEF NewPost
<1>3. call' = [call EXCEPT ![r] = e]
  BY <1>1 DEF Ended
<1> QED
  BY <1>2, <1>3 DEF GateInv, Shape, CallShape, Phases, Begun

\* What a step keeps that admits nobody, revives no key and takes no request past its
\* authentication.
LEMMA SamePassing ==
    ASSUME GateInv, UNCHANGED admitted, audit \subseteq audit',
           \A k \in ApiKeys : Dead(k) => Dead(k)',
           \A r \in Posts : call'[r].at \in {"known", "marked"} =>
               /\ call[r].at \in {"known", "marked"} /\ call'[r].key = call[r].key /\ call'[r].fit = call[r].fit
               /\ call'[r].at = "marked" => call[r].at = "marked" \/ <<"api_key.used", r>> \in audit'
    PROVE  Marks' /\ Lates'
<1>1. Marks'
  BY DEF GateInv, Marks
<1>2. \A r \in Passing' : r \in Passing /\ call'[r].key = call[r].key
  BY DEF Passing
<1>3. Lates'
  BY <1>2 DEF GateInv, Lates
<1> QED
  BY <1>1, <1>3

LEMMA KeyCallsKeep ==
    ASSUME GateAssumption, GateInv,
           \/ \E k \in ApiKeys, e \in Expiries, w \in BOOLEAN : CreateKey(k, e, w)
           \/ \E k \in ApiKeys : RevokeKey(k)
           \/ \E e \in admin : AuditKey(e) \/ AdminEnds(e)
    PROVE  GateInv'
<1>0. UNCHANGED <<time, window, admitted>> /\ UNCHANGED concurrent /\ UNCHANGED call
  BY DEF CreateKey, RevokeKey, AuditKey, AdminEnds, limits
<1>1. Covered' /\ Past' /\ Rates'
  BY <1>0, SameAdmissions
<1>2. SlotsCounted'
  BY <1>0, SameSlots
<1>3. Marks' /\ Lates'
  <2>1. audit \subseteq audit'
    BY DEF CreateKey, RevokeKey, AuditKey, AdminEnds
  <2>2. ASSUME NEW k \in ApiKeys, Dead(k) PROVE Dead(k)'
    <3>1. keyOf \in [ApiKeys -> [status : KeyStatuses, expires : Nat, writes : BOOLEAN]]
      BY DEF GateInv, Shape
    <3>2. CASE \E h \in ApiKeys, e \in Expiries, w \in BOOLEAN : CreateKey(h, e, w)
      BY <3>1, <3>2, <2>2, <1>0 DEF CreateKey, Dead
    <3>3. CASE \E h \in ApiKeys : RevokeKey(h)
      BY <3>1, <3>3, <2>2, <1>0 DEF RevokeKey, Dead
    <3>4. CASE \E e \in admin : AuditKey(e) \/ AdminEnds(e)
      BY <3>4, <2>2, <1>0 DEF AuditKey, AdminEnds, Dead
    <3> QED
      BY <3>2, <3>3, <3>4
  <2> QED
    BY <2>1, <2>2, <1>0, SamePassing
<1>4. keyOf' \in [ApiKeys -> [status : KeyStatuses, expires : Nat, writes : BOOLEAN]] /\ Revocations'
  <2>0. keyOf \in [ApiKeys -> [status : KeyStatuses, expires : Nat, writes : BOOLEAN]] /\ Revocations
    BY DEF GateInv, Shape
  <2>1. ASSUME NEW k \in ApiKeys, NEW e \in Expiries, NEW w \in BOOLEAN, CreateKey(k, e, w)
        PROVE  keyOf' \in [ApiKeys -> [status : KeyStatuses, expires : Nat, writes : BOOLEAN]] /\ Revocations'
    <3>1. keyOf' \in [ApiKeys -> [status : KeyStatuses, expires : Nat, writes : BOOLEAN]]
      BY <2>0, <2>1 DEF CreateKey, KeyStatuses, GateAssumption
    <3>2. <<"api_key.revoked", k>> \notin admin \union audit
      BY <2>0, <2>1 DEF CreateKey, Revocations
    <3>3. admin' \union audit' = (admin \union audit) \union {<<"api_key.created", k>>}
      BY <2>1 DEF CreateKey
    <3>4. Revocations'
      BY <2>0, <2>1, <3>2, <3>3 DEF CreateKey, Revocations
    <3> QED
      BY <3>1, <3>4
  <2>2. ASSUME NEW k \in ApiKeys, RevokeKey(k)
        PROVE  keyOf' \in [ApiKeys -> [status : KeyStatuses, expires : Nat, writes : BOOLEAN]] /\ Revocations'
    <3>1. keyOf' = [keyOf EXCEPT ![k].status = "revoked"]
      BY <2>2 DEF RevokeKey
    <3>2. admin' \union audit' = (admin \union audit) \union {<<"api_key.revoked", k>>}
      BY <2>2 DEF RevokeKey
    <3> QED
      BY <2>0, <3>1, <3>2 DEF Revocations, KeyStatuses
  <2>3. ASSUME NEW e \in admin, AuditKey(e) \/ AdminEnds(e)
        PROVE  keyOf' \in [ApiKeys -> [status : KeyStatuses, expires : Nat, writes : BOOLEAN]] /\ Revocations'
    <3>1. keyOf' = keyOf /\ admin' \union audit' \subseteq admin \union audit
      BY <2>3 DEF AuditKey, AdminEnds
    <3> QED
      BY <2>0, <3>1 DEF Revocations
  <2> QED
    BY <2>1, <2>2, <2>3
<1>5. Shape'
  BY <1>0, <1>4 DEF GateInv, Shape, CallShape
<1> QED
  BY <1>1, <1>2, <1>3, <1>4, <1>5 DEF GateInv

\* A request that comes and one that is turned away leave everything else as it is.
LEMMA ArriveKeeps ==
    ASSUME GateInv, NEW r \in Posts, NEW k \in ApiKeys, NEW b \in Buckets, Arrive(r, k, b)
    PROVE  GateInv'
<1>0. UNCHANGED <<time, window, admitted>> /\ UNCHANGED concurrent /\ UNCHANGED <<keyOf, admin, audit>>
  BY DEF Arrive, limits, keys
<1>1. Covered' /\ Past' /\ Rates'
  BY <1>0, SameAdmissions
<1>2. Revocations'
  BY <1>0 DEF GateInv, Revocations
<1>3. /\ CallShape'
      /\ \A x \in Posts : call'[x].at \in {"known", "marked"} => call'[x] = call[x]
      /\ \A x \in Posts : /\ call'[x].at = "working" <=> call[x].at = "working"
                          /\ call[x].at = "working" => call'[x] = call[x]
  <2>1. call[r].at = "none"
    BY DEF Arrive
  <2>2. CASE draining
    <3>1. call' = Ended(r, "refused")
      BY <2>2 DEF Arrive
    <3> QED
      BY <2>1, <3>1, RequestEnds
  <2>3. CASE ~draining
    <3>1. PICK e : e = [NewPost EXCEPT !.at = "body", !.key = k, !.bucket = b]
      OBVIOUS
    <3>2. e = [at |-> "body", key |-> k, bucket |-> b, fit |-> TRUE]
      BY <3>1 DEF NewPost
    <3>3. call' = [call EXCEPT ![r] = e]
      BY <2>3, <3>1 DEF Arrive
    <3> QED
      BY <2>1, <3>2, <3>3 DEF GateInv, Shape, CallShape, Phases, Begun
  <2> QED
    BY <2>2, <2>3
<1>4. SlotsCounted'
  BY <1>0, <1>3, SameSlots
<1>5. Marks' /\ Lates'
  BY <1>0, <1>3, SamePassing DEF Dead
<1>6. Shape'
  BY <1>0, <1>3 DEF GateInv, Shape
<1> QED
  BY <1>1, <1>2, <1>4, <1>5, <1>6 DEF GateInv

LEMMA RefusedKeeps ==
    ASSUME GateInv, NEW r \in Posts, call[r].at # "working", call' = Ended(r, "refused"),
           UNCHANGED <<time, window, admitted>>, UNCHANGED concurrent, UNCHANGED <<keyOf, admin, audit>>
    PROVE  GateInv'
<1>1. Covered' /\ Past' /\ Rates'
  BY SameAdmissions
<1>2. Revocations'
  BY DEF GateInv, Revocations
<1>3. SlotsCounted'
  BY RequestEnds, SameSlots
<1>4. Marks' /\ Lates'
  BY RequestEnds, SamePassing DEF Dead
<1>5. Shape'
  BY RequestEnds DEF GateInv, Shape
<1> QED
  BY <1>1, <1>2, <1>3, <1>4, <1>5 DEF GateInv

\* A key that is accepted has let in no late request and is not revoked on the trail.
LEMMA AuthenticateKeeps ==
    ASSUME GateAssumption, GateInv, NEW r \in Posts, Authenticate(r)
    PROVE  GateInv'
<1> DEFINE k == call[r].key
<1>0. UNCHANGED <<time, window, admitted>> /\ UNCHANGED concurrent /\ UNCHANGED <<keyOf, admin, audit>>
  BY DEF Authenticate, limits, keys
<1>1. call[r].at = "body" /\ Passing = {} /\ k \in ApiKeys
  BY DEF Authenticate, GateInv, Shape, CallShape, Begun
<1>2. CASE ~Accepted(k)
  <2>1. call' = Ended(r, "refused")
    BY <1>2 DEF Authenticate
  <2> QED
    BY <2>1, <1>0, <1>1, RefusedKeeps
<1>3. CASE Accepted(k)
  <2>1. <<"api_key.revoked", k>> \notin audit /\ time < keyOf[k].expires /\ ~Dead(k)
    BY <1>1, <1>3 DEF Accepted, Dead, GateInv, Shape, Revocations, GateAssumption
  <2>2. call' = [call EXCEPT ![r].at = "known", ![r].fit = TRUE]
    BY <1>3, <2>1 DEF Authenticate
  <2>3. call \in [Posts -> [at : Phases, key : ApiKeys \union {"none"}, bucket : Buckets \union {"none"}, fit : BOOLEAN]]
    BY DEF GateInv, Shape, CallShape
  <2>4. \A x \in Posts : IF x = r THEN call'[x].at = "known" /\ call'[x].key = k /\ call'[x].fit ELSE call'[x] = call[x]
    BY <2>2, <2>3
  <2>5. CallShape'
    BY <2>2, <1>1 DEF GateInv, Shape, CallShape, Phases, Begun
  <2>6. Covered' /\ Past' /\ Rates'
    BY <1>0, SameAdmissions
  <2>7. SlotsCounted'
    BY <2>4, <1>0, <1>1, SameSlots
  <2>8. Passing' = {r}
    BY <2>4, <1>1 DEF Passing
  <2>9. Marks'
    BY <2>4, <1>0, <1>1 DEF GateInv, Marks
  <2>10. \A h \in ApiKeys : Dead(h)' = Dead(h)
    BY <1>0 DEF Dead
  <2>11. \A a \in admitted : a.key \in ApiKeys /\ (a.late => Dead(a.key))
    BY DEF GateInv, Lates
  <2>12. \A a \in admitted : a.late => a.key # k
    BY <2>1, <2>11
  <2>13. Lates'
    <3> HIDE DEF k
    <3> QED
      BY <2>4, <2>8, <2>10, <2>11, <2>12, <1>0 DEF GateInv, Lates
  <2>14. Shape' /\ Revocations'
    BY <2>5, <1>0 DEF GateInv, Shape, Revocations
  <2> QED
    BY <2>6, <2>7, <2>9, <2>13, <2>14 DEF GateInv
<1> QED
  BY <1>2, <1>3

LEMMA MarkKeeps ==
    ASSUME GateInv, NEW r \in Posts, Mark(r)
    PROVE  GateInv'
<1>0. UNCHANGED <<time, window, admitted>> /\ UNCHANGED concurrent /\ UNCHANGED <<keyOf, admin>>
  BY DEF Mark, limits, keys
<1>1. call[r].at = "known" /\ call' = [call EXCEPT ![r].at = "marked"] /\ audit' = audit \union {<<"api_key.used", r>>}
  BY DEF Mark
<1>2. call \in [Posts -> [at : Phases, key : ApiKeys \union {"none"}, bucket : Buckets \union {"none"}, fit : BOOLEAN]]
  BY DEF GateInv, Shape, CallShape
<1>3. \A x \in Posts : IF x = r THEN call'[x].at = "marked" /\ call'[x].key = call[x].key /\ call'[x].fit = call[x].fit
                      ELSE call'[x] = call[x]
  BY <1>1, <1>2
<1>4. CallShape'
  BY <1>1 DEF GateInv, Shape, CallShape, Phases, Begun
<1>5. Covered' /\ Past' /\ Rates'
  BY <1>0, SameAdmissions
<1>6. SlotsCounted'
  BY <1>0, <1>1, <1>3, SameSlots
<1>7. Marks' /\ Lates'
  BY <1>0, <1>1, <1>3, SamePassing DEF Dead
<1>8. Shape' /\ Revocations'
  BY <1>0, <1>1, <1>4 DEF GateInv, Shape, Revocations
<1> QED
  BY <1>5, <1>6, <1>7, <1>8 DEF GateInv

\* The slot of a request that ends its work is given back, once.
LEMMA FinishKeeps ==
    ASSUME GateAssumption, GateInv, NEW r \in Posts, Finish(r)
    PROVE  GateInv'
<1> DEFINE k == call[r].key
<1>0. UNCHANGED <<time, window, admitted>> /\ UNCHANGED <<keyOf, admin, audit>>
  BY DEF Finish, keys
<1>1. Covered' /\ Past' /\ Rates'
  BY <1>0, SameAdmissions
<1>2. Revocations'
  BY <1>0 DEF GateInv, Revocations
<1>3. call[r].at = "working" /\ call' = Ended(r, "answered") /\ k \in ApiKeys /\ r \in Working(k)
  BY DEF Finish, GateInv, Shape, CallShape, Begun, Working
<1>4. concurrent' = [concurrent EXCEPT ![k] = IF concurrent[k] = 0 THEN 0 ELSE concurrent[k] - 1]
  BY DEF Finish, Release
<1>5. call' = [call EXCEPT ![r] = [at |-> "answered", key |-> "none", bucket |-> "none", fit |-> TRUE]]
  <2>1. PICK e : e = [NewPost EXCEPT !.at = "answered"]
    OBVIOUS
  <2>2. e = [at |-> "answered", key |-> "none", bucket |-> "none", fit |-> TRUE]
    BY <2>1 DEF NewPost
  <2> QED
    BY <2>1, <2>2, <1>3 DEF Ended
<1>6. \A h \in ApiKeys : Working(h)' = IF h = k THEN Working(k) \ {r} ELSE Working(h)
  BY <1>3, <1>5 DEF GateInv, Shape, CallShape, Working
<1>7. concurrent \in [ApiKeys -> 0..MaxConcurrent] /\ MaxConcurrent \in Nat
  BY DEF GateInv, Shape, GateAssumption
<1>8. \A h \in ApiKeys : IsFiniteSet(Working(h)) /\ concurrent[h] = Cardinality(Working(h))
  BY DEF GateInv, SlotsCounted
<1> HIDE DEF k
<1>9. /\ IsFiniteSet(Working(k) \ {r}) /\ Cardinality(Working(k) \ {r}) = concurrent[k] - 1
      /\ concurrent[k] # 0
  <2>1. IsFiniteSet(Working(k) \ {r}) /\ Cardinality(Working(k) \ {r}) = Cardinality(Working(k)) - 1
    BY <1>3, <1>8, FS_RemoveElement
  <2>2. Cardinality(Working(k)) # 0
    BY <1>3, <1>8, FS_EmptySet
  <2> QED
    BY <2>1, <2>2, <1>3, <1>8
<1>10. SlotsCounted'
  <2> SUFFICES ASSUME NEW h \in ApiKeys PROVE IsFiniteSet(Working(h)') /\ concurrent'[h] = Cardinality(Working(h)')
    BY DEF SlotsCounted
  <2>1. CASE h = k
    BY <2>1, <1>3, <1>4, <1>6, <1>7, <1>9
  <2>2. CASE h # k
    BY <2>2, <1>4, <1>6, <1>7, <1>8
  <2> QED
    BY <2>1, <2>2
<1>11. concurrent' \in [ApiKeys -> 0..MaxConcurrent]
  BY <1>3, <1>4, <1>7
<1>12. Shape'
  BY <1>0, <1>5, <1>11 DEF GateInv, Shape, CallShape, Phases, Begun
<1>13. Marks' /\ Lates'
  <2>1. \A x \in Posts : call'[x].at \in {"known", "marked"} => call'[x] = call[x]
    BY <1>5 DEF GateInv, Shape, CallShape
  <2> QED
    BY <2>1, <1>0, SamePassing DEF Dead
<1> QED
  BY <1>1, <1>2, <1>10, <1>12, <1>13 DEF GateInv

LEMMA DrainKeeps ==
    ASSUME GateInv, Drain
    PROVE  GateInv'
<1>0. UNCHANGED <<time, window, admitted>> /\ UNCHANGED concurrent /\ UNCHANGED <<keyOf, admin, audit, call>>
  BY DEF Drain, keys, limits
<1>1. Covered' /\ Past' /\ Rates'
  BY <1>0, SameAdmissions
<1>2. SlotsCounted'
  BY <1>0, SameSlots
<1>3. Shape' /\ Revocations'
  BY <1>0 DEF GateInv, Shape, CallShape, Revocations
<1>4. Marks' /\ Lates'
  BY <1>0, SamePassing DEF Dead
<1> QED
  BY <1>1, <1>2, <1>3, <1>4 DEF GateInv

\* As time passes, fewer admissions are of the last minute.
LEMMA TickKeeps ==
    ASSUME GateAssumption, GateInv, Tick
    PROVE  GateInv'
<1>0. time' = time + 1 /\ time' \in 0..MaxTime /\ time \in Nat /\ Minute \in Nat /\ MaxTime \in Nat
      /\ UNCHANGED <<keyOf, admin, call, window, concurrent, audit, admitted>>
  BY DEF Tick, keys, limits, GateInv, Shape, GateAssumption
<1>1. SlotsCounted'
  BY <1>0, SameSlots
<1>2. Revocations' /\ Marks' /\ Lates'
  <2>1. \A k \in ApiKeys : Dead(k) => Dead(k)'
    BY <1>0 DEF Dead, GateInv, Shape
  <2>2. Marks' /\ Lates'
    BY <2>1, <1>0, SamePassing
  <2> QED
    BY <2>2, <1>0 DEF GateInv, Revocations
<1>3. Past' /\ Rates'
  BY <1>0 DEF GateInv, Past, Rates, WithinMinute
<1>4. Shape'
  <2>1. \A b \in Buckets, k \in ApiKeys : \A i \in 1..Len(window[b][k]) : window[b][k][i] \in Nat /\ window[b][k][i] <= time
    BY DEF GateInv, Shape
  <2>2. \A b \in Buckets, k \in ApiKeys : \A i \in 1..Len(window'[b][k]) : window'[b][k][i] <= time'
    BY <2>1, <1>0
  <2> QED
    BY <2>2, <1>0 DEF GateInv, Shape, CallShape
<1>5. Covered'
  <2> SUFFICES ASSUME NEW b \in Buckets, NEW k \in ApiKeys PROVE (\E f : Covers(f, b, k))'
    BY DEF Covered
  <2>1. PICK f : Covers(f, b, k)
    BY DEF GateInv, Covered
  <2>2. CountedBy(b, k)' \subseteq CountedBy(b, k)
    BY <1>0 DEF CountedBy, GateInv, Past
  <2>3. PICK g : g = [a \in CountedBy(b, k)' |-> f[a]]
    OBVIOUS
  <2>4. Covers(g, b, k)'
    BY <1>0, <2>1, <2>2, <2>3 DEF Covers, Entries
  <2> QED
    BY <2>4
<1> QED
  BY <1>1, <1>2, <1>3, <1>4, <1>5 DEF GateInv

-----------------------------------------------------------------------------
(* The admission.                                                          *)

\* After the entries older than a minute are dropped, every admission of the last
\* minute still has an entry of its own.
LEMMA TrimmedCovers ==
    ASSUME GateAssumption, GateInv, NEW b \in Buckets, NEW k \in ApiKeys
    PROVE  \E g : Entries(g, InWindow(window[b][k]), CountedBy(b, k))
<1>1. PICK w : w = window[b][k]
  OBVIOUS
<1>2. PICK v : v = InWindow(w)
  OBVIOUS
<1>3. time \in Nat /\ Minute \in Nat /\ w \in Seq(Nat)
  BY <1>1 DEF GateInv, Shape, GateAssumption
<1>4. PICK o \in 0..Len(w) : Tail_From(w, v, o)
  BY <1>2, <1>3, RecentIsTail
<1>5. PICK f : Covers(f, b, k)
  BY DEF GateInv, Covered
<1>6. PICK g : g = [a \in CountedBy(b, k) |-> f[a] - o]
  OBVIOUS
<1>7. /\ Len(w) \in Nat /\ o \in Nat /\ Len(v) = Len(w) - o
      /\ \A i \in 1..Len(v) : v[i] = w[i + o]
      /\ \A i \in 1..o : time - w[i] > Minute
  BY <1>3, <1>4 DEF Tail_From
<1>8. ASSUME NEW a \in CountedBy(b, k)
      PROVE  f[a] \in 1..Len(w) /\ f[a] > o /\ w[f[a]] = a.time
  <2>1. f[a] \in 1..Len(w) /\ w[f[a]] = a.time
    BY <1>1, <1>5 DEF Covers, Entries
  <2>2. a.time \in Nat /\ time <= a.time + Minute
    BY <1>3 DEF CountedBy, GateInv, Past
  <2>3. ~(time - w[f[a]] > Minute)
    BY <2>1, <2>2, <1>3
  <2> QED
    BY <2>1, <2>3, <1>7
<1>9. \A a \in CountedBy(b, k) : g[a] \in 1..Len(v) /\ v[g[a]] = a.time
  <2> SUFFICES ASSUME NEW a \in CountedBy(b, k) PROVE g[a] \in 1..Len(v) /\ v[g[a]] = a.time
    OBVIOUS
  <2>1. f[a] \in 1..Len(w) /\ f[a] > o /\ w[f[a]] = a.time
    BY <1>8
  <2>2. g[a] = f[a] - o
    BY <1>6
  <2>3. g[a] \in 1..Len(v) /\ g[a] + o = f[a]
    BY <2>1, <2>2, <1>7
  <2> QED
    BY <2>1, <2>3, <1>7
<1>10. \A a, c \in CountedBy(b, k) : g[a] = g[c] => a = c
  <2> SUFFICES ASSUME NEW a \in CountedBy(b, k), NEW c \in CountedBy(b, k), g[a] = g[c] PROVE a = c
    OBVIOUS
  <2>1. f[a] = f[c]
    BY <1>6, <1>7, <1>8
  <2> QED
    BY <2>1, <1>5 DEF Covers, Entries
<1>11. g \in [CountedBy(b, k) -> 1..Len(v)]
  BY <1>6, <1>9
<1>12. Entries(g, v, CountedBy(b, k))
  BY <1>9, <1>10, <1>11 DEF Entries
<1> QED
  BY <1>1, <1>2, <1>12

\* So a window that is not full tells of fewer admissions than the limit.
LEMMA FewCounted ==
    ASSUME GateAssumption, GateInv, NEW b \in Buckets, NEW k \in ApiKeys, ~Full(b, k)
    PROVE  IsFiniteSet(CountedBy(b, k)) /\ Cardinality(CountedBy(b, k)) + 1 <= Limit(b)
<1>1. PICK v : v = InWindow(window[b][k])
  OBVIOUS
<1>a. PICK g : Entries(g, v, CountedBy(b, k))
  BY <1>1, TrimmedCovers
<1>2. /\ g \in [CountedBy(b, k) -> 1..Len(v)]
      /\ \A a, c \in CountedBy(b, k) : g[a] = g[c] => a = c
  BY <1>a DEF Entries
<1>3. Len(v) \in Nat /\ Len(v) < Limit(b) /\ Limit(b) \in Nat
  <2>1. window[b][k] \in Seq(Nat) /\ time \in Nat /\ Minute \in Nat
    BY DEF GateInv, Shape, GateAssumption
  <2>2. v \in Seq(Nat)
    BY <2>1, <1>1, RecentIsTail DEF Tail_From
  <2>3. Limit(b) \in Nat
    BY DEF Limit, GateAssumption
  <2> QED
    BY <2>2, <2>3, <1>1 DEF Full
<1>4. g \in Injection(CountedBy(b, k), 1..Len(v))
  BY <1>2 DEF Injection, IsInjective
<1>5. IsFiniteSet(1..Len(v)) /\ Cardinality(1..Len(v)) = Len(v)
  <2>1. PICK n \in Nat : n = Len(v)
    BY <1>3
  <2>2. IsFiniteSet(1..n) /\ Cardinality(1..n) = n
    BY FS_Interval
  <2> QED
    BY <2>1, <2>2
<1>6. IsFiniteSet(CountedBy(b, k)) /\ Cardinality(CountedBy(b, k)) <= Cardinality(1..Len(v))
  BY <1>4, <1>5, FS_Injection
<1>7. Cardinality(CountedBy(b, k)) \in Nat
  BY <1>6, FS_CardinalityType
<1> QED
  BY <1>3, <1>5, <1>6, <1>7

\* The window of one key and bucket is trimmed and may get the admission's time.
LEMMA WindowTyped ==
    ASSUME GateAssumption, GateInv, NEW b \in Buckets, NEW k \in ApiKeys, time' = time,
           NEW x \in {InWindow(window[b][k]), Append(InWindow(window[b][k]), time)},
           window' = [window EXCEPT ![b][k] = x]
    PROVE  /\ window' \in [Buckets -> [ApiKeys -> Seq(Nat)]]
           /\ \A c \in Buckets, h \in ApiKeys : window'[c][h] = IF c = b /\ h = k THEN x ELSE window[c][h]
           /\ \A c \in Buckets, h \in ApiKeys : \A i \in 1..Len(window'[c][h]) : window'[c][h][i] <= time'
           /\ Len(InWindow(window[b][k])) \in Nat /\ Len(x) \in Nat /\ Len(x) >= Len(InWindow(window[b][k]))
           /\ \A i \in 1..Len(InWindow(window[b][k])) : x[i] = InWindow(window[b][k])[i]
<1>1. PICK w : w = window[b][k]
  OBVIOUS
<1>2. PICK v : v = InWindow(w)
  OBVIOUS
<1>3. time \in Nat /\ Minute \in Nat /\ w \in Seq(Nat) /\ \A i \in 1..Len(w) : w[i] <= time
  BY <1>1 DEF GateInv, Shape, GateAssumption
<1>4. PICK o \in 0..Len(w) : Tail_From(w, v, o)
  BY <1>2, <1>3, RecentIsTail
<1>5. v \in Seq(Nat) /\ Len(v) \in Nat /\ Len(v) = Len(w) - o /\ \A i \in 1..Len(v) : v[i] = w[i + o]
  BY <1>4 DEF Tail_From
<1>6. \A i \in 1..Len(v) : v[i] <= time
  BY <1>3, <1>5
<1>7. x = v \/ x = Append(v, time)
  BY <1>1, <1>2
<1>8. x \in Seq(Nat) /\ Len(x) \in Nat /\ Len(x) >= Len(v) /\ \A i \in 1..Len(v) : x[i] = v[i]
  <2>1. PICK q : q = Append(v, time)
    OBVIOUS
  <2>2. q \in Seq(Nat) /\ Len(q) = Len(v) + 1 /\ \A i \in 1..Len(v) : q[i] = v[i]
    BY <2>1, <1>3, <1>5
  <2>3. CASE x = v
    BY <2>3, <1>5
  <2>4. CASE x = q
    BY <2>2, <2>4, <1>5
  <2> QED
    BY <2>1, <2>3, <2>4, <1>7
<1>9. \A i \in 1..Len(x) : x[i] <= time
  <2>1. CASE x = v
    BY <2>1, <1>6
  <2>2. CASE x = Append(v, time)
    <3>1. PICK q : q = Append(v, time)
      OBVIOUS
    <3>2. Len(q) = Len(v) + 1 /\ q[Len(v) + 1] = time /\ \A i \in 1..Len(v) : q[i] = v[i]
      BY <3>1, <1>3, <1>5
    <3>3. ASSUME NEW i \in 1..Len(q) PROVE q[i] <= time
      <4>1. CASE i = Len(v) + 1
        BY <4>1, <3>2, <1>3
      <4>2. CASE i # Len(v) + 1
        <5>1. i \in 1..Len(v)
          BY <4>2, <3>2, <1>5
        <5>2. q[i] = v[i] /\ v[i] <= time
          BY <5>1, <3>2, <1>6
        <5> QED
          BY <5>2
      <4> QED
        BY <4>1, <4>2
    <3> QED
      BY <2>2, <3>1, <3>3
  <2> QED
    BY <1>7, <2>1, <2>2
<1>10. window \in [Buckets -> [ApiKeys -> Seq(Nat)]]
  BY DEF GateInv, Shape
<1>11. /\ window' \in [Buckets -> [ApiKeys -> Seq(Nat)]]
       /\ \A c \in Buckets, h \in ApiKeys : window'[c][h] = IF c = b /\ h = k THEN x ELSE window[c][h]
  BY <1>8, <1>10
<1>12. \A c \in Buckets, h \in ApiKeys : \A i \in 1..Len(window[c][h]) : window[c][h][i] <= time
  BY DEF GateInv, Shape
<1>13. \A c \in Buckets, h \in ApiKeys : \A i \in 1..Len(window'[c][h]) : window'[c][h][i] <= time'
  <2> SUFFICES ASSUME NEW c \in Buckets, NEW h \in ApiKeys, NEW i \in 1..Len(window'[c][h])
               PROVE  window'[c][h][i] <= time'
    OBVIOUS
  <2>1. CASE c = b /\ h = k
    BY <2>1, <1>9, <1>11
  <2>2. CASE ~(c = b /\ h = k)
    BY <2>2, <1>11, <1>12
  <2> QED
    BY <2>1, <2>2
<1> QED
  BY <1>1, <1>2, <1>5, <1>8, <1>11, <1>13

\* A refused request takes no admission away from its entry.
LEMMA RefusedCovered ==
    ASSUME GateAssumption, GateInv, NEW b \in Buckets, NEW k \in ApiKeys, UNCHANGED <<time, admitted>>,
           NEW x \in {InWindow(window[b][k]), Append(InWindow(window[b][k]), time)},
           window' = [window EXCEPT ![b][k] = x]
    PROVE  Covered'
<1> SUFFICES ASSUME NEW c \in Buckets, NEW h \in ApiKeys PROVE (\E f : Covers(f, c, h))'
  BY DEF Covered
<1>0. time' = time /\ admitted' = admitted
  OBVIOUS
<1>1. CountedBy(c, h)' = CountedBy(c, h)
  BY <1>0 DEF CountedBy
<1>2. window'[c][h] = IF c = b /\ h = k THEN x ELSE window[c][h]
  BY <1>0, WindowTyped
<1>3. CASE c = b /\ h = k
  <2>1. PICK v : v = InWindow(window[b][k])
    OBVIOUS
  <2>a. PICK g : Entries(g, v, CountedBy(b, k))
    BY <2>1, TrimmedCovers
  <2>2. /\ g \in [CountedBy(b, k) -> 1..Len(v)]
        /\ \A a, d \in CountedBy(b, k) : g[a] = g[d] => a = d
        /\ \A a \in CountedBy(b, k) : v[g[a]] = a.time
    BY <2>a DEF Entries
  <2>3. /\ Len(v) \in Nat /\ Len(x) \in Nat /\ Len(x) >= Len(v)
        /\ \A i \in 1..Len(v) : x[i] = v[i]
    BY <2>1, <1>0, WindowTyped
  <2>4. g \in [CountedBy(b, k) -> 1..Len(x)] /\ \A a \in CountedBy(b, k) : x[g[a]] = a.time
    BY <2>2, <2>3
  <2>5. Covers(g, c, h)'
    BY <2>2, <2>4, <1>1, <1>2, <1>3 DEF Covers, Entries
  <2> QED
    BY <2>5
<1>4. CASE ~(c = b /\ h = k)
  <2>1. PICK f : Covers(f, c, h)
    BY DEF GateInv, Covered
  <2>2. Covers(f, c, h)'
    BY <2>1, <1>1, <1>2, <1>4 DEF Covers, Entries
  <2> QED
    BY <2>2
<1> QED
  BY <1>3, <1>4

\* An admission gets an entry of its own.
LEMMA AdmittedCovered ==
    ASSUME GateAssumption, GateInv, NEW b \in Buckets, NEW k \in ApiKeys, time' = time, NEW new,
           new.key = k, new.bucket = b, new.time = time, admitted' = admitted \union {new},
           window' = [window EXCEPT ![b][k] = Append(InWindow(window[b][k]), time)]
    PROVE  Covered'
<1> SUFFICES ASSUME NEW c \in Buckets, NEW h \in ApiKeys PROVE (\E f : Covers(f, c, h))'
  BY DEF Covered
<1>1. PICK x : x = Append(InWindow(window[b][k]), time)
  OBVIOUS
<1>2. window'[c][h] = IF c = b /\ h = k THEN x ELSE window[c][h]
  BY <1>1, WindowTyped
<1>3. CASE c = b /\ h = k
  <2>1. PICK v : v = InWindow(window[b][k])
    OBVIOUS
  <2>a. PICK g : Entries(g, v, CountedBy(b, k))
    BY <2>1, TrimmedCovers
  <2>2. /\ g \in [CountedBy(b, k) -> 1..Len(v)]
        /\ \A a, d \in CountedBy(b, k) : g[a] = g[d] => a = d
        /\ \A a \in CountedBy(b, k) : v[g[a]] = a.time
    BY <2>a DEF Entries
  <2>3. time \in Nat /\ Minute \in Nat /\ window[b][k] \in Seq(Nat)
    BY DEF GateInv, Shape, GateAssumption
  <2>4. v \in Seq(Nat) /\ Len(v) \in Nat
    BY <2>1, <2>3, RecentIsTail DEF Tail_From
  <2>5. Len(x) = Len(v) + 1 /\ x[Len(v) + 1] = time /\ \A i \in 1..Len(v) : x[i] = v[i]
    BY <1>1, <2>1, <2>3, <2>4
  <2>6. CountedBy(b, k)' \subseteq CountedBy(b, k) \union {new}
    BY DEF CountedBy
  <2>7. PICK f : f = [a \in CountedBy(b, k)' |-> IF a = new THEN Len(v) + 1 ELSE g[a]]
    OBVIOUS
  <2>8. \A a \in CountedBy(b, k)' : /\ a = new => f[a] = Len(v) + 1
                                    /\ a # new => a \in CountedBy(b, k) /\ f[a] = g[a] /\ g[a] \in 1..Len(v)
    BY <2>2, <2>6, <2>7
  <2>9. f \in [CountedBy(b, k)' -> 1..Len(x)]
    BY <2>4, <2>5, <2>7, <2>8
  <2>10. \A a, d \in CountedBy(b, k)' : f[a] = f[d] => a = d
    BY <2>2, <2>4, <2>8
  <2>11. \A a \in CountedBy(b, k)' : x[f[a]] = a.time
    BY <2>2, <2>5, <2>8
  <2>12. Covers(f, c, h)'
    BY <2>9, <2>10, <2>11, <1>2, <1>3 DEF Covers, Entries
  <2> QED
    BY <2>12
<1>4. CASE ~(c = b /\ h = k)
  <2>1. PICK f : Covers(f, c, h)
    BY DEF GateInv, Covered
  <2>2. CountedBy(c, h)' = CountedBy(c, h)
    BY <1>4 DEF CountedBy
  <2>3. Covers(f, c, h)'
    BY <2>1, <2>2, <1>2, <1>4 DEF Covers, Entries
  <2> QED
    BY <2>3
<1> QED
  BY <1>3, <1>4

\* An admission into a window that is not full exceeds the limit of no minute.
LEMMA AdmittedRates ==
    ASSUME GateAssumption, GateInv, NEW b \in Buckets, NEW k \in ApiKeys, ~Full(b, k), NEW new,
           new.key = k, new.bucket = b, new.time = time, admitted' = admitted \union {new}
    PROVE  Rates'
<1> SUFFICES ASSUME NEW h \in ApiKeys, NEW c \in Buckets, NEW t \in 0..MaxTime
             PROVE  Cardinality(WithinMinute(c, h, t)') <= Limit(c)
  BY DEF Rates, Limit
<1>0. time \in Nat /\ Minute \in Nat /\ t \in Nat /\ Limit(c) \in Nat
  BY DEF GateInv, Shape, GateAssumption, Limit
<1>1. Cardinality(WithinMinute(c, h, t)) <= Limit(c)
  BY DEF GateInv, Rates
<1>2. CASE h = k /\ c = b /\ t <= time /\ time <= t + Minute
  <2>1. WithinMinute(c, h, t)' \subseteq CountedBy(b, k) \union {new}
    <3> SUFFICES ASSUME NEW a \in WithinMinute(c, h, t)', a # new PROVE a \in CountedBy(b, k)
      OBVIOUS
    <3>1. a \in admitted /\ a.key = k /\ a.bucket = b /\ t <= a.time
      BY <1>2 DEF WithinMinute
    <3>2. a.time \in Nat
      BY <3>1, <1>0 DEF GateInv, Past
    <3> QED
      BY <3>1, <3>2, <1>0, <1>2 DEF CountedBy
  <2>2. IsFiniteSet(CountedBy(b, k)) /\ Cardinality(CountedBy(b, k)) + 1 <= Limit(b)
    BY FewCounted
  <2>3. /\ IsFiniteSet(CountedBy(b, k) \union {new})
        /\ Cardinality(CountedBy(b, k) \union {new}) <= Cardinality(CountedBy(b, k)) + 1
    <3>1. PICK S : S = CountedBy(b, k)
      OBVIOUS
    <3>2. IsFiniteSet(S \union {new}) /\ Cardinality(S \union {new}) = IF new \in S THEN Cardinality(S) ELSE Cardinality(S) + 1
      BY <2>2, <3>1, FS_AddElement
    <3>3. Cardinality(S) \in Nat
      BY <2>2, <3>1, FS_CardinalityType
    <3> QED
      BY <3>1, <3>2, <3>3
  <2>4. IsFiniteSet(WithinMinute(c, h, t)') /\ Cardinality(WithinMinute(c, h, t)') <= Cardinality(CountedBy(b, k) \union {new})
    BY <2>1, <2>3, FS_Subset
  <2>5. Cardinality(WithinMinute(c, h, t)') \in Nat /\ Cardinality(CountedBy(b, k) \union {new}) \in Nat /\ Cardinality(CountedBy(b, k)) \in Nat
    BY <2>2, <2>3, <2>4, FS_CardinalityType
  <2> QED
    BY <2>2, <2>3, <2>4, <2>5, <1>0, <1>2
<1>3. CASE ~(h = k /\ c = b /\ t <= time /\ time <= t + Minute)
  <2>1. WithinMinute(c, h, t)' = WithinMinute(c, h, t)
    BY <1>3 DEF WithinMinute
  <2> QED
    BY <2>1, <1>1
<1> QED
  BY <1>2, <1>3

\* A request that passes is admitted with a slot and its mark on the trail, or refused;
\* with a key that has died it is the only one.
LEMMA AdmitKeeps ==
    ASSUME GateAssumption, GateInv, NEW r \in Posts, Admit(r)
    PROVE  GateInv'
<1> DEFINE b == call[r].bucket
           k == call[r].key
           w == InWindow(window[b][k])
           new == [by |-> r, key |-> k, bucket |-> b, time |-> time, fit |-> call[r].fit, late |-> Dead(k)]
<1>1. call[r].at = "marked" /\ r \in Passing /\ UNCHANGED <<time, keyOf, admin, audit>>
  BY DEF Admit, keys, Passing
<1>2. /\ b \in Buckets /\ k \in ApiKeys /\ time \in 0..MaxTime /\ MaxTime \in Nat
      /\ call[r].fit /\ <<"api_key.used", r>> \in audit
  BY <1>1 DEF GateInv, Shape, CallShape, Begun, Marks, GateAssumption
<1>3. \/ /\ call' = Ended(r, "refused") /\ UNCHANGED <<window, concurrent, admitted>>
      \/ /\ call' = Ended(r, "refused") /\ UNCHANGED <<concurrent, admitted>>
         /\ window' = [window EXCEPT ![b][k] = w]
      \/ /\ call' = Ended(r, "refused") /\ UNCHANGED <<concurrent, admitted>>
         /\ window' = [window EXCEPT ![b][k] = Append(w, time)]
      \/ /\ call' = [call EXCEPT ![r].at = "working"] /\ Slotted(k) /\ ~Full(b, k)
         /\ window' = [window EXCEPT ![b][k] = Append(w, time)]
         /\ concurrent' = [concurrent EXCEPT ![k] = concurrent[k] + 1]
         /\ admitted' = admitted \union {new}
  BY DEF Admit, limits
<1> HIDE DEF b, k, w
<1>4. Revocations'
  BY <1>1 DEF GateInv, Revocations
<1>5. \A h \in ApiKeys : Dead(h)' = Dead(h)
  BY <1>1 DEF Dead
<1>6. ASSUME UNCHANGED admitted, call' = Ended(r, "refused") PROVE Marks' /\ Lates' /\ Past' /\ Rates'
  <2>1. Marks' /\ Lates'
    BY <1>1, <1>5, <1>6, RequestEnds, SamePassing
  <2> QED
    BY <2>1, <1>1, <1>6 DEF GateInv, Past, Rates, WithinMinute
<1>7. ASSUME call' = Ended(r, "refused"), UNCHANGED concurrent
      PROVE  /\ SlotsCounted'
             /\ window' \in [Buckets -> [ApiKeys -> Seq(Nat)]] => 
                  ((\A c \in Buckets, h \in ApiKeys : \A i \in 1..Len(window'[c][h]) : window'[c][h][i] <= time') => Shape')
  <2>1. call[r].at # "working"
    BY <1>1
  <2>2. SlotsCounted'
    BY <1>7, <2>1, RequestEnds, SameSlots
  <2>3. CallShape'
    BY <1>7, <2>1, RequestEnds
  <2> QED
    BY <2>2, <2>3, <1>1, <1>7 DEF GateInv, Shape
<1>8. CASE call' = Ended(r, "refused") /\ UNCHANGED <<window, concurrent, admitted>>
  <2>1. Covered'
    BY <1>1, <1>8, SameAdmissions
  <2>2. Shape' /\ SlotsCounted'
    BY <1>1, <1>7, <1>8 DEF GateInv, Shape
  <2> QED
    BY <2>1, <2>2, <1>4, <1>6, <1>8 DEF GateInv
<1>9. ASSUME NEW x \in {w, Append(w, time)}, call' = Ended(r, "refused"), UNCHANGED <<concurrent, admitted>>,
             window' = [window EXCEPT ![b][k] = x]
      PROVE  GateInv'
  <2>0. x \in {InWindow(window[b][k]), Append(InWindow(window[b][k]), time)} /\ time' = time
    BY <1>1 DEF w
  <2>1. Covered'
    BY <2>0, <1>2, <1>9, RefusedCovered
  <2>2. /\ window' \in [Buckets -> [ApiKeys -> Seq(Nat)]]
        /\ \A c \in Buckets, h \in ApiKeys : \A i \in 1..Len(window'[c][h]) : window'[c][h][i] <= time'
    BY <2>0, <1>2, <1>9, WindowTyped
  <2>3. Shape' /\ SlotsCounted'
    BY <2>2, <1>7, <1>9
  <2> QED
    BY <2>1, <2>3, <1>4, <1>6, <1>9 DEF GateInv
<1>10. CASE /\ call' = [call EXCEPT ![r].at = "working"] /\ Slotted(k) /\ ~Full(b, k)
            /\ window' = [window EXCEPT ![b][k] = Append(w, time)]
            /\ concurrent' = [concurrent EXCEPT ![k] = concurrent[k] + 1]
            /\ admitted' = admitted \union {new}
  <2>1. new.key = k /\ new.bucket = b /\ new.time = time /\ new.by = r /\ new.fit /\ (new.late => Dead(k))
    BY <1>2
  <2> HIDE DEF new
  <2>2. window' = [window EXCEPT ![b][k] = Append(InWindow(window[b][k]), time)] /\ time' = time
    BY <1>1, <1>10 DEF w
  <2>3. Covered'
    BY <2>1, <2>2, <1>2, <1>10, AdmittedCovered
  <2>4. Rates'
    BY <2>1, <1>2, <1>10, AdmittedRates
  <2>a. call \in [Posts -> [at : Phases, key : ApiKeys \union {"none"}, bucket : Buckets \union {"none"}, fit : BOOLEAN]]
    BY DEF GateInv, Shape, CallShape
  <2>b. \A x \in Posts : IF x = r THEN call'[x].at = "working" ELSE call'[x] = call[x]
    BY <2>a, <1>10
  <2>5. Marks'
    BY <2>1, <2>b, <1>1, <1>2, <1>10 DEF GateInv, Marks
  <2>c. Lates'
    <3>1. Passing' = {}
      BY <2>b, <1>1 DEF GateInv, Lates, Passing
    <3>2. \A a \in admitted : a.late => a.key # k
      BY <1>1 DEF GateInv, Lates, k
    <3>3. \A a \in admitted : a.key \in ApiKeys /\ (a.late => Dead(a.key))
      BY DEF GateInv, Lates
    <3>4. \A a, c \in admitted : a.late /\ c.late /\ a.key = c.key => a = c
      BY DEF GateInv, Lates
    <3> QED
      BY <3>1, <3>2, <3>3, <3>4, <2>1, <1>2, <1>5, <1>10 DEF Lates
  <2>6. Past'
    <3>1. IsFiniteSet(admitted \union {new})
      BY FS_AddElement DEF GateInv, Past
    <3> QED
      BY <3>1, <2>1, <2>2, <1>2, <1>10 DEF GateInv, Past
  <2>7. /\ window' \in [Buckets -> [ApiKeys -> Seq(Nat)]]
        /\ \A c \in Buckets, h \in ApiKeys : \A i \in 1..Len(window'[c][h]) : window'[c][h][i] <= time'
    <3>1. PICK x : x = Append(InWindow(window[b][k]), time)
      OBVIOUS
    <3>2. x \in {InWindow(window[b][k]), Append(InWindow(window[b][k]), time)} /\ window' = [window EXCEPT ![b][k] = x]
      BY <3>1, <2>2
    <3> QED
      BY <3>2, <2>2, <1>2, WindowTyped
  <2>8. \A h \in ApiKeys : Working(h)' = IF h = k THEN Working(h) \union {r} ELSE Working(h)
    BY <1>2, <1>10 DEF GateInv, Shape, CallShape, Working, k
  <2>9. r \notin Working(k)
    BY <1>1 DEF Working
  <2>10. concurrent \in [ApiKeys -> 0..MaxConcurrent] /\ MaxConcurrent \in Nat /\ concurrent[k] < MaxConcurrent
    BY <1>10 DEF GateInv, Shape, GateAssumption, Slotted
  <2>11. SlotsCounted'
    <3> SUFFICES ASSUME NEW h \in ApiKeys PROVE IsFiniteSet(Working(h)') /\ concurrent'[h] = Cardinality(Working(h)')
      BY DEF SlotsCounted
    <3>1. IsFiniteSet(Working(h)) /\ concurrent[h] = Cardinality(Working(h))
      BY DEF GateInv, SlotsCounted
    <3>2. IsFiniteSet(Working(h) \union {r}) /\ (r \notin Working(h) => Cardinality(Working(h) \union {r}) = Cardinality(Working(h)) + 1)
      BY <3>1, FS_AddElement
    <3>3. CASE h = k
      BY <3>1, <3>2, <3>3, <2>8, <2>9, <2>10, <1>10
    <3>4. CASE h # k
      BY <3>1, <3>4, <2>8, <2>10, <1>10
    <3> QED
      BY <3>3, <3>4
  <2>12. concurrent' \in [ApiKeys -> 0..MaxConcurrent]
    BY <2>10, <1>2, <1>10
  <2>13. CallShape'
    BY <1>1, <1>10 DEF GateInv, Shape, CallShape, Phases, Begun
  <2>14. Shape'
    BY <2>7, <2>12, <2>13, <1>1 DEF GateInv, Shape
  <2> QED
    BY <2>3, <2>4, <2>5, <2>c, <2>6, <2>11, <2>14, <1>4 DEF GateInv
<1>11. CASE call' = Ended(r, "refused") /\ UNCHANGED <<concurrent, admitted>> /\ window' = [window EXCEPT ![b][k] = w]
  BY <1>9, <1>11
<1>12. CASE call' = Ended(r, "refused") /\ UNCHANGED <<concurrent, admitted>> /\ window' = [window EXCEPT ![b][k] = Append(w, time)]
  BY <1>9, <1>12
<1> QED
  BY <1>3, <1>8, <1>10, <1>11, <1>12

-----------------------------------------------------------------------------
(* The theorems.                                                           *)

LEMMA InitSound == GateAssumption /\ GateInit => GateInv
<1> SUFFICES ASSUME GateAssumption, GateInit PROVE GateInv
  OBVIOUS
<1>1. Shape
  BY DEF GateInit, Shape, CallShape, GateAssumption, NoKey, NewPost, Never, KeyStatuses, Phases, Begun
<1>2. SlotsCounted
  <2>1. \A k \in ApiKeys : Working(k) = {}
    BY DEF GateInit, Working, NewPost
  <2> QED
    BY <2>1, FS_EmptySet DEF GateInit, SlotsCounted
<1>3. admitted = {} /\ audit = {} /\ admin = {}
  BY DEF GateInit
<1>4. Covered
  <2> SUFFICES ASSUME NEW b \in Buckets, NEW k \in ApiKeys PROVE \E f : Covers(f, b, k)
    BY DEF Covered
  <2>1. CountedBy(b, k) = {}
    BY <1>3 DEF CountedBy
  <2>2. PICK f : f = [a \in {} |-> 0]
    OBVIOUS
  <2>3. Covers(f, b, k)
    BY <2>1, <2>2 DEF Covers, Entries
  <2> QED
    BY <2>3
<1>5. Past /\ Rates
  <2>1. \A k \in ApiKeys, b \in Buckets, t \in 0..MaxTime : WithinMinute(b, k, t) = {}
    BY <1>3 DEF WithinMinute
  <2>2. \A b \in Buckets : 0 <= Limit(b)
    BY DEF Limit, GateAssumption
  <2> QED
    BY <2>1, <2>2, <1>3, FS_EmptySet DEF Past, Rates
<1>6. Revocations /\ Marks /\ Lates
  <2>1. \A r \in Posts : call[r].at = "none"
    BY DEF GateInit, NewPost
  <2> QED
    BY <2>1, <1>3 DEF Revocations, Marks, Lates, Passing
<1> QED
  BY <1>1, <1>2, <1>4, <1>5, <1>6 DEF GateInv

LEMMA NextSound == GateAssumption /\ GateInv /\ [GateNext]_gateVars => GateInv'
<1> SUFFICES ASSUME GateAssumption, GateInv, [GateNext]_gateVars PROVE GateInv'
  OBVIOUS
<1>1. CASE \E k \in ApiKeys, e \in Expiries, w \in BOOLEAN : CreateKey(k, e, w)
  BY <1>1, KeyCallsKeep
<1>2. CASE \E k \in ApiKeys : RevokeKey(k)
  BY <1>2, KeyCallsKeep
<1>3. CASE \E e \in admin : AuditKey(e) \/ AdminEnds(e)
  BY <1>3, KeyCallsKeep
<1>4. CASE \E r \in Posts, k \in ApiKeys, b \in Buckets : Arrive(r, k, b)
  BY <1>4, ArriveKeeps
<1>5. CASE \E r \in Posts : BadBody(r) \/ Authenticate(r) \/ Proceed(r) \/ Finish(r)
  <2>1. ASSUME NEW r \in Posts, BadBody(r) \/ StoreFails(r) PROVE GateInv'
    <3>1. /\ call[r].at # "working" /\ call' = Ended(r, "refused") /\ UNCHANGED <<time, window, admitted>>
          /\ UNCHANGED concurrent /\ UNCHANGED <<keyOf, admin, audit>>
      BY <2>1 DEF BadBody, StoreFails, limits, keys
    <3> QED
      BY <3>1, RefusedKeeps
  <2> QED
    BY <1>5, <2>1, AuthenticateKeeps, MarkKeeps, AdmitKeeps, FinishKeeps DEF Proceed
<1>6. CASE Drain
  BY <1>6, DrainKeeps
<1>7. CASE Tick
  BY <1>7, TickKeeps
<1>8. CASE UNCHANGED gateVars
  <2>1. UNCHANGED <<time, window, admitted>> /\ UNCHANGED concurrent /\ UNCHANGED <<keyOf, admin, audit, call>>
    BY <1>8 DEF gateVars
  <2>2. Covered' /\ Past' /\ Rates'
    BY <2>1, SameAdmissions
  <2>3. SlotsCounted'
    BY <2>1, SameSlots
  <2>4. Shape' /\ Revocations'
    BY <2>1 DEF GateInv, Shape, CallShape, Revocations
  <2>5. Marks' /\ Lates'
    BY <2>1, SamePassing DEF Dead
  <2> QED
    BY <2>2, <2>3, <2>4, <2>5 DEF GateInv
<1> QED
  BY <1>1, <1>2, <1>3, <1>4, <1>5, <1>6, <1>7, <1>8 DEF GateNext

\* For any requests, keys and limits, a slot is taken exactly while the request that
\* took it is at work, whatever refuses or ends it.
THEOREM SlotsAreExact == ASSUME GateAssumption PROVE GateSpec => []SlotsExact
<1>1. GateInv => SlotsExact
  BY DEF GateInv, SlotsCounted, SlotsExact, Working
<1> QED
  BY InitSound, NextSound, <1>1, PTL DEF GateSpec

\* In no minute, wherever it begins, is a key admitted more often than its bucket allows:
\* the trimmed window has an entry for every admission of the last minute.
THEOREM RatesHold == ASSUME GateAssumption PROVE GateSpec => []RateHeld
<1>1. GateInv => RateHeld
  BY DEF GateInv, Rates, RateHeld, WithinMinute
<1> QED
  BY InitSound, NextSound, <1>1, PTL DEF GateSpec

\* Who is admitted came with a key that was good when it was read and left a mark; of a
\* key that has died at most one request is let in, the one the loop was passing.
THEOREM OnlyLiveKeys == ASSUME GateAssumption PROVE GateSpec => []AdmittedByLiveKey
<1>1. GateInv => AdmittedByLiveKey
  BY DEF GateInv, Revocations, Marks, Lates, AdmittedByLiveKey
<1> QED
  BY InitSound, NextSound, <1>1, PTL DEF GateSpec

\* Types, slots, rates and keys together: what the run checks of the gate, for any
\* requests, keys, limits, length of a minute and lifetime.
THEOREM GateIsSound == ASSUME GateAssumption PROVE GateSpec => []GateSound
<1>1. GateInv => GateSound
  <2> SUFFICES ASSUME GateInv PROVE GateSound
    OBVIOUS
  <2>1. ASSUME NEW b \in Buckets, NEW k \in ApiKeys PROVE window[b][k] \in Seq(0..time)
    <3>1. PICK w : w = window[b][k]
      OBVIOUS
    <3>2. w \in Seq(Nat) /\ time \in Nat /\ \A i \in 1..Len(w) : w[i] \in Nat /\ w[i] <= time
      BY <3>1 DEF GateInv, Shape
    <3>3. w \in [1..Len(w) -> 0..time] /\ Len(w) \in Nat
      BY <3>2
    <3> QED
      BY <3>1, <3>3, SeqDef
  <2>2. GateTypeOK
    BY <2>1 DEF GateInv, Shape, GateTypeOK, KeyStatuses
  <2>3. SlotsExact
    BY DEF GateInv, SlotsCounted, SlotsExact, Working
  <2>4. RateHeld
    BY DEF GateInv, Rates, RateHeld, WithinMinute
  <2>5. AdmittedByLiveKey
    BY DEF GateInv, Revocations, Marks, Lates, AdmittedByLiveKey
  <2> QED
    BY <2>2, <2>3, <2>4, <2>5 DEF GateSound
<1> QED
  BY InitSound, NextSound, <1>1, PTL DEF GateSpec

-----------------------------------------------------------------------------
(* LockOrder: one thread between acquire and release.                      *)

Stages == {"out", "open", "flock", "graph", "write", "commit", "release"}

\* Whoever waits for the file lock or holds it has the file at the path open, and the
\* path keeps its file; a holder is the one that file's lock names.
LockInv ==
    /\ at \in [Threads -> Stages] /\ guarded \in [Threads -> BOOLEAN]
    /\ path \in 0 .. LockFiles /\ fd \in [Threads -> 0 .. LockFiles]
    /\ flock \in [1 .. LockFiles -> Threads \union {Nobody}]
    /\ \A t \in Threads : at[t] = "flock" \/ Within(t) => fd[t] = path /\ path # 0
    /\ \A t \in Threads : Within(t) => flock[fd[t]] = t
    /\ \A t \in Threads : at[t] \in {"open", "flock", "release"} => guarded[t]

LEMMA LockStarts == LockAssumption /\ LockInit => LockInv
  BY DEF LockAssumption, LockInit, LockInv, Stages, Within

\* A step that moves one thread between places of the same side of acquire, and leaves
\* the file, the descriptors and their lock as they are.
LEMMA MovesKeep ==
    ASSUME LockInv, NEW t \in Threads, NEW place \in Stages, Moves(t, place),
           UNCHANGED <<guarded, path, fd, flock>>,
           guarded[t] /\ place \in {"graph", "write", "commit", "release"} => Within(t),
           place # "flock", place \in {"open", "release"} => guarded[t]
    PROVE  LockInv'
<1>1. at' = [at EXCEPT ![t] = place] /\ at \in [Threads -> Stages]
  BY DEF Moves, LockInv
<1>2. /\ at' \in [Threads -> Stages] /\ at'[t] = place
      /\ \A u \in Threads : u # t => at'[u] = at[u]
  BY <1>1
<1>3. \A u \in Threads : Within(u)' => Within(u)
  BY <1>2 DEF Within
<1>4. \A u \in Threads : at'[u] = "flock" => at[u] = "flock"
  BY <1>2
<1>5. \A u \in Threads : at'[u] \in {"open", "flock", "release"} => guarded[u]
  BY <1>2 DEF LockInv
<1> QED
  BY <1>2, <1>3, <1>4, <1>5 DEF LockInv

LEMMA BeginKeepsLock == ASSUME LockInv, NEW t \in Threads, Begin(t) PROVE LockInv'
<1>1. PICK g \in BOOLEAN : guarded' = [guarded EXCEPT ![t] = g] /\ at' = [at EXCEPT ![t] = Then(g).out]
  BY DEF Begin, Moves
<1>2. at[t] = "out" /\ UNCHANGED <<path, fd, flock>>
  BY DEF Begin
<1>3. Then(g).out = IF g THEN "open" ELSE "graph"
  BY DEF Then
<1>4. at \in [Threads -> Stages] /\ guarded \in [Threads -> BOOLEAN]
  BY DEF LockInv
<1>5. /\ at' \in [Threads -> Stages] /\ guarded' \in [Threads -> BOOLEAN]
      /\ at'[t] = (IF g THEN "open" ELSE "graph") /\ guarded'[t] = g
      /\ \A u \in Threads : u # t => at'[u] = at[u] /\ guarded'[u] = guarded[u]
  BY <1>1, <1>3, <1>4 DEF Stages
<1>6. \A u \in Threads : Within(u)' => Within(u) /\ u # t
  BY <1>5 DEF Within
<1>7. \A u \in Threads : at'[u] = "flock" => at[u] = "flock"
  BY <1>5
<1>8. \A u \in Threads : at'[u] \in {"open", "flock", "release"} => guarded'[u]
  BY <1>5 DEF LockInv
<1> QED
  BY <1>2, <1>5, <1>6, <1>7, <1>8 DEF LockInv

\* The path gets its file once: whoever has one open has that one.
LEMMA OpenKeepsLock == ASSUME LockAssumption, LockInv, NEW t \in Threads, Open(t) PROVE LockInv'
<1>1. /\ at' = [at EXCEPT ![t] = "flock"] /\ fd' = [fd EXCEPT ![t] = path']
      /\ UNCHANGED <<guarded, flock>> /\ at[t] = "open"
  BY DEF Open, Moves
<1>2. path' \in 0 .. LockFiles /\ path' # 0 /\ (path # 0 => path' = path)
  BY DEF Open, LockInv, LockAssumption
<1>3. /\ at' \in [Threads -> Stages] /\ at'[t] = "flock"
      /\ \A u \in Threads : u # t => at'[u] = at[u]
  BY <1>1 DEF LockInv, Stages
<1>4. /\ fd' \in [Threads -> 0 .. LockFiles] /\ fd'[t] = path'
      /\ \A u \in Threads : u # t => fd'[u] = fd[u]
  BY <1>1, <1>2 DEF LockInv
<1>5. \A u \in Threads : Within(u)' => Within(u) /\ u # t
  BY <1>1, <1>3 DEF Within
<1>6. \A u \in Threads : at'[u] = "flock" \/ Within(u)' => fd'[u] = path' /\ path' # 0
  BY <1>2, <1>3, <1>4, <1>5 DEF LockInv
<1>7. \A u \in Threads : Within(u)' => flock'[fd'[u]] = u
  BY <1>1, <1>4, <1>5 DEF LockInv
<1>8. \A u \in Threads : at'[u] \in {"open", "flock", "release"} => guarded'[u]
  BY <1>1, <1>3 DEF LockInv
<1> QED
  BY <1>1, <1>2, <1>3, <1>4, <1>6, <1>7, <1>8 DEF LockInv

\* Who gets the lock was within nowhere before, and nobody else is.
LEMMA FlockKeepsLock == ASSUME LockAssumption, LockInv, NEW t \in Threads, Flock(t) PROVE LockInv'
<1>1. /\ at' = [at EXCEPT ![t] = "graph"] /\ flock' = [flock EXCEPT ![fd[t]] = t]
      /\ UNCHANGED <<guarded, path, fd>> /\ at[t] = "flock" /\ flock[fd[t]] = Nobody
  BY DEF Flock, Moves, Then
<1>2. fd[t] = path /\ path \in 1 .. LockFiles
  BY <1>1 DEF LockInv, LockAssumption
<1>3. \A u \in Threads : Within(u) => fd[u] = path /\ flock[path] = u
  BY DEF LockInv
<1>4. \A u \in Threads : ~Within(u)
  BY <1>1, <1>2, <1>3 DEF LockAssumption
<1>5. /\ at' \in [Threads -> Stages] /\ at'[t] = "graph"
      /\ \A u \in Threads : u # t => at'[u] = at[u]
  BY <1>1 DEF LockInv, Stages
<1>6. flock' \in [1 .. LockFiles -> Threads \union {Nobody}] /\ flock'[path] = t
  BY <1>1, <1>2 DEF LockInv
<1>7. \A u \in Threads : Within(u)' => u = t
  BY <1>1, <1>4, <1>5 DEF Within
<1>8. \A u \in Threads : at'[u] = "flock" \/ Within(u)' => fd'[u] = path' /\ path' # 0
  BY <1>1, <1>2, <1>5, <1>7 DEF LockInv
<1>9. \A u \in Threads : Within(u)' => flock'[fd'[u]] = u
  BY <1>1, <1>2, <1>6, <1>7
<1>10. \A u \in Threads : at'[u] \in {"open", "flock", "release"} => guarded'[u]
  BY <1>1, <1>5 DEF LockInv
<1> QED
  BY <1>1, <1>5, <1>6, <1>8, <1>9, <1>10 DEF LockInv

LEMMA TakeGraphKeepsLock == ASSUME LockInv, NEW t \in Threads, TakeGraph(t) PROVE LockInv'
<1>1. Then(guarded[t]).graph = "write"
  BY DEF Then
<1>2. Moves(t, "write") /\ at[t] = "graph" /\ UNCHANGED <<guarded, path, fd, flock>>
  BY <1>1 DEF TakeGraph
<1> QED
  BY <1>2, MovesKeep DEF Within, Stages

LEMMA TakeWriterKeepsLock == ASSUME LockInv, NEW t \in Threads, TakeWriter(t) PROVE LockInv'
<1>1. Moves(t, "commit") /\ at[t] = "write" /\ UNCHANGED <<guarded, path, fd, flock>>
  BY DEF TakeWriter
<1> QED
  BY <1>1, MovesKeep DEF Within, Stages

LEMMA CommitKeepsLock ==
    ASSUME LockInv, NEW t \in Threads, Commit(t) \/ Raises(t) PROVE LockInv'
<1>1. PICK place \in {"graph", "release", "out"} :
         Moves(t, place) /\ (place = "release" => guarded[t])
  BY DEF Commit, Raises
<1>2. at[t] \in {"write", "commit"} /\ UNCHANGED <<guarded, path, fd, flock>>
  BY DEF Commit, Raises
<1> QED
  BY <1>1, <1>2, MovesKeep DEF Within, Stages

LEMMA FailsKeepsLock == ASSUME LockAssumption, LockInv, NEW t \in Threads, Fails(t) PROVE LockInv'
<1>1. /\ at' = [at EXCEPT ![t] = "out"] /\ fd' = [fd EXCEPT ![t] = 0]
      /\ UNCHANGED <<guarded, path, flock>>
  BY DEF Fails, Moves
<1>2. /\ at' \in [Threads -> Stages] /\ at'[t] = "out"
      /\ \A u \in Threads : u # t => at'[u] = at[u]
  BY <1>1 DEF LockInv, Stages
<1>3. /\ fd' \in [Threads -> 0 .. LockFiles]
      /\ \A u \in Threads : u # t => fd'[u] = fd[u]
  BY <1>1 DEF LockInv, LockAssumption
<1>4. \A u \in Threads : Within(u)' => Within(u) /\ u # t
  BY <1>1, <1>2 DEF Within
<1>5. \A u \in Threads : at'[u] = "flock" => at[u] = "flock" /\ u # t
  BY <1>2
<1>6. \A u \in Threads : at'[u] \in {"open", "flock", "release"} => guarded'[u]
  BY <1>1, <1>2 DEF LockInv
<1> QED
  BY <1>1, <1>2, <1>3, <1>4, <1>5, <1>6 DEF LockInv

LEMMA UnlockKeepsLock == ASSUME LockAssumption, LockInv, NEW t \in Threads, Unlock(t) PROVE LockInv'
<1>1. /\ at' = [at EXCEPT ![t] = "out"] /\ fd' = [fd EXCEPT ![t] = 0]
      /\ flock' = [x \in DOMAIN flock |-> IF flock[x] = t THEN Nobody ELSE flock[x]]
      /\ UNCHANGED <<guarded, path>>
  BY DEF Unlock, Moves, Without
<1>2. /\ at' \in [Threads -> Stages] /\ at'[t] = "out"
      /\ \A u \in Threads : u # t => at'[u] = at[u]
  BY <1>1 DEF LockInv, Stages
<1>3. /\ fd' \in [Threads -> 0 .. LockFiles]
      /\ \A u \in Threads : u # t => fd'[u] = fd[u]
  BY <1>1 DEF LockInv, LockAssumption
<1>4. \A u \in Threads : Within(u)' => Within(u) /\ u # t
  BY <1>1, <1>2 DEF Within
<1>5. \A u \in Threads : at'[u] = "flock" => at[u] = "flock" /\ u # t
  BY <1>2
<1>6. \A u \in Threads : at'[u] \in {"open", "flock", "release"} => guarded'[u]
  BY <1>1, <1>2 DEF LockInv
<1>7. flock' \in [1 .. LockFiles -> Threads \union {Nobody}]
  BY <1>1 DEF LockInv
<1>8. \A u \in Threads : Within(u)' => flock'[fd'[u]] = u
  <2> SUFFICES ASSUME NEW u \in Threads, Within(u)' PROVE flock'[fd'[u]] = u
    OBVIOUS
  <2>1. Within(u) /\ u # t /\ fd'[u] = fd[u]
    BY <1>3, <1>4
  <2>2. flock[fd[u]] = u /\ fd[u] \in 1 .. LockFiles /\ DOMAIN flock = 1 .. LockFiles
    BY <2>1 DEF LockInv, LockAssumption
  <2> QED
    BY <1>1, <2>1, <2>2
<1>9. \A u \in Threads : at'[u] = "flock" \/ Within(u)' => fd'[u] = path' /\ path' # 0
  BY <1>1, <1>3, <1>4, <1>5 DEF LockInv
<1> QED
  BY <1>1, <1>2, <1>3, <1>6, <1>7, <1>8, <1>9 DEF LockInv

\* What the system closes with a process is its own: who is within elsewhere stays so.
LEMMA ProcessEndsKeepsLock == ASSUME LockAssumption, LockInv, NEW p, ProcessEnds(p) PROVE LockInv'
<1> DEFINE mine == {t \in Threads : Process[t] = p}
<1>1. /\ at' = [t \in Threads |-> IF t \in mine THEN "out" ELSE at[t]]
      /\ fd' = [t \in Threads |-> IF t \in mine THEN 0 ELSE fd[t]]
      /\ flock' = [f \in DOMAIN flock |-> IF flock[f] \in mine THEN Nobody ELSE flock[f]]
      /\ UNCHANGED <<guarded, path>>
  BY DEF ProcessEnds
<1> HIDE DEF mine
<1>2. at' \in [Threads -> Stages] /\ \A u \in Threads : at'[u] = IF u \in mine THEN "out" ELSE at[u]
  BY <1>1 DEF LockInv, Stages
<1>3. fd' \in [Threads -> 0 .. LockFiles] /\ \A u \in Threads : u \notin mine => fd'[u] = fd[u]
  BY <1>1 DEF LockInv, LockAssumption
<1>4. \A u \in Threads : Within(u)' => Within(u) /\ u \notin mine
  BY <1>1, <1>2 DEF Within
<1>5. \A u \in Threads : at'[u] = "flock" => at[u] = "flock" /\ u \notin mine
  BY <1>2
<1>6. \A u \in Threads : at'[u] \in {"open", "flock", "release"} => guarded'[u]
  BY <1>1, <1>2 DEF LockInv
<1>7. flock' \in [1 .. LockFiles -> Threads \union {Nobody}]
  BY <1>1 DEF LockInv
<1>8. \A u \in Threads : Within(u)' => flock'[fd'[u]] = u
  <2> SUFFICES ASSUME NEW u \in Threads, Within(u)' PROVE flock'[fd'[u]] = u
    OBVIOUS
  <2>1. Within(u) /\ u \notin mine /\ fd'[u] = fd[u]
    BY <1>3, <1>4
  <2>2. flock[fd[u]] = u /\ fd[u] \in 1 .. LockFiles /\ DOMAIN flock = 1 .. LockFiles
    BY <2>1 DEF LockInv, LockAssumption
  <2> QED
    BY <1>1, <2>1, <2>2
<1>9. \A u \in Threads : at'[u] = "flock" \/ Within(u)' => fd'[u] = path' /\ path' # 0
  BY <1>1, <1>3, <1>4, <1>5 DEF LockInv
<1> QED
  BY <1>1, <1>2, <1>3, <1>6, <1>7, <1>8, <1>9 DEF LockInv

LEMMA LockSteps == LockAssumption /\ LockInv /\ [LockNext]_lockVars => LockInv'
<1> SUFFICES ASSUME LockAssumption, LockInv, [LockNext]_lockVars PROVE LockInv'
  OBVIOUS
<1>1. CASE \E t \in Threads : Begin(t) \/ Step(t) \/ Raises(t) \/ Fails(t)
  BY <1>1, BeginKeepsLock, OpenKeepsLock, FlockKeepsLock, TakeGraphKeepsLock, TakeWriterKeepsLock,
     CommitKeepsLock, UnlockKeepsLock, FailsKeepsLock DEF Step
<1>2. CASE \E p \in Processes : ProcessEnds(p)
  BY <1>2, ProcessEndsKeepsLock
<1>3. CASE UNCHANGED lockVars
  BY <1>3 DEF lockVars, LockInv, Within
<1> QED
  BY <1>1, <1>2, <1>3 DEF LockNext

\* Of all threads of all processes at most one is between acquire and release of the
\* process lock, whatever fails, raises or dies: locks.py, ProcessLock.acquire and release.
THEOREM OneIsGuarded == ASSUME LockAssumption PROVE LockSpec => []OneGuarded
<1>1. LockInv => OneGuarded
  BY DEF LockInv, OneGuarded
<1> QED
  BY LockStarts, LockSteps, <1>1, PTL DEF LockSpec

-----------------------------------------------------------------------------
(***************************************************************************)
(* StoreAdministration.  A save that will write keeps what was kept of its *)
(* row; the counters of a prune never run ahead of what it has deleted.    *)
(***************************************************************************)
Calls == [place : Places, read : BOOLEAN, row : [Fields -> Values],
          sets : [Fields -> Values \union {Unset}]]

\* The row a save has read still has what is kept: who wrote since has reset it.
AdminSaves ==
    /\ save \in [calls : [Savers -> Calls], times : Nat]
    /\ rowOf \in [Places -> [Fields -> Values]]
    /\ kept \in [Places -> [Fields -> Values \union {Unset}]]
    /\ KeptUnlessOverlapped
    /\ \A t \in Savers : save.calls[t].read =>
         \A f \in Fields : kept[save.calls[t].place][f] # Unset =>
                              save.calls[t].row[f] = kept[save.calls[t].place][f]

Runs == [status : Statuses, count : [Kinds -> 0..Cardinality(Files) + 1]]

Prunes == [step : 0..5, rows : SUBSET Range(Tables), newer : {0, 1}, count : [Kinds -> Nat], unlinked : Nat]

AdminPrune ==
    /\ prune \in Prunes
    /\ aged \subseteq Range(Tables) /\ files \subseteq Files
    /\ deleted \in [Kinds -> Nat] /\ along \in Nat /\ claimed \in [Statuses -> [Kinds -> Nat]]
    /\ runs \in Seq(Runs)
    /\ ~Pruning => prune = NoPrune
    /\ prune.count["files"] <= prune.unlinked
    /\ prune.unlinked + Cardinality(files) <= Cardinality(Files)
    /\ \A k \in Range(Tables) : prune.count[k] <= 1

\* A counter and what it counts, from the first statement to the record of the run.
SQLiteCounts ==
    /\ prune.rows \subseteq aged
    /\ prune.newer = 1 => "nodes" \in prune.rows
    /\ \A k \in Range(Tables) : claimed["completed"][k] = deleted[k]
    /\ prune.step # 5 => \A k \in Range(Tables) : prune.count[k] = IF k \in prune.rows THEN 1 ELSE 0
Neo4jCounts ==
    \A k \in Range(Tables) :
       claimed["completed"][k] + claimed["failed"][k] + prune.count[k] <= deleted[k]
AdminCounts ==
    /\ backend = "sqlite" => SQLiteCounts
    /\ backend = "neo4j" => Neo4jCounts
    /\ claimed["completed"]["files"] + claimed["failed"]["files"] + prune.unlinked <= deleted["files"]
    /\ along <= deleted["nodes"]

AdminInv == AdminSaves /\ AdminPrune /\ AdminCounts

LEMMA TablesAre ==
    /\ Range(Tables) = {"edges", "nodes"} /\ DOMAIN Tables = 1..2 /\ Len(Tables) = 2
    /\ Kinds = {"edges", "nodes", "files"}
<1>1. DOMAIN Tables = 1..2 /\ Len(Tables) = 2 /\ Tables[1] = "edges" /\ Tables[2] = "nodes"
  BY DEF Tables
<1>2. Range(Tables) = {"edges", "nodes"}
  BY <1>1 DEF Range
<1> QED
  BY <1>1, <1>2 DEF Kinds

LEMMA FilesCount ==
    ASSUME AdminAssumption, NEW S \in SUBSET Files
    PROVE  /\ IsFiniteSet(S) /\ Cardinality(S) \in Nat /\ Cardinality(Files) \in Nat
           /\ Cardinality(S) <= Cardinality(Files)
           /\ \A f \in S : Cardinality(S \ {f}) + 1 = Cardinality(S)
<1>1. IsFiniteSet(Files) /\ Cardinality(Files) \in Nat
  BY FS_CardinalityType DEF AdminAssumption
<1>2. IsFiniteSet(S) /\ Cardinality(S) <= Cardinality(Files) /\ Cardinality(S) \in Nat
  BY <1>1, FS_Subset, FS_CardinalityType
<1>3. ASSUME NEW f \in S PROVE Cardinality(S \ {f}) + 1 = Cardinality(S)
  <2>1. Cardinality(S \ {f}) = Cardinality(S) - 1
    BY ONLY <1>2, f \in S, FS_RemoveElement
  <2> QED
    BY <2>1, <1>2
<1> QED
  BY <1>1, <1>2, <1>3

LEMMA AdminStarts == AdminAssumption /\ AdminInit => AdminInv
<1> SUFFICES ASSUME AdminAssumption, AdminInit PROVE AdminInv
  OBVIOUS
<1>1. AdminSaves
  BY DEF AdminInit, AdminSaves, KeptUnlessOverlapped, NoSave, Calls, Values, Unset, AdminAssumption
<1>2. AdminPrune
  BY TablesAre, FilesCount DEF AdminInit, AdminPrune, Prunes, NoPrune, Pruning, Statuses
<1>3. AdminCounts
  BY TablesAre DEF AdminInit, AdminCounts, SQLiteCounts, Neo4jCounts, NoPrune, Statuses
<1> QED
  BY <1>1, <1>2, <1>3 DEF AdminInv

\* What a prune does leaves the saves alone, and what a save does the prune.
LEMMA SavingKept == AdminSaves /\ UNCHANGED saving => AdminSaves'
BY DEF AdminSaves, saving, KeptUnlessOverlapped
LEMMA PruningKept == AdminPrune /\ AdminCounts /\ UNCHANGED <<backend, pruning>> => AdminPrune' /\ AdminCounts'
BY DEF AdminPrune, AdminCounts, SQLiteCounts, Neo4jCounts, pruning, records, gone, Pruning

LEMMA ReadRowKeeps ==
    ASSUME AdminSaves, NEW t \in Savers, NEW p \in Places,
           NEW given \in [Fields -> Values \union {Unset}], ReadRow(t, p, given)
    PROVE  AdminSaves'
<1> DEFINE c == [place |-> p, read |-> TRUE, row |-> Reads(p), sets |-> given]
<1>1. /\ save' = [calls |-> [save.calls EXCEPT ![t] = c], times |-> save.times + 1]
      /\ rowOf' = rowOf /\ kept' = kept
  BY DEF ReadRow
<1>2. c \in Calls /\ c.place = p /\ c.row = rowOf[p]
  BY DEF Reads, Calls, AdminSaves
<1> HIDE DEF c
<1>3. /\ save' \in [calls : [Savers -> Calls], times : Nat] /\ save'.calls[t] = c
      /\ \A u \in Savers : u # t => save'.calls[u] = save.calls[u]
  BY <1>1, <1>2 DEF AdminSaves
<1>4. KeptUnlessOverlapped'
  BY <1>1 DEF KeptUnlessOverlapped, AdminSaves
<1>5. \A u \in Savers : save'.calls[u].read =>
        \A f \in Fields : kept'[save'.calls[u].place][f] # Unset =>
                             save'.calls[u].row[f] = kept'[save'.calls[u].place][f]
  BY <1>1, <1>2, <1>3 DEF AdminSaves, KeptUnlessOverlapped
<1> QED
  BY <1>1, <1>3, <1>4, <1>5 DEF AdminSaves

\* Nobody else has read the row, or nothing is kept of it any more.
LEMMA WriteRowKeeps ==
    ASSUME AdminAssumption, AdminSaves, NEW t \in Savers, WriteRow(t) PROVE AdminSaves'
<1>1. PICK c \in Calls : c = save.calls[t]
  BY DEF AdminSaves
<1>2. PICK p \in Places : p = c.place
  BY DEF Calls
<1> DEFINE k == [f \in Fields |-> IF Overlaps(t, p) THEN Unset
                                  ELSE IF c.sets[f] # Unset THEN c.sets[f] ELSE kept[p][f]]
<1>3. /\ c.read /\ rowOf' = [rowOf EXCEPT ![p] = Merged(c)] /\ kept' = [kept EXCEPT ![p] = k]
      /\ save' = [save EXCEPT !.calls[t] = NoSave]
  BY <1>1, <1>2 DEF WriteRow
<1>4. Merged(c) \in [Fields -> Values] /\ k \in [Fields -> Values \union {Unset}]
  BY <1>1, <1>2 DEF Merged, AdminSaves, Calls
<1>5. \A f \in Fields : k[f] # Unset => Merged(c)[f] = k[f]
  BY <1>1, <1>2, <1>3 DEF Merged, AdminSaves
<1>6. Overlaps(t, p) => \A f \in Fields : k[f] = Unset
  OBVIOUS
<1> HIDE DEF k
<1>7. /\ rowOf' \in [Places -> [Fields -> Values]] /\ rowOf'[p] = Merged(c)
      /\ \A q \in Places : q # p => rowOf'[q] = rowOf[q]
  BY <1>3, <1>4 DEF AdminSaves
<1>8. /\ kept' \in [Places -> [Fields -> Values \union {Unset}]] /\ kept'[p] = k
      /\ \A q \in Places : q # p => kept'[q] = kept[q]
  BY <1>3, <1>4 DEF AdminSaves
<1>9. KeptUnlessOverlapped'
  BY <1>5, <1>7, <1>8 DEF KeptUnlessOverlapped, AdminSaves
<1>10. NoSave \in Calls /\ NoSave.read = FALSE
  BY DEF NoSave, Calls, Values, Unset, AdminAssumption
<1>11. /\ save' \in [calls : [Savers -> Calls], times : Nat] /\ save'.calls[t] = NoSave
       /\ \A u \in Savers : u # t => save'.calls[u] = save.calls[u]
  BY <1>3, <1>10 DEF AdminSaves
<1>12. ASSUME NEW u \in Savers, save'.calls[u].read, NEW f \in Fields,
              kept'[save'.calls[u].place][f] # Unset
       PROVE  save'.calls[u].row[f] = kept'[save'.calls[u].place][f]
  <2>1. u # t /\ save'.calls[u] = save.calls[u]
    BY <1>10, <1>11, <1>12
  <2>2. PICK q \in Places : q = save.calls[u].place
    BY DEF AdminSaves, Calls
  <2>3. q # p
    BY <1>6, <1>8, <1>12, <2>1, <2>2 DEF Overlaps
  <2> QED
    BY <1>8, <1>12, <2>1, <2>2, <2>3 DEF AdminSaves
<1> QED
  BY <1>7, <1>8, <1>9, <1>11, <1>12 DEF AdminSaves

\* A run is recorded with the counters it has; the prune is over.
LEMMA RecordTyped ==
    ASSUME AdminPrune, NEW status \in Statuses, NEW count \in [Kinds -> 0..Cardinality(Files) + 1],
           Cardinality(Files) \in Nat, Record(status, count)
    PROVE  /\ runs' \in Seq(Runs) /\ claimed' \in [Statuses -> [Kinds -> Nat]]
           /\ \A s \in Statuses, k \in Kinds :
                claimed'[s][k] = IF s = status THEN claimed[s][k] + count[k] ELSE claimed[s][k]
<1> DEFINE r == [status |-> status, count |-> count]
<1>1. r \in Runs
  BY DEF Runs
<1>2. runs \in Seq(Runs) /\ runs' = Append(runs, r)
  BY DEF Record, AdminPrune
<1> HIDE DEF r
<1>3. runs' \in Seq(Runs)
  BY <1>1, <1>2, AppendProperties
<1>4. claimed \in [Statuses -> [Kinds -> Nat]] /\ \A k \in Kinds : count[k] \in Nat
  BY DEF AdminPrune
<1>5. PICK c : c = [k \in Kinds |-> claimed[status][k] + count[k]]
  OBVIOUS
<1>6. c \in [Kinds -> Nat] /\ claimed' = [claimed EXCEPT ![status] = c]
  BY <1>4, <1>5 DEF Record
<1> QED
  BY <1>3, <1>4, <1>5, <1>6

LEMMA NoPruneIs ==
    /\ NoPrune \in Prunes
    /\ NoPrune.step = 0 /\ NoPrune.rows = {} /\ NoPrune.newer = 0 /\ NoPrune.unlinked = 0
    /\ \A k \in Kinds : NoPrune.count[k] = 0
BY DEF NoPrune, Prunes

LEMMA PruneMoves ==
    ASSUME NEW n \in 0..5, NEW g \in SUBSET Range(Tables), NEW w \in {0, 1}, NEW c \in [Kinds -> Nat], NEW u \in Nat,
           prune' = [step |-> n, rows |-> g, newer |-> w, count |-> c, unlinked |-> u]
    PROVE  /\ prune' \in Prunes /\ prune'.step = n /\ prune'.rows = g /\ prune'.newer = w
           /\ prune'.count = c /\ prune'.unlinked = u
BY DEF Prunes

LEMMA PruneIs ==
    ASSUME AdminPrune
    PROVE  /\ prune = [step |-> prune.step, rows |-> prune.rows, newer |-> prune.newer, count |-> prune.count,
                       unlinked |-> prune.unlinked]
           /\ prune.step \in 0..5 /\ prune.rows \in SUBSET Range(Tables) /\ prune.newer \in {0, 1}
           /\ prune.count \in [Kinds -> Nat] /\ prune.unlinked \in Nat
BY DEF AdminPrune, Prunes

\* What the counters of a prune and of the runs are.
LEMMA AmountsAre ==
    ASSUME AdminPrune
    PROVE  /\ "files" \in Kinds /\ Range(Tables) \subseteq Kinds /\ "files" \notin Range(Tables)
           /\ prune.unlinked \in Nat /\ prune.rows \subseteq Range(Tables) /\ along \in Nat
           /\ \A k \in Kinds : /\ deleted[k] \in Nat /\ prune.count[k] \in Nat
                               /\ claimed["completed"][k] \in Nat /\ claimed["failed"][k] \in Nat
<1>1. claimed \in [Statuses -> [Kinds -> Nat]] /\ deleted \in [Kinds -> Nat]
  BY DEF AdminPrune
<1>2. claimed["completed"] \in [Kinds -> Nat] /\ claimed["failed"] \in [Kinds -> Nat]
  BY <1>1 DEF Statuses
<1> QED
  BY <1>1, <1>2, TablesAre, PruneIs DEF AdminPrune

\* A step of a prune that records no run.
LEMMA PruneGoesOn ==
    ASSUME AdminPrune, prune' \in Prunes, prune'.step # 0, UNCHANGED <<runs, claimed>>,
           aged' \subseteq aged, files' \subseteq Files, deleted' \in [Kinds -> Nat], along' \in Nat,
           prune'.count["files"] <= prune'.unlinked,
           prune'.unlinked + Cardinality(files') <= Cardinality(Files),
           \A k \in Range(Tables) : prune'.count[k] <= 1
    PROVE  AdminPrune'
BY DEF AdminPrune, Pruning

\* A prune ends.
LEMMA PruneEnds ==
    ASSUME AdminAssumption, AdminPrune, prune' = NoPrune, aged' \subseteq Range(Tables), files' \subseteq Files,
           deleted' \in [Kinds -> Nat], along' \in Nat, claimed' \in [Statuses -> [Kinds -> Nat]], runs' \in Seq(Runs)
    PROVE  AdminPrune'
<1>1. Cardinality(files') <= Cardinality(Files) /\ Cardinality(files') \in Nat
  BY FilesCount
<1>2. NoPrune.count["files"] = 0 /\ \A k \in Range(Tables) : NoPrune.count[k] = 0
  BY NoPruneIs, TablesAre
<1>3. NoPrune.count["files"] <= NoPrune.unlinked /\ NoPrune.unlinked + Cardinality(files') <= Cardinality(Files)
  BY <1>1, <1>2, NoPruneIs
<1> QED
  BY <1>2, <1>3, NoPruneIs DEF AdminPrune, Pruning

\* The counters of a prune are in the range a run records.
LEMMA CountBounded ==
    ASSUME AdminAssumption, AdminPrune PROVE prune.count \in [Kinds -> 0..Cardinality(Files) + 1]
<1>1. Cardinality(files) \in Nat /\ Cardinality(Files) \in Nat
  BY FilesCount DEF AdminPrune
<1>2. prune.count \in [Kinds -> Nat] /\ prune.unlinked \in Nat
  BY PruneIs
<1>3. ASSUME NEW k \in Kinds PROVE prune.count[k] \in 0..Cardinality(Files) + 1
  BY <1>1, <1>2, TablesAre DEF AdminPrune
<1> QED
  BY <1>2, <1>3

LEMMA PruneStartKeeps ==
    ASSUME AdminAssumption, AdminPrune, AdminCounts, PruneStart, UNCHANGED backend
    PROVE  AdminPrune' /\ AdminCounts'
<1>1. prune = NoPrune /\ UNCHANGED <<aged, files, deleted, along>> /\ Cardinality(Files) \in Nat
  BY FilesCount DEF PruneStart, AdminPrune, gone
<1>2. CASE Record("skipped", NoPrune.count) /\ UNCHANGED prune
  <2>1. NoPrune.count \in [Kinds -> 0..Cardinality(Files) + 1] /\ "skipped" \in Statuses
    BY <1>1 DEF NoPrune, Statuses
  <2>2. /\ runs' \in Seq(Runs) /\ claimed' \in [Statuses -> [Kinds -> Nat]]
        /\ \A s \in Statuses, k \in Kinds : claimed'[s][k] = claimed[s][k]
    BY <1>1, <1>2, <2>1, RecordTyped, NoPruneIs DEF AdminPrune
  <2>3. AdminPrune'
    BY <1>1, <1>2, <2>2 DEF AdminPrune, Pruning
  <2>4. AdminCounts'
    BY <1>1, <1>2, <2>2, TablesAre DEF AdminCounts, SQLiteCounts, Neo4jCounts, Statuses
  <2> QED
    BY <2>3, <2>4
<1>3. CASE prune' = [NoPrune EXCEPT !.step = 1] /\ UNCHANGED records
  <2>1. /\ prune' \in Prunes
        /\ prune'.step = 1 /\ prune'.rows = {} /\ prune'.newer = 0 /\ prune'.unlinked = 0 /\ prune'.count = NoPrune.count
    <3>1. NoPrune.count \in [Kinds -> Nat]
      BY DEF NoPrune
    <3>2. prune' = [step |-> 1, rows |-> {}, newer |-> 0, count |-> NoPrune.count, unlinked |-> 0]
      BY <1>3 DEF NoPrune
    <3> QED
      BY <3>1, <3>2, PruneMoves
  <2>2. AdminPrune'
    BY <1>1, <1>3, <2>1, NoPruneIs, TablesAre DEF AdminPrune, Pruning, records
  <2>3. AdminCounts'
    BY <1>1, <1>3, <2>1, NoPruneIs, TablesAre DEF AdminCounts, SQLiteCounts, Neo4jCounts, records
  <2> QED
    BY <2>2, <2>3
<1> QED
  BY <1>2, <1>3 DEF PruneStart

\* What one table adds to the prune under way.
LEMMA TableDoneIs ==
    ASSUME AdminPrune, NEW k \in Range(Tables), NEW counted \in BOOLEAN, NEW w \in {0, 1},
           prune.step \in DOMAIN Tables, TableDone(k, counted, w)
    PROVE  /\ prune' \in Prunes /\ prune'.step # 0 /\ prune'.newer = w
           /\ prune'.rows = prune.rows \union ({k} \intersect aged) /\ prune'.unlinked = prune.unlinked
           /\ counted => prune'.step # 5 /\ prune'.count[k] = Hit(k)
           /\ ~counted => prune'.step = 5 /\ prune'.count[k] = prune.count[k]
           /\ \A j \in Kinds : j # k => prune'.count[j] = prune.count[j]
<1>1. prune.step \in 1..2 /\ k \in Kinds /\ Len(Tables) = 2 /\ Hit(k) \in Nat
  BY TablesAre DEF Hit
<1>2. PICK g \in SUBSET Range(Tables) : g = prune.rows \union ({k} \intersect aged)
  BY PruneIs
<1>3. PICK c \in [Kinds -> Nat] : c = IF counted THEN [prune.count EXCEPT ![k] = Hit(k)] ELSE prune.count
  BY <1>1, PruneIs
<1>4. PICK n \in 1..5 : n = IF counted THEN prune.step + 1 ELSE 5
  BY <1>1
<1>5. prune' = [prune EXCEPT !.rows = g, !.newer = w, !.count = c, !.step = n]
  BY <1>1, <1>2, <1>3, <1>4 DEF TableDone
<1>6. prune' = [step |-> n, rows |-> g, newer |-> w, count |-> c, unlinked |-> prune.unlinked]
  BY <1>5, PruneIs
<1>7. /\ prune' \in Prunes /\ prune'.step = n /\ prune'.rows = g /\ prune'.newer = w
      /\ prune'.count = c /\ prune'.unlinked = prune.unlinked
  BY <1>6, PruneIs, PruneMoves
<1>8. (counted => c[k] = Hit(k)) /\ (~counted => c = prune.count) /\ \A j \in Kinds : j # k => c[j] = prune.count[j]
  BY <1>1, <1>3, PruneIs
<1> QED
  BY <1>1, <1>2, <1>4, <1>7, <1>8

LEMMA PruneTableKeeps ==
    ASSUME AdminAssumption, AdminPrune, AdminCounts, UNCHANGED backend,
           NEW k \in Range(Tables), NEW counted \in BOOLEAN, PruneTable(k, counted)
    PROVE  AdminPrune' /\ AdminCounts'
<1>1. /\ backend = "sqlite" /\ prune.step \in DOMAIN Tables
      /\ UNCHANGED <<aged, files, runs, claimed, deleted, along>>
  BY DEF PruneTable, records, gone
<1>0. PICK w \in {0, 1} : TableDone(k, counted, w) /\ (w = 1 => k = "nodes" /\ k \in aged)
  BY DEF PruneTable, Newer
<1>2. /\ prune' \in Prunes /\ prune'.step # 0 /\ prune'.newer = w
      /\ prune'.rows = prune.rows \union ({k} \intersect aged) /\ prune'.unlinked = prune.unlinked
      /\ counted => prune'.step # 5 /\ prune'.count[k] = Hit(k)
      /\ ~counted => prune'.step = 5 /\ prune'.count[k] = prune.count[k]
      /\ \A j \in Kinds : j # k => prune'.count[j] = prune.count[j]
  BY <1>0, <1>1, TableDoneIs
<1>3. prune.step # 5 /\ k # "files" /\ "files" \in Kinds /\ Range(Tables) \subseteq Kinds
  BY <1>1, TablesAre
<1>4. AdminPrune'
  <2>1. ASSUME NEW j \in Range(Tables) PROVE prune'.count[j] <= 1
    <3>1. prune.count[j] <= 1 /\ j \in Kinds
      BY AmountsAre DEF AdminPrune
    <3>2. Hit(k) \in {0, 1}
      BY DEF Hit
    <3>3. prune'.count[j] \in {prune.count[j], Hit(k)}
      BY <1>2, <3>1
    <3> QED
      BY <3>1, <3>2, <3>3
  <2>2. prune'.count["files"] <= prune'.unlinked /\ prune'.unlinked + Cardinality(files') <= Cardinality(Files)
    BY <1>1, <1>2, <1>3 DEF AdminPrune
  <2>3. aged' \subseteq aged /\ files' \subseteq Files /\ deleted' \in [Kinds -> Nat] /\ along' \in Nat
    BY <1>1 DEF AdminPrune
  <2> QED
    BY <1>1, <1>2, <2>1, <2>2, <2>3, PruneGoesOn
<1>5. SQLiteCounts'
  <2>1. prune'.rows \subseteq aged' /\ (prune'.newer = 1 => "nodes" \in prune'.rows)
    BY <1>0, <1>1, <1>2 DEF AdminCounts, SQLiteCounts
  <2>2. prune'.step # 5 => \A j \in Range(Tables) : prune'.count[j] = IF j \in prune'.rows THEN 1 ELSE 0
    BY <1>1, <1>2, <1>3 DEF AdminCounts, SQLiteCounts, Hit
  <2> QED
    BY <1>1, <2>1, <2>2 DEF AdminCounts, SQLiteCounts
<1>6. AdminCounts'
  BY <1>1, <1>2, <1>5 DEF AdminCounts
<1> QED
  BY <1>4, <1>6

LEMMA PruneLabelKeeps ==
    ASSUME AdminAssumption, AdminPrune, AdminCounts, UNCHANGED backend,
           NEW k \in Range(Tables), NEW counted \in BOOLEAN, PruneLabel(k, counted)
    PROVE  AdminPrune' /\ AdminCounts'
<1>1. /\ backend = "neo4j" /\ prune.step \in DOMAIN Tables /\ TableDone(k, counted, 0)
      /\ UNCHANGED <<files, runs, claimed>> /\ aged' = aged \ {k}
      /\ deleted' = [deleted EXCEPT ![k] = @ + Hit(k)]
  BY DEF PruneLabel, records
<1>0. PICK w \in {0, 1} : along' = along + w /\ (w = 1 => k = "nodes" /\ Hit(k) = 1)
  BY DEF PruneLabel, Newer, Hit
<1>2. /\ prune' \in Prunes /\ prune'.step # 0
      /\ prune'.unlinked = prune.unlinked
      /\ counted => prune'.count[k] = Hit(k)
      /\ ~counted => prune'.count[k] = prune.count[k]
      /\ \A j \in Kinds : j # k => prune'.count[j] = prune.count[j]
  BY <1>1, TableDoneIs
<1>3. /\ k # "files" /\ "files" \in Kinds /\ Range(Tables) \subseteq Kinds /\ Hit(k) \in {0, 1}
      /\ "completed" \in Statuses /\ "failed" \in Statuses
  BY TablesAre DEF Hit, Statuses
<1>4. /\ deleted' \in [Kinds -> Nat] /\ deleted'[k] = deleted[k] + Hit(k)
      /\ \A j \in Kinds : j # k => deleted'[j] = deleted[j]
  BY <1>1, <1>3 DEF AdminPrune
<1>5. AdminPrune'
  <2>1. ASSUME NEW j \in Range(Tables) PROVE prune'.count[j] <= 1
    <3>1. prune.count[j] <= 1 /\ j \in Kinds
      BY AmountsAre DEF AdminPrune
    <3>2. Hit(k) \in {0, 1}
      BY DEF Hit
    <3>3. prune'.count[j] \in {prune.count[j], Hit(k)}
      BY <1>2, <3>1
    <3> QED
      BY <3>1, <3>2, <3>3
  <2>2. prune'.count["files"] <= prune'.unlinked /\ prune'.unlinked + Cardinality(files') <= Cardinality(Files)
    BY <1>1, <1>2, <1>3 DEF AdminPrune
  <2>3. aged' \subseteq aged /\ files' \subseteq Files /\ along' \in Nat
    BY <1>0, <1>1 DEF AdminPrune
  <2> QED
    BY <1>1, <1>2, <1>4, <2>1, <2>2, <2>3, PruneGoesOn
<1>6. ASSUME NEW j \in Range(Tables)
      PROVE  claimed'["completed"][j] + claimed'["failed"][j] + prune'.count[j] <= deleted'[j]
  <2>1. /\ claimed["completed"][j] + claimed["failed"][j] + prune.count[j] <= deleted[j]
        /\ claimed["completed"][j] \in Nat /\ claimed["failed"][j] \in Nat /\ prune.count[j] \in Nat
        /\ deleted[j] \in Nat
    BY <1>1, AmountsAre DEF AdminCounts, Neo4jCounts
  <2> QED
    BY <1>1, <1>2, <1>3, <1>4, <2>1
<1>7. along' <= deleted'["nodes"]
  <2>1. along <= deleted["nodes"] /\ along \in Nat /\ deleted["nodes"] \in Nat /\ "nodes" \in Range(Tables)
    BY AmountsAre, TablesAre DEF AdminCounts
  <2>2. deleted'["nodes"] = deleted["nodes"] + IF k = "nodes" THEN Hit(k) ELSE 0
    BY <1>4, <2>1, TablesAre
  <2> QED
    BY <1>0, <1>3, <2>1, <2>2
<1>8. AdminCounts'
  BY <1>1, <1>2, <1>3, <1>4, <1>6, <1>7 DEF AdminCounts, Neo4jCounts
<1> QED
  BY <1>5, <1>8

\* A file unlinked and its count go together.
LEMMA UnlinkKeeps ==
    ASSUME AdminAssumption, AdminPrune, AdminCounts, UNCHANGED backend, NEW f \in Files, Unlink(f)
    PROVE  AdminPrune' /\ AdminCounts'
<1>1. /\ f \in files /\ files' = files \ {f} /\ prune.step = 3 /\ UNCHANGED <<aged, runs, claimed, along>>
      /\ deleted' = [deleted EXCEPT !["files"] = @ + 1] /\ prune' = [prune EXCEPT !.unlinked = @ + 1]
  BY TablesAre DEF Unlink, records
<1>2. /\ prune' \in Prunes
      /\ prune'.unlinked = prune.unlinked + 1 /\ prune'.count = prune.count /\ prune'.rows = prune.rows
      /\ prune'.newer = prune.newer /\ prune'.step = 3
  <2>1. prune' = [step |-> 3, rows |-> prune.rows, newer |-> prune.newer, count |-> prune.count, unlinked |-> prune.unlinked + 1]
    BY <1>1, PruneIs
  <2> QED
    BY <2>1, PruneIs, PruneMoves
<1>3. /\ deleted' \in [Kinds -> Nat] /\ deleted'["files"] = deleted["files"] + 1
      /\ \A k \in Range(Tables) : deleted'[k] = deleted[k]
  BY <1>1, TablesAre DEF AdminPrune
<1>4. Cardinality(files \ {f}) + 1 = Cardinality(files) /\ files \ {f} \subseteq Files
  BY <1>1, FilesCount DEF AdminPrune
<1>5. /\ Cardinality(files \ {f}) \in Nat /\ Cardinality(Files) \in Nat /\ prune.unlinked \in Nat
      /\ prune.count["files"] \in Nat
  BY <1>4, FilesCount, AmountsAre
<1>6. AdminPrune'
  <2>1. prune'.unlinked + Cardinality(files') <= Cardinality(Files)
    <3>1. prune.unlinked + Cardinality(files) <= Cardinality(Files)
      BY DEF AdminPrune
    <3> QED
      BY <1>1, <1>2, <1>4, <1>5, <3>1
  <2>2. prune'.count["files"] <= prune'.unlinked /\ \A k \in Range(Tables) : prune'.count[k] <= 1
    BY <1>2, <1>5 DEF AdminPrune
  <2>3. along' \in Nat
    BY <1>1 DEF AdminPrune
  <2> QED
    BY <1>1, <1>2, <1>3, <1>4, <2>1, <2>2, <2>3, PruneGoesOn
<1>7. claimed["completed"]["files"] \in Nat /\ claimed["failed"]["files"] \in Nat /\ deleted["files"] \in Nat
  BY AmountsAre
<1>8. AdminCounts'
  BY <1>1, <1>2, <1>3, <1>5, <1>7, TablesAre DEF AdminCounts, SQLiteCounts, Neo4jCounts
<1> QED
  BY <1>6, <1>8

LEMMA FilesDoneKeeps ==
    ASSUME AdminAssumption, AdminPrune, AdminCounts, UNCHANGED backend, FilesDone
    PROVE  AdminPrune' /\ AdminCounts'
<1>1. /\ prune.step = 3 /\ UNCHANGED <<aged, files, runs, claimed, deleted, along>>
      /\ prune' = [prune EXCEPT !.count["files"] = prune.unlinked, !.step = @ + 1]
  BY TablesAre DEF FilesDone, records, gone
<1>2. /\ prune' \in Prunes
      /\ prune'.unlinked = prune.unlinked /\ prune'.rows = prune.rows /\ prune'.newer = prune.newer /\ prune'.step = 4
      /\ prune'.count["files"] = prune.unlinked
      /\ \A k \in Range(Tables) : prune'.count[k] = prune.count[k]
  <2>1. PICK c \in [Kinds -> Nat] : c = [prune.count EXCEPT !["files"] = prune.unlinked]
    BY TablesAre, PruneIs
  <2>2. prune' = [prune EXCEPT !.count = c, !.step = 4]
    BY <1>1, <2>1
  <2>3. prune' = [step |-> 4, rows |-> prune.rows, newer |-> prune.newer, count |-> c, unlinked |-> prune.unlinked]
    BY <2>2, PruneIs
  <2>4. /\ prune' \in Prunes /\ prune'.step = 4 /\ prune'.rows = prune.rows /\ prune'.newer = prune.newer
        /\ prune'.count = c /\ prune'.unlinked = prune.unlinked
    BY <2>3, PruneIs, PruneMoves
  <2> QED
    BY <2>1, <2>4, TablesAre, PruneIs
<1>3. AdminPrune'
  <2>1. prune'.count["files"] <= prune'.unlinked /\ prune'.unlinked + Cardinality(files') <= Cardinality(Files)
    BY <1>1, <1>2, AmountsAre DEF AdminPrune
  <2>2. \A k \in Range(Tables) : prune'.count[k] <= 1
    BY <1>2 DEF AdminPrune
  <2>3. aged' \subseteq aged /\ files' \subseteq Files /\ deleted' \in [Kinds -> Nat] /\ along' \in Nat
    BY <1>1 DEF AdminPrune
  <2> QED
    BY <1>1, <1>2, <2>1, <2>2, <2>3, PruneGoesOn
<1>4. AdminCounts'
  BY <1>1, <1>2 DEF AdminCounts, SQLiteCounts, Neo4jCounts
<1> QED
  BY <1>3, <1>4

\* The record of a run and, in SQLite, the rows it counts become visible at once.
LEMMA PruneCommitKeeps ==
    ASSUME AdminAssumption, AdminPrune, AdminCounts, UNCHANGED backend, PruneCommit
    PROVE  AdminPrune' /\ AdminCounts'
<1>1. prune.step = 4 /\ Record("completed", prune.count) /\ prune' = NoPrune /\ UNCHANGED files
  BY TablesAre DEF PruneCommit
<1>2. Cardinality(Files) \in Nat /\ Cardinality(files) \in Nat /\ Cardinality(files) <= Cardinality(Files)
  BY FilesCount DEF AdminPrune
<1>3. /\ runs' \in Seq(Runs) /\ claimed' \in [Statuses -> [Kinds -> Nat]]
      /\ \A k \in Kinds : /\ claimed'["completed"][k] = claimed["completed"][k] + prune.count[k]
                          /\ claimed'["failed"][k] = claimed["failed"][k]
  BY <1>1, <1>2, RecordTyped, CountBounded DEF Statuses
<1>4. /\ "files" \in Kinds /\ Range(Tables) \subseteq Kinds /\ "files" \notin Range(Tables)
      /\ prune.unlinked \in Nat /\ prune.rows \subseteq Range(Tables) /\ along \in Nat
      /\ \A k \in Kinds : /\ deleted[k] \in Nat /\ prune.count[k] \in Nat
                          /\ claimed["completed"][k] \in Nat /\ claimed["failed"][k] \in Nat
  BY AmountsAre
<1>5. CASE backend = "sqlite"
  <2>1. aged' = aged \ prune.rows /\ deleted' = [k \in Kinds |-> deleted[k] + IF k \in prune.rows THEN 1 ELSE 0]
    BY <1>5 DEF PruneCommit
  <2>0. along' = along + prune.newer /\ prune.newer \in {0, 1} /\ "nodes" \in Kinds
    BY <1>5, PruneIs, TablesAre DEF PruneCommit
  <2>2. /\ deleted' \in [Kinds -> Nat] /\ aged' \subseteq aged /\ deleted'["files"] = deleted["files"]
        /\ along' \in Nat
    BY <2>0, <2>1, <1>4
  <2>3. AdminPrune'
    <3>1. aged' \subseteq Range(Tables) /\ files' \subseteq Files
      BY <1>1, <2>2 DEF AdminPrune
    <3> QED
      BY <1>1, <1>3, <2>2, <3>1, PruneEnds
  <2>4. SQLiteCounts'
    BY <1>1, <1>3, <1>4, <1>5, <2>1, NoPruneIs DEF AdminCounts, SQLiteCounts
  <2>5. AdminCounts'
    <3>1. prune.count["files"] <= prune.unlinked
      BY DEF AdminPrune
    <3>2. along' <= deleted'["nodes"]
      BY <1>4, <1>5, <2>0, <2>1 DEF AdminCounts, SQLiteCounts
    <3> QED
      BY <1>1, <1>3, <1>4, <1>5, <2>2, <2>4, <3>1, <3>2, NoPruneIs DEF AdminCounts
  <2> QED
    BY <2>3, <2>5
<1>6. CASE backend # "sqlite"
  <2>1. UNCHANGED <<aged, deleted, along>>
    BY <1>6 DEF PruneCommit, gone
  <2>2. AdminPrune'
    <3>1. aged' \subseteq Range(Tables) /\ files' \subseteq Files /\ deleted' \in [Kinds -> Nat] /\ along' \in Nat
      BY <1>1, <2>1 DEF AdminPrune
    <3> QED
      BY <1>1, <1>3, <3>1, PruneEnds
  <2>3. AdminCounts'
    <3>1. prune.count["files"] <= prune.unlinked
      BY DEF AdminPrune
    <3>2. backend = "neo4j" => Neo4jCounts'
      <4> SUFFICES ASSUME backend = "neo4j", NEW k \in Range(Tables)
                   PROVE  claimed'["completed"][k] + claimed'["failed"][k] + prune'.count[k] <= deleted'[k]
        BY DEF Neo4jCounts
      <4>1. claimed["completed"][k] + claimed["failed"][k] + prune.count[k] <= deleted[k] /\ k \in Kinds
        BY <1>4 DEF AdminCounts, Neo4jCounts
      <4> QED
        BY <1>1, <1>3, <1>4, <2>1, NoPruneIs, <4>1
    <3> QED
      BY <1>1, <1>3, <1>4, <1>6, <2>1, <3>1, <3>2, NoPruneIs DEF AdminCounts
  <2> QED
    BY <2>2, <2>3
<1> QED
  BY <1>5, <1>6

LEMMA PruneFailsKeeps ==
    ASSUME AdminAssumption, AdminPrune, AdminCounts, UNCHANGED backend, PruneFails
    PROVE  AdminPrune' /\ AdminCounts'
<1>1. Record("failed", prune.count) /\ prune' = NoPrune /\ UNCHANGED <<aged, files, deleted, along>>
  BY DEF PruneFails, gone
<1>2. Cardinality(Files) \in Nat /\ Cardinality(files) \in Nat /\ Cardinality(files) <= Cardinality(Files)
  BY FilesCount DEF AdminPrune
<1>3. /\ runs' \in Seq(Runs) /\ claimed' \in [Statuses -> [Kinds -> Nat]]
      /\ \A k \in Kinds : /\ claimed'["failed"][k] = claimed["failed"][k] + prune.count[k]
                          /\ claimed'["completed"][k] = claimed["completed"][k]
  BY <1>1, <1>2, RecordTyped, CountBounded DEF Statuses
<1>4. /\ "files" \in Kinds /\ Range(Tables) \subseteq Kinds /\ prune.unlinked \in Nat
      /\ \A k \in Kinds : /\ deleted[k] \in Nat /\ prune.count[k] \in Nat
                          /\ claimed["completed"][k] \in Nat /\ claimed["failed"][k] \in Nat
  BY AmountsAre
<1>5. AdminPrune'
  <2>1. aged' \subseteq Range(Tables) /\ files' \subseteq Files /\ deleted' \in [Kinds -> Nat] /\ along' \in Nat
    BY <1>1 DEF AdminPrune
  <2> QED
    BY <1>1, <1>3, <2>1, PruneEnds
<1>6. AdminCounts'
  <2>1. prune.count["files"] <= prune.unlinked
    BY DEF AdminPrune
  <2>2. backend = "sqlite" => SQLiteCounts'
    BY <1>1, <1>3, <1>4, NoPruneIs DEF AdminCounts, SQLiteCounts
  <2>3. backend = "neo4j" => Neo4jCounts'
    <3> SUFFICES ASSUME backend = "neo4j", NEW k \in Range(Tables)
                 PROVE  claimed'["completed"][k] + claimed'["failed"][k] + prune'.count[k] <= deleted'[k]
      BY DEF Neo4jCounts
    <3>1. claimed["completed"][k] + claimed["failed"][k] + prune.count[k] <= deleted[k] /\ k \in Kinds
      BY <1>4 DEF AdminCounts, Neo4jCounts
    <3> QED
      BY <1>1, <1>3, <1>4, NoPruneIs, <3>1
  <2> QED
    BY <1>1, <1>3, <1>4, <2>1, <2>2, <2>3, NoPruneIs DEF AdminCounts
<1> QED
  BY <1>5, <1>6

LEMMA CrashKeeps ==
    ASSUME AdminAssumption, AdminInv, UNCHANGED backend, Crash PROVE AdminInv'
<1>1. /\ prune' = NoPrune /\ save' = [save EXCEPT !.calls = [t \in Savers |-> NoSave]]
      /\ UNCHANGED <<rowOf, kept, aged, files, runs, claimed, deleted, along>>
  BY DEF Crash, records, gone
<1>2. Cardinality(Files) \in Nat /\ Cardinality(files) \in Nat /\ Cardinality(files) <= Cardinality(Files)
  BY FilesCount DEF AdminInv, AdminPrune
<1>3. AdminPrune'
  BY <1>1, <1>2, NoPruneIs, TablesAre DEF AdminInv, AdminPrune, Pruning
<1>4. AdminCounts'
  <2>1. /\ "files" \in Kinds /\ Range(Tables) \subseteq Kinds /\ prune.unlinked \in Nat
        /\ \A k \in Kinds : /\ deleted[k] \in Nat /\ prune.count[k] \in Nat
                            /\ claimed["completed"][k] \in Nat /\ claimed["failed"][k] \in Nat
    BY AmountsAre DEF AdminInv
  <2> QED
    BY <1>1, <2>1, NoPruneIs DEF AdminInv, AdminCounts, SQLiteCounts, Neo4jCounts
<1>5. NoSave \in Calls /\ NoSave.read = FALSE
  BY DEF NoSave, Calls, Values, Unset, AdminAssumption
<1>6. save' \in [calls : [Savers -> Calls], times : Nat] /\ \A t \in Savers : save'.calls[t] = NoSave
  BY <1>1, <1>5 DEF AdminInv, AdminSaves
<1>7. AdminSaves'
  BY <1>1, <1>5, <1>6 DEF AdminInv, AdminSaves, KeptUnlessOverlapped
<1> QED
  BY <1>3, <1>4, <1>7 DEF AdminInv

LEMMA AgesKeeps ==
    ASSUME AdminAssumption, AdminPrune, AdminCounts, UNCHANGED backend, Ages
    PROVE  AdminPrune' /\ AdminCounts'
<1>1. prune = NoPrune /\ aged' = Range(Tables) /\ files' = Files /\ UNCHANGED <<prune, runs, claimed, deleted, along>>
  BY DEF Ages, AdminPrune, records, gone
<1>2. Cardinality(Files) \in Nat
  BY FilesCount
<1>3. AdminPrune'
  BY <1>1, <1>2, NoPruneIs DEF AdminPrune, Pruning
<1>4. AdminCounts'
  BY <1>1, NoPruneIs DEF AdminCounts, SQLiteCounts, Neo4jCounts
<1> QED
  BY <1>3, <1>4

LEMMA AdminSteps == AdminAssumption /\ AdminInv /\ [AdminNext]_adminVars => AdminInv'
<1> SUFFICES ASSUME AdminAssumption, AdminInv, [AdminNext]_adminVars PROVE AdminInv'
  OBVIOUS
<1>1. AdminSaves /\ AdminPrune /\ AdminCounts
  BY DEF AdminInv
<1>2. CASE UNCHANGED adminVars
  BY <1>1, <1>2, SavingKept, PruningKept DEF adminVars, AdminInv
<1>3. CASE AdminNext
  <2>1. UNCHANGED backend
    BY <1>3 DEF AdminNext
  <2>2. ASSUME UNCHANGED saving, AdminPrune' /\ AdminCounts' PROVE AdminInv'
    BY <1>1, <2>2, SavingKept DEF AdminInv
  <2>3. ASSUME UNCHANGED pruning, AdminSaves' PROVE AdminInv'
    BY <1>1, <2>1, <2>3, PruningKept DEF AdminInv
  <2>4. CASE \E t \in Savers, p \in Places, given \in [Fields -> Values \union {Unset}] : ReadRow(t, p, given)
    <3>1. PICK t \in Savers, p \in Places, given \in [Fields -> Values \union {Unset}] : ReadRow(t, p, given)
      BY <2>4
    <3>2. UNCHANGED pruning
      BY <3>1 DEF ReadRow
    <3> QED
      BY <1>1, <2>3, <3>1, <3>2, ReadRowKeeps
  <2>5. CASE \E t \in Savers : WriteRow(t)
    <3>1. PICK t \in Savers : WriteRow(t)
      BY <2>5
    <3>2. UNCHANGED pruning
      BY <3>1 DEF WriteRow
    <3> QED
      BY <1>1, <2>3, <3>1, <3>2, WriteRowKeeps
  <2>6. CASE PruneStart
    <3>1. UNCHANGED saving
      BY <2>6 DEF PruneStart
    <3> QED
      BY <1>1, <2>1, <2>2, <2>6, <3>1, PruneStartKeeps
  <2>7. CASE \E k \in Range(Tables), counted \in BOOLEAN : PruneTable(k, counted) \/ PruneLabel(k, counted)
    <3>1. PICK k \in Range(Tables), counted \in BOOLEAN : PruneTable(k, counted) \/ PruneLabel(k, counted)
      BY <2>7
    <3>2. UNCHANGED saving
      BY <3>1 DEF PruneTable, PruneLabel
    <3> QED
      BY <1>1, <2>1, <2>2, <3>1, <3>2, PruneTableKeeps, PruneLabelKeeps
  <2>8. CASE \E f \in Files : Unlink(f)
    <3>1. PICK f \in Files : Unlink(f)
      BY <2>8
    <3>2. UNCHANGED saving
      BY <3>1 DEF Unlink
    <3> QED
      BY <1>1, <2>1, <2>2, <3>1, <3>2, UnlinkKeeps
  <2>9. CASE FilesDone \/ PruneCommit \/ PruneFails \/ Ages
    <3>1. UNCHANGED saving
      BY <2>9 DEF FilesDone, PruneCommit, PruneFails, Ages
    <3> QED
      BY <1>1, <2>1, <2>2, <2>9, <3>1, FilesDoneKeeps, PruneCommitKeeps, PruneFailsKeeps, AgesKeeps
  <2>10. CASE Crash
    BY <2>1, <2>10, CrashKeeps
  <2> QED
    BY <1>3, <2>4, <2>5, <2>6, <2>7, <2>8, <2>9, <2>10 DEF AdminNext, AdminStep
<1> QED
  BY <1>2, <1>3

LEMMA AdminInvGives == AdminAssumption /\ AdminInv => AdministrationSound
<1> SUFFICES ASSUME AdminAssumption, AdminInv PROVE AdministrationSound
  OBVIOUS
<1>1. AdminTypeOK
  <2>1. \A i \in DOMAIN runs : runs[i].count \in [Kinds -> 0..Cardinality(Files) + 1]
    <3>1. PICK r \in Seq(Runs) : r = runs
      BY DEF AdminInv, AdminPrune
    <3>2. \A i \in DOMAIN r : r[i] \in Runs
      BY <3>1
    <3> QED
      BY <3>1, <3>2 DEF Runs
  <2> QED
    <3>1. prune.step \in 0..5
      BY PruneIs DEF AdminInv
    <3> QED
      BY <2>1, <3>1, TablesAre DEF AdminInv, AdminSaves, AdminPrune, AdminTypeOK
<1>2. KeptUnlessOverlapped
  BY DEF AdminInv, AdminSaves
<1>3. RowsGoWithTheirRun
  <2>1. /\ "files" \in Kinds /\ Range(Tables) \subseteq Kinds /\ prune.unlinked \in Nat
        /\ \A k \in Kinds : /\ deleted[k] \in Nat /\ prune.count[k] \in Nat
                            /\ claimed["completed"][k] \in Nat /\ claimed["failed"][k] \in Nat
    BY AmountsAre DEF AdminInv
  <2> QED
    BY <2>1 DEF AdminInv, AdminCounts, SQLiteCounts, Neo4jCounts, RowsGoWithTheirRun
<1> QED
  BY <1>1, <1>2, <1>3 DEF AdministrationSound

\* For any threads, rows, files and bounds, on either backend: a finished save's
\* fields stay until a save that gives them or that had read the row before; rows past
\* the cutoff go together with the completed run that counts them (SQLite) or are gone
\* before a run counts them (Neo4j), no run counts a file still there, and a newer
\* edge goes only with a node: MemoryGraph.prune_retention and Neo4jMemoryGraph's.
THEOREM AdministrationIsSound == ASSUME AdminAssumption PROVE AdminSpec => []AdministrationSound
<1>1. AdminInit => AdminInv
  BY AdminStarts
<1>2. AdminInv /\ [AdminNext]_adminVars => AdminInv'
  BY AdminSteps
<1>3. AdminInv => AdministrationSound
  BY AdminInvGives
<1> QED
  BY <1>1, <1>2, <1>3, PTL DEF AdminSpec

-----------------------------------------------------------------------------
(***************************************************************************)
(* DemoTenants.  Between its look at the tenants and its end, an admission *)
(* holds the write lock: what it has seen of the capacity stays true.      *)
(***************************************************************************)
DemoStages == {"idle", "admit", "known", "full", "insert", "look", "seed", "do"}
DemoCalls == [at : DemoStages, session : Sessions \union {NoOne}, does : {"none", "read", "edit", "reset"}]

Admitting == {"known", "full", "insert"}
Admitted == {"known", "look", "seed", "do"}

CallsTyped == demoCall \in [DemoProcs -> DemoCalls]
CallsHold ==
    \A p \in DemoProcs :
        /\ demoCall[p].at # "idle" => demoCall[p].session \in Sessions
        /\ demoCall[p].at \in Admitting => demoWriter = p
        /\ demoCall[p].at = "insert" => Cardinality(tenants) < Capacity
        /\ demoCall[p].at \in Admitted => demoCall[p].session \in tenants

DemoInv ==
    /\ DemoTypeOK /\ CallsTyped /\ CallsHold
    /\ demoTrail \in [Sessions -> Nat] /\ emptied \in [Sessions -> Nat] /\ IsFiniteSet(tenants)
    /\ CapacityHeld /\ WorkIsKept

LEMMA DemoStarts == DemoAssumption /\ DemoInit => DemoInv
<1> SUFFICES ASSUME DemoAssumption, DemoInit PROVE DemoInv
  OBVIOUS
<1>1. IsFiniteSet(tenants) /\ Cardinality(tenants) = 0
  BY FS_EmptySet DEF DemoInit
<1>2. CallsTyped /\ CallsHold
  BY DEF DemoInit, CallsTyped, CallsHold, DemoCalls, DemoStages, NoCall, Admitting, Admitted
<1>3. DemoTypeOK /\ CapacityHeld /\ WorkIsKept
  BY <1>1 DEF DemoInit, DemoTypeOK, CapacityHeld, WorkIsKept, DemoAssumption
<1> QED
  BY <1>1, <1>2, <1>3 DEF DemoInit, DemoInv

LEMMA GoesMoves ==
    ASSUME CallsTyped, NEW p \in DemoProcs, NEW stage \in DemoStages, DemoGoes(p, stage)
    PROVE  /\ CallsTyped' /\ demoCall'[p].at = stage /\ demoCall'[p].session = demoCall[p].session
           /\ demoCall'[p].does = demoCall[p].does
           /\ \A q \in DemoProcs : q # p => demoCall'[q] = demoCall[q]
<1>1. PICK c \in DemoCalls : c = [demoCall[p] EXCEPT !.at = stage]
  BY DEF CallsTyped, DemoCalls
<1>2. c.at = stage /\ c.session = demoCall[p].session /\ c.does = demoCall[p].does
  BY <1>1 DEF CallsTyped, DemoCalls
<1>3. demoCall' = [demoCall EXCEPT ![p] = c]
  BY <1>1 DEF DemoGoes
<1> QED
  BY <1>2, <1>3 DEF CallsTyped

LEMMA EndsMoves ==
    ASSUME CallsTyped, NEW p \in DemoProcs, DemoEnds(p)
    PROVE  /\ CallsTyped' /\ demoCall'[p].at = "idle"
           /\ \A q \in DemoProcs : q # p => demoCall'[q] = demoCall[q]
<1>1. NoCall \in DemoCalls /\ NoCall.at = "idle"
  BY DEF NoCall, DemoCalls, DemoStages
<1> QED
  BY <1>1 DEF DemoEnds, CallsTyped

\* A step that leaves the lock and the tenants alone.
LEMMA OneMoves ==
    ASSUME CallsTyped, CallsHold, NEW p \in DemoProcs, UNCHANGED <<demoWriter, tenants>>,
           \A q \in DemoProcs : q # p => demoCall'[q] = demoCall[q],
           demoCall'[p].at \in {"idle", "admit", "look", "seed", "do"},
           demoCall'[p].at # "idle" => demoCall'[p].session \in Sessions,
           demoCall'[p].at \in {"look", "seed", "do"} => demoCall'[p].session \in tenants
    PROVE  CallsHold'
BY DEF CallsHold, Admitting, Admitted

LEMMA ArriveKeepsDemo ==
    ASSUME DemoInv, NEW p \in DemoProcs, NEW h \in Sessions \union {NoOne}, NEW c \in Sessions \union {NoOne},
           NEW d \in {"read", "edit", "reset"}, DemoArrive(p, h, c, d)
    PROVE  DemoInv'
<1>1. PICK s \in SessionOf(h, c) :
        demoCall' = [demoCall EXCEPT ![p] = [NoCall EXCEPT !.at = "admit", !.session = s, !.does = d]]
  BY DEF DemoArrive
<1>2. s \in Sessions
  BY DEF SessionOf
<1>3. PICK n \in DemoCalls : n = [NoCall EXCEPT !.at = "admit", !.session = s, !.does = d]
  BY <1>2 DEF NoCall, DemoCalls, DemoStages
<1>4. n.at = "admit" /\ n.session = s
  BY <1>3 DEF NoCall
<1>5. /\ CallsTyped' /\ demoCall'[p] = n
      /\ \A q \in DemoProcs : q # p => demoCall'[q] = demoCall[q]
  BY <1>1, <1>3 DEF DemoInv, CallsTyped
<1>6. UNCHANGED <<demoWriter, tenants, project, outside, demoTrail, worked, emptied>>
  BY DEF DemoArrive, store, edited
<1>7. CallsHold'
  BY <1>2, <1>4, <1>5, <1>6, OneMoves DEF DemoInv
<1> QED
  BY <1>5, <1>6, <1>7 DEF DemoInv, DemoTypeOK, CapacityHeld, WorkIsKept

\* The lock was free: nobody else is in an admission.
LEMMA BeginKeepsDemo ==
    ASSUME DemoAssumption, DemoInv, NEW p \in DemoProcs, BeginAdmission(p) PROVE DemoInv'
<1> DEFINE s == demoCall[p].session
           stage == IF s \in tenants THEN "known" ELSE IF Cardinality(tenants) >= Capacity THEN "full" ELSE "insert"
<1>1. /\ demoCall[p].at = "admit" /\ demoWriter = NoOne /\ demoWriter' = p /\ DemoGoes(p, stage)
      /\ UNCHANGED <<tenants, project, outside, demoTrail, worked, emptied>>
  BY DEF BeginAdmission, Takes, store, edited
<1>2. stage \in Admitting /\ (stage = "known" => s \in tenants) /\ (stage = "insert" => ~(Cardinality(tenants) >= Capacity))
  BY DEF Admitting
<1>3. s \in Sessions
  BY <1>1 DEF DemoInv, CallsHold
<1> HIDE DEF stage, s
<1>4. /\ CallsTyped' /\ demoCall'[p].at = stage /\ demoCall'[p].session = s
      /\ \A q \in DemoProcs : q # p => demoCall'[q] = demoCall[q]
  BY <1>1, <1>2, GoesMoves DEF DemoInv, DemoStages, Admitting, s
<1>5. \A q \in DemoProcs : demoCall[q].at \notin Admitting
  BY <1>1 DEF DemoInv, CallsHold, DemoAssumption
<1>6. Cardinality(tenants) \in Nat /\ Capacity \in Nat
  BY FS_CardinalityType DEF DemoInv, DemoAssumption
<1>7. ~(Cardinality(tenants) >= Capacity) => Cardinality(tenants) < Capacity
  BY <1>6
<1>8. CallsHold'
  <2> SUFFICES ASSUME NEW q \in DemoProcs
               PROVE  /\ demoCall'[q].at # "idle" => demoCall'[q].session \in Sessions
                      /\ demoCall'[q].at \in Admitting => demoWriter' = q
                      /\ demoCall'[q].at = "insert" => Cardinality(tenants') < Capacity
                      /\ demoCall'[q].at \in Admitted => demoCall'[q].session \in tenants'
    BY DEF CallsHold
  <2>1. CASE q = p
    BY <1>1, <1>2, <1>3, <1>4, <1>7, <2>1 DEF Admitting, Admitted
  <2>2. CASE q # p
    BY <1>1, <1>4, <1>5, <2>2 DEF DemoInv, CallsHold, Admitting
  <2> QED
    BY <2>1, <2>2
<1> QED
  BY <1>1, <1>4, <1>8 DEF DemoInv, DemoTypeOK, CapacityHeld, WorkIsKept

\* The one that holds the lock is the only one in an admission.
LEMMA EndKeepsDemo ==
    ASSUME DemoAssumption, DemoInv, NEW p \in DemoProcs, EndAdmission(p) PROVE DemoInv'
<1> DEFINE s == demoCall[p].session
<1>1. /\ demoCall[p].at \in Admitting /\ demoWriter = p /\ demoWriter' = NoOne
      /\ UNCHANGED <<project, outside, demoTrail, worked, emptied>>
  BY DEF EndAdmission, edited, Admitting, DemoInv, CallsHold
<1>2. s \in Sessions
  BY <1>1 DEF DemoInv, CallsHold, Admitting
<1>3. tenants' = IF demoCall[p].at = "insert" THEN tenants \union {s} ELSE tenants
  BY DEF EndAdmission
<1>4. Cardinality(tenants) \in Nat /\ Capacity \in Nat
  BY FS_CardinalityType DEF DemoInv, DemoAssumption
<1>5. tenants \subseteq tenants' /\ tenants' \subseteq Sessions /\ IsFiniteSet(tenants')
  BY <1>2, <1>3, FS_AddElement DEF DemoInv, DemoTypeOK
<1>6. CapacityHeld'
  <2>1. CASE demoCall[p].at = "insert"
    <3>1. Cardinality(tenants) < Capacity
      BY <2>1 DEF DemoInv, CallsHold
    <3>2. Cardinality(tenants') \in {Cardinality(tenants), Cardinality(tenants) + 1}
      BY <1>3, <2>1, FS_AddElement DEF DemoInv
    <3> QED
      BY <1>4, <3>1, <3>2 DEF CapacityHeld
  <2>2. CASE demoCall[p].at # "insert"
    BY <1>3, <2>2 DEF DemoInv, CapacityHeld
  <2> QED
    BY <2>1, <2>2
<1>7. \A q \in DemoProcs : q # p => demoCall[q].at \notin Admitting
  BY <1>1 DEF DemoInv, CallsHold
<1>8. /\ CallsTyped' /\ \A q \in DemoProcs : q # p => demoCall'[q] = demoCall[q]
      /\ \/ demoCall'[p].at = "idle"
         \/ demoCall'[p].at = "look" /\ demoCall'[p].session = s /\ demoCall[p].at \in {"known", "insert"}
  <2>1. CASE demoCall[p].at = "full"
    <3>1. DemoEnds(p)
      BY <2>1 DEF EndAdmission
    <3> QED
      BY <3>1, EndsMoves DEF DemoInv
  <2>2. CASE demoCall[p].at # "full"
    <3>1. DemoGoes(p, "look") /\ "look" \in DemoStages
      BY <2>2 DEF EndAdmission, DemoStages
    <3>2. demoCall[p].at \in {"known", "insert"}
      BY <1>1, <2>2 DEF Admitting
    <3> QED
      BY <3>1, <3>2, GoesMoves DEF DemoInv
  <2> QED
    BY <2>1, <2>2
<1>9. demoCall[p].at \in {"known", "insert"} => s \in tenants'
  BY <1>3, <1>5 DEF DemoInv, CallsHold, Admitted
<1>10. CallsHold'
  <2> SUFFICES ASSUME NEW q \in DemoProcs
               PROVE  /\ demoCall'[q].at # "idle" => demoCall'[q].session \in Sessions
                      /\ demoCall'[q].at \in Admitting => demoWriter' = q
                      /\ demoCall'[q].at = "insert" => Cardinality(tenants') < Capacity
                      /\ demoCall'[q].at \in Admitted => demoCall'[q].session \in tenants'
    BY DEF CallsHold
  <2>1. CASE q = p
    BY <1>2, <1>8, <1>9, <2>1 DEF Admitting, Admitted
  <2>2. CASE q # p
    BY <1>1, <1>5, <1>7, <1>8, <2>2 DEF DemoInv, CallsHold, Admitting
  <2> QED
    BY <2>1, <2>2
<1> QED
  BY <1>1, <1>5, <1>6, <1>8, <1>10 DEF DemoInv, DemoTypeOK, WorkIsKept

\* One operation of an edit, or a reset, of a session that has been admitted.
LEMMA EditKeepsDemo ==
    ASSUME DemoAssumption, DemoInv, NEW p \in DemoProcs, Edit(p) \/ Reset(p), demoCall[p].session \in tenants,
           UNCHANGED demoWriter
    PROVE  DemoTypeOK' /\ demoTrail' \in [Sessions -> Nat] /\ emptied' \in [Sessions -> Nat] /\ WorkIsKept'
<1> DEFINE s == demoCall[p].session
<1>1. /\ s \in Sessions /\ s \in tenants /\ project \in [Sessions -> {"none", "seed", "work"}]
      /\ demoTrail \in [Sessions -> Nat] /\ emptied \in [Sessions -> Nat] /\ WorkIsKept
      /\ outside \subseteq tenants /\ worked \subseteq tenants /\ tenants \subseteq Sessions /\ MaxRequests \in Nat
  BY DEF DemoInv, DemoTypeOK, DemoAssumption
<1> HIDE DEF s
<1>2. ASSUME UNCHANGED <<project, demoTrail, worked, emptied>>
      PROVE  demoTrail' \in [Sessions -> Nat] /\ emptied' \in [Sessions -> Nat] /\ worked' \subseteq tenants
             /\ project' \in [Sessions -> {"none", "seed", "work"}] /\ (tenants' = tenants => WorkIsKept')
  BY <1>1, <1>2 DEF WorkIsKept
<1>3. UNCHANGED tenants /\ outside' \subseteq tenants
  BY <1>1 DEF Edit, Reset, s
<1>4. demoWriter' \in DemoProcs \union {NoOne} /\ tenants' \subseteq Sessions
  BY <1>1, <1>3 DEF DemoInv, DemoTypeOK
<1>5. CASE Edit(p)
  <2>1. PICK content \in {"none", "work"} :
          /\ project' = [project EXCEPT ![s] = content]
          /\ content = "none" /\ project[s] # "none" => project[s] = "work"
          /\ worked' = (IF content = "work" THEN worked \union {s} ELSE worked \ {s})
          /\ emptied' = [emptied EXCEPT ![s] = @ + IF content = "none" /\ project[s] # "none" THEN 1 ELSE 0]
          /\ demoTrail' = demoTrail
    BY <1>5 DEF Edit, s
  <2>2. /\ project' \in [Sessions -> {"none", "seed", "work"}] /\ project'[s] = content
        /\ \A x \in Sessions : x # s => project'[x] = project[x]
    BY <1>1, <2>1
  <2>3. /\ emptied' \in [Sessions -> Nat] /\ \A x \in Sessions : x # s => emptied'[x] = emptied[x]
        /\ emptied'[s] = emptied[s] + IF content = "none" /\ project[s] # "none" THEN 1 ELSE 0
    BY <1>1, <2>1
  <2>4. WorkIsKept'
    <3> SUFFICES ASSUME NEW x \in Sessions
                 PROVE  /\ project'[x] # "none" => x \in tenants
                        /\ demoTrail[x] <= emptied'[x] + (IF project'[x] = "none" THEN 0 ELSE 1)
                        /\ project'[x] = "seed" => demoTrail[x] > 0
                        /\ x \in worked' <=> project'[x] = "work"
      BY <1>3, <2>1 DEF WorkIsKept
    <3>1. /\ project[x] # "none" => x \in tenants
          /\ demoTrail[x] <= emptied[x] + (IF project[x] = "none" THEN 0 ELSE 1)
          /\ project[x] = "seed" => demoTrail[x] > 0
          /\ x \in worked <=> project[x] = "work"
          /\ demoTrail[x] \in Nat /\ emptied[x] \in Nat
      BY <1>1 DEF WorkIsKept
    <3> QED
      BY <1>1, <2>1, <2>2, <2>3, <3>1
  <2> QED
    <3>1. worked' \subseteq tenants
      BY <1>1, <2>1
    <3> QED
      BY <1>1, <1>3, <1>4, <2>1, <2>2, <2>3, <2>4, <3>1 DEF DemoTypeOK
<1>6. CASE Reset(p) /\ s \in outside
  <2>1. UNCHANGED <<project, demoTrail, worked, emptied>>
    BY <1>6 DEF Reset, s
  <2> QED
    BY <1>2, <1>3, <1>4, <2>1 DEF DemoTypeOK
<1>7. CASE Reset(p) /\ s \notin outside
  <2>1. /\ project' = [project EXCEPT ![s] = "seed"] /\ worked' = worked \ {s}
        /\ demoTrail' = [demoTrail EXCEPT ![s] = 1] /\ emptied' = [emptied EXCEPT ![s] = 0]
    BY <1>7 DEF Reset, s
  <2> QED
    <3>1. /\ project' \in [Sessions -> {"none", "seed", "work"}] /\ project'[s] = "seed"
          /\ demoTrail' \in [Sessions -> Nat] /\ demoTrail'[s] = 1
          /\ emptied' \in [Sessions -> Nat] /\ emptied'[s] = 0 /\ worked' \subseteq tenants
      BY <1>1, <2>1
    <3>2. \A x \in Sessions : x # s => project'[x] = project[x] /\ demoTrail'[x] = demoTrail[x] /\ emptied'[x] = emptied[x]
      BY <1>1, <2>1
    <3>3. WorkIsKept'
      BY <1>1, <1>3, <2>1, <3>1, <3>2 DEF WorkIsKept
    <3> QED
      BY <1>3, <1>4, <3>1, <3>3 DEF DemoTypeOK
<1> QED
  BY <1>5, <1>6, <1>7

\* The look, the seed, the request itself and a failure change one project at most.
LEMMA RestKeepsDemo ==
    ASSUME DemoAssumption, DemoInv, NEW p \in DemoProcs, Look(p) \/ Seed(p) \/ Busy(p) \/ Do(p) PROVE DemoInv'
<1> DEFINE s == demoCall[p].session
<1>1. UNCHANGED <<demoWriter, tenants>> /\ demoCall[p].at \in {"look", "seed", "do", "admit"}
  BY DEF Look, Seed, Busy, Do, Edit, Reset, store
<1>2. Look(p) \/ Seed(p) \/ Do(p) => s \in tenants /\ s \in Sessions
  BY DEF Look, Seed, Do, DemoInv, CallsHold, Admitted
<1>3. /\ CallsTyped' /\ \A q \in DemoProcs : q # p => demoCall'[q] = demoCall[q]
      /\ demoCall'[p].at \in {"idle", "seed", "do"}
      /\ demoCall'[p].at \in {"seed", "do"} => demoCall'[p].session \in tenants /\ demoCall'[p].session \in Sessions
  <2>1. \/ DemoEnds(p)
        \/ \E stage \in {"seed", "do"} : DemoGoes(p, stage) /\ (Look(p) \/ Seed(p))
        \/ Do(p) /\ UNCHANGED demoCall
    BY DEF Look, Seed, Busy, Do, Edit, Reset
  <2>2. CASE DemoEnds(p)
    BY <2>2, EndsMoves DEF DemoInv
  <2>3. ASSUME NEW stage \in {"seed", "do"}, DemoGoes(p, stage), Look(p) \/ Seed(p)
        PROVE  /\ CallsTyped' /\ demoCall'[p].at = stage /\ demoCall'[p].session = s
               /\ \A q \in DemoProcs : q # p => demoCall'[q] = demoCall[q]
    BY <2>3, GoesMoves DEF DemoInv, DemoStages
  <2>4. CASE Do(p) /\ UNCHANGED demoCall
    BY <1>2, <2>4 DEF Do, DemoInv, CallsTyped
  <2> QED
    BY <1>2, <2>1, <2>2, <2>3, <2>4
<1>4. CallsHold'
  BY <1>1, <1>3, OneMoves DEF DemoInv
<1>5. DemoTypeOK' /\ demoTrail' \in [Sessions -> Nat] /\ emptied' \in [Sessions -> Nat] /\ WorkIsKept'
  <2>1. CASE UNCHANGED <<project, outside, demoTrail, worked, emptied>>
    BY <1>1, <2>1 DEF DemoInv, DemoTypeOK, WorkIsKept
  <2>2. CASE Seed(p) /\ IdsFree(s)
    <3>1. /\ project' = [project EXCEPT ![s] = "seed"] /\ demoTrail' = [demoTrail EXCEPT ![s] = @ + 1]
          /\ UNCHANGED <<outside, worked, emptied>>
      BY <2>2 DEF Seed, edited
    <3>2. demoTrail[s] <= emptied[s] /\ demoTrail[s] \in Nat /\ emptied[s] \in Nat /\ s \notin worked
      BY <1>2, <2>2 DEF DemoInv, WorkIsKept, IdsFree
    <3>3. project' \in [Sessions -> {"none", "seed", "work"}] /\ demoTrail' \in [Sessions -> Nat]
      BY <1>2, <2>2, <3>1, <3>2 DEF DemoInv, DemoTypeOK
    <3>4. WorkIsKept'
      BY <1>1, <1>2, <2>2, <3>1, <3>2 DEF DemoInv, DemoTypeOK, WorkIsKept
    <3> QED
      BY <1>1, <3>1, <3>3, <3>4 DEF DemoInv, DemoTypeOK
  <2>3. CASE Do(p) /\ (Edit(p) \/ Reset(p))
    BY <1>1, <1>2, <2>3, EditKeepsDemo
  <2> QED
    BY <2>1, <2>2, <2>3 DEF Look, Seed, Busy, Do, store, edited
<1> QED
  BY <1>1, <1>3, <1>4, <1>5 DEF DemoInv, CapacityHeld

LEMMA DemoCrashKeeps == ASSUME DemoAssumption, DemoInv, NEW p \in DemoProcs, DemoCrash(p) PROVE DemoInv'
<1>1. /\ DemoEnds(p) /\ demoWriter' = (IF demoWriter = p THEN NoOne ELSE demoWriter)
      /\ UNCHANGED <<tenants, project, outside, demoTrail, worked, emptied>>
  BY DEF DemoCrash, store, edited
<1>2. /\ CallsTyped' /\ demoCall'[p].at = "idle"
      /\ \A q \in DemoProcs : q # p => demoCall'[q] = demoCall[q]
  BY <1>1, EndsMoves DEF DemoInv
<1>3. CallsHold'
  BY <1>1, <1>2 DEF DemoInv, CallsHold, Admitting, Admitted
<1> QED
  BY <1>1, <1>2, <1>3 DEF DemoInv, DemoTypeOK, CapacityHeld, WorkIsKept

LEMMA DemoSteps == DemoAssumption /\ DemoInv /\ [DemoNext]_demoVars => DemoInv'
<1> SUFFICES ASSUME DemoAssumption, DemoInv, [DemoNext]_demoVars PROVE DemoInv'
  OBVIOUS
<1>1. CASE UNCHANGED demoVars
  BY <1>1 DEF demoVars, edited, DemoInv, DemoTypeOK, CallsTyped, CallsHold, CapacityHeld, WorkIsKept
<1>2. CASE DemoNext
  <2>1. PICK p \in DemoProcs :
          \/ \E h, c \in Sessions \union {NoOne}, d \in {"read", "edit", "reset"} : DemoArrive(p, h, c, d)
          \/ BeginAdmission(p) \/ EndAdmission(p) \/ Look(p) \/ Seed(p) \/ Busy(p) \/ Do(p) \/ DemoCrash(p)
    BY <1>2 DEF DemoNext
  <2> QED
    BY <2>1, ArriveKeepsDemo, BeginKeepsDemo, EndKeepsDemo, RestKeepsDemo, DemoCrashKeeps
<1> QED
  BY <1>1, <1>2

\* For any processes, sessions and capacity: racing requests admit no tenant
\* beyond the capacity and seed a project once, and again only after its visitor's
\* edits emptied it; nodes an edit left stay until that visitor's next edit or
\* reset, whichever process serves or dies: demo.py, admit_demo_scope to reset_demo.
THEOREM DemoIsSound == ASSUME DemoAssumption PROVE DemoSpec => []DemoSound
<1>1. DemoInit => DemoInv
  BY DemoStarts
<1>2. DemoInv /\ [DemoNext]_demoVars => DemoInv'
  BY DemoSteps
<1>3. DemoInv => DemoSound
  BY DEF DemoInv, DemoSound
<1> QED
  BY <1>1, <1>2, <1>3, PTL DEF DemoSpec

-----------------------------------------------------------------------------
\* SandboxCalls.  What is served is fetched once: the list repeats nothing, and only the
\* kernel's queries have threads.
AskQueue ==
    /\ \A i, j \in DOMAIN list : list[i] = list[j] => i = j
    /\ ready => list # <<>>
    /\ env = "kernel" => list = <<>>
    /\ env # "kernel" => serving = {}
    /\ IsFiniteSet(Pending) /\ IsFiniteSet(serving) /\ FewServed

Queued(r) == \E i \in DOMAIN list : list[i] = r
Posting(r) == ready /\ list[1] = r

\* A query that is to be served has no answer that was not lost.
AskCosts ==
    /\ \A r \in Reqs : waiter[r] = "none" => asked[r] = 0 /\ entry[r] = "none" /\ ~Queued(r)
    /\ \A r \in Reqs : (Queued(r) \/ entry[r] = "pending") /\ ~Posting(r) /\ r \notin serving => asked[r] <= lost[r]
    /\ RepeatsOnlyWhatWasLost

\* Every call that is tracked or reported was made; none is both, nor is one under way either.
AskListed ==
    /\ \A k \in tracked : k[2] <= asked[k[1]]
    /\ \A c \in 1 .. Cells : \A k \in reported[c] : k[2] <= asked[k[1]]
    /\ \A c \in 1 .. Cells : tracked \cap reported[c] = {}
    /\ \A r \in serving : asked[r] > 0 /\ <<r, asked[r]>> \notin tracked
    /\ \A r \in serving : \A c \in 1 .. Cells : <<r, asked[r]>> \notin reported[c]
    /\ ReportedOnce /\ KernelCallsAreOwn

\* No query is of a cell to come; while a cell runs, each of its queries that cost a call has one tracked.
AskCollects ==
    /\ \A r \in Reqs : of[r] <= cell
    /\ host = "running" /\ env # "kernel" =>
          \A r \in Reqs : of[r] = cell /\ asked[r] > 0 => \E n \in 1 .. MaxAsks : <<r, n>> \in tracked

AskInv == AskTypeOK /\ AskQueue /\ AskCosts /\ AskListed /\ AskCollects

LEMMA AskStarts == CallsAssumption /\ AskInit => AskInv
<1> SUFFICES ASSUME CallsAssumption, AskInit PROVE AskInv
  OBVIOUS
<1>1. AskTypeOK
  <2>1. /\ 0 \in 0 .. Cells /\ 0 \in 0 .. MaxAsks /\ list \in Seq(Reqs)
        /\ reported \in [1 .. Cells -> SUBSET ModelCalls] /\ tracked \subseteq ModelCalls
    BY DEF CallsAssumption, AskInit
  <2> QED
    BY <2>1 DEF AskInit, AskTypeOK, Hosts, Pollers, EntryStates, Waiters
<1>2. Pending = {} /\ IsFiniteSet({}) /\ Cardinality({}) = 0
  BY FS_EmptySet DEF AskInit, Pending
<1> QED
  BY <1>1, <1>2 DEF CallsAssumption, AskInit, AskInv, AskQueue, AskCosts, AskListed, AskCollects, FewServed, Queued,
       RepeatsOnlyWhatWasLost, ReportedOnce, KernelCallsAreOwn

\* A step that fetches, serves and asks nothing may let the broker forget a query.
LEMMA BrokerKeeps ==
    ASSUME AskInv, UNCHANGED <<env, list, ready, serving, asked, lost>>,
           \A r \in Reqs : entry'[r] \in {entry[r], "none"} /\ (waiter'[r] = "none" => waiter[r] = "none")
    PROVE  AskQueue' /\ AskCosts'
<1>1. Pending' \subseteq Pending /\ IsFiniteSet(Pending')
  <2>1. Pending' \subseteq Pending
    BY DEF Pending
  <2> QED
    BY <2>1, FS_Subset DEF AskInv, AskQueue
<1>2. AskQueue'
  BY <1>1 DEF AskInv, AskQueue, FewServed
<1>3. AskCosts'
  BY DEF AskInv, AskCosts, Queued, Posting, RepeatsOnlyWhatWasLost
<1> QED
  BY <1>2, <1>3

\* A step that neither asks nor collects.
LEMMA ListsKeep ==
    ASSUME AskInv, UNCHANGED <<env, serving, of, asked, tracked, reported>> PROVE AskListed'
BY DEF AskInv, AskListed, ReportedOnce, KernelCallsAreOwn

LEMMA CellKeeps ==
    ASSUME AskInv, UNCHANGED <<env, of, asked, cell>>, tracked \subseteq tracked',
           host' = "running" /\ env # "kernel" => host = "running"
    PROVE  AskCollects'
BY DEF AskInv, AskCollects

LEMMA QuietKeeps ==
    ASSUME CallsAssumption, AskInv,
           Setup \/ ScriptEnds \/ ExecTimesOut \/ Cleanup \/ PollerStops \/ \E r \in Reqs : TimesOut(r) \/ Forgets(r)
    PROVE  AskInv'
<1>1. AskTypeOK
  BY DEF AskInv
<1>2. /\ UNCHANGED <<env, list, ready, serving, asked, lost, of, cell, tracked, reported>>
      /\ host' = "running" => host = "running"
      /\ host' \in Hosts /\ poller' \in Pollers /\ script' \in BOOLEAN
      /\ entry' \in [Reqs -> EntryStates] /\ waiter' \in [Reqs -> Waiters]
      /\ \A r \in Reqs : entry'[r] \in {entry[r], "none"} /\ (waiter'[r] = "none" => waiter[r] = "none")
  <2>1. CASE Setup
    BY <1>1, <2>1 DEF Setup, ModalSetup, DaytonaSetup, E2BSetup, PrimeSetup, DockerSetup, KernelSetup, Started,
         SetupRaised, askedFor, AskTypeOK, Hosts, Pollers
  <2>2. CASE ScriptEnds \/ PollerStops
    BY <1>1, <2>2 DEF ScriptEnds, PollerStops, askedFor, AskTypeOK, Pollers
  <2>3. CASE ExecTimesOut
    BY <1>1, <2>3 DEF ExecTimesOut, Killed, AskTypeOK, Hosts, Waiters
  <2>4. CASE Cleanup
    BY <1>1, <2>4 DEF Cleanup, Killed, AskTypeOK, Hosts, Pollers, Waiters, EntryStates
  <2>5. ASSUME NEW r \in Reqs, TimesOut(r) \/ Forgets(r) PROVE <1>2
    BY <1>1, <2>5 DEF TimesOut, Forgets, AskTypeOK, Waiters, EntryStates
  <2> QED
    BY <2>1, <2>2, <2>3, <2>4, <2>5
<1>3. AskTypeOK'
  BY <1>1, <1>2 DEF AskTypeOK
<1> QED
  BY <1>2, <1>3, BrokerKeeps, ListsKeep, CellKeeps DEF AskInv

LEMMA StartCellKeeps == ASSUME CallsAssumption, AskInv, StartCell PROVE AskInv'
<1>1. AskTypeOK /\ AskListed
  BY DEF AskInv
<1>2. /\ UNCHANGED <<env, list, ready, serving, entry, waiter, of, asked, lost, reported>>
      /\ cell' = cell + 1 /\ cell' \in 0 .. Cells /\ tracked' \subseteq tracked
      /\ host' = "running" /\ script' = TRUE /\ poller' = poller
  BY <1>1 DEF StartCell, askedFor, AskTypeOK, CallsAssumption
<1>3. AskTypeOK'
  BY <1>1, <1>2 DEF AskTypeOK, Hosts
<1>4. AskQueue' /\ AskCosts'
  BY <1>2, BrokerKeeps
<1>5. AskListed'
  BY <1>1, <1>2 DEF AskListed, ReportedOnce, KernelCallsAreOwn
<1>6. AskCollects'
  BY <1>1, <1>2 DEF AskInv, AskTypeOK, AskCollects, CallsAssumption
<1> QED
  BY <1>3, <1>4, <1>5, <1>6 DEF AskInv

\* A new query has cost nothing yet.
LEMMA AsksKeeps == ASSUME CallsAssumption, AskInv, NEW r \in Reqs, ScriptAsks(r) \/ KernelAsks(r) PROVE AskInv'
<1>1. AskTypeOK /\ AskQueue /\ AskCosts /\ AskListed /\ AskCollects
  BY DEF AskInv
<1>2. /\ waiter[r] = "none" /\ asked[r] = 0
      /\ entry' = [entry EXCEPT ![r] = "pending"] /\ waiter' = [waiter EXCEPT ![r] = "waiting"]
      /\ of' = [of EXCEPT ![r] = cell]
      /\ UNCHANGED <<env, host, poller, list, ready, serving, cell, script, asked, lost, tracked, reported>>
  BY <1>1 DEF ScriptAsks, KernelAsks, Asks, AskCosts
<1>3. AskTypeOK'
  BY <1>1, <1>2 DEF AskTypeOK, EntryStates, Waiters
<1>4. AskQueue'
  <2>1. Pending' \subseteq Pending \union {r}
    BY <1>1, <1>2 DEF Pending, AskTypeOK
  <2>2. IsFiniteSet(Pending')
    BY <1>1, <2>1, FS_AddElement, FS_Subset DEF AskQueue
  <2> QED
    BY <1>1, <1>2, <2>2 DEF AskQueue, FewServed
<1>5. AskCosts'
  BY <1>1, <1>2 DEF AskTypeOK, AskCosts, Queued, Posting, RepeatsOnlyWhatWasLost
<1>6. AskListed'
  <2>1. \A k \in ModelCalls : k[2] <= asked[k[1]] => k[1] # r
    BY <1>1, <1>2 DEF AskTypeOK, ModelCalls
  <2>2. \A c \in 1 .. Cells : \A k \in reported[c] : k[1] \in Reqs /\ of'[k[1]] = of[k[1]]
    <3> SUFFICES ASSUME NEW c \in 1 .. Cells, NEW k \in reported[c] PROVE k[1] \in Reqs /\ of'[k[1]] = of[k[1]]
      OBVIOUS
    <3>1. k \in ModelCalls /\ k[1] \in Reqs
      <4>1. k \in ModelCalls
        BY <1>1 DEF AskTypeOK
      <4> QED
        BY <4>1 DEF ModelCalls
    <3>2. k[1] # r
      BY <1>1, <2>1, <3>1 DEF AskListed
    <3> QED
      BY <1>1, <1>2, <3>1, <3>2 DEF AskTypeOK
  <2>3. KernelCallsAreOwn'
    BY <1>1, <1>2, <2>2 DEF AskListed, KernelCallsAreOwn
  <2> QED
    BY <1>1, <1>2, <2>3 DEF AskListed, ReportedOnce
<1>7. AskCollects'
  BY <1>1, <1>2 DEF AskTypeOK, AskCollects
<1> QED
  BY <1>3, <1>4, <1>5, <1>6, <1>7 DEF AskInv

\* What is fetched are pending queries, each once.
LEMMA PollKeeps == ASSUME CallsAssumption, AskInv, Poll PROVE AskInv'
<1>1. AskTypeOK /\ AskQueue /\ AskCosts
  BY DEF AskInv
<1>2. /\ list = <<>> /\ ready = FALSE /\ env # "kernel"
      /\ UNCHANGED <<env, host, poller, ready, serving, cell, script, entry, waiter, of, asked, lost, tracked, reported>>
  BY <1>1 DEF Poll, askedFor, AskQueue, AskTypeOK
<1>3. /\ list' \in Seq(Reqs) /\ \A i \in DOMAIN list' : list'[i] \in Pending
      /\ \A i, j \in DOMAIN list' : list'[i] = list'[j] => i = j
  <2>1. CASE list' \in SetToSeqs(Pending)
    <3>1. Cardinality(Pending) \in Nat /\ Pending \subseteq Reqs
      BY <1>1, FS_CardinalityType DEF AskQueue, Pending
    <3>2. /\ list' \in [1 .. Cardinality(Pending) -> Pending]
          /\ \A i, j \in 1 .. Cardinality(Pending) : i # j => list'[i] # list'[j]
      BY <2>1 DEF SetToSeqs
    <3> QED
      BY <3>1, <3>2
  <2>2. CASE \E r \in Pending : list' = <<r>>
    BY <2>2 DEF Pending
  <2> QED
    BY <2>1, <2>2 DEF Poll
<1>4. AskTypeOK'
  BY <1>1, <1>2, <1>3 DEF AskTypeOK
<1>5. AskQueue'
  BY <1>1, <1>2, <1>3 DEF AskQueue, Pending, FewServed
<1>6. AskCosts'
  BY <1>1, <1>2, <1>3 DEF AskCosts, Queued, Posting, Pending, RepeatsOnlyWhatWasLost
<1> QED
  BY <1>2, <1>4, <1>5, <1>6, ListsKeep, CellKeeps DEF AskInv

\* The head of the list costs a call only while no answer to it stands.
LEMMA HandleKeeps == ASSUME CallsAssumption, AskInv, Handle PROVE AskInv'
<1> DEFINE r == Head(list)
<1>1. AskTypeOK /\ AskQueue /\ AskCosts /\ AskListed /\ AskCollects
  BY DEF AskInv
<1>2. /\ list # <<>> /\ ready = FALSE /\ ready' = TRUE
      /\ UNCHANGED <<env, host, poller, list, serving, cell, script, entry, waiter, of, lost, reported>>
  BY <1>1 DEF Handle, AskTypeOK
<1>3. r \in Reqs /\ r = list[1] /\ 1 \in DOMAIN list /\ serving = {} /\ env # "kernel"
  BY <1>1, <1>2 DEF AskTypeOK, AskQueue
<1>4. asked[r] <= lost[r] /\ waiter[r] # "none"
  BY <1>1, <1>2, <1>3 DEF AskCosts, Queued, Posting
<1>5. AskQueue'
  BY <1>1, <1>2 DEF AskQueue, Pending, FewServed
<1>6. CASE UNCHANGED <<asked, tracked>>
  <2>1. AskTypeOK' /\ AskCosts'
    BY <1>1, <1>2, <1>3, <1>6 DEF AskTypeOK, AskCosts, Queued, Posting, RepeatsOnlyWhatWasLost
  <2> QED
    BY <1>2, <1>5, <1>6, <2>1, ListsKeep, CellKeeps DEF AskInv
<1>7. CASE /\ asked[r] < MaxAsks /\ asked' = [asked EXCEPT ![r] = @ + 1]
           /\ tracked' = tracked \cup {<<r, asked[r] + 1>>}
  <2>1. asked[r] + 1 \in 1 .. MaxAsks /\ asked' \in [Reqs -> 0 .. MaxAsks]
    BY <1>1, <1>3, <1>7 DEF AskTypeOK, CallsAssumption
  <2>2. AskTypeOK'
    <3>1. tracked' \subseteq ModelCalls
      BY <1>1, <1>3, <1>7, <2>1 DEF AskTypeOK, ModelCalls
    <3> QED
      BY <1>1, <1>2, <2>1, <3>1 DEF AskTypeOK
  <2>3. \A q \in Reqs : q # r => asked'[q] = asked[q]
    BY <1>1, <1>3, <1>7 DEF AskTypeOK
  <2>4. asked'[r] = asked[r] + 1 /\ \A q \in Reqs : asked[q] \in Nat /\ lost[q] \in Nat
    BY <1>1, <1>3, <1>7 DEF AskTypeOK
  <2>5. AskCosts'
    BY <1>1, <1>2, <1>3, <1>4, <2>3, <2>4 DEF AskCosts, Queued, Posting, RepeatsOnlyWhatWasLost
  <2>6. AskListed'
    <3>1. \A k \in ModelCalls : k[1] \in Reqs /\ k[2] \in Nat
      BY DEF ModelCalls
    <3>2. \A k \in ModelCalls : k[2] <= asked[k[1]] => k[2] <= asked'[k[1]] /\ k # <<r, asked[r] + 1>>
      BY <2>3, <2>4, <3>1
    <3>3. tracked \subseteq ModelCalls /\ \A c \in 1 .. Cells : reported[c] \subseteq ModelCalls
      BY <1>1 DEF AskTypeOK
    <3>4. \A k \in tracked' : k[2] <= asked'[k[1]]
      <4>1. \A k \in tracked : k[2] <= asked'[k[1]]
        BY <1>1, <3>2, <3>3 DEF AskListed
      <4>2. \A k \in tracked' : k \in tracked \/ k = <<r, asked'[r]>>
        BY <1>7, <2>4
      <4>3. <<r, asked'[r]>>[2] <= asked'[<<r, asked'[r]>>[1]]
        BY <1>3, <2>4
      <4> QED
        BY <4>1, <4>2, <4>3
    <3>5. \A c \in 1 .. Cells : tracked' \cap reported[c] = {} /\ \A k \in reported[c] : k[2] <= asked'[k[1]]
      BY <1>1, <1>7, <3>2, <3>3 DEF AskListed
    <3> QED
      BY <1>1, <1>2, <1>3, <3>4, <3>5 DEF AskListed, ReportedOnce, KernelCallsAreOwn
  <2>7. AskCollects'
    BY <1>1, <1>2, <1>7, <2>1, <2>3 DEF AskCollects
  <2> QED
    BY <1>5, <2>2, <2>5, <2>6, <2>7 DEF AskInv
<1> QED
  BY <1>6, <1>7 DEF Handle

\* What is answered leaves the list, and no query is in it twice.
LEMMA RespondKeeps == ASSUME CallsAssumption, AskInv, Respond PROVE AskInv'
<1> DEFINE r == Head(list)
<1>1. AskTypeOK /\ AskQueue /\ AskCosts
  BY DEF AskInv
<1>2. /\ list # <<>> /\ ready = TRUE /\ ready' = FALSE /\ list' = Tail(list)
      /\ entry' = [entry EXCEPT ![r] = IF env = "docker" \/ @ = "none" THEN "none" ELSE "responded"]
      /\ waiter' = [waiter EXCEPT ![r] = Answered(@)]
      /\ UNCHANGED <<env, host, poller, serving, cell, script, of, asked, lost, tracked, reported>>
  BY <1>1 DEF Respond, AskTypeOK
<1>3. /\ r \in Reqs /\ r = list[1] /\ list' \in Seq(Reqs)
      /\ \A i \in DOMAIN list' : i + 1 \in DOMAIN list /\ i + 1 # 1 /\ list'[i] = list[i + 1]
  BY <1>1, <1>2 DEF AskTypeOK
<1>4. /\ \A q \in Reqs : q # r => entry'[q] = entry[q] /\ waiter'[q] = waiter[q]
      /\ entry'[r] \in {"none", "responded"} /\ waiter'[r] \in Waiters
      /\ waiter'[r] = "none" => waiter[r] = "none"
  BY <1>1, <1>2, <1>3 DEF AskTypeOK, Answered, Waiters
<1>5. AskTypeOK'
  BY <1>1, <1>2, <1>3, <1>4 DEF AskTypeOK, EntryStates
<1>6. \A q \in Reqs : Queued(q)' => Queued(q) /\ q # r
  BY <1>1, <1>2, <1>3 DEF Queued, AskQueue, AskTypeOK
<1>7. AskQueue'
  <2>1. Pending' \subseteq Pending /\ IsFiniteSet(Pending')
    <3>1. Pending' \subseteq Pending
      BY <1>4 DEF Pending
    <3> QED
      BY <1>1, <3>1, FS_Subset DEF AskQueue
  <2>2. \A i, j \in DOMAIN list' : list'[i] = list'[j] => i = j
    BY <1>1, <1>3 DEF AskQueue, AskTypeOK
  <2> QED
    BY <1>1, <1>2, <2>1, <2>2 DEF AskQueue, FewServed
<1>8. AskCosts'
  <2>1. waiter[r] # "none"
    BY <1>1, <1>2, <1>3 DEF AskCosts, Queued, AskTypeOK
  <2> QED
    BY <1>1, <1>2, <1>3, <1>4, <1>6, <2>1 DEF AskCosts, Posting, RepeatsOnlyWhatWasLost
<1> QED
  BY <1>2, <1>5, <1>7, <1>8, ListsKeep, CellKeeps DEF AskInv

\* An answer that is lost pays for one more call.
LEMMA PostLostKeeps == ASSUME CallsAssumption, AskInv, PostLost PROVE AskInv'
<1> DEFINE r == Head(list)
<1>1. AskTypeOK /\ AskQueue /\ AskCosts
  BY DEF AskInv
<1>2. /\ list # <<>> /\ ready = TRUE /\ ready' = FALSE /\ list' = <<>>
      /\ lost[r] + 1 < MaxAsks /\ lost' = [lost EXCEPT ![r] = @ + 1]
      /\ UNCHANGED <<env, host, poller, serving, cell, script, entry, waiter, of, asked, tracked, reported>>
  BY <1>1 DEF PostLost, AskTypeOK
<1>3. r \in Reqs /\ r = list[1]
  BY <1>1, <1>2 DEF AskTypeOK
<1>4. /\ lost'[r] = lost[r] + 1 /\ \A q \in Reqs : q # r => lost'[q] = lost[q]
      /\ lost' \in [Reqs -> 0 .. MaxAsks] /\ \A q \in Reqs : asked[q] \in Nat /\ lost[q] \in Nat
  BY <1>1, <1>2, <1>3 DEF AskTypeOK, CallsAssumption
<1>5. AskTypeOK'
  <2>1. list' \in Seq(Reqs)
    BY <1>2
  <2> QED
    BY <1>1, <1>2, <1>4, <2>1 DEF AskTypeOK
<1>6. AskQueue'
  BY <1>1, <1>2 DEF AskQueue, Pending, FewServed
<1>7. AskCosts'
  BY <1>1, <1>2, <1>3, <1>4 DEF AskCosts, Queued, Posting, RepeatsOnlyWhatWasLost
<1> QED
  BY <1>2, <1>5, <1>6, <1>7, ListsKeep, CellKeeps DEF AskInv

\* A thread of the kernel's broker begins on a query that has none.
LEMMA DispatchKeeps == ASSUME CallsAssumption, AskInv, NEW r \in Reqs, Dispatch(r) PROVE AskInv'
<1>1. AskTypeOK /\ AskQueue /\ AskCosts /\ AskListed /\ AskCollects
  BY DEF AskInv
<1>2. /\ env = "kernel" /\ entry[r] = "pending" /\ r \notin serving /\ Cardinality(serving) < MaxServed
      /\ asked[r] < MaxAsks /\ serving' = serving \cup {r} /\ asked' = [asked EXCEPT ![r] = @ + 1]
      /\ UNCHANGED <<env, host, poller, list, ready, cell, script, entry, waiter, of, lost, tracked, reported>>
  BY DEF Dispatch, Pending
<1>3. /\ asked'[r] = asked[r] + 1 /\ \A q \in Reqs : q # r => asked'[q] = asked[q]
      /\ asked' \in [Reqs -> 0 .. MaxAsks] /\ \A q \in Reqs : asked[q] \in Nat /\ lost[q] \in Nat
  BY <1>1, <1>2 DEF AskTypeOK, CallsAssumption
<1>4. ready = FALSE /\ list = <<>> /\ \A q \in Reqs : ~Queued(q) /\ ~Posting(q)
  BY <1>1, <1>2 DEF AskQueue, AskTypeOK, Queued, Posting
<1>5. AskTypeOK'
  BY <1>1, <1>2, <1>3 DEF AskTypeOK
<1>6. AskQueue'
  <2>1. IsFiniteSet(serving') /\ Cardinality(serving') = Cardinality(serving) + 1 /\ Cardinality(serving) \in Nat
    BY <1>1, <1>2, FS_AddElement, FS_CardinalityType DEF AskQueue
  <2> QED
    BY <1>1, <1>2, <2>1 DEF AskQueue, Pending, FewServed, CallsAssumption
<1>7. AskCosts'
  BY <1>1, <1>2, <1>3, <1>4 DEF AskCosts, Queued, Posting, RepeatsOnlyWhatWasLost
<1>8. AskListed'
  <2>1. \A k \in ModelCalls : k[1] \in Reqs /\ k[2] \in Nat
    BY DEF ModelCalls
  <2>2. \A k \in ModelCalls : k[2] <= asked[k[1]] => k[2] <= asked'[k[1]] /\ k # <<r, asked'[r]>>
    BY <1>3, <2>1
  <2>3. tracked \subseteq ModelCalls /\ \A c \in 1 .. Cells : reported[c] \subseteq ModelCalls
    BY <1>1 DEF AskTypeOK
  <2>4. /\ \A k \in tracked : k[2] <= asked'[k[1]] /\ k # <<r, asked'[r]>>
        /\ \A c \in 1 .. Cells : \A k \in reported[c] : k[2] <= asked'[k[1]] /\ k # <<r, asked'[r]>>
    BY <1>1, <2>2, <2>3 DEF AskListed
  <2>5. \A q \in serving' : asked'[q] > 0 /\ <<q, asked'[q]>> \notin tracked /\ \A c \in 1 .. Cells : <<q, asked'[q]>> \notin reported[c]
    <3> SUFFICES ASSUME NEW q \in serving'
                 PROVE  asked'[q] > 0 /\ <<q, asked'[q]>> \notin tracked /\ \A c \in 1 .. Cells : <<q, asked'[q]>> \notin reported[c]
      OBVIOUS
    <3>1. CASE q = r
      BY <1>3, <2>4, <3>1
    <3>2. CASE q # r
      BY <1>1, <1>2, <1>3, <3>2 DEF AskListed, AskTypeOK
    <3> QED
      BY <3>1, <3>2
  <2> QED
    BY <1>1, <1>2, <2>4, <2>5 DEF AskListed, ReportedOnce, KernelCallsAreOwn
<1>9. AskCollects'
  BY <1>1, <1>2 DEF AskCollects
<1> QED
  BY <1>5, <1>6, <1>7, <1>8, <1>9 DEF AskInv

\* Its call is filed once: the thread that made it is gone.
LEMMA DispatchedKeeps == ASSUME CallsAssumption, AskInv, NEW r \in Reqs, Dispatched(r) PROVE AskInv'
<1>1. AskTypeOK /\ AskQueue /\ AskCosts /\ AskListed /\ AskCollects
  BY DEF AskInv
<1>2. /\ r \in serving /\ serving' = serving \ {r} /\ env = "kernel"
      /\ (tracked' = tracked \cup {<<r, asked[r]>>} \/ tracked' = tracked)
      /\ entry' = [entry EXCEPT ![r] = "none"] /\ waiter' = [waiter EXCEPT ![r] = Answered(@)]
      /\ UNCHANGED <<env, host, poller, list, ready, cell, script, of, asked, lost, reported>>
  BY <1>1 DEF Dispatched, AskQueue
<1>3. /\ \A q \in Reqs : q # r => entry'[q] = entry[q] /\ waiter'[q] = waiter[q]
      /\ entry'[r] = "none" /\ waiter'[r] \in Waiters /\ (waiter'[r] = "none" => waiter[r] = "none")
  BY <1>1, <1>2 DEF AskTypeOK, Answered, Waiters
<1>4. ready = FALSE /\ list = <<>> /\ \A q \in Reqs : ~Queued(q) /\ ~Posting(q)
  BY <1>1, <1>2 DEF AskQueue, AskTypeOK, Queued, Posting
<1>5. AskTypeOK'
  <2>1. tracked' \subseteq ModelCalls
    <3>1. asked[r] \in 1 .. MaxAsks \/ asked[r] = 0
      BY <1>1 DEF AskTypeOK, CallsAssumption
    <3>2. asked[r] # 0
      <4>1. asked[r] > 0
        BY <1>1, <1>2 DEF AskListed
      <4> QED
        BY <4>1
    <3> QED
      BY <1>1, <1>2, <3>1, <3>2 DEF AskTypeOK, ModelCalls
  <2> QED
    BY <1>1, <1>2, <1>3, <2>1 DEF AskTypeOK, EntryStates
<1>6. AskQueue'
  <2>1. /\ Pending' \subseteq Pending /\ IsFiniteSet(serving')
        /\ Cardinality(serving') <= Cardinality(serving) /\ Cardinality(serving) \in Nat
        /\ Cardinality(serving') \in Nat
    BY <1>1, <1>2, <1>3, FS_Subset, FS_CardinalityType DEF AskQueue, Pending
  <2>2. IsFiniteSet(Pending')
    BY <1>1, <2>1, FS_Subset DEF AskQueue
  <2> QED
    BY <1>1, <1>2, <2>1, <2>2 DEF AskQueue, FewServed, CallsAssumption
<1>7. AskCosts'
  BY <1>1, <1>2, <1>3, <1>4 DEF AskCosts, Queued, Posting, RepeatsOnlyWhatWasLost
<1>8. AskListed'
  <2>1. \A q \in serving' : q # r /\ q \in serving /\ <<q, asked[q]>> # <<r, asked[r]>>
    BY <1>2
  <2>2. \A c \in 1 .. Cells : tracked' \cap reported[c] = {}
    BY <1>1, <1>2 DEF AskListed
  <2>3. \A k \in tracked' : k[2] <= asked[k[1]]
    BY <1>1, <1>2 DEF AskListed, AskTypeOK
  <2> QED
    BY <1>1, <1>2, <2>1, <2>2, <2>3 DEF AskListed, ReportedOnce, KernelCallsAreOwn
<1> QED
  BY <1>2, <1>5, <1>6, <1>7, <1>8, CellKeeps DEF AskInv

\* What a cell collects is reported by it, and tracked no longer.
LEMMA CollectKeeps == ASSUME CallsAssumption, AskInv, Collect PROVE AskInv'
<1>1. AskTypeOK /\ AskListed /\ AskCollects
  BY DEF AskInv
<1>2. /\ host' = "ready" /\ tracked' = {}
      /\ reported' = [reported EXCEPT ![cell] = IF env = "kernel" THEN Drained ELSE tracked]
      /\ UNCHANGED <<env, poller, list, ready, serving, cell, script, entry, waiter, of, asked, lost>>
  BY DEF Collect, askedFor
<1>3. AskTypeOK'
  BY <1>1, <1>2 DEF AskTypeOK, Drained, Hosts
<1>4. AskQueue' /\ AskCosts'
  BY <1>2, BrokerKeeps
<1>5. /\ \A c \in 1 .. Cells : c # cell => reported'[c] = reported[c]
      /\ cell \in 1 .. Cells => reported'[cell] \subseteq tracked
      /\ cell \in 1 .. Cells /\ env = "kernel" => \A k \in reported'[cell] : of[k[1]] = cell
  BY <1>1, <1>2 DEF AskTypeOK, Drained
<1>6. AskListed'
  BY <1>1, <1>2, <1>5 DEF AskListed, ReportedOnce, KernelCallsAreOwn
<1>7. AskCollects'
  BY <1>1, <1>2 DEF AskCollects
<1> QED
  BY <1>3, <1>4, <1>6, <1>7 DEF AskInv

LEMMA AskSteps == CallsAssumption /\ AskInv /\ [AskNext]_askVars => AskInv'
<1> SUFFICES ASSUME CallsAssumption, AskInv, [AskNext]_askVars PROVE AskInv'
  OBVIOUS
<1>1. CASE UNCHANGED askVars
  <2>1. AskTypeOK'
    BY <1>1 DEF AskInv, AskTypeOK, askVars
  <2>2. AskQueue' /\ AskCosts'
    BY <1>1, BrokerKeeps DEF askVars
  <2> QED
    BY <1>1, <2>1, <2>2, ListsKeep, CellKeeps DEF askVars, AskInv
<1>2. CASE AskNext
  BY <1>2, QuietKeeps, StartCellKeeps, AsksKeeps, PollKeeps, HandleKeeps, RespondKeeps, PostLostKeeps, DispatchKeeps,
     DispatchedKeeps, CollectKeeps DEF AskNext, Serves
<1> QED
  BY <1>1, <1>2

\* For any queries, cells, calls and threads, in each environment: a query costs a second
\* model call only if an answer was lost, no call is in two results, the kernel's cells
\* list their own, and whoever was answered finds its call tracked.
THEOREM CallsAreSound == ASSUME CallsAssumption PROVE AskSpec => []CallsSound
<1>1. AskInit => AskInv
  BY AskStarts
<1>2. AskInv /\ [AskNext]_askVars => AskInv'
  BY AskSteps
<1>3. AskInv => CallsSound
  <2> SUFFICES ASSUME AskInv PROVE CallsSound
    OBVIOUS
  <2>1. AnsweredIsTracked
    <3>1. \A r \in Reqs : asked[r] \in Nat /\ lost[r] \in Nat
      BY DEF AskInv, AskTypeOK
    <3>2. \A r \in Reqs : asked[r] > lost[r] => asked[r] > 0
      BY <3>1
    <3> QED
      BY <3>2 DEF AskInv, AskCollects, AnsweredIsTracked
  <2> QED
    BY <2>1 DEF AskInv, AskQueue, AskCosts, AskListed, CallsSound
<1> QED
  BY <1>1, <1>2, <1>3, PTL DEF AskSpec
=============================================================================
