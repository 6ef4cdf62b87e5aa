----------------------- MODULE TranscriptIngestionProofs -----------------------
(***************************************************************************)
(* The identity of stored messages, for every talk, every sequence of      *)
(* payloads and any failures.                                              *)
(***************************************************************************)
EXTENDS TranscriptIngestion, FiniteSetTheorems, TLAPS

IInv == TypeOK /\ OneRowPerIdentity /\ OneRowPerTurn
-----------------------------------------------------------------------------
(* What the helpers return.                                                *)

\* The next turn index lies beyond every stored one.
LEMMA NextTurnIsBeyond ==
    ASSUME TypeOK, NEW base \in NextTurns
    PROVE  base \in Nat /\ \A r \in rows : r.turn < base
  BY DEF TypeOK, Rows, NextTurns

\* A payload holds messages, and their identities are those of stored rows.
LEMMA IdentityIsTyped ==
    ASSUME NEW p \in Payloads, NEW i \in 1 .. Len(p)
    PROVE  p[i] \in Messages /\ Identity(p, i) \in Messages \X Nat
  <1>1. p \in Seq(Messages)
    BY IngestionAssumption
  <1>2. p[i] \in Messages /\ i \in Nat
    BY <1>1
  <1> QED
    BY <1>2 DEF Identity

\* A logical turn of the session is made of its rows.
LEMMA PairsAreTyped ==
    ASSUME TypeOK
    PROVE  Pairs(rows) \subseteq LogicalTurns
  <1>1. \A s \in rows : Block(rows, s) \subseteq rows
    BY DEF Block, Spoken
  <1>2. Starts(rows) \subseteq rows
    BY DEF Starts, Spoken
  <1>3. \A s \in rows : s.turn \in Nat
    BY DEF TypeOK, Rows
  <1> SUFFICES ASSUME NEW pair \in Pairs(rows)
               PROVE  pair \in LogicalTurns
    OBVIOUS
  <1>4. PICK p \in Starts(rows) \X Starts(rows) :
            pair = [user |-> Block(rows, p[1]), userTurn |-> p[1].turn,
                    asst |-> Block(rows, p[2]), asstTurn |-> p[2].turn]
    BY DEF Pairs
  <1>5. p[1] \in rows /\ p[2] \in rows
    BY <1>2, <1>4
  <1> QED
    BY <1>1, <1>3, <1>4, <1>5 DEF LogicalTurns

\* What is extracted from a logical turn is memorable and cites a turn.
LEMMA CandidatesAreTyped ==
    ASSUME NEW pair, pair.userTurn \in Nat, pair.asstTurn \in Nat
    PROVE  Candidates(pair) \subseteq Memorable \X Nat
  BY DEF Candidates

\* Logical turns stay typed when rows are added.
LEMMA TurnsStayTyped ==
    ASSUME rows \subseteq rows'
    PROVE  LogicalTurns \subseteq LogicalTurns'
  BY DEF LogicalTurns
-----------------------------------------------------------------------------
LEMMA InitIInv == Init => IInv
  BY DEF Init, IInv, TypeOK, OneRowPerIdentity, OneRowPerTurn, LogicalTurns

\* The rows a payload adds: typed, beyond what there was, and with identities
\* that are new and differ from one another.
LEMMA PersistRows ==
    ASSUME IInv, NEW p \in Payloads, Persist(p)
    PROVE  /\ rows \subseteq rows' /\ rows' \subseteq Rows
           /\ OneRowPerIdentity' /\ OneRowPerTurn'
  <1> DEFINE Row(base, i) == [turn |-> base + i - 1, msg |-> p[i], id |-> Identity(p, i)]
  <1>1. PICK base \in NextTurns : rows' = rows \cup {Row(base, i) : i \in Unknown(p)}
    BY DEF Persist
  <1>2. base \in Nat /\ \A r \in rows : r.turn \in Nat /\ r.turn < base
    BY <1>1, NextTurnIsBeyond DEF IInv, TypeOK, Rows
  <1>3. p \in Seq(Messages) /\ Len(p) \in Nat
    BY IngestionAssumption
  <1>4. \A i \in Unknown(p) : i \in 1 .. Len(p) /\ i \in Nat /\ i >= 1
    BY <1>3 DEF Unknown
  <1>5. \A i \in Unknown(p) : p[i] \in Messages /\ Identity(p, i) \in Messages \X Nat
    BY <1>4, IdentityIsTyped
  <1>6. \A i \in Unknown(p) : Row(base, i).turn \in Nat /\ Row(base, i).turn >= base
    BY <1>2, <1>4
  <1>7. \A i \in Unknown(p) : Row(base, i) \in Rows
    BY <1>5, <1>6 DEF Rows
  <1>8. rows' \subseteq Rows
    BY <1>1, <1>7 DEF IInv, TypeOK
  <1>9. \A i, j \in Unknown(p) : Identity(p, i) = Identity(p, j) => i = j
    <2> SUFFICES ASSUME NEW i \in Unknown(p), NEW j \in Unknown(p),
                        Identity(p, i) = Identity(p, j), i # j
                 PROVE  FALSE
      OBVIOUS
    <2>1. i < j \/ j < i
      BY <1>4
    <2>2. CASE i < j
      BY <2>2, <1>4, <1>3 DEF Unknown
    <2>3. CASE j < i
      BY <2>3, <1>4, <1>3 DEF Unknown
    <2> QED
      BY <2>1, <2>2, <2>3
  <1>10. \A i \in Unknown(p) : \A r \in rows : r.id # Row(base, i).id
    BY DEF Unknown, Ids
  <1>11. OneRowPerIdentity'
    <2> SUFFICES ASSUME NEW q \in rows', NEW r \in rows', q.id = r.id, q.id # None
                 PROVE  q = r
      BY DEF OneRowPerIdentity
    <2>1. CASE q \in rows /\ r \in rows
      BY <2>1 DEF IInv, OneRowPerIdentity
    <2>2. CASE \E i \in Unknown(p) : q = Row(base, i)
      <3>1. PICK i \in Unknown(p) : q = Row(base, i)
        BY <2>2
      <3>2. PICK j \in Unknown(p) : r = Row(base, j)
        BY <1>1, <1>10, <3>1
      <3> QED
        BY <1>9, <3>1, <3>2
    <2>3. CASE \E i \in Unknown(p) : r = Row(base, i)
      <3>1. PICK i \in Unknown(p) : r = Row(base, i)
        BY <2>3
      <3>2. PICK j \in Unknown(p) : q = Row(base, j)
        BY <1>1, <1>10, <3>1
      <3> QED
        BY <1>9, <3>1, <3>2
    <2> QED
      BY <1>1, <2>1, <2>2, <2>3
  <1>12. OneRowPerTurn'
    <2> SUFFICES ASSUME NEW q \in rows', NEW r \in rows', q.turn = r.turn
                 PROVE  q = r
      BY DEF OneRowPerTurn
    <2>1. CASE q \in rows /\ r \in rows
      BY <2>1 DEF IInv, OneRowPerTurn
    <2>2. CASE \E i \in Unknown(p) : q = Row(base, i)
      <3>1. PICK i \in Unknown(p) : q = Row(base, i)
        BY <2>2
      <3>2. PICK j \in Unknown(p) : r = Row(base, j)
        BY <1>1, <1>2, <1>6, <3>1
      <3> QED
        BY <1>2, <1>4, <3>1, <3>2
    <2>3. CASE \E i \in Unknown(p) : r = Row(base, i)
      <3>1. PICK i \in Unknown(p) : r = Row(base, i)
        BY <2>3
      <3>2. PICK j \in Unknown(p) : q = Row(base, j)
        BY <1>1, <1>2, <1>6, <3>1
      <3> QED
        BY <1>2, <1>4, <3>1, <3>2
    <2> QED
      BY <1>1, <2>1, <2>2, <2>3
  <1> QED
    BY <1>1, <1>8, <1>11, <1>12

\* A live turn adds two rows without an identity, one after the other.
LEMMA ObserveRows ==
    ASSUME IInv, NEW pair \in Live, Observe(pair)
    PROVE  \E base \in Nat :
             LET u == [turn |-> base, msg |-> pair[1], id |-> None]
                 a == [turn |-> base + 1, msg |-> pair[2], id |-> None]
                 turn == [user |-> {u}, userTurn |-> base,
                          asst |-> {a}, asstTurn |-> base + 1]
             IN  /\ rows' = rows \cup {u, a}
                 /\ rows' \subseteq Rows
                 /\ turn \in LogicalTurns'
                 /\ evidence' \subseteq Memorable \X Nat
                 /\ OneRowPerIdentity' /\ OneRowPerTurn'
  <1> DEFINE u(base) == [turn |-> base, msg |-> pair[1], id |-> None]
             a(base) == [turn |-> base + 1, msg |-> pair[2], id |-> None]
             turn(base) == [user |-> {u(base)}, userTurn |-> base,
                            asst |-> {a(base)}, asstTurn |-> base + 1]
  <1>1. PICK base \in NextTurns :
            /\ rows' = rows \cup {u(base), a(base)}
            /\ evidence' \in {evidence, evidence \cup Candidates(turn(base))}
    BY DEF Observe
  <1>2. base \in Nat /\ \A r \in rows : r.turn \in Nat /\ r.turn < base
    BY <1>1, NextTurnIsBeyond DEF IInv, TypeOK, Rows
  <1>3. pair[1] \in Messages /\ pair[2] \in Messages
    BY IngestionAssumption
  <1>4. u(base) \in Rows /\ a(base) \in Rows
    BY <1>2, <1>3 DEF Rows
  <1>5. rows' \subseteq Rows
    BY <1>1, <1>4 DEF IInv, TypeOK
  <1>6. turn(base) \in LogicalTurns'
    BY <1>1, <1>2 DEF LogicalTurns
  <1>7. Candidates(turn(base)) \subseteq Memorable \X Nat
    BY <1>2, CandidatesAreTyped
  <1>8. evidence' \subseteq Memorable \X Nat
    BY <1>1, <1>7 DEF IInv, TypeOK
  <1>9. OneRowPerIdentity'
    BY <1>1 DEF IInv, OneRowPerIdentity
  <1>10. OneRowPerTurn'
    BY <1>1, <1>2 DEF IInv, OneRowPerTurn
  <1> QED
    BY <1>1, <1>2, <1>5, <1>6, <1>8, <1>9, <1>10

LEMMA NextIInv == IInv /\ [Next]_vars => IInv'
  <1> SUFFICES ASSUME IInv, [Next]_vars
               PROVE  IInv'
    OBVIOUS
  <1>1. ASSUME NEW p \in Payloads, Persist(p)
        PROVE  IInv'
    <2>1. /\ rows \subseteq rows' /\ rows' \subseteq Rows
          /\ OneRowPerIdentity' /\ OneRowPerTurn'
      BY <1>1, PersistRows
    <2>2. LogicalTurns \subseteq LogicalTurns'
      BY <2>1, TurnsStayTyped
    <2>3. fresh' \subseteq Messages \X Nat
      BY <1>1, IdentityIsTyped DEF Persist, Unknown
    <2>4. TypeOK'
      BY <1>1, <2>1, <2>2, <2>3 DEF IInv, TypeOK, Persist, Rows
    <2> QED
      BY <2>1, <2>4 DEF IInv
  <1>2. CASE LoadSession
    <2>1. todo' \subseteq LogicalTurns
      BY <1>2, PairsAreTyped DEF IInv, LoadSession
    <2> QED
      BY <1>2, <2>1 DEF IInv, TypeOK, LoadSession, OneRowPerIdentity, OneRowPerTurn, Rows, LogicalTurns
  <1>3. CASE ExtractPair
    <2>1. PICK pair \in todo :
              /\ evidence' = evidence \cup Candidates(pair)
              /\ todo' = todo \ {pair}
      BY <1>3 DEF ExtractPair
    <2>2. pair \in LogicalTurns /\ pair.userTurn \in Nat /\ pair.asstTurn \in Nat
      BY <2>1 DEF IInv, TypeOK, LogicalTurns
    <2>3. Candidates(pair) \subseteq Memorable \X Nat
      BY <2>2, CandidatesAreTyped
    <2> QED
      BY <1>3, <2>1, <2>2, <2>3
      DEF IInv, TypeOK, ExtractPair, OneRowPerIdentity, OneRowPerTurn, Rows, LogicalTurns
  <1>4. CASE RunReturns
    BY <1>4 DEF IInv, TypeOK, RunReturns, OneRowPerIdentity, OneRowPerTurn, Rows, LogicalTurns
  <1>5. CASE RunFails
    BY <1>5 DEF IInv, TypeOK, RunFails, OneRowPerIdentity, OneRowPerTurn, Rows, LogicalTurns
  <1>6. ASSUME NEW pair \in Live, Observe(pair)
        PROVE  IInv'
    <2> DEFINE u(base) == [turn |-> base, msg |-> pair[1], id |-> None]
               a(base) == [turn |-> base + 1, msg |-> pair[2], id |-> None]
               turn(base) == [user |-> {u(base)}, userTurn |-> base,
                              asst |-> {a(base)}, asstTurn |-> base + 1]
    <2>1. PICK base \in Nat :
              /\ rows' = rows \cup {u(base), a(base)}
              /\ rows' \subseteq Rows
              /\ turn(base) \in LogicalTurns'
              /\ evidence' \subseteq Memorable \X Nat
              /\ OneRowPerIdentity' /\ OneRowPerTurn'
      BY <1>6, ObserveRows
    <2> HIDE DEF u, a, turn
    <2>2. LogicalTurns \subseteq LogicalTurns'
      BY <2>1, TurnsStayTyped
    <2>3. TypeOK'
      BY <1>6, <2>1, <2>2 DEF IInv, TypeOK, Observe, Rows
    <2> QED
      BY <2>1, <2>3 DEF IInv
  <1>7. CASE UNCHANGED vars
    BY <1>7 DEF IInv, TypeOK, vars, OneRowPerIdentity, OneRowPerTurn, Rows, LogicalTurns
  <1> QED
    BY <1>1, <1>2, <1>3, <1>4, <1>5, <1>6, <1>7 DEF Next
-----------------------------------------------------------------------------
THEOREM InductiveInvariant == Spec => []IInv
  BY InitIInv, NextIInv, PTL DEF Spec

\* The variables keep their types: only memorable messages are cited, and what
\* a run extracts is made of stored rows.
THEOREM TypeCorrect == Spec => []TypeOK
  <1>1. IInv => TypeOK
    BY DEF IInv
  <1> QED
    BY <1>1, InductiveInvariant, PTL

\* However often a message is handed over and wherever runs die, one row
\* carries its identity.
THEOREM IdentitiesAreStoredOnce == Spec => []OneRowPerIdentity
  <1>1. IInv => OneRowPerIdentity
    BY DEF IInv
  <1> QED
    BY <1>1, InductiveInvariant, PTL

\* A turn index names one row of the session.
THEOREM TurnsNameOneRow == Spec => []OneRowPerTurn
  <1>1. IInv => OneRowPerTurn
    BY DEF IInv
  <1> QED
    BY <1>1, InductiveInvariant, PTL

\* The rows are sound after any payloads, live turns and failures.
THEOREM RowsAreSound == Spec => []RowsSound
  <1>1. IInv => RowsSound
    BY DEF IInv, RowsSound
  <1> QED
    BY <1>1, InductiveInvariant, PTL
-----------------------------------------------------------------------------
(* Blocks.                                                                 *)

\* A set of naturals that is not empty has a least element: the initial
\* segments of a finite interval are well ordered by inclusion.
LEMMA LeastNatural ==
    ASSUME NEW T, T \subseteq Nat, T # {}
    PROVE  \E n \in T : \A m \in T : n <= m
  <1>1. PICK b \in T : TRUE
    OBVIOUS
  <1> DEFINE Upto == {0 .. n : n \in {m \in T : m <= b}}
             Less == StrictSubsetOrdering(0 .. b)
  <1>2. IsFiniteSet(0 .. b)
    BY <1>1, FS_Interval
  <1>3. Upto \subseteq FiniteSubsetsOf(0 .. b) /\ Upto # {}
    <2>1. \A n \in T : n <= b => 0 .. n \in SUBSET (0 .. b)
      BY <1>1
    <2>2. FiniteSubsetsOf(0 .. b) = SUBSET (0 .. b)
      BY <1>2, FS_FiniteSubsetsOfFinite
    <2>3. b \in {m \in T : m <= b}
      BY <1>1
    <2> QED
      BY <2>1, <2>2, <2>3
  <1>4. IsWellFoundedOn(Less, FiniteSubsetsOf(0 .. b))
    BY FS_StrictSubsetOrderingWellFounded
  <1>5. PICK I \in Upto : \A J \in Upto : <<J, I>> \notin Less
    <2> HIDE DEF Upto, Less
    <2> QED
      BY <1>3, <1>4, WFMin
  <1>6. PICK n \in T : n <= b /\ I = 0 .. n
    BY <1>5
  <1>7. \A m \in T : n <= m
    <2> SUFFICES ASSUME NEW m \in T, m < n
                 PROVE  FALSE
      OBVIOUS
    <2>1. m \in Nat /\ n \in Nat /\ b \in Nat /\ m <= b
      BY <1>1, <1>6
    <2>2. 0 .. m \in Upto
      BY <2>1
    <2>3. 0 .. m \subseteq 0 .. n /\ 0 .. n \subseteq 0 .. b
      BY <2>1, <1>6
    <2>4. n \in 0 .. n /\ n \notin 0 .. m
      BY <2>1
    <2>5. <<0 .. m, 0 .. n>> \in Less
      BY <2>3, <2>4 DEF StrictSubsetOrdering
    <2> QED
      BY <1>5, <1>6, <2>2, <2>5
  <1> QED
    BY <1>7

\* From q to r only the speaker of m is heard.
OneSpeaker(R, q, r, m) ==
    \A x \in Spoken(R) : q.turn <= x.turn /\ x.turn <= r.turn => Role[x.msg] = Role[m]

\* The rows of a session, as far as its blocks depend on them.
Session(R) == R \subseteq Rows /\ \A q, r \in R : q.turn = r.turn => q = r

\* A block is a run of one speaker, and the whole of it: a row behind the start
\* of a block belongs to it as long as nobody else spoke in between.
LEMMA BlockIsOneRun ==
    ASSUME NEW R, Session(R), NEW s \in Starts(R),
           NEW r \in Spoken(R), s.turn <= r.turn
    PROVE  r \in Block(R, s) <=> OneSpeaker(R, s, r, s.msg)
  <1>1. /\ \A x \in R : x.turn \in Nat
        /\ Spoken(R) \subseteq R /\ Starts(R) \subseteq Spoken(R)
        /\ \A x, y \in R : x.turn = y.turn => x = y
    BY DEF Session, Rows, Spoken, Starts
  <1>2. ASSUME r \in Block(R, s), NEW x \in Spoken(R),
               s.turn <= x.turn, x.turn <= r.turn, Role[x.msg] # Role[s.msg]
        PROVE  FALSE
    <2> DEFINE Others == {y \in Spoken(R) : /\ s.turn <= y.turn /\ y.turn <= r.turn
                                            /\ Role[y.msg] # Role[s.msg]}
               T == {y.turn : y \in Others}
    <2>1. T \subseteq Nat /\ T # {}
      BY <1>1, <1>2
    <2>2. PICK n \in T : \A m \in T : n <= m
      <3> HIDE DEF T
      <3> QED
        BY <2>1, LeastNatural
    <2>3. PICK y \in Others : y.turn = n
      BY <2>2
    <2>4. s.turn < y.turn
      BY <1>1, <2>3
    <2>5. ASSUME NEW q \in Spoken(R), q.turn < y.turn, Role[q.msg] = Role[y.msg],
                 ~ \E z \in Spoken(R) : q.turn < z.turn /\ z.turn < y.turn
          PROVE  FALSE
      <3>1. s.turn <= q.turn
        BY <1>1, <2>4, <2>5
      <3>2. q \in Others
        BY <1>1, <2>3, <2>5, <3>1
      <3> QED
        BY <1>1, <2>2, <2>3, <2>5, <3>2
    <2>6. y \in Starts(R)
      BY <2>3, <2>5 DEF Starts
    <2> QED
      BY <1>2, <2>3, <2>4, <2>6 DEF Block
  <1>3. ASSUME OneSpeaker(R, s, r, s.msg), NEW b \in Starts(R),
               s.turn < b.turn, b.turn <= r.turn
        PROVE  FALSE
    <2> DEFINE Before == {y \in Spoken(R) : y.turn < b.turn}
               T == {b.turn - y.turn : y \in Before}
    <2>1. T \subseteq Nat /\ T # {}
      BY <1>1, <1>3
    <2>2. PICK n \in T : \A m \in T : n <= m
      <3> HIDE DEF T
      <3> QED
        BY <2>1, LeastNatural
    <2>3. PICK q \in Before : b.turn - q.turn = n
      BY <2>2
    <2>4. \A y \in Before : y.turn <= q.turn
      BY <1>1, <2>2, <2>3
    <2>5. Role[q.msg] = Role[s.msg] /\ Role[b.msg] = Role[s.msg]
      BY <1>1, <1>3, <2>3, <2>4 DEF OneSpeaker
    <2>6. ~ \E z \in Spoken(R) : q.turn < z.turn /\ z.turn < b.turn
      BY <1>1, <2>3, <2>4
    <2> QED
      BY <1>3, <2>3, <2>5, <2>6 DEF Starts
  <1> QED
    BY <1>2, <1>3 DEF Block, OneSpeaker

\* A start opens its own block.
LEMMA StartIsInBlock ==
    ASSUME NEW R, Session(R), NEW s \in Starts(R)
    PROVE  s \in Block(R, s)
  BY DEF Session, Rows, Block, Starts, Spoken

\* What an evidence record must find in the session: its turn, and behind it the
\* message, with nobody else in between.
Leads(e, R) ==
    \E q, r \in R :
        /\ q.turn = e[2] /\ r.msg = e[1] /\ q.turn <= r.turn
        /\ OneSpeaker(R, q, r, e[1])

LEMMA BlockLeads ==
    ASSUME NEW R, Session(R), NEW s \in Starts(R), NEW r \in Block(R, s)
    PROVE  Leads(<<r.msg, s.turn>>, R)
  <1>1. s \in R /\ r \in Spoken(R) /\ r \in R /\ s.turn <= r.turn /\ s.turn \in Nat /\ r.turn \in Nat
    BY DEF Session, Rows, Block, Starts, Spoken
  <1>2. OneSpeaker(R, s, r, s.msg)
    BY <1>1, BlockIsOneRun
  <1>3. Role[r.msg] = Role[s.msg]
    BY <1>1, <1>2 DEF OneSpeaker
  <1>4. OneSpeaker(R, s, r, r.msg)
    BY <1>2, <1>3 DEF OneSpeaker
  <1> QED
    BY <1>1, <1>4 DEF Leads

\* A logical turn is two blocks of the session.
LEMMA PairHasStarts ==
    ASSUME NEW R, NEW pair \in Pairs(R)
    PROVE  \E u, a \in Starts(R) :
              /\ Role[u.msg] = "user" /\ Role[a.msg] = "assistant"
              /\ u.turn < a.turn
              /\ ~ \E b \in Starts(R) : u.turn < b.turn /\ b.turn < a.turn
              /\ pair = [user |-> Block(R, u), userTurn |-> u.turn,
                         asst |-> Block(R, a), asstTurn |-> a.turn]
  BY DEF Pairs

\* What is read from a logical turn leads back to it.
LEMMA CandidatesLead ==
    ASSUME NEW R, Session(R), NEW pair \in Pairs(R), NEW e \in Candidates(pair)
    PROVE  Leads(e, R)
  <1>1. PICK u, a \in Starts(R) :
            pair = [user |-> Block(R, u), userTurn |-> u.turn,
                    asst |-> Block(R, a), asstTurn |-> a.turn]
    BY PairHasStarts
  <1>2. \/ \E r \in Block(R, u) : e = <<r.msg, u.turn>>
        \/ \E r \in Block(R, a) : e = <<r.msg, a.turn>>
    BY <1>1 DEF Candidates
  <1> QED
    BY <1>2, BlockLeads

\* R grows to Q behind its last turn.
GrowsBehind(R, Q) == R \subseteq Q /\ \A r \in R, q \in Q \ R : r.turn < q.turn

LEMMA LeadsStays ==
    ASSUME NEW R, NEW Q, Session(Q), GrowsBehind(R, Q), NEW e, Leads(e, R)
    PROVE  Leads(e, Q)
  <1>1. PICK q, r \in R : /\ q.turn = e[2] /\ r.msg = e[1] /\ q.turn <= r.turn
                          /\ OneSpeaker(R, q, r, e[1])
    BY DEF Leads
  <1>2. ASSUME NEW x \in Spoken(Q), q.turn <= x.turn, x.turn <= r.turn
        PROVE  Role[x.msg] = Role[e[1]]
    <2>1. x \in Q /\ r \in Q /\ x.turn \in Nat /\ r.turn \in Nat
      BY <1>1 DEF Spoken, Session, Rows, GrowsBehind
    <2>2. x \in R
      BY <1>2, <2>1 DEF GrowsBehind
    <2>3. x \in Spoken(R)
      BY <2>2 DEF Spoken
    <2> QED
      BY <1>1, <1>2, <2>3 DEF OneSpeaker
  <1> QED
    BY <1>1, <1>2 DEF Leads, OneSpeaker, GrowsBehind

\* The rows of every state are a session, and every step lets it grow behind.
LEMMA RowsAreSession == IInv => Session(rows)
  BY DEF IInv, TypeOK, Session, OneRowPerTurn

LEMMA PersistGrowsBehind ==
    ASSUME IInv, NEW p \in Payloads, Persist(p)
    PROVE  GrowsBehind(rows, rows')
  <1>1. PICK base \in NextTurns : rows' = rows \cup
            {[turn |-> base + i - 1, msg |-> p[i], id |-> Identity(p, i)] : i \in Unknown(p)}
    BY DEF Persist
  <1>2. base \in Nat /\ \A r \in rows : r.turn \in Nat /\ r.turn < base
    BY NextTurnIsBeyond DEF IInv, TypeOK, Rows
  <1>3. \A i \in Unknown(p) : i \in Nat /\ i >= 1
    BY IngestionAssumption DEF Unknown
  <1> QED
    BY <1>1, <1>2, <1>3 DEF GrowsBehind

LEMMA ObserveGrowsBehind ==
    ASSUME IInv, NEW pair \in Live, Observe(pair)
    PROVE  GrowsBehind(rows, rows')
  <1>1. PICK base \in NextTurns : rows' = rows \cup
            {[turn |-> base, msg |-> pair[1], id |-> None],
             [turn |-> base + 1, msg |-> pair[2], id |-> None]}
    BY DEF Observe
  <1>2. base \in Nat /\ \A r \in rows : r.turn \in Nat /\ r.turn < base
    BY NextTurnIsBeyond DEF IInv, TypeOK, Rows
  <1> QED
    BY <1>1, <1>2 DEF GrowsBehind
-----------------------------------------------------------------------------
(* Evidence.  Only the run changes rows and evidence while it holds the     *)
(* lock, so what it has still to extract is what stands in the session.     *)

EvidenceInv ==
    /\ todo \subseteq Pairs(rows)
    /\ phase # "extracting" => todo = {}
    /\ phase = "idle" => fresh = {}
    /\ \A e \in evidence : Leads(e, rows)

LEMMA InitEvidence == Init => EvidenceInv
  BY DEF Init, EvidenceInv

\* The live turn is a logical turn of its own.
LEMMA LiveTurnLeads ==
    ASSUME IInv, NEW pair \in Live, Observe(pair)
    PROVE  \A e \in evidence' \ evidence : Leads(e, rows')
  <1> DEFINE u(base) == [turn |-> base, msg |-> pair[1], id |-> None]
             a(base) == [turn |-> base + 1, msg |-> pair[2], id |-> None]
             turn(base) == [user |-> {u(base)}, userTurn |-> base,
                            asst |-> {a(base)}, asstTurn |-> base + 1]
  <1>1. PICK base \in NextTurns :
            /\ rows' = rows \cup {u(base), a(base)}
            /\ evidence' \in {evidence, evidence \cup Candidates(turn(base))}
    BY DEF Observe
  <1>2. base \in Nat /\ \A r \in rows : r.turn \in Nat /\ r.turn < base
    BY <1>1, NextTurnIsBeyond DEF IInv, TypeOK, Rows
  <1> SUFFICES ASSUME NEW e \in Candidates(turn(base))
               PROVE  Leads(e, rows')
    BY <1>1
  <1>3. e = <<pair[1], base>> \/ e = <<pair[2], base + 1>>
    BY DEF Candidates
  <1>4. u(base) \in rows' /\ a(base) \in rows'
    BY <1>1
  <1>5. CASE e = <<pair[1], base>>
    <2>1. \A x \in rows' : base <= x.turn /\ x.turn <= base => x = u(base)
      BY <1>1, <1>2
    <2>2. OneSpeaker(rows', u(base), u(base), e[1])
      BY <1>5, <2>1 DEF OneSpeaker, Spoken
    <2> QED
      BY <1>2, <1>4, <1>5, <2>2 DEF Leads
  <1>6. CASE e = <<pair[2], base + 1>>
    <2>1. \A x \in rows' : base + 1 <= x.turn /\ x.turn <= base + 1 => x = a(base)
      BY <1>1, <1>2
    <2>2. OneSpeaker(rows', a(base), a(base), e[1])
      BY <1>6, <2>1 DEF OneSpeaker, Spoken
    <2> QED
      BY <1>2, <1>4, <1>6, <2>2 DEF Leads
  <1> QED
    BY <1>3, <1>5, <1>6

LEMMA NextEvidence == IInv /\ IInv' /\ EvidenceInv /\ [Next]_vars => EvidenceInv'
  <1> SUFFICES ASSUME IInv, IInv', EvidenceInv, [Next]_vars
               PROVE  EvidenceInv'
    OBVIOUS
  <1>0. Session(rows) /\ Session(rows')
    <2>1. (IInv => Session(rows))'
      BY RowsAreSession, PTL
    <2> QED
      BY <2>1, RowsAreSession
  <1>1. ASSUME NEW p \in Payloads, Persist(p)
        PROVE  EvidenceInv'
    BY <1>0, <1>1, PersistGrowsBehind, LeadsStays DEF EvidenceInv, Persist
  <1>2. CASE LoadSession
    BY <1>2 DEF EvidenceInv, LoadSession
  <1>3. CASE ExtractPair
    <2>1. PICK pair \in todo :
              /\ evidence' = evidence \cup Candidates(pair)
              /\ todo' = todo \ {pair}
      BY <1>3 DEF ExtractPair
    <2>2. \A e \in evidence' : Leads(e, rows)
      BY <1>0, <2>1, CandidatesLead DEF EvidenceInv
    <2> QED
      BY <1>3, <2>1, <2>2 DEF EvidenceInv, ExtractPair
  <1>4. CASE RunReturns
    BY <1>4 DEF EvidenceInv, RunReturns
  <1>5. CASE RunFails
    BY <1>5 DEF EvidenceInv, RunFails
  <1>6. ASSUME NEW pair \in Live, Observe(pair)
        PROVE  EvidenceInv'
    <2>1. \A e \in evidence : Leads(e, rows')
      BY <1>0, <1>6, ObserveGrowsBehind, LeadsStays DEF EvidenceInv
    <2>2. \A e \in evidence' : Leads(e, rows')
      BY <1>6, <2>1, LiveTurnLeads
    <2> QED
      BY <1>6, <2>2 DEF EvidenceInv, Observe
  <1>7. CASE UNCHANGED vars
    BY <1>7 DEF EvidenceInv, vars
  <1> QED
    BY <1>1, <1>2, <1>3, <1>4, <1>5, <1>6, <1>7 DEF Next

LEMMA EvidenceInvariant == Spec => []EvidenceInv
  BY InitEvidence, NextEvidence, InductiveInvariant, PTL DEF Spec

\* Evidence leads back to the block the memory was read from: whatever is handed
\* over or observed later, the cited turn is spoken by the same side and nobody
\* else spoke before the message came.
THEOREM EvidenceIsCitedWhereRead == Spec => []EvidenceCitesItsBlock
  <1>1. EvidenceInv => EvidenceCitesItsBlock
    BY DEF EvidenceInv, EvidenceCitesItsBlock, Leads, OneSpeaker
  <1> QED
    BY <1>1, EvidenceInvariant, PTL
-----------------------------------------------------------------------------
(* What a run that came to its end has read.                               *)

\* All a logical turn has to be remembered by is in the graph.
Read(pair) == MemorableOf(pair) \subseteq Facts

\* A run that stored nothing extracts every pair no node cites.
CatchUpInv ==
    phase \in {"extracting", "done"} /\ fresh = {} =>
        \A pair \in Pairs(rows) : pair \in todo \/ Cited(pair) \/ Read(pair)

\* Extraction leaves a logical turn read.
LEMMA ExtractedIsRead ==
    ASSUME NEW pair, Candidates(pair) \subseteq evidence'
    PROVE  Read(pair)'
  <1>1. ASSUME NEW m \in MemorableOf(pair)
        PROVE  \E e \in Candidates(pair) : e[1] = m
    <2>1. PICK r \in pair.user \cup pair.asst : r.msg = m /\ m \in Memorable
      BY <1>1 DEF MemorableOf
    <2>2. <<m, pair.userTurn>> \in Candidates(pair) \/ <<m, pair.asstTurn>> \in Candidates(pair)
      BY <2>1 DEF Candidates
    <2> QED
      BY <2>2
  <1>2. MemorableOf(pair)' = MemorableOf(pair)
    BY DEF MemorableOf
  <1>3. Facts' = {e[1] : e \in evidence'}
    BY DEF Facts
  <1> QED
    BY <1>1, <1>2, <1>3 DEF Read

\* What is read or cited stays so.
LEMMA ReadStays ==
    ASSUME NEW pair, evidence \subseteq evidence'
    PROVE  /\ Read(pair) => Read(pair)'
           /\ Cited(pair) => Cited(pair)'
  <1>1. MemorableOf(pair)' = MemorableOf(pair) /\ Facts \subseteq Facts'
    BY DEF MemorableOf, Facts
  <1> QED
    BY <1>1 DEF Read, Cited

LEMMA InitCatchUp == Init => CatchUpInv
  BY DEF Init, CatchUpInv

\* A step of ExtractPair, as far as reading goes.
LEMMA ExtractPairReads ==
    ASSUME ExtractPair
    PROVE  /\ rows' = rows /\ evidence \subseteq evidence'
           /\ \A pair \in todo : pair \in todo' \/ Read(pair)'
  <1>1. PICK pair \in todo : /\ evidence' = evidence \cup Candidates(pair)
                             /\ todo' = todo \ {pair}
    BY DEF ExtractPair
  <1>2. Read(pair)'
    BY <1>1, ExtractedIsRead
  <1> QED
    BY <1>1, <1>2 DEF ExtractPair

LEMMA NextCatchUp == EvidenceInv /\ CatchUpInv /\ [Next]_vars => CatchUpInv'
  <1> SUFFICES ASSUME EvidenceInv, CatchUpInv, [Next]_vars
               PROVE  CatchUpInv'
    OBVIOUS
  <1>1. ASSUME NEW p \in Payloads, Persist(p)
        PROVE  CatchUpInv'
    BY <1>1 DEF CatchUpInv, Persist
  <1>2. CASE LoadSession
    BY <1>2 DEF CatchUpInv, LoadSession, NeedsExtraction, Cited
  <1>3. CASE ExtractPair
    <2>1. fresh' = fresh /\ phase = "extracting"
      BY <1>3 DEF ExtractPair
    <2>2. rows' = rows /\ evidence \subseteq evidence'
          /\ \A pair \in todo : pair \in todo' \/ Read(pair)'
      BY <1>3, ExtractPairReads
    <2> SUFFICES ASSUME fresh = {}, NEW pair \in Pairs(rows)
                 PROVE  pair \in todo' \/ Cited(pair)' \/ Read(pair)'
      BY <2>1, <2>2 DEF CatchUpInv
    <2> QED
      BY <2>1, <2>2, ReadStays DEF CatchUpInv
  <1>4. CASE RunReturns
    BY <1>4 DEF CatchUpInv, RunReturns
  <1>5. CASE RunFails
    BY <1>5 DEF CatchUpInv, RunFails
  <1>6. ASSUME NEW pair \in Live, Observe(pair)
        PROVE  CatchUpInv'
    BY <1>6 DEF CatchUpInv, Observe
  <1>7. CASE UNCHANGED vars
    BY <1>7 DEF CatchUpInv, vars, Cited, Read, Facts, MemorableOf
  <1> QED
    BY <1>1, <1>2, <1>3, <1>4, <1>5, <1>6, <1>7 DEF Next

LEMMA CatchUpInvariant == Spec => []CatchUpInv
  BY InitCatchUp, NextCatchUp, EvidenceInvariant, PTL DEF Spec

\* The message a cited turn leads to is one of the block that begins there.
LEMMA CitedBlockHoldsFact ==
    ASSUME NEW R, Session(R), NEW s \in Starts(R),
           NEW e, Leads(e, R), e[2] = s.turn, e[1] \in Memorable
    PROVE  \E r \in Block(R, s) : r.msg = e[1]
  <1>1. PICK q, r \in R : /\ q.turn = s.turn /\ r.msg = e[1] /\ q.turn <= r.turn
                          /\ OneSpeaker(R, q, r, e[1])
    BY DEF Leads
  <1>2. s \in R /\ s \in Spoken(R) /\ q = s /\ s.turn \in Nat
    BY <1>1 DEF Starts, Spoken, Session, Rows
  <1>3. Role[e[1]] \in {"user", "assistant"}
    BY IngestionAssumption
  <1>4. r \in Spoken(R)
    BY <1>1, <1>3 DEF Spoken
  <1>5. Role[s.msg] = Role[e[1]]
    BY <1>1, <1>2 DEF OneSpeaker
  <1>6. OneSpeaker(R, s, r, s.msg)
    BY <1>1, <1>2, <1>5 DEF OneSpeaker
  <1>7. r \in Block(R, s)
    BY <1>1, <1>2, <1>4, <1>6, BlockIsOneRun
  <1> QED
    BY <1>1, <1>7

\* A cited logical turn is remembered by something of its own.
LEMMA CitedIsRemembered ==
    ASSUME TypeOK, Session(rows), \A e \in evidence : Leads(e, rows),
           NEW pair \in Pairs(rows), Cited(pair)
    PROVE  MemorableOf(pair) \cap Facts # {}
  <1>1. PICK u, a \in Starts(rows) :
            pair = [user |-> Block(rows, u), userTurn |-> u.turn,
                    asst |-> Block(rows, a), asstTurn |-> a.turn]
    BY PairHasStarts
  <1>2. PICK e \in evidence : e[2] \in {u.turn, a.turn}
    BY <1>1 DEF Cited
  <1>3. e[1] \in Memorable /\ e[1] \in Facts /\ Leads(e, rows)
    BY <1>2 DEF TypeOK, Facts
  <1>4. \E r \in Block(rows, u) \cup Block(rows, a) : r.msg = e[1]
    BY <1>2, <1>3, CitedBlockHoldsFact
  <1> QED
    BY <1>1, <1>3, <1>4 DEF MemorableOf

\* A repeated run that stored nothing has caught up, whatever failed before: no
\* logical turn with something to remember is left without any memory.
THEOREM RepeatsCatchUp == Spec => []RepeatCatchesUp
  <1>1. IInv /\ EvidenceInv /\ CatchUpInv => RepeatCatchesUp
    <2> SUFFICES ASSUME IInv, EvidenceInv, CatchUpInv, phase = "done", fresh = {},
                        NEW pair \in Pairs(rows), MemorableOf(pair) # {}
                 PROVE  MemorableOf(pair) \cap Facts # {}
      BY DEF RepeatCatchesUp
    <2>1. Cited(pair) \/ Read(pair)
      BY DEF EvidenceInv, CatchUpInv
    <2>2. CASE Cited(pair)
      BY <2>2, RowsAreSession, CitedIsRemembered DEF IInv, EvidenceInv
    <2>3. CASE Read(pair)
      BY <2>3 DEF Read
    <2> QED
      BY <2>1, <2>2, <2>3
  <1> QED
    BY <1>1, InductiveInvariant, EvidenceInvariant, CatchUpInvariant, PTL
-----------------------------------------------------------------------------
(* The first reading.                                                      *)

\* While no run failed and no live turn came in between, a logical turn is read,
\* is to be read by the run, or has messages the run has just stored.
ReadInv ==
    failures = 0 /\ (\A r \in rows : r.id # None) =>
        \A pair \in Pairs(rows) :
            \/ Read(pair)
            \/ phase = "stored" /\ HasNew(pair)
            \/ pair \in todo

\* Rows behind the last turn leave the blocks that begin among the old rows as
\* they were, except that the last one may grow.
LEMMA OldStarts ==
    ASSUME NEW R, NEW Q, Session(Q), GrowsBehind(R, Q)
    PROVE  /\ Starts(R) = Starts(Q) \cap R
           /\ \A s \in Starts(R) : Block(R, s) = Block(Q, s) \cap R
  <1>1. /\ R \subseteq Q /\ Spoken(R) = Spoken(Q) \cap R
        /\ \A x \in Q : x.turn \in Nat
        /\ \A r \in R, q \in Q : q.turn <= r.turn => q \in R
    BY DEF Session, Rows, GrowsBehind, Spoken
  <1>2. \A r \in R, q \in Q : q.turn < r.turn => q \in R
    BY <1>1
  <1>3. Starts(R) = Starts(Q) \cap R
    <2>1. ASSUME NEW r \in Spoken(R)
          PROVE  r \in Starts(R) <=> r \in Starts(Q)
      <3> DEFINE Follows(S, q) == /\ q.turn < r.turn /\ Role[q.msg] = Role[r.msg]
                                  /\ ~ \E x \in Spoken(S) : q.turn < x.turn /\ x.turn < r.turn
      <3>1. \A q \in Spoken(Q) : q.turn < r.turn => q \in Spoken(R)
        BY <1>1, <1>2, <2>1 DEF Spoken
      <3>2. (\E q \in Spoken(R) : Follows(R, q)) <=> (\E q \in Spoken(Q) : Follows(Q, q))
        BY <1>1, <3>1
      <3>3. r \in Starts(R) <=> ~ \E q \in Spoken(R) : Follows(R, q)
        BY <2>1 DEF Starts
      <3>4. r \in Starts(Q) <=> ~ \E q \in Spoken(Q) : Follows(Q, q)
        BY <1>1, <2>1 DEF Starts
      <3> QED
        BY <3>2, <3>3, <3>4
    <2> QED
      BY <1>1, <2>1 DEF Starts
  <1>4. ASSUME NEW s \in Starts(R)
        PROVE  Block(R, s) = Block(Q, s) \cap R
    <2>1. ASSUME NEW r \in Spoken(R)
          PROVE  (\E b \in Starts(R) : s.turn < b.turn /\ b.turn <= r.turn)
                 <=> (\E b \in Starts(Q) : s.turn < b.turn /\ b.turn <= r.turn)
      BY <1>1, <1>3, <2>1 DEF Starts, Spoken
    <2> QED
      BY <1>1, <2>1 DEF Block
  <1> QED
    BY <1>3, <1>4

\* A logical turn none of whose rows is new was one before.
LEMMA OldPair ==
    ASSUME NEW R, NEW Q, Session(Q), GrowsBehind(R, Q),
           NEW pair \in Pairs(Q), pair.user \cup pair.asst \subseteq R
    PROVE  pair \in Pairs(R)
  <1>1. PICK u, a \in Starts(Q) :
            /\ Role[u.msg] = "user" /\ Role[a.msg] = "assistant"
            /\ u.turn < a.turn
            /\ ~ \E b \in Starts(Q) : u.turn < b.turn /\ b.turn < a.turn
            /\ pair = [user |-> Block(Q, u), userTurn |-> u.turn,
                       asst |-> Block(Q, a), asstTurn |-> a.turn]
    BY PairHasStarts
  <1>2. u \in R /\ a \in R
    BY <1>1, StartIsInBlock
  <1>3. u \in Starts(R) /\ a \in Starts(R) /\ Starts(R) \subseteq Starts(Q)
    BY <1>2, OldStarts
  <1>4. Block(R, u) = Block(Q, u) /\ Block(R, a) = Block(Q, a)
    <2>1. Block(Q, u) \subseteq R /\ Block(Q, a) \subseteq R
      BY <1>1
    <2>2. Block(R, u) = Block(Q, u) \cap R /\ Block(R, a) = Block(Q, a) \cap R
      BY <1>3, OldStarts
    <2> QED
      BY <2>1, <2>2
  <1> DEFINE Turns == {q \in Starts(R) \X Starts(R) :
                          /\ Role[q[1].msg] = "user" /\ Role[q[2].msg] = "assistant"
                          /\ q[1].turn < q[2].turn
                          /\ ~ \E b \in Starts(R) : q[1].turn < b.turn /\ b.turn < q[2].turn}
  <1>5. <<u, a>> \in Turns
    BY <1>1, <1>3
  <1>6. \E q \in Turns : pair = [user |-> Block(R, q[1]), userTurn |-> q[1].turn,
                               asst |-> Block(R, q[2]), asstTurn |-> q[2].turn]
    <2> HIDE DEF Turns
    <2> WITNESS <<u, a>> \in Turns
    <2> QED
      BY <1>1, <1>4
  <1> QED
    BY <1>6 DEF Pairs

\* What a run stores is new to it.
LEMMA StoredIsFresh ==
    ASSUME IInv, IInv', NEW p \in Payloads, Persist(p),
           NEW pair \in Pairs(rows)', ~ HasNew(pair)'
    PROVE  pair \in Pairs(rows)
  <1>1. Session(rows')
    <2>1. (IInv => Session(rows))'
      BY RowsAreSession, PTL
    <2> QED
      BY <2>1
  <1>2. \A r \in rows' \ rows : r.id \in fresh'
    BY DEF Persist
  <1>3. \A r \in pair.user \cup pair.asst : r.id \notin fresh'
    BY DEF HasNew
  <1>4. pair \in Pairs(rows')
    BY DEF Pairs, Starts, Block, Spoken
  <1>5. pair.user \cup pair.asst \subseteq rows'
    <2>1. PICK u, a \in Starts(rows') :
              pair = [user |-> Block(rows', u), userTurn |-> u.turn,
                      asst |-> Block(rows', a), asstTurn |-> a.turn]
      BY <1>4, PairHasStarts
    <2> QED
      BY <2>1 DEF Block, Spoken
  <1>6. pair.user \cup pair.asst \subseteq rows
    BY <1>2, <1>3, <1>5
  <1> QED
    BY <1>1, <1>4, <1>6, PersistGrowsBehind, OldPair

LEMMA InitRead == Init => ReadInv
  BY DEF Init, ReadInv, Pairs, Starts, Spoken

LEMMA NextRead == IInv /\ IInv' /\ EvidenceInv /\ ReadInv /\ [Next]_vars => ReadInv'
  <1> SUFFICES ASSUME IInv, IInv', EvidenceInv, ReadInv, [Next]_vars,
                      failures' = 0, \A r \in rows' : r.id # None,
                      NEW pair \in Pairs(rows)'
               PROVE  \/ Read(pair)'
                      \/ phase' = "stored" /\ HasNew(pair)'
                      \/ pair \in todo'
    BY DEF ReadInv
  <1>1. ASSUME NEW p \in Payloads, Persist(p)
        PROVE  Read(pair)' \/ (phase' = "stored" /\ HasNew(pair)')
    <2>1. /\ phase = "idle" /\ phase' = "stored" /\ failures = 0
          /\ evidence' = evidence /\ rows \subseteq rows'
      BY <1>1 DEF Persist
    <2>2. todo = {}
      BY <2>1 DEF EvidenceInv
    <2> SUFFICES ASSUME ~ HasNew(pair)'
                 PROVE  Read(pair)'
      BY <2>1
    <2>3. pair \in Pairs(rows)
      BY <1>1, StoredIsFresh
    <2>4. Read(pair)
      BY <2>1, <2>2, <2>3 DEF ReadInv
    <2> QED
      BY <2>1, <2>4, ReadStays
  <1>2. CASE LoadSession
    <2>1. /\ phase = "stored" /\ failures = 0 /\ rows' = rows /\ evidence' = evidence
          /\ todo' = {q \in Pairs(rows) : NeedsExtraction(q)}
      BY <1>2 DEF LoadSession
    <2>2. pair \in Pairs(rows) /\ todo = {}
      BY <2>1 DEF Pairs, Starts, Block, Spoken, EvidenceInv
    <2>3. Read(pair) \/ HasNew(pair)
      BY <2>1, <2>2 DEF ReadInv
    <2>4. CASE Read(pair)
      BY <2>1, <2>4, ReadStays
    <2>5. CASE HasNew(pair)
      <3>1. NeedsExtraction(pair)
        BY <2>5 DEF HasNew, NeedsExtraction
      <3> QED
        BY <2>1, <2>2, <3>1
    <2> QED
      BY <2>3, <2>4, <2>5
  <1>3. CASE ExtractPair
    <2>1. /\ phase = "extracting" /\ failures = 0 /\ rows' = rows
          /\ evidence \subseteq evidence'
          /\ \A q \in todo : q \in todo' \/ Read(q)'
      BY <1>3, ExtractPairReads DEF ExtractPair
    <2>2. pair \in Pairs(rows)
      BY <2>1 DEF Pairs, Starts, Block, Spoken
    <2>3. Read(pair) \/ pair \in todo
      BY <2>1, <2>2 DEF ReadInv
    <2> QED
      BY <2>1, <2>3, ReadStays
  <1>4. CASE RunReturns
    <2>1. /\ phase = "done" /\ failures = 0 /\ rows' = rows
          /\ evidence' = evidence /\ todo' = todo
      BY <1>4 DEF RunReturns
    <2>2. pair \in Pairs(rows)
      BY <2>1 DEF Pairs, Starts, Block, Spoken
    <2>3. Read(pair) \/ pair \in todo
      BY <2>1, <2>2 DEF ReadInv
    <2> QED
      BY <2>1, <2>3, ReadStays
  <1>5. CASE RunFails
    <2>1. failures' = failures + 1 /\ failures \in Nat
      BY <1>5 DEF RunFails, IInv, TypeOK
    <2> QED
      BY <2>1
  <1>6. ASSUME NEW live \in Live, Observe(live)
        PROVE  FALSE
    <2>1. \E r \in rows' : r.id = None
      <3>1. PICK base \in NextTurns :
                [turn |-> base, msg |-> live[1], id |-> None] \in rows'
        BY <1>6 DEF Observe
      <3> QED
        BY <3>1
    <2> QED
      BY <2>1
  <1>7. CASE UNCHANGED vars
    <2>1. /\ rows' = rows /\ evidence' = evidence /\ phase' = phase
          /\ fresh' = fresh /\ todo' = todo /\ failures = 0
      BY <1>7 DEF vars
    <2>2. pair \in Pairs(rows)
      BY <2>1 DEF Pairs, Starts, Block, Spoken
    <2>3. HasNew(pair) => HasNew(pair)'
      BY <2>1 DEF HasNew
    <2>4. Read(pair) \/ (phase = "stored" /\ HasNew(pair)) \/ pair \in todo
      BY <2>1, <2>2 DEF ReadInv
    <2> QED
      BY <2>1, <2>3, <2>4, ReadStays
  <1> QED
    BY <1>1, <1>2, <1>3, <1>4, <1>5, <1>6, <1>7 DEF Next

LEMMA ReadInvariant == Spec => []ReadInv
  BY InitRead, NextRead, InductiveInvariant, EvidenceInvariant, PTL DEF Spec

\* As long as no run failed and no live turn came in between, a run that came to
\* its end has read every logical turn of the session, also the one an earlier
\* run saw only the beginning of.
THEOREM UndisturbedRunsRead == Spec => []UndisturbedRunsReadAll
  <1>1. EvidenceInv /\ ReadInv => UndisturbedRunsReadAll
    BY DEF EvidenceInv, ReadInv, UndisturbedRunsReadAll, ReadAll, Read
  <1> QED
    BY <1>1, EvidenceInvariant, ReadInvariant, PTL
-----------------------------------------------------------------------------
(* The order of a talk.                                                    *)

\* The client hands over one talk that only grows: of two payloads one begins
\* with the other, and an identified message comes once in it.
GrowingTalk ==
    /\ \A p, q \in Payloads : Len(p) <= Len(q) => \A i \in 1 .. Len(p) : q[i] = p[i]
    /\ \A p \in Payloads : \A i, j \in 1 .. Len(p) : p[i] = p[j] /\ p[i] \in HasId => i = j

\* An identified message is stored behind every one before it in the talk.
OrderInv ==
    \A p \in Payloads : \A i, j \in 1 .. Len(p) : \A r \in rows :
        /\ i < j /\ p[i] \in HasId /\ p[j] \in HasId /\ r.id = <<p[j], 0>>
        => \E q \in rows : q.id = <<p[i], 0>> /\ q.turn < r.turn

LEMMA InitOrder == Init => OrderInv
  BY DEF Init, OrderInv

\* In a growing talk a message has its place.
LEMMA SamePlace ==
    ASSUME GrowingTalk, NEW p \in Payloads, NEW j \in 1 .. Len(p),
           NEW q \in Payloads, NEW k \in 1 .. Len(q),
           p[j] = q[k], p[j] \in HasId
    PROVE  j = k /\ \A i \in 1 .. j : q[i] = p[i]
  <1>1. Len(p) \in Nat /\ Len(q) \in Nat
    BY IngestionAssumption
  <1>2. CASE Len(p) <= Len(q)
    <2>1. j \in 1 .. Len(q) /\ q[j] = p[j]
      BY <1>1, <1>2 DEF GrowingTalk
    <2>2. j = k
      BY <2>1 DEF GrowingTalk
    <2>3. \A i \in 1 .. j : i \in 1 .. Len(p)
      BY <1>1
    <2> QED
      BY <1>2, <2>2, <2>3 DEF GrowingTalk
  <1>3. CASE Len(q) <= Len(p)
    <2>1. k \in 1 .. Len(p) /\ p[k] = q[k]
      BY <1>1, <1>3 DEF GrowingTalk
    <2>2. j = k
      BY <2>1 DEF GrowingTalk
    <2>3. \A i \in 1 .. j : i \in 1 .. Len(q)
      BY <1>1, <2>2
    <2> QED
      BY <1>3, <2>2, <2>3 DEF GrowingTalk
  <1> QED
    BY <1>1, <1>2, <1>3

LEMMA PersistOrder ==
    ASSUME GrowingTalk, IInv, OrderInv, NEW t \in Payloads, Persist(t)
    PROVE  OrderInv'
  <1> DEFINE Row(base, i) == [turn |-> base + i - 1, msg |-> t[i], id |-> Identity(t, i)]
  <1>1. PICK base \in NextTurns : rows' = rows \cup {Row(base, i) : i \in Unknown(t)}
    BY DEF Persist
  <1>2. base \in Nat /\ \A r \in rows : r.turn \in Nat /\ r.turn < base
    BY <1>1, NextTurnIsBeyond DEF IInv, TypeOK, Rows
  <1>3. Len(t) \in Nat /\ \A i \in Unknown(t) : i \in 1 .. Len(t)
    BY IngestionAssumption DEF Unknown
  <1> SUFFICES ASSUME NEW p \in Payloads, NEW i \in 1 .. Len(p), NEW j \in 1 .. Len(p),
                      NEW r \in rows', i < j, p[i] \in HasId, p[j] \in HasId,
                      r.id = <<p[j], 0>>
               PROVE  \E q \in rows' : q.id = <<p[i], 0>> /\ q.turn < r.turn
    BY DEF OrderInv
  <1>4. CASE r \in rows
    BY <1>1, <1>4 DEF OrderInv
  <1>5. ASSUME NEW k \in Unknown(t), r = Row(base, k)
        PROVE  \E q \in rows' : q.id = <<p[i], 0>> /\ q.turn < r.turn
    <2>1. k \in 1 .. Len(t) /\ Identity(t, k) = <<p[j], 0>>
      BY <1>3, <1>5
    <2>2. t[k] = p[j]
      BY <2>1 DEF Identity
    <2>3. j = k /\ \A h \in 1 .. j : t[h] = p[h]
      BY <2>1, <2>2, SamePlace
    <2>4. i \in 1 .. j /\ i \in Nat
      OBVIOUS
    <2>5. i \in 1 .. Len(t) /\ t[i] = p[i] /\ Identity(t, i) = <<p[i], 0>>
      BY <1>3, <2>1, <2>3, <2>4 DEF Identity
    <2>6. CASE <<p[i], 0>> \in Ids
      <3>1. PICK q \in rows : q.id = <<p[i], 0>>
        BY <2>6 DEF Ids
      <3>2. r.turn = base + k - 1 /\ k >= 1
        BY <1>5, <2>1
      <3> QED
        BY <1>1, <1>2, <2>1, <3>1, <3>2
    <2>7. CASE <<p[i], 0>> \notin Ids
      <3>1. ASSUME NEW h \in 1 .. i - 1, Identity(t, h) = Identity(t, i)
            PROVE  FALSE
        <4>1. h \in 1 .. Len(t) /\ h # i
          BY <1>3, <2>4, <2>5, <3>1
        <4>2. t[h] = t[i] /\ t[h] \in HasId
          BY <2>5, <3>1 DEF Identity
        <4> QED
          BY <2>5, <4>1, <4>2 DEF GrowingTalk
      <3>2. i \in Unknown(t)
        BY <2>5, <2>7, <3>1 DEF Unknown
      <3>3. Row(base, i) \in rows' /\ Row(base, i).id = <<p[i], 0>>
        BY <1>1, <2>5, <3>2
      <3>4. Row(base, i).turn < r.turn
        BY <1>2, <1>5, <2>3, <2>4
      <3> QED
        BY <3>3, <3>4
    <2> QED
      BY <2>6, <2>7
  <1> QED
    BY <1>1, <1>4, <1>5

LEMMA NextOrder == GrowingTalk /\ IInv /\ OrderInv /\ [Next]_vars => OrderInv'
  <1> SUFFICES ASSUME GrowingTalk, IInv, OrderInv, [Next]_vars
               PROVE  OrderInv'
    OBVIOUS
  <1>1. ASSUME NEW p \in Payloads, Persist(p)
        PROVE  OrderInv'
    BY <1>1, PersistOrder
  <1>2. ASSUME UNCHANGED rows
        PROVE  OrderInv'
    BY <1>2 DEF OrderInv
  <1>3. ASSUME NEW pair \in Live, Observe(pair)
        PROVE  OrderInv'
    <2>1. /\ rows \subseteq rows' /\ \A r \in rows' \ rows : r.id = None
      BY <1>3 DEF Observe
    <2>2. \A p \in Payloads : \A j \in 1 .. Len(p) : <<p[j], 0>> # None
      BY IdentityIsTyped, IngestionAssumption
    <2> SUFFICES ASSUME NEW p \in Payloads, NEW i \in 1 .. Len(p), NEW j \in 1 .. Len(p),
                        NEW r \in rows', i < j, p[i] \in HasId, p[j] \in HasId,
                        r.id = <<p[j], 0>>
                 PROVE  \E q \in rows' : q.id = <<p[i], 0>> /\ q.turn < r.turn
      BY DEF OrderInv
    <2>3. r \in rows
      BY <2>1, <2>2
    <2> QED
      BY <2>1, <2>3 DEF OrderInv
  <1> QED
    BY <1>1, <1>2, <1>3
    DEF Next, LoadSession, ExtractPair, RunReturns, RunFails, vars

\* Rows of a talk that only grows stand in its order, whatever part of it was
\* handed over when, and whatever runs failed or live turns came in between.
THEOREM TalkStaysInOrder ==
    ASSUME GrowingTalk
    PROVE  Spec => []GrowingTalkKeepsOrder
  <1>1. IInv /\ OrderInv => GrowingTalkKeepsOrder
    <2> SUFFICES ASSUME IInv, OrderInv,
                        NEW p \in Payloads, NEW i \in 1 .. Len(p), NEW j \in 1 .. Len(p),
                        NEW q \in rows, NEW r \in rows, i < j, p[i] \in HasId, p[j] \in HasId,
                        q.id = <<p[i], 0>>, r.id = <<p[j], 0>>
                 PROVE  q.turn < r.turn
      BY DEF GrowingTalkKeepsOrder
    <2>1. PICK x \in rows : x.id = <<p[i], 0>> /\ x.turn < r.turn
      BY DEF OrderInv
    <2>2. q.id # None
      BY IdentityIsTyped, IngestionAssumption
    <2>3. x = q
      BY <2>1, <2>2 DEF IInv, OneRowPerIdentity
    <2> QED
      BY <2>1, <2>3
  <1> QED
    BY <1>1, InitOrder, NextOrder, InductiveInvariant, PTL DEF Spec

=============================================================================
