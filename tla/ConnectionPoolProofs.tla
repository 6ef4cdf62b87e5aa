------------------------ MODULE ConnectionPoolProofs ------------------------
(***************************************************************************)
(* Safety of SQLiteConnectionPool for any finite pool and any threads: a   *)
(* connection is in one place, counted when lent, usable while held, past  *)
(* a commit or an attempted rollback when idle, and a closed pool neither  *)
(* lends nor leaves anybody asleep.                                        *)
(***************************************************************************)
EXTENDS ConnectionPool, FiniteSetTheorems, TLAPS

-----------------------------------------------------------------------------
(* Two facts about the deque.                                              *)

\* popleft() takes the head out of a duplicate-free deque for good.
LEMMA PopLeft ==
    ASSUME NEW S, NEW s \in Seq(S), s # <<>>, Distinct(s)
    PROVE  /\ Tail(s) \in Seq(S) /\ Distinct(Tail(s))
           /\ Head(s) \in Listed(s) /\ Head(s) \in S
           /\ Listed(Tail(s)) = Listed(s) \ {Head(s)}
<1>1. /\ Len(s) \in Nat /\ Len(s) > 0 /\ DOMAIN s = 1..Len(s)
      /\ Tail(s) \in Seq(S) /\ Head(s) = s[1]
      /\ Len(Tail(s)) = Len(s) - 1
      /\ DOMAIN Tail(s) = 1..(Len(s) - 1)
      /\ \A i \in 1..(Len(s) - 1) : Tail(s)[i] = s[i + 1]
  OBVIOUS
<1>2. Distinct(Tail(s))
  BY <1>1 DEF Distinct
<1>3. Head(s) \in Listed(s) /\ Head(s) \in S
  BY <1>1 DEF Listed
<1>4. ASSUME NEW c \in Listed(Tail(s)) PROVE c \in Listed(s) /\ c # Head(s)
  BY <1>1 DEF Distinct, Listed
<1>5. ASSUME NEW c \in Listed(s), c # Head(s) PROVE c \in Listed(Tail(s))
  <2>1. PICK i \in DOMAIN s : c = s[i]
    BY <1>5 DEF Listed
  <2>2. i - 1 \in 1..(Len(s) - 1) /\ c = Tail(s)[i - 1]
    BY <2>1, <1>5, <1>1
  <2> QED
    BY <2>2, <1>1 DEF Listed
<1> QED
  BY <1>1, <1>2, <1>3, <1>4, <1>5

\* append() of a connection that is not there keeps it duplicate-free.
LEMMA AppendNew ==
    ASSUME NEW S, NEW s \in Seq(S), Distinct(s), NEW c \in S, c \notin Listed(s)
    PROVE  /\ Append(s, c) \in Seq(S) /\ Distinct(Append(s, c))
           /\ Listed(Append(s, c)) = Listed(s) \cup {c}
<1>1. /\ Append(s, c) \in Seq(S)
      /\ Len(s) \in Nat /\ DOMAIN s = 1..Len(s)
      /\ DOMAIN Append(s, c) = 1..(Len(s) + 1)
      /\ \A i \in 1..Len(s) : Append(s, c)[i] = s[i]
      /\ Append(s, c)[Len(s) + 1] = c
  OBVIOUS
<1>2. \A i \in 1..Len(s) : s[i] # c
  BY <1>1 DEF Listed
<1>3. Distinct(Append(s, c))
  BY <1>1, <1>2 DEF Distinct
<1>4. Listed(Append(s, c)) = Listed(s) \cup {c}
  BY <1>1 DEF Listed
<1> QED
  BY <1>1, <1>3, <1>4

LEMMA EmptyDeque == Distinct(<<>>) /\ Listed(<<>>) = {}
BY DEF Distinct, Listed

-----------------------------------------------------------------------------
(* The strengthening.                                                      *)

\* Before __init__ returns nobody but it can see the pool.
Construction ==
    /\ Distinct(created)
    /\ ~ready =>
         /\ idle = <<>> /\ ~closed /\ Leases = {}
         /\ \A t \in Threads : pc[t] = "run"
         /\ \A c \in Conns : tx[c] # "open" /\ (open[c] <=> c \in Listed(created))

\* A closed pool has nothing idle; what a close() has yet to close is on its own list.
Closing ==
    /\ closed => idle = <<>>
    /\ \A t \in Threads :
         /\ pc[t] \in {"drain", "close"} => closed
         /\ toClose[t] # {} => closed
         /\ toClose[t] \cap Leases = {}

EndedAreClean == \A c \in ended : holder[c] # NoThread /\ tx[c] # "open"

SleepersWait == \A t \in asleep : pc[t] \in {"checkout", "drain"}

IInv ==
    /\ TypeOK
    /\ LeasedExact
    /\ OnePlace
    /\ UsableWhileHeld
    /\ IdleHandlesWereEnded
    /\ Construction
    /\ Closing
    /\ EndedAreClean
    /\ CloseWakesEveryone
    /\ SleepersWait

LEMMA InitIInv == Init => IInv
<1> SUFFICES ASSUME Init PROVE IInv
  OBVIOUS
<1> USE PoolAssumption, EmptyDeque DEF Init
<1>1. Leases = {}
  BY DEF Leases
<1>2. TypeOK
  <2>1. open \in [Conns -> BOOLEAN] /\ tx \in [Conns -> TxStates]
    BY Zenon DEF TxStates
  <2>2. <<>> \in Seq(Conns) /\ FALSE \in BOOLEAN
    OBVIOUS
  <2> QED
    BY <2>1, <2>2 DEF TypeOK
<1>3. LeasedExact
  BY <1>1, FS_EmptySet DEF LeasedExact
<1>4. OnePlace /\ UsableWhileHeld /\ IdleHandlesWereEnded
  BY <1>1 DEF OnePlace, UsableWhileHeld, IdleHandlesWereEnded
<1>5. Construction /\ Closing
  BY <1>1 DEF Construction, Closing
<1>6. EndedAreClean /\ CloseWakesEveryone /\ SleepersWait
  BY DEF EndedAreClean, CloseWakesEveryone, SleepersWait
<1> QED
  BY <1>2, <1>3, <1>4, <1>5, <1>6 DEF IInv

-----------------------------------------------------------------------------
(* Lending and giving back.                                                *)

LEMMA LeasesFinite == IsFiniteSet(Leases) /\ Cardinality(Leases) \in Nat
BY PoolAssumption, FS_Subset, FS_CardinalityType DEF Leases

\* Lease takes an idle, open, clean connection and counts it.
LEMMA LeaseStep ==
    ASSUME IInv, NEW t \in Threads, idle # <<>>, Lease(t),
           UNCHANGED <<created, ready, closed, open, tx, ended, toClose>>
    PROVE  /\ LeasedExact' /\ OnePlace' /\ UsableWhileHeld' /\ IdleHandlesWereEnded'
           /\ Construction' \/ ~ready
           /\ Leases' = Leases \cup {Head(idle)}
           /\ ready /\ ~closed
           /\ idle' \in Seq(Conns) /\ leased' \in Nat /\ leased' > 0
           /\ holder' \in [Conns -> Threads \cup {NoThread}]
           /\ \A c \in ended : holder'[c] = holder[c]
<1> DEFINE h == Head(idle)
<1> USE PoolAssumption
<1>1. /\ idle' \in Seq(Conns) /\ Distinct(idle')
      /\ h \in Listed(idle) /\ h \in Conns
      /\ Listed(idle') = Listed(idle) \ {h}
  BY PopLeft DEF IInv, TypeOK, OnePlace, Lease
<1>2. holder[h] = NoThread /\ open[h] /\ tx[h] # "open"
  BY <1>1 DEF IInv, OnePlace, Leases, UsableWhileHeld, IdleHandlesWereEnded
<1>3. /\ holder' = [holder EXCEPT ![h] = t]
      /\ holder' \in [Conns -> Threads \cup {NoThread}]
  BY <1>1 DEF Lease, IInv, TypeOK
<1>4. Leases' = Leases \cup {h} /\ h \notin Leases
  BY <1>1, <1>2, <1>3 DEF Leases, IInv, TypeOK
<1>5. LeasedExact' /\ leased' \in Nat /\ leased' > 0
  <2>1. Cardinality(Leases \cup {h}) = Cardinality(Leases) + 1
    BY <1>4, LeasesFinite, FS_AddElement
  <2>2. leased' = leased + 1 /\ leased = Cardinality(Leases)
    BY DEF Lease, IInv, LeasedExact
  <2> QED
    BY <1>4, <2>1, <2>2, LeasesFinite DEF LeasedExact
<1>6. OnePlace'
  BY <1>1, <1>4 DEF OnePlace, IInv
<1>7. UsableWhileHeld'
  BY <1>1, <1>2, <1>4 DEF UsableWhileHeld, IInv
<1>8. IdleHandlesWereEnded'
  BY <1>1 DEF IdleHandlesWereEnded, IInv
<1>9. ready /\ ~closed
  BY DEF IInv, Construction, Closing
<1>10. Construction'
  BY <1>9 DEF Construction, IInv
<1>11. \A c \in ended : holder'[c] = holder[c]
  BY <1>2, <1>3 DEF IInv, EndedAreClean, TypeOK
<1> QED
  BY <1>1, <1>3, <1>4, <1>5, <1>6, <1>7, <1>8, <1>9, <1>10, <1>11

\* Unlease takes one borrowed, clean connection out of the count.
LEMMA UnleaseStep ==
    ASSUME IInv, NEW t \in Threads, NEW c \in Conns, Unlease(t, c)
    PROVE  /\ LeasedExact'
           /\ Leases' = Leases \ {c} /\ c \in Leases /\ c \notin Listed(idle)
           /\ leased \in Nat \ {0} /\ leased' = leased - 1
           /\ open[c] /\ tx[c] # "open" /\ ready
           /\ holder' \in [Conns -> Threads \cup {NoThread}]
           /\ ended' \subseteq Conns
           /\ \A d \in ended' : holder'[d] = holder[d] /\ d \in ended
<1> USE PoolAssumption
<1>1. /\ holder' = [holder EXCEPT ![c] = NoThread] /\ holder[c] = t
      /\ holder' \in [Conns -> Threads \cup {NoThread}]
      /\ ended' = ended \ {c} /\ c \in ended
  BY DEF Unlease, IInv, TypeOK
<1>2. Leases' = Leases \ {c} /\ c \in Leases
  BY <1>1 DEF Leases, IInv, TypeOK
<1>3. LeasedExact' /\ leased \in Nat \ {0} /\ leased' = leased - 1
  BY <1>2, LeasesFinite, FS_RemoveElement, FS_EmptySet DEF IInv, LeasedExact, Unlease
<1>4. c \notin Listed(idle) /\ open[c] /\ tx[c] # "open"
  BY <1>1, <1>2 DEF IInv, OnePlace, UsableWhileHeld, EndedAreClean
<1>5. ready
  BY <1>2 DEF IInv, Construction
<1>6. ended' \subseteq Conns /\ \A d \in ended' : holder'[d] = holder[d] /\ d \in ended
  BY <1>1 DEF IInv, TypeOK
<1> QED
  BY <1>1, <1>2, <1>3, <1>4, <1>5, <1>6

-----------------------------------------------------------------------------
(* The inductive step, action by action.                                   *)

\* The history variable stays a Boolean.
LEMMA InterruptedTyped ==
    ASSUME IInv, Next
    PROVE  interrupted' \in BOOLEAN
<1>1. interrupted \in BOOLEAN
  BY DEF IInv, TypeOK
<1>2. CASE Construct
  BY <1>1, <1>2, Zenon DEF Construct, CreateConnection, ConstructionFails, PoolReady
<1>3. ASSUME NEW t \in Threads, NEW c \in Conns, ConnStep(t, c)
      PROVE  interrupted' \in BOOLEAN
  BY <1>1, <1>3, Zenon DEF ConnStep, WriteThrough, EndTransaction, ReturnToPool, CloseOnReturn
<1>4. ASSUME NEW t \in Threads,
             Checkout(t) \/ WakeCheckout(t) \/ Expire(t) \/ Close(t) \/ WakeDrain(t)
               \/ CloseIdleHandle(t)
      PROVE  interrupted' = interrupted
  BY <1>4 DEF Checkout, WakeCheckout, Expire, Close, WakeDrain, CloseIdleHandle
<1>5. ASSUME NEW t \in Threads, Interrupt(t)
      PROVE  interrupted' \in BOOLEAN
  BY <1>5, Zenon DEF Interrupt
<1>6. ASSUME NEW t \in Threads, Step(t)
      PROVE  interrupted' \in BOOLEAN
  <2>1. CASE \E c \in Conns : ConnStep(t, c)
    BY <1>3, <2>1
  <2>2. CASE Interrupt(t)
    BY <1>5, <2>2
  <2>3. CASE Checkout(t) \/ WakeCheckout(t) \/ Expire(t) \/ Close(t) \/ WakeDrain(t)
               \/ CloseIdleHandle(t)
    BY <1>1, <1>4, <2>3, Zenon
  <2> QED
    BY <1>6, <2>1, <2>2, <2>3, Zenon DEF Step
<1> QED
  BY <1>2, <1>6, Zenon DEF Next

LEMMA ConstructKeeps == IInv /\ Construct => IInv'
<1> SUFFICES ASSUME IInv, Construct PROVE IInv'
  OBVIOUS
<1>i. interrupted' \in BOOLEAN
  BY InterruptedTyped, Zenon DEF Next
<1>0. /\ ~ready /\ idle = <<>> /\ ~closed /\ Leases = {} /\ Leases' = {}
      /\ holder' = holder /\ leased' = leased /\ closed' = closed
      /\ \A t \in Threads : pc[t] = "run"
      /\ pc' = pc /\ asleep' = asleep /\ expired' = expired
      /\ toClose' = toClose /\ tx' = tx /\ ended' = ended
  BY DEF IInv, Construction, Construct, CreateConnection, ConstructionFails,
         PoolReady, handles, waiting, Leases
<1>1. LeasedExact'
  BY <1>0 DEF IInv, LeasedExact
<1>2. EndedAreClean'
  BY <1>0 DEF IInv, EndedAreClean
<1>3. CloseWakesEveryone' /\ SleepersWait'
  BY <1>0 DEF IInv, CloseWakesEveryone, SleepersWait
<1>4. CASE CreateConnection
  <2>1. PICK c \in Conns \ Listed(created) :
               /\ created' = Append(created, c)
               /\ open' = [open EXCEPT ![c] = TRUE]
    BY <1>4 DEF CreateConnection
  <2>2. /\ created' \in Seq(Conns) /\ Distinct(created')
        /\ Listed(created') = Listed(created) \cup {c}
    BY <2>1, AppendNew DEF IInv, TypeOK, Construction
  <2>3. ready' = ready /\ idle' = idle
    BY <1>4 DEF CreateConnection
  <2>4. open' \in [Conns -> BOOLEAN] /\ \A d \in Conns : open'[d] <=> d = c \/ open[d]
    BY <2>1 DEF IInv, TypeOK
  <2>5. TypeOK'
    BY <1>i, <1>0, <2>2, <2>3, <2>4 DEF IInv, TypeOK
  <2>6. OnePlace' /\ UsableWhileHeld' /\ IdleHandlesWereEnded'
    BY <1>0, <2>3, EmptyDeque DEF OnePlace, UsableWhileHeld, IdleHandlesWereEnded
  <2>7. Construction'
    BY <1>0, <2>2, <2>3, <2>4 DEF IInv, Construction
  <2>8. Closing'
    BY <1>0, <2>3 DEF IInv, Closing
  <2> QED
    BY <1>1, <1>2, <1>3, <2>5, <2>6, <2>7, <2>8 DEF IInv
<1>5. CASE ConstructionFails
  <2>1. /\ created' = <<>> /\ ready' = ready /\ idle' = idle
        /\ open' = [c \in Conns |-> FALSE]
    BY <1>5 DEF ConstructionFails
  <2>2. open' \in [Conns -> BOOLEAN] /\ \A c \in Conns : ~open'[c]
    BY <2>1, Zenon
  <2>3. created' \in Seq(Conns)
    BY <2>1
  <2>4. TypeOK'
    BY <1>i, <1>0, <2>1, <2>2, <2>3 DEF IInv, TypeOK
  <2>5. OnePlace' /\ UsableWhileHeld' /\ IdleHandlesWereEnded'
    BY <1>0, <2>1, EmptyDeque DEF OnePlace, UsableWhileHeld, IdleHandlesWereEnded
  <2>6. Construction'
    BY <1>0, <2>1, <2>2, EmptyDeque DEF IInv, Construction
  <2>7. Closing'
    BY <1>0, <2>1 DEF IInv, Closing
  <2> QED
    BY <1>1, <1>2, <1>3, <2>4, <2>5, <2>6, <2>7 DEF IInv
<1>6. CASE PoolReady
  <2>1. /\ created' = created /\ ready' = TRUE /\ idle' = created /\ open' = open
        /\ Listed(created) = Conns
    BY <1>6 DEF PoolReady, handles
  <2>2. TypeOK'
    BY <1>i, <1>0, <2>1 DEF IInv, TypeOK
  <2>3. OnePlace' /\ UsableWhileHeld' /\ IdleHandlesWereEnded'
    BY <1>0, <2>1 DEF IInv, Construction, OnePlace, UsableWhileHeld, IdleHandlesWereEnded
  <2>4. Construction'
    BY <2>1 DEF IInv, Construction
  <2>5. Closing'
    BY <1>0, <2>1 DEF IInv, Closing
  <2> QED
    BY <1>1, <1>2, <1>3, <2>2, <2>3, <2>4, <2>5 DEF IInv
<1> QED
  BY <1>4, <1>5, <1>6 DEF Construct

\* A step that moves no connection keeps what is said of connections.
LEMMA ConnectionsUntouched ==
    ASSUME IInv, UNCHANGED <<created, ready, idle, leased, closed, handles>>
    PROVE  /\ LeasedExact' /\ OnePlace' /\ UsableWhileHeld' /\ IdleHandlesWereEnded'
           /\ EndedAreClean' /\ Leases' = Leases
BY DEF IInv, handles, LeasedExact, OnePlace, UsableWhileHeld, IdleHandlesWereEnded,
       EndedAreClean, Leases

LEMMA StepKeeps ==
    ASSUME IInv, NEW t \in Threads, Step(t)
    PROVE  IInv'
<1>i. interrupted' \in BOOLEAN
  BY InterruptedTyped, Zenon DEF Next
<1> USE PoolAssumption
<1>0. /\ pc \in [Threads -> {"run", "checkout", "drain", "close"}]
      /\ toClose \in [Threads -> SUBSET Conns]
      /\ asleep \subseteq Threads /\ expired \subseteq Threads
  BY DEF IInv, TypeOK
<1>1. ASSUME idle # <<>>, Lease(t), LeaveWait(t) \/ UNCHANGED waiting,
             UNCHANGED <<created, ready, closed, open, tx, ended, toClose>>
      PROVE  IInv'
  <2>1. /\ LeasedExact' /\ OnePlace' /\ UsableWhileHeld' /\ IdleHandlesWereEnded'
        /\ Construction'
        /\ ready /\ ~closed /\ Leases' = Leases \cup {Head(idle)}
        /\ idle' \in Seq(Conns) /\ leased' \in Nat /\ leased' > 0
        /\ holder' \in [Conns -> Threads \cup {NoThread}]
        /\ \A c \in ended : holder'[c] = holder[c]
    <3>1. ready
      BY <1>1, LeaseStep
    <3> QED
      BY <1>1, <3>1, LeaseStep
  <2>2. /\ pc' \in [Threads -> {"run", "checkout", "drain", "close"}]
        /\ asleep' \subseteq asleep /\ expired' \subseteq Threads
        /\ \A u \in Threads : pc'[u] = pc[u] \/ (u = t /\ pc'[u] = "run")
        /\ \A u \in asleep' : pc'[u] = pc[u]
    BY <1>0, <1>1 DEF LeaveWait, waiting
  <2>3. TypeOK'
    BY <1>i, <1>1, <2>1, <2>2 DEF IInv, TypeOK
  <2>4. Closing'
    <3>1. \A u \in Threads : toClose[u] = {}
      BY <2>1 DEF IInv, Closing
    <3> QED
      BY <1>1, <2>1, <2>2, <3>1 DEF IInv, Closing
  <2>5. EndedAreClean'
    BY <1>1, <2>1 DEF IInv, EndedAreClean
  <2>6. CloseWakesEveryone' /\ SleepersWait'
    BY <1>1, <2>1, <2>2 DEF IInv, CloseWakesEveryone, SleepersWait
  <2> QED
    BY <2>1, <2>3, <2>4, <2>5, <2>6 DEF IInv
<1>2. ASSUME UNCHANGED <<created, ready, idle, leased, closed, handles>>,
             pc' \in [Threads -> {"run", "checkout", "drain", "close"}],
             asleep' \subseteq Threads, expired' \subseteq Threads,
             toClose' \in [Threads -> SUBSET Conns],
             \A u \in Threads : toClose'[u] \subseteq toClose[u],
             \A u \in Threads : pc'[u] \in {"drain", "close"} => closed,
             ready \/ pc' = pc,
             \A u \in asleep' :
                 \/ u \in asleep /\ pc'[u] = pc[u]
                 \/ /\ pc'[u] \in {"checkout", "drain"}
                    /\ IF pc'[u] = "checkout" THEN ~closed ELSE leased > 0
      PROVE  IInv'
  <2>1. TypeOK'
    BY <1>i, <1>2 DEF IInv, TypeOK, handles
  <2>2. Construction'
    BY <1>2, ConnectionsUntouched DEF IInv, Construction, handles
  <2>3. Closing'
    BY <1>2, ConnectionsUntouched DEF IInv, Closing
  <2>4. CloseWakesEveryone' /\ SleepersWait'
    BY <1>2 DEF IInv, CloseWakesEveryone, SleepersWait
  <2> QED
    BY <1>2, <2>1, <2>2, <2>3, <2>4, ConnectionsUntouched DEF IInv
<1>r. ready \/ pc[t] = "run"
  BY DEF IInv, Construction
<1>3. CASE Checkout(t)
  <2>1. CASE idle # <<>>
    BY <1>1, <1>3, <2>1 DEF Checkout
  <2>2. CASE idle = <<>>
    <3>1. /\ UNCHANGED <<created, ready, idle, leased, closed, handles, toClose, expired>>
          /\ pc' = [pc EXCEPT ![t] = "checkout"] /\ asleep' = asleep \cup {t}
          /\ ready /\ ~closed
      BY <1>3, <2>2 DEF Checkout, handles
    <3> QED
      BY <1>0, <1>2, <3>1 DEF IInv, Closing
  <2> QED
    BY <2>1, <2>2
<1>4. CASE WakeCheckout(t)
  <2>1. CASE idle # <<>>
    BY <1>1, <1>4, <2>1 DEF WakeCheckout
  <2>2. CASE idle = <<>>
    <3>1. UNCHANGED <<created, ready, idle, leased, closed, handles, toClose>>
      BY <1>4, <2>2 DEF WakeCheckout, handles
    <3>2. ready
      BY <1>4, <1>r DEF WakeCheckout
    <3>3. CASE LeaveWait(t)
      BY <1>0, <1>2, <3>1, <3>2, <3>3 DEF LeaveWait, IInv, Closing
    <3>4. CASE ~closed /\ asleep' = asleep \cup {t} /\ pc' = pc /\ expired' = expired
      BY <1>0, <1>2, <1>4, <3>1, <3>2, <3>4 DEF WakeCheckout, IInv, Closing
    <3> QED
      BY <1>4, <2>2, <3>3, <3>4 DEF WakeCheckout
  <2> QED
    BY <2>1, <2>2
<1>5. CASE Expire(t)
  BY <1>0, <1>2, <1>5 DEF Expire, IInv, Closing
<1>6. CASE WakeDrain(t)
  <2>1. ready /\ closed
    BY <1>6, <1>r DEF WakeDrain, IInv, Closing
  <2>2. UNCHANGED <<created, ready, idle, leased, closed, handles, toClose>>
    BY <1>6 DEF WakeDrain
  <2> QED
    BY <1>0, <1>2, <1>6, <2>1, <2>2 DEF WakeDrain, IInv, Closing
<1>7. CASE Interrupt(t)
  <2>1. ready
    BY <1>7, <1>r DEF Interrupt
  <2> QED
    BY <1>0, <1>2, <1>7, <2>1 DEF Interrupt, LeaveWait, IInv, Closing
<1>8. CASE CloseIdleHandle(t)
  <2>1. ready /\ closed /\ idle = <<>> /\ Listed(idle) = {}
    BY <1>8, <1>r, EmptyDeque DEF CloseIdleHandle, IInv, Closing
  <2>2. UNCHANGED <<created, ready, idle, leased, closed, tx, holder, ended, asleep, expired>>
    BY <1>8 DEF CloseIdleHandle
  <2>3. /\ toClose' \in [Threads -> SUBSET Conns]
        /\ \A u \in Threads : toClose'[u] \subseteq toClose[u]
        /\ pc' \in [Threads -> {"run", "checkout", "drain", "close"}]
        /\ \A u \in Threads : pc'[u] = pc[u] \/ (u = t /\ pc'[u] = "run")
    BY <1>0, <1>8 DEF CloseIdleHandle
  <2>4. /\ open' \in [Conns -> BOOLEAN]
        /\ \A c \in Conns : c \notin toClose[t] => open'[c] = open[c]
    BY <1>0, <1>8 DEF CloseIdleHandle, IInv, TypeOK
  <2>5. Leases' = Leases
    BY <2>2 DEF Leases
  <2>6. TypeOK'
    BY <1>i, <2>2, <2>3, <2>4 DEF IInv, TypeOK
  <2>7. LeasedExact' /\ OnePlace' /\ IdleHandlesWereEnded' /\ EndedAreClean'
    BY <2>2, <2>5 DEF IInv, LeasedExact, OnePlace, IdleHandlesWereEnded, EndedAreClean
  <2>8. UsableWhileHeld'
    BY <2>1, <2>2, <2>4, <2>5 DEF IInv, UsableWhileHeld, Closing, Leases
  <2>9. Construction'
    BY <2>1, <2>2 DEF IInv, Construction
  <2>10. Closing'
    BY <2>1, <2>2, <2>3, <2>5 DEF IInv, Closing
  <2>11. CloseWakesEveryone' /\ SleepersWait'
    BY <1>0, <1>8, <2>2, <2>3
       DEF CloseIdleHandle, IInv, CloseWakesEveryone, SleepersWait
  <2> QED
    BY <2>6, <2>7, <2>8, <2>9, <2>10, <2>11 DEF IInv
<1>9. CASE Close(t)
  <2>1. /\ ready /\ closed' /\ idle' = <<>> /\ Listed(idle') = {}
        /\ closed' = TRUE /\ <<>> \in Seq(Conns)
        /\ UNCHANGED <<created, ready, leased, handles, expired>>
    BY <1>9, EmptyDeque DEF Close
  <2>2. Leases' = Leases
    BY <2>1 DEF Leases, handles
  <2>3. /\ toClose' \in [Threads -> SUBSET Conns]
        /\ \A u \in Threads : toClose'[u] \cap Leases = {}
    BY <1>0, <1>9 DEF Close, CloseIdleOnly, IInv, Closing, OnePlace, Listed, TypeOK
  <2>4. /\ pc' \in [Threads -> {"run", "checkout", "drain", "close"}]
        /\ asleep' \subseteq asleep \cup {t}
        /\ \A u \in Threads : u # t => pc'[u] = pc[u]
        /\ pc'[t] \in {"drain", "close"}
    BY <1>0, <1>9 DEF Close, WakeAll
  <2>5. TypeOK'
    BY <1>i, <2>1, <2>3, <2>4, <1>0 DEF IInv, TypeOK, handles
  <2>6. LeasedExact' /\ OnePlace' /\ IdleHandlesWereEnded' /\ EndedAreClean' /\ UsableWhileHeld'
    BY <2>1, <2>2, EmptyDeque DEF IInv, LeasedExact, OnePlace, IdleHandlesWereEnded,
       EndedAreClean, UsableWhileHeld, handles
  <2>7. Construction'
    BY <2>1 DEF IInv, Construction
  <2>8. Closing'
    BY <2>1, <2>2, <2>3 DEF Closing
  <2>10. SleepersWait'
    BY <1>0, <1>9 DEF Close, WakeAll, IInv, SleepersWait
  <2>9. CloseWakesEveryone'
    <3>1. CASE closed
      BY <1>9, <2>1, <2>4, <3>1, <1>0 DEF IInv, CloseWakesEveryone, Close, WakeAll
    <3>2. CASE ~closed
      BY <1>9, <2>1, <2>4, <3>2, <1>0 DEF CloseWakesEveryone, Close, WakeAll
    <3> QED
      BY <3>1, <3>2
  <2> QED
    BY <2>5, <2>6, <2>7, <2>8, <2>9, <2>10 DEF IInv
<1>10. ASSUME NEW c \in Conns, ConnStep(t, c) PROVE IInv'
  <2>1. CASE WriteThrough(t, c)
    <3>1. /\ UNCHANGED <<created, ready, idle, leased, closed, open, holder, ended,
                         waiting, toClose>>
          /\ holder[c] = t /\ c \notin ended /\ t # NoThread
          /\ tx' \in [Conns -> TxStates]
          /\ \A d \in Conns : d # c => tx'[d] = tx[d]
      BY <2>1 DEF WriteThrough, Working, IInv, TypeOK, TxStates
    <3>2. Leases' = Leases /\ c \in Leases
      BY <3>1 DEF Leases
    <3>3. c \notin Listed(idle) /\ ready
      BY <3>2 DEF IInv, OnePlace, Construction
    <3>4. TypeOK'
      BY <1>i, <3>1 DEF IInv, TypeOK, waiting
    <3>5. LeasedExact' /\ OnePlace' /\ UsableWhileHeld' /\ Construction'
      BY <3>1, <3>2, <3>3 DEF IInv, LeasedExact, OnePlace, UsableWhileHeld, Construction
    <3>6. IdleHandlesWereEnded' /\ EndedAreClean'
      BY <3>1, <3>3 DEF IInv, IdleHandlesWereEnded, EndedAreClean, Listed, TypeOK
    <3>7. Closing' /\ CloseWakesEveryone' /\ SleepersWait'
      BY <3>1, <3>2 DEF IInv, Closing, CloseWakesEveryone, SleepersWait, waiting
    <3> QED
      BY <3>4, <3>5, <3>6, <3>7 DEF IInv
  <2>2. CASE EndTransaction(t, c)
    <3>1. /\ UNCHANGED <<created, ready, idle, leased, closed, open, holder,
                         waiting, toClose>>
          /\ ended' = ended \cup {c}
          /\ holder[c] = t /\ t # NoThread
          /\ tx' \in [Conns -> TxStates]
          /\ \A d \in Conns : tx'[d] = "open" => d # c /\ tx[d] = "open"
      BY <2>2 DEF EndTransaction, Working, IInv, TypeOK, TxStates
    <3>2. Leases' = Leases /\ c \in Leases
      BY <3>1 DEF Leases
    <3>3. ready
      BY <3>2 DEF IInv, Construction
    <3>4. TypeOK'
      BY <1>i, <3>1 DEF IInv, TypeOK, waiting
    <3>5. LeasedExact' /\ OnePlace' /\ UsableWhileHeld' /\ Construction'
      BY <3>1, <3>2, <3>3 DEF IInv, LeasedExact, OnePlace, UsableWhileHeld, Construction
    <3>6. IdleHandlesWereEnded' /\ EndedAreClean'
      BY <3>1 DEF IInv, IdleHandlesWereEnded, EndedAreClean, Listed, TypeOK
    <3>7. Closing' /\ CloseWakesEveryone' /\ SleepersWait'
      BY <3>1, <3>2 DEF IInv, Closing, CloseWakesEveryone, SleepersWait, waiting
    <3> QED
      BY <3>4, <3>5, <3>6, <3>7 DEF IInv
  <2>3. CASE ReturnToPool(t, c)
    <3>1. /\ Unlease(t, c) /\ ~closed /\ idle' = Append(idle, c)
          /\ UNCHANGED <<created, ready, closed, open, tx, pc, expired, toClose>>
          /\ asleep' \subseteq asleep
      BY <2>3 DEF ReturnToPool, NotifyOne
    <3>2. /\ LeasedExact'
          /\ Leases' = Leases \ {c} /\ c \in Leases /\ c \notin Listed(idle)
          /\ leased' \in Nat
          /\ open[c] /\ tx[c] # "open" /\ ready
          /\ holder' \in [Conns -> Threads \cup {NoThread}]
          /\ ended' \subseteq Conns
          /\ \A d \in ended' : holder'[d] = holder[d] /\ d \in ended
      BY <3>1, UnleaseStep
    <3>3. /\ idle' \in Seq(Conns) /\ Distinct(idle')
          /\ Listed(idle') = Listed(idle) \cup {c}
      BY <3>1, <3>2, AppendNew DEF IInv, TypeOK, OnePlace
    <3>4. TypeOK'
      BY <1>i, <1>0, <3>1, <3>2, <3>3 DEF IInv, TypeOK
    <3>5. OnePlace' /\ UsableWhileHeld' /\ IdleHandlesWereEnded'
      BY <3>1, <3>2, <3>3 DEF IInv, OnePlace, UsableWhileHeld, IdleHandlesWereEnded
    <3>6. Construction' /\ EndedAreClean'
      BY <3>1, <3>2 DEF IInv, Construction, EndedAreClean
    <3>7. Closing'
      BY <3>1, <3>2 DEF IInv, Closing
    <3>8. CloseWakesEveryone' /\ SleepersWait'
      <4>1. \A u \in asleep : pc[u] = "checkout"
        BY <3>1, <1>0 DEF IInv, SleepersWait, Closing
      <4> QED
        BY <3>1, <4>1 DEF CloseWakesEveryone, SleepersWait
    <3> QED
      BY <3>2, <3>4, <3>5, <3>6, <3>7, <3>8 DEF IInv
  <2>4. CASE CloseOnReturn(t, c)
    <3>1. /\ Unlease(t, c) /\ closed /\ idle = <<>>
          /\ open' = [open EXCEPT ![c] = FALSE]
          /\ asleep' = IF leased = 1 THEN {} ELSE asleep
          /\ UNCHANGED <<created, ready, idle, closed, tx, pc, expired, toClose>>
      BY <2>4 DEF CloseOnReturn, IInv, Closing
    <3>2. /\ LeasedExact'
          /\ Leases' = Leases \ {c} /\ c \in Leases
          /\ leased \in Nat \ {0} /\ leased' = leased - 1
          /\ ready
          /\ holder' \in [Conns -> Threads \cup {NoThread}]
          /\ ended' \subseteq Conns
          /\ \A d \in ended' : holder'[d] = holder[d] /\ d \in ended
      BY <3>1, UnleaseStep
    <3>3. open' \in [Conns -> BOOLEAN] /\ \A d \in Conns : d # c => open'[d] = open[d]
      BY <3>1 DEF IInv, TypeOK
    <3>4. TypeOK'
      BY <1>i, <1>0, <3>1, <3>2, <3>3 DEF IInv, TypeOK
    <3>5. OnePlace' /\ UsableWhileHeld' /\ IdleHandlesWereEnded'
      BY <3>1, <3>2, <3>3, EmptyDeque
         DEF IInv, OnePlace, UsableWhileHeld, IdleHandlesWereEnded, Leases
    <3>6. Construction' /\ EndedAreClean'
      BY <3>1, <3>2 DEF IInv, Construction, EndedAreClean
    <3>7. Closing'
      BY <3>1, <3>2 DEF IInv, Closing
    <3>8. CloseWakesEveryone' /\ SleepersWait'
      BY <3>1, <3>2 DEF IInv, CloseWakesEveryone, SleepersWait
    <3> QED
      BY <3>2, <3>4, <3>5, <3>6, <3>7, <3>8 DEF IInv
  <2> QED
    BY <1>10, <2>1, <2>2, <2>3, <2>4 DEF ConnStep
<1> QED
  BY <1>3, <1>4, <1>5, <1>6, <1>7, <1>8, <1>9, <1>10 DEF Step

LEMMA NextIInv == IInv /\ [Next]_vars => IInv'
<1> SUFFICES ASSUME IInv, [Next]_vars PROVE IInv'
  OBVIOUS
<1>1. CASE Construct
  BY <1>1, ConstructKeeps
<1>2. ASSUME NEW t \in Threads, Step(t) PROVE IInv'
  BY <1>2, StepKeeps
<1>3. CASE UNCHANGED vars
  <2>1. UNCHANGED <<created, ready, idle, leased, closed, handles>>
    BY <1>3 DEF vars, handles
  <2>2. TypeOK' /\ Construction' /\ Closing' /\ CloseWakesEveryone' /\ SleepersWait'
    BY <1>3, <2>1, ConnectionsUntouched
       DEF vars, IInv, TypeOK, Construction, Closing, CloseWakesEveryone, SleepersWait
  <2> QED
    BY <2>1, <2>2, ConnectionsUntouched DEF IInv
<1> QED
  BY <1>1, <1>2, <1>3 DEF Next

LEMMA Invariance == Spec => []IInv
BY InitIInv, NextIInv, PTL DEF Spec

-----------------------------------------------------------------------------
(* What the users of the pool may rely on.                                 *)

\* The pool's fields and its callers' states keep their types.
THEOREM TypeCorrect == Spec => []TypeOK
BY Invariance, PTL DEF IInv

\* _leased is the number of borrowed connections, so never above the pool's size.
THEOREM LeasesCounted == Spec => []LeasedExact
BY Invariance, PTL DEF IInv

\* No connection is idle twice, or idle and borrowed.
THEOREM NeverTwoBorrowers == Spec => []OnePlace
BY Invariance, PTL DEF IInv

\* No handle is closed under its borrower, or lent closed.
THEOREM NeverClosedUnderBorrower == Spec => []UsableWhileHeld
BY Invariance, PTL DEF IInv

\* The transaction of an idle handle was ended, or its rollback was tried and failed.
THEOREM HandlesReturnEnded == Spec => []IdleHandlesWereEnded
BY Invariance, PTL DEF IInv

\* close() strands no checkout, and a drain sleeps only while someone borrows.
THEOREM NobodyLeftAsleep == Spec => []CloseWakesEveryone
BY Invariance, PTL DEF IInv

\* A failed construction leaks no handle.
THEOREM ConstructionIsClean == Spec => []NothingLeaksBeforeReady
<1>1. IInv => NothingLeaksBeforeReady
  BY DEF IInv, Construction, NothingLeaksBeforeReady
<1> QED
  BY <1>1, Invariance, PTL

\* A closed pool never lends again.
THEOREM ClosedForGood == Spec => NoLeaseAfterClose
<1> DEFINE Given == closed => \A c \in Conns : holder'[c] = holder[c] \/ holder'[c] = NoThread
<1>1. IInv /\ [Next]_vars => [Given]_vars
  <2> SUFFICES ASSUME IInv, Next, closed, NEW c \in Conns
               PROVE  holder'[c] = holder[c] \/ holder'[c] = NoThread
    BY DEF vars
  <2>1. idle = <<>>
    BY DEF IInv, Closing
  <2>2. holder \in [Conns -> Threads \cup {NoThread}]
    BY DEF IInv, TypeOK
  <2>3. CASE Construct
    BY <2>3 DEF Construct, CreateConnection, ConstructionFails, PoolReady, handles
  <2>4. ASSUME NEW t \in Threads, Step(t)
        PROVE  holder'[c] = holder[c] \/ holder'[c] = NoThread
    BY <2>1, <2>2, <2>4
       DEF Step, Checkout, WakeCheckout, Expire, Close, WakeDrain, CloseIdleHandle,
           Interrupt, ConnStep, WriteThrough, EndTransaction, ReturnToPool,
           CloseOnReturn, Unlease, handles
  <2> QED
    BY <2>3, <2>4 DEF Next
<1> QED
  BY <1>1, Invariance, PTL DEF Spec, NoLeaseAfterClose

\* Every borrower of every pool has a handle of its own, open and clean.
THEOREM HandlesAreSound == Spec => []HandlesSound
<1>1. IInv => HandlesSound
  BY DEF IInv, HandlesSound
<1> QED
  BY <1>1, Invariance, PTL

-----------------------------------------------------------------------------
(* notify() of one thread per return.  A thread that waits is never idle,  *)
(* and only finitely many ever do, so that the awake ones can be counted.  *)

Busy == {t \in Threads : pc[t] # "run"}

Sleeping == \E t \in asleep : pc[t] = "checkout"

LEMMA OnePcChanges ==
    ASSUME TypeOK, [Next]_vars
    PROVE  \/ pc' = pc
           \/ \E t \in Threads : \A u \in Threads : u # t => pc'[u] = pc[u]
<1>1. ASSUME NEW t \in Threads, Step(t) PROVE \A u \in Threads : u # t => pc'[u] = pc[u]
  <2>1. CASE \E c \in Conns : ConnStep(t, c)
    BY <2>1 DEF ConnStep, WriteThrough, EndTransaction, ReturnToPool, CloseOnReturn, waiting
  <2>2. CASE Checkout(t) \/ WakeCheckout(t) \/ Expire(t) \/ Interrupt(t)
    BY <2>2 DEF Checkout, WakeCheckout, Expire, Interrupt, LeaveWait, waiting, TypeOK
  <2>3. CASE Close(t) \/ WakeDrain(t) \/ CloseIdleHandle(t)
    BY <2>3 DEF Close, WakeDrain, CloseIdleHandle, TypeOK
  <2> QED
    BY <1>1, <2>1, <2>2, <2>3 DEF Step
<1>2. CASE Construct
  BY <1>2 DEF Construct, CreateConnection, ConstructionFails, PoolReady, waiting
<1> QED
  BY <1>1, <1>2 DEF Next, vars

LEMMA BusyFinite == Spec => []IsFiniteSet(Busy)
<1>1. Init => IsFiniteSet(Busy)
  <2> SUFFICES ASSUME Init PROVE IsFiniteSet(Busy)
    OBVIOUS
  <2>1. Busy = {}
    BY DEF Init, Busy
  <2> QED
    BY <2>1, FS_EmptySet
<1>2. ASSUME TypeOK, IsFiniteSet(Busy), [Next]_vars PROVE IsFiniteSet(Busy)'
  <2>1. PICK t : Busy' \subseteq Busy \cup {t}
    BY <1>2, OnePcChanges DEF Busy
  <2>2. IsFiniteSet(Busy \cup {t})
    BY <1>2, FS_AddElement
  <2> QED
    BY <2>1, <2>2, FS_Subset
<1> QED
  BY <1>1, <1>2, TypeCorrect, PTL DEF Spec

\* What may happen to the idle connections and to those awake for them.
LEMMA BalanceKept ==
    ASSUME IsFiniteSet(Busy), IsFiniteSet(Busy)', idle \in Seq(Conns), idle' \in Seq(Conns),
           NoStrandedCheckout, interrupted => interrupted',
           Sleeping' => Sleeping \/ Len(idle') = 0,
           \/ interrupted'
           \/ ~Sleeping'
           \/ Len(idle') = 0
           \/ Len(idle') <= Len(idle) /\ AwakeCheckouts \subseteq AwakeCheckouts'
           \/ /\ Len(idle') = Len(idle) - 1
              /\ \E t \in AwakeCheckouts : AwakeCheckouts' = AwakeCheckouts \ {t}
           \/ /\ Len(idle') = Len(idle) + 1
              /\ \E t : t \notin AwakeCheckouts /\ AwakeCheckouts' = AwakeCheckouts \cup {t}
    PROVE  NoStrandedCheckout'
<1>1. /\ AwakeCheckouts \subseteq Busy /\ AwakeCheckouts' \subseteq Busy'
      /\ Len(idle) \in Nat /\ Len(idle') \in Nat
  BY DEF AwakeCheckouts, Busy
<1>2. /\ IsFiniteSet(AwakeCheckouts) /\ Cardinality(AwakeCheckouts) \in Nat
      /\ IsFiniteSet(AwakeCheckouts') /\ Cardinality(AwakeCheckouts') \in Nat
  BY <1>1, FS_Subset, FS_CardinalityType
<1>3. SUFFICES ASSUME ~interrupted', Sleeping', Len(idle') # 0
               PROVE  Len(idle') <= Cardinality(AwakeCheckouts')
  BY <1>1, <1>2 DEF NoStrandedCheckout, Sleeping
<1>4. Len(idle) <= Cardinality(AwakeCheckouts)
  BY <1>3 DEF NoStrandedCheckout, Sleeping
<1>5. CASE Len(idle') <= Len(idle) /\ AwakeCheckouts \subseteq AwakeCheckouts'
  <2>1. Cardinality(AwakeCheckouts) <= Cardinality(AwakeCheckouts')
    BY <1>2, <1>5, FS_Subset
  <2> QED
    BY <1>1, <1>2, <1>4, <1>5, <2>1
<1>6. ASSUME Len(idle') = Len(idle) - 1, NEW t \in AwakeCheckouts,
             AwakeCheckouts' = AwakeCheckouts \ {t}
      PROVE  Len(idle') <= Cardinality(AwakeCheckouts')
  <2>1. Cardinality(AwakeCheckouts') = Cardinality(AwakeCheckouts) - 1
    BY <1>2, <1>6, FS_RemoveElement
  <2> QED
    BY <1>1, <1>2, <1>4, <1>6, <2>1
<1>7. ASSUME Len(idle') = Len(idle) + 1, NEW t, t \notin AwakeCheckouts,
             AwakeCheckouts' = AwakeCheckouts \cup {t}
      PROVE  Len(idle') <= Cardinality(AwakeCheckouts')
  <2>1. Cardinality(AwakeCheckouts') = Cardinality(AwakeCheckouts) + 1
    BY <1>2, <1>7, FS_AddElement
  <2> QED
    BY <1>1, <1>2, <1>4, <1>7, <2>1
<1> QED
  BY <1>3, <1>5, <1>6, <1>7

LEMMA BalanceStep ==
    ASSUME IInv, IInv', IsFiniteSet(Busy), IsFiniteSet(Busy)', NoStrandedCheckout,
           NEW t \in Threads, Step(t)
    PROVE  NoStrandedCheckout'
<1>0. /\ TypeOK /\ idle \in Seq(Conns) /\ idle' \in Seq(Conns)
      /\ pc \in [Threads -> {"run", "checkout", "drain", "close"}]
      /\ asleep \subseteq Threads
      /\ idle # <<>> => /\ Len(idle) \in Nat /\ Len(Tail(idle)) = Len(idle) - 1
      /\ Len(<<>>) = 0
  BY DEF IInv, TypeOK
<1>1. CASE Checkout(t)
  <2>1. CASE idle # <<>>
    <3>1. /\ Len(idle') = Len(idle) - 1 /\ pc' = pc /\ asleep' = asleep /\ interrupted' = interrupted
      BY <1>0, <1>1, <2>1 DEF Checkout, Lease, waiting
    <3>2. AwakeCheckouts' = AwakeCheckouts /\ (Sleeping' <=> Sleeping)
      BY <3>1 DEF AwakeCheckouts, Sleeping
    <3> QED
      BY <1>0, <2>1, <3>1, <3>2, BalanceKept
  <2>2. CASE idle = <<>>
    <3>1. idle' = <<>> /\ interrupted' = interrupted
      BY <1>1, <2>2 DEF Checkout
    <3> QED
      BY <1>0, <3>1, BalanceKept
  <2> QED
    BY <2>1, <2>2
<1>2. CASE WakeCheckout(t)
  <2>1. CASE idle # <<>>
    <3>1. /\ Len(idle') = Len(idle) - 1 /\ pc' = [pc EXCEPT ![t] = "run"]
          /\ asleep' = asleep \ {t} /\ interrupted' = interrupted
          /\ t \in AwakeCheckouts
      BY <1>0, <1>2, <2>1 DEF WakeCheckout, Lease, LeaveWait, AwakeCheckouts
    <3>2. AwakeCheckouts' = AwakeCheckouts \ {t} /\ (Sleeping' => Sleeping)
      BY <1>0, <3>1 DEF AwakeCheckouts, Sleeping
    <3> QED
      BY <1>0, <3>1, <3>2, BalanceKept
  <2>2. CASE idle = <<>>
    <3>1. idle' = <<>> /\ interrupted' = interrupted
      BY <1>2, <2>2 DEF WakeCheckout
    <3> QED
      BY <1>0, <3>1, BalanceKept
  <2> QED
    BY <2>1, <2>2
<1>3. CASE Expire(t)
  <2>1. /\ idle' = idle /\ pc' = pc /\ asleep' = asleep \ {t} /\ interrupted' = interrupted
    BY <1>3 DEF Expire
  <2>2. AwakeCheckouts \subseteq AwakeCheckouts' /\ (Sleeping' => Sleeping)
    BY <2>1 DEF AwakeCheckouts, Sleeping
  <2>3. Len(idle') <= Len(idle)
    BY <1>0, <2>1
  <2> QED
    BY <1>0, <2>1, <2>2, <2>3, BalanceKept
<1>4. CASE Interrupt(t)
  BY <1>4 DEF Interrupt, NoStrandedCheckout
<1>5. CASE Close(t)
  <2>1. idle' = <<>> /\ interrupted' = interrupted
    BY <1>5 DEF Close
  <2> QED
    BY <1>0, <2>1, BalanceKept
<1>6. CASE WakeDrain(t) \/ CloseIdleHandle(t)
  <2>1. idle' = <<>> /\ interrupted' = interrupted
    BY <1>6 DEF WakeDrain, CloseIdleHandle, IInv, Closing
  <2> QED
    BY <1>0, <2>1, BalanceKept
<1>7. ASSUME NEW c \in Conns, ConnStep(t, c) PROVE NoStrandedCheckout'
  <2>1. CASE WriteThrough(t, c) \/ EndTransaction(t, c)
    <3>1. idle' = idle /\ pc' = pc /\ asleep' = asleep /\ interrupted' = interrupted
      BY <2>1 DEF WriteThrough, EndTransaction, waiting
    <3> QED
      BY <3>1 DEF NoStrandedCheckout, AwakeCheckouts
  <2>2. CASE CloseOnReturn(t, c)
    <3>1. idle' = <<>> /\ interrupted' = interrupted
      BY <2>2 DEF CloseOnReturn, IInv, Closing
    <3> QED
      BY <1>0, <3>1, BalanceKept
  <2>3. CASE ReturnToPool(t, c)
    <3>1. /\ idle' = Append(idle, c) /\ pc' = pc /\ interrupted' = interrupted
          /\ ~closed /\ NotifyOne
      BY <2>3 DEF ReturnToPool
    <3>2. Len(idle') = Len(idle) + 1
      BY <1>0, <3>1
    <3>3. CASE asleep = {}
      <4>1. ~Sleeping'
        BY <3>1, <3>3 DEF NotifyOne, Sleeping
      <4> QED
        BY <4>1 DEF NoStrandedCheckout, Sleeping
    <3>4. CASE asleep # {}
      <4>1. PICK u \in asleep : asleep' = asleep \ {u}
        BY <3>1, <3>4 DEF NotifyOne
      <4>2. pc[u] = "checkout" /\ u \in Threads
        BY <1>0, <3>1, <4>1 DEF IInv, SleepersWait, Closing
      <4>3. u \notin AwakeCheckouts /\ AwakeCheckouts' = AwakeCheckouts \cup {u}
        BY <3>1, <4>1, <4>2 DEF AwakeCheckouts
      <4>4. Sleeping' => Sleeping
        BY <3>1, <4>1 DEF Sleeping
      <4> QED
        BY <1>0, <3>1, <3>2, <4>3, <4>4, BalanceKept
    <3> QED
      BY <3>3, <3>4
  <2> QED
    BY <1>7, <2>1, <2>2, <2>3 DEF ConnStep
<1> QED
  BY <1>1, <1>2, <1>3, <1>4, <1>5, <1>6, <1>7 DEF Step

\* NoStrandedCheckout: for any pool and any threads, with or without timeouts, no
\* checkout sleeps beside a connection nobody is coming for.
THEOREM NobodyStranded == Spec => []NoStrandedCheckout
<1>1. Init => NoStrandedCheckout
  BY DEF Init, NoStrandedCheckout
<1>2. ASSUME IInv, IInv', IsFiniteSet(Busy), IsFiniteSet(Busy)', NoStrandedCheckout, [Next]_vars
      PROVE  NoStrandedCheckout'
  <2>1. CASE Construct
    <3>1. /\ ~ready /\ asleep' = asleep /\ pc' = pc
          /\ \A t \in Threads : pc[t] = "run"
      BY <1>2, <2>1 DEF Construct, CreateConnection, ConstructionFails, PoolReady, waiting,
                        IInv, Construction
    <3>2. ~Sleeping'
      BY <1>2, <3>1 DEF Sleeping, IInv, TypeOK
    <3> QED
      BY <3>2 DEF NoStrandedCheckout, Sleeping
  <2>2. CASE UNCHANGED vars
    BY <1>2, <2>2 DEF vars, NoStrandedCheckout, AwakeCheckouts
  <2> QED
    BY <1>2, <2>1, <2>2, BalanceStep DEF Next
<1> QED
  BY <1>1, <1>2, Invariance, BusyFinite, PTL DEF Spec

=============================================================================
