---------------------------- MODULE ServerManager ----------------------------
(***************************************************************************)
(* The VS Code extension's ServerManager, in each of several windows:      *)
(* start, its probes, choice of a port, spawn and wait for health; stop    *)
(* and deactivation; the exit and error callbacks; and what the Graph      *)
(* Studio view shows.  A window's code is one thread that lets other calls *)
(* and callbacks in at every await.  The ports are the machine's.          *)
(***************************************************************************)
EXTENDS Naturals, Sequences, FiniteSets, FiniteSetsExt

CONSTANTS
    Windows,
    LastPort,     \* of the ports tried, numbered from the preferred one of a new window
    MaxSpawns     \* bound on the servers one window spawns

ManagerAssumption == LastPort \in Nat \ {0} /\ MaxSpawns \in Nat

VARIABLES
    child,     \* the processes a window spawned, in order; its tracked one is this.child
    tracked,   \* this.child as an index of child, or 0
    port,      \* this.port, or 0
    saved,     \* workspaceState: the preferred port
    start,     \* the start() in progress, which later callers share
    stopping,  \* the processes whose exit some stop() awaits
    shown,     \* the port of the server the view last saw, or 0
    off        \* deactivate() was called

vars == <<child, tracked, port, saved, start, stopping, shown, off>>

NoStart == [at |-> "none"]
Alive(w, k) == child[w][k].alive
Bound(w, p) == \E k \in DOMAIN child[w] : child[w][k].bound /\ child[w][k].port = p
Taken(p)    == \E w \in Windows : Bound(w, p)

\* The getter: a port and a process, healthy or not.
Runtime(t, p) == IF t = 0 THEN 0 ELSE p

\* probe: whoever serves the port answers; the request may time out instead.
Answers(p) == IF Taken(p) THEN BOOLEAN ELSE {FALSE}

Go(w, at) == start' = [start EXCEPT ![w] = [at |-> at]]
Ends(w)   == start' = [start EXCEPT ![w] = NoStart]

\* stop(): gives the process up, signals it and waits for its exit; the view is told after.
GiveUp(w) ==
    /\ tracked' = [tracked EXCEPT ![w] = 0]
    /\ IF tracked[w] = 0
       THEN shown' = [shown EXCEPT ![w] = 0] /\ UNCHANGED <<child, stopping>>
       ELSE /\ child' = [child EXCEPT ![w][tracked[w]].signalled = TRUE]
            /\ stopping' = [stopping EXCEPT ![w] = @ \cup {tracked[w]}]
            /\ UNCHANGED shown

\* The exit came or eight seconds passed.
Stopped(w, k) ==
    /\ k \in stopping[w]
    /\ stopping' = [stopping EXCEPT ![w] = @ \ {k}]
    /\ shown' = [shown EXCEPT ![w] = Runtime(tracked[w], port[w])]

Stop(w) == GiveUp(w) /\ UNCHANGED <<port, saved, start, off>>
StopEnds(w) ==
    /\ \E k \in stopping[w] : Stopped(w, k) /\ (start[w].at = "stopping" => start[w].child # k)
    /\ UNCHANGED <<child, tracked, port, saved, start, off>>

Deactivate(w) == ~off[w] /\ off' = [off EXCEPT ![w] = TRUE] /\ GiveUp(w) /\ UNCHANGED <<port, saved, start>>

-----------------------------------------------------------------------------
\* start, unless one is in progress: its promise is shared.  restart() is Stop, then Start.
Start(w) ==
    /\ start[w].at = "none" /\ ~off[w] /\ Len(child[w]) < MaxSpawns
    /\ start' = [start EXCEPT ![w] = [at |-> "old", child |-> tracked[w]]]
    /\ UNCHANGED <<child, tracked, port, saved, stopping, shown, off>>

\* The process tracked before the probe is reused if it lives and its port answers,
\* even when a stop() gave it up meanwhile; what is tracked after it is stopped first.
ProbeOld(w) ==
    /\ start[w].at = "old"
    /\ \E up \in IF port[w] = 0 THEN {FALSE} ELSE Answers(port[w]) :
          IF start[w].child # 0 /\ Alive(w, start[w].child) /\ up THEN Ends(w) /\ UNCHANGED <<child, tracked, stopping, shown>>
          ELSE IF tracked[w] = 0 THEN Go(w, "resolve") /\ UNCHANGED <<child, tracked, stopping, shown>>
          ELSE GiveUp(w) /\ start' = [start EXCEPT ![w] = [at |-> "stopping", child |-> tracked[w], then |-> "resolve"]]
    /\ UNCHANGED <<port, saved, off>>

StopsOwn(w) ==
    /\ start[w].at = "stopping" /\ Stopped(w, start[w].child)
    /\ Go(w, start[w].then)
    /\ UNCHANGED <<child, tracked, port, saved, off>>

\* resolveCommandPath and validateCommandPath may throw.
Resolve(w) ==
    /\ start[w].at = "resolve"
    /\ \/ Ends(w)
       \/ start' = [start EXCEPT ![w] = [at |-> "ports", next |-> saved[w], occupied |-> {}, missed |-> {}]]
    /\ UNCHANGED <<child, tracked, port, saved, stopping, shown, off>>

\* Or its request about a release is never answered; later callers share this start().
Hangs(w) ==
    /\ start[w].at = "resolve" /\ Go(w, "hung")
    /\ UNCHANGED <<child, tracked, port, saved, stopping, shown, off>>

\* allocatePort: one probe after the other...
ProbePort(w) ==
    /\ start[w].at = "ports" /\ start[w].next <= LastPort
    /\ \E up \in Answers(start[w].next) :
          start' = [start EXCEPT ![w].next = @ + 1,
                        ![w].occupied = IF up THEN @ \cup {start[w].next} ELSE @,
                        ![w].missed = IF up \/ ~Taken(start[w].next) THEN @ ELSE @ \cup {start[w].next}]
    /\ UNCHANGED <<child, tracked, port, saved, stopping, shown, off>>

\* Mutant: the preferred port, whoever answers there.
FreePorts_Preferred(w) == saved[w] .. LastPort

FreePorts(w) == (saved[w] .. LastPort) \ start[w].occupied

\* ... and the first that nobody answered at, on which the server is spawned.
Spawn(w) ==
    /\ start[w].at = "ports" /\ start[w].next > LastPort
    /\ IF FreePorts(w) = {} THEN Ends(w) /\ UNCHANGED <<child, port>>
       ELSE LET p == Min(FreePorts(w))
                \* Another server got there since the probe, or the probe timed out.
                lost == p \in start[w].missed \/ (Taken(p) /\ p \notin start[w].occupied)
            IN /\ port' = [port EXCEPT ![w] = p]
               /\ child' = [child EXCEPT ![w] = Append(@, [port |-> p, alive |-> TRUE, bound |-> FALSE,
                                                          signalled |-> FALSE, lost |-> lost])]
               /\ start' = [start EXCEPT ![w] = [at |-> "spawn", child |-> Len(child[w]) + 1]]
    /\ UNCHANGED <<tracked, saved, stopping, shown, off>>

\* The "spawn" event: the process is tracked from here on.  Or the "error" event.
Spawned(w) ==
    /\ start[w].at = "spawn"
    /\ tracked' = [tracked EXCEPT ![w] = start[w].child]
    /\ start' = [start EXCEPT ![w].at = "health"]
    /\ UNCHANGED <<child, port, saved, stopping, shown, off>>

SpawnFails(w) ==
    /\ start[w].at = "spawn"
    /\ child' = [child EXCEPT ![w][start[w].child].alive = FALSE]
    /\ Ends(w)
    /\ UNCHANGED <<tracked, port, saved, stopping, shown, off>>

\* waitForHealthy: an answer on the port while the process lives, ...
Healthy(w) ==
    /\ start[w].at = "health" /\ Alive(w, start[w].child)
    /\ TRUE \in Answers(port[w])
    /\ start' = [start EXCEPT ![w].at = "save"]
    /\ UNCHANGED <<child, tracked, port, saved, stopping, shown, off>>

\* ... its exit, or sixty seconds: then what is tracked is stopped and start() throws.
Unhealthy(w) ==
    /\ start[w].at = "health"
    /\ GiveUp(w)
    /\ IF tracked[w] = 0 THEN Ends(w)
       ELSE start' = [start EXCEPT ![w] = [at |-> "stopping", child |-> tracked[w], then |-> "none"]]
    /\ UNCHANGED <<port, saved, off>>

\* The port is remembered, the view is told and start() returns.
Save(w) ==
    /\ start[w].at = "save"
    /\ saved' = [saved EXCEPT ![w] = port[w]]
    /\ shown' = [shown EXCEPT ![w] = Runtime(tracked[w], port[w])]
    /\ Ends(w)
    /\ UNCHANGED <<child, tracked, port, stopping, off>>

-----------------------------------------------------------------------------
\* External: a server binds its port, or finds it taken and exits; it may also die.
Binds(w, k) ==
    /\ Alive(w, k) /\ ~child[w][k].bound /\ ~Taken(child[w][k].port)
    /\ child' = [v \in Windows |-> [i \in DOMAIN child[v] |->
                    IF v = w /\ i = k THEN [child[v][i] EXCEPT !.bound = TRUE]
                    ELSE IF child[v][i].port = child[w][k].port THEN [child[v][i] EXCEPT !.lost = TRUE] ELSE child[v][i]]]
    /\ UNCHANGED <<tracked, port, saved, start, stopping, shown, off>>

\* The "exit" callback of a process clears it where it is still tracked.
Clears(w, k) == tracked[w] = k

Exits(w, k) ==
    /\ Alive(w, k) /\ (start[w].at = "spawn" => start[w].child # k)
    /\ child' = [child EXCEPT ![w][k].alive = FALSE, ![w][k].bound = FALSE]
    /\ IF Clears(w, k)
       THEN tracked' = [tracked EXCEPT ![w] = 0] /\ shown' = [shown EXCEPT ![w] = 0]
       ELSE UNCHANGED <<tracked, shown>>
    /\ UNCHANGED <<port, saved, start, stopping, off>>

Init ==
    /\ child = [w \in Windows |-> <<>>] /\ tracked = [w \in Windows |-> 0] /\ port = [w \in Windows |-> 0]
    /\ saved = [w \in Windows |-> 1] /\ start = [w \in Windows |-> NoStart]
    /\ stopping = [w \in Windows |-> {}] /\ shown = [w \in Windows |-> 0] /\ off = [w \in Windows |-> FALSE]

StartStep(w) ==
    \/ ProbeOld(w) \/ StopsOwn(w) \/ Resolve(w) \/ ProbePort(w) \/ Spawn(w)
    \/ Spawned(w) \/ SpawnFails(w) \/ Unhealthy(w) \/ Save(w)

Next ==
    \E w \in Windows :
        \/ Start(w) \/ StartStep(w) \/ Hangs(w) \/ Healthy(w) \/ Stop(w) \/ StopEnds(w) \/ Deactivate(w)
        \/ \E k \in DOMAIN child[w] : Binds(w, k) \/ Exits(w, k)

Spec == Init /\ [][Next]_vars

\* Every other await of a start() has an answer, a callback or a deadline.
FairSpec == Spec /\ \A w \in Windows : WF_vars(StartStep(w))

-----------------------------------------------------------------------------
TypeOK ==
    /\ \A w \in Windows : tracked[w] \in 0 .. Len(child[w]) /\ Len(child[w]) <= MaxSpawns
    /\ \A w \in Windows : stopping[w] \subseteq DOMAIN child[w] /\ {port[w], shown[w]} \subseteq 0 .. LastPort

\* A server nobody asked to stop is the tracked one, or the start in progress is about
\* to track it: exits, errors, stops and starts in any order leave no server behind.
NoServerIsForgotten ==
    \A w \in Windows : \A k \in DOMAIN child[w] :
        Alive(w, k) /\ ~child[w][k].signalled =>
            tracked[w] = k \/ (start[w].at = "spawn" /\ start[w].child = k)

\* The port a window gives out is the one its tracked process was told to serve.
RuntimeIsTracked ==
    \A w \in Windows : tracked[w] # 0 => Alive(w, tracked[w]) /\ child[w][tracked[w]].port = port[w]

\* When nothing is in progress the view shows the server there is.
ViewIsCurrent ==
    \A w \in Windows : start[w].at = "none" /\ stopping[w] = {} => shown[w] = Runtime(tracked[w], port[w])

\* No window takes the server of another one, which is on another memory, for its own,
\* unless that one bound the port after it was found free or did not answer in time.
OwnServerUnlessLost ==
    \A w, v \in Windows : w # v /\ tracked[w] # 0 /\ Bound(v, port[w]) => child[w][tracked[w]].lost

ManagerSound == TypeOK /\ NoServerIsForgotten /\ RuntimeIsTracked /\ ViewIsCurrent /\ OwnServerUnlessLost

\* Every start() returns or throws, unless it waits for a reply that was cut off.
StartsEnd == \A w \in Windows : start[w].at # "none" ~> start[w].at \in {"none", "hung"}

\* What deactivate() is for: a deactivated window with nothing in progress has no server
\* running.  A start() in progress spawns one all the same.
OffMeansOff ==
    \A w \in Windows : off[w] /\ start[w].at = "none" => \A k \in DOMAIN child[w] : Alive(w, k) => child[w][k].signalled
===============================================================================
