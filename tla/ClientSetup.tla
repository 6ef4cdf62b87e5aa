----------------------------- MODULE ClientSetup -----------------------------
(***************************************************************************)
(* waggle-mcp setup, init and uninstall-hooks: the server is entered in    *)
(* the configuration files of MCP clients, its rule in AGENTS.md and its   *)
(* hooks in the settings of Claude Code.  The files are the user's: other  *)
(* entries stand in them, the user edits them, and other commands run      *)
(* meanwhile.  A file is read, changed in memory and rewritten in place,   *)
(* which empties it first; nothing is locked.  An entry is what a file     *)
(* holds under one name; of the server's own, the model is told apart and  *)
(* command, arguments and database are written with it.                    *)
(***************************************************************************)
EXTENDS Naturals, Sequences, SequencesExt

CONSTANTS
    Configs,     \* the JSON files of clients, a sequence in the order they are probed in
    Users,       \* entries of the user
    Mixed,       \* of those: hooks one of whose commands names waggle
    Noted,       \* of those: TOML sections with a comment after the header
    Events,      \* the events hooks are installed for, a sequence
    Default,     \* the model the writers enter
    Commands,    \* what is called: kind, clients (<<>> is auto), model, rule, hooks
    Stores,      \* the files there may be at first
    Procs, MaxEdits,
    Absent,      \* no such file
    Garbled,     \* not JSON: an emptied file is not either
    Odd          \* JSON but no object, or not decodable

SetupAssumption ==
    /\ Mixed \cup Noted \subseteq Users /\ MaxEdits \in Nat
    /\ \A c \in Commands : c.kind \in {"setup", "init", "uninstall"}

VARIABLES
    file,        \* the entries of every file, in their order
    call,        \* the command of every process
    edits,       \* edits of the user so far
    wanted,      \* history: by file, the entries the user put there and has not removed
    spoilt       \* history: files rewritten unread, over a change, or left half-written

vars == <<file, call, edits, wanted, spoilt>>

ConfigFiles == ToSet(Configs) \cup {"codex", "snippet", "agents", "settings"}
Text  == {"codex", "agents"}     \* read as text, whatever they hold
Readable(c) == c \notin {Absent, Garbled, Odd}
Entries(c) == IF Readable(c) THEN c ELSE <<>>
Emptied(f) == IF f \in Text THEN <<>> ELSE Garbled

Own(event, model) == [by |-> "waggle", event |-> event, model |-> model]
IsOwn(e) == e.by = "waggle"
OwnIn(s) == SelectSeq(s, IsOwn)
UsersOf(s) == {s[i].by : i \in DOMAIN s} \cap Users

-----------------------------------------------------------------------------
\* The JSON writers and the block of AGENTS.md: in its place, or after all others.
InPlace(s, entry) ==
    IF OwnIn(s) = <<>> THEN Append(s, entry) ELSE [i \in DOMAIN s |-> IF IsOwn(s[i]) THEN entry ELSE s[i]]

\* _write_codex: the section and what follows it up to the next header the pattern
\* knows for one, which a header with a comment after it is not.
\* Mutant: up to the end of the file.
Section_Greedy(s, entry) ==
    IF OwnIn(s) = <<>> THEN Append(s, entry)
    ELSE LET at == CHOOSE i \in DOMAIN s : IsOwn(s[i]) IN Append(SubSeq(s, 1, at - 1), entry)

Section(s, entry) ==
    IF OwnIn(s) = <<>> THEN Append(s, entry)
    ELSE LET at   == CHOOSE i \in DOMAIN s : IsOwn(s[i])
             ends == {i \in at + 1 .. Len(s) : s[i].by \notin Noted} \cup {Len(s) + 1}
             next == CHOOSE i \in ends : \A j \in ends : i <= j
         IN Append(SubSeq(s, 1, at - 1), entry) \o SubSeq(s, next, Len(s))

\* _install_claude_hooks and _uninstall_claude_hooks: an entry goes when any command in
\* it names waggle.
Foreign(e) == ~IsOwn(e) /\ e.by \notin Mixed
Uninstalled(s) == SelectSeq(s, Foreign)
Installed(s) == Uninstalled(s) \o [i \in DOMAIN Events |-> Own(Events[i], Default)]

Put(f, s) ==
    CASE f = "codex"    -> Section(s, Own("", Default))
      [] f = "snippet"  -> <<Own("", Default)>>
      [] f = "settings" -> Installed(s)
      [] OTHER          -> InPlace(s, Own("", Default))

\* _replace_model_in_client_config
WithModel(s, model) == [i \in DOMAIN s |-> IF IsOwn(s[i]) THEN Own("", model) ELSE s[i]]

-----------------------------------------------------------------------------
\* _setup_clients_from_args: auto takes the clients whose file is there, or Codex.
Detected ==
    LET probed == SelectSeq(Append(Configs, "codex"), LAMBDA f : file[f] # Absent)
    IN IF probed = <<>> THEN <<"codex">> ELSE probed
Chosen(c) == IF c.clients = <<>> THEN Detected ELSE c.clients

Task(do, f) == [do |-> do, file |-> f]
PutModel(f, model) ==
    IF model = Default THEN <<Task("put", f)>> ELSE <<Task("put", f), Task("model", f)>>

\* _run_setup, _run_init, which keeps the default model, and _run_uninstall_hooks.
Tasks(c, clients) ==
    IF c.kind = "uninstall" THEN <<Task("remove", "settings")>>
    ELSE FlattenSeq([i \in DOMAIN clients |-> PutModel(clients[i], c.model)])
         \o (IF (c.rule \/ c.kind = "init") /\ "codex" \in ToSet(clients) THEN <<Task("put", "agents")>> ELSE <<>>)
         \o <<Task("mkdir", "database")>>
         \o (IF c.hooks THEN <<Task("put", "settings")>> ELSE <<>>)

NoCall == [kind |-> "none", model |-> Default, todo |-> <<>>, at |-> "read", new |-> <<>>,
           ready |-> {}, raced |-> {}, result |-> "none"]

Init ==
    /\ file \in Stores
    /\ call = [p \in Procs |-> NoCall]
    /\ edits = 0
    /\ wanted = [f \in ConfigFiles |-> UsersOf(Entries(file[f]))]
    /\ spoilt = {}

Working(p) == call[p].todo # <<>>
Now(p) == Head(call[p].todo)
Writing(p, f) == Working(p) /\ Now(p).file = f /\ call[p].at = "write"

Begin(p, c) ==
    /\ call[p] = NoCall
    /\ call' = [call EXCEPT ![p] = [NoCall EXCEPT !.kind = c.kind, !.model = c.model, !.todo = Tasks(c, Chosen(c))]]
    /\ UNCHANGED <<file, edits, wanted, spoilt>>

\* The task is done; a file is ready when the client's last task is.
Goes(c) ==
    LET f == Head(c.todo).file
        left == Tail(c.todo)
    IN [c EXCEPT !.todo = left, !.at = "read", !.new = <<>>,
                 !.ready = IF f = "database" \/ (left # <<>> /\ Head(left).file = f) THEN @ ELSE @ \cup {f},
                 !.result = IF left = <<>> THEN "done" ELSE @]
Stops(c, result) == [c EXCEPT !.todo = <<>>, !.at = "read", !.new = <<>>, !.result = result]

\* What the task makes of what it read.
Changed(t, model, s) ==
    CASE t.do = "put"    -> Put(t.file, s)
      [] t.do = "model"  -> WithModel(s, model)
      [] t.do = "remove" -> Uninstalled(s)

\* The snippet is written unread.  A model is entered, and hooks are removed, in a file
\* that is there and is JSON; a model in a file that has gone is an OSError.
Read(p) ==
    LET t == Now(p)
        c == file[t.file]
        lost == t.do = "put" /\ t.file \notin Text \cup {"snippet"} /\ c = Garbled
        fresh == IF t.do = "model" THEN call[p].raced ELSE call[p].raced \ {t.file}
        found == [call[p] EXCEPT !.at = "open", !.new = Changed(t, call[p].model, Entries(c)),
                                 !.raced = IF \E q \in Procs \ {p} : Writing(q, t.file) THEN fresh \cup {t.file} ELSE fresh]
    IN /\ Working(p) /\ call[p].at = "read" /\ t.do # "mkdir"
       /\ spoilt' = IF lost THEN spoilt \cup {t.file} ELSE spoilt
       /\ call' = [call EXCEPT ![p] =
            IF t = Task("put", "snippet") THEN found
            ELSE IF c = Odd THEN Stops(@, "raised")
            ELSE IF t.do = "model" /\ c = Absent THEN Stops(@, "failed")
            ELSE IF t.do \in {"model", "remove"} /\ ~Readable(c) THEN Goes(@)
            ELSE IF t.do = "remove" /\ Uninstalled(c) = c THEN Goes(@)
            ELSE found]
       /\ UNCHANGED <<file, edits, wanted>>

\* What others do to a file is a race for the commands that have it before or behind them.
Raced(p, f) == [q \in Procs |-> IF q # p /\ call[q].kind # "none" THEN [call[q] EXCEPT !.raced = @ \cup {f}] ELSE call[q]]

\* write_text: the file is emptied when it is opened.
Open(p) ==
    LET f == Now(p).file
    IN /\ Working(p) /\ call[p].at = "open"
       /\ file' = [file EXCEPT ![f] = Emptied(f)]
       /\ call' = [Raced(p, f) EXCEPT ![p].at = "write"]
       /\ UNCHANGED <<edits, wanted, spoilt>>

Write(p) ==
    LET f == Now(p).file
    IN /\ Working(p) /\ call[p].at = "write"
       /\ file' = [file EXCEPT ![f] = call[p].new]
       /\ call' = [Raced(p, f) EXCEPT ![p] = Goes(call[p])]
       /\ spoilt' = IF f \in call[p].raced THEN spoilt \cup {f} ELSE spoilt
       /\ UNCHANGED <<edits, wanted>>

MakeDirectory(p) ==
    /\ Working(p) /\ Now(p).do = "mkdir"
    /\ call' = [call EXCEPT ![p] = Goes(@)]
    /\ UNCHANGED <<file, edits, wanted, spoilt>>

Left(p) == spoilt' = IF call[p].at = "write" THEN spoilt \cup {Now(p).file} ELSE spoilt

\* An OSError ends the command, but in the hooks of a setup, where it is logged.
Fails(p) ==
    /\ Working(p) /\ Left(p)
    /\ call' = [call EXCEPT ![p] =
         IF Now(p) = Task("put", "settings") THEN [Goes(@) EXCEPT !.ready = call[p].ready]
         ELSE Stops(@, IF @.kind = "uninstall" THEN "raised" ELSE "failed")]
    /\ UNCHANGED <<file, edits, wanted>>

Killed(p) ==
    /\ Working(p) /\ Left(p)
    /\ call' = [call EXCEPT ![p] = Stops(@, "killed")]
    /\ UNCHANGED <<file, edits, wanted>>

\* The user, or the client itself, adds an entry, takes one out - the server's, too - or
\* spoils the syntax.
Edit(f) ==
    /\ edits < MaxEdits /\ edits' = edits + 1
    /\ \/ \E u \in Users \ wanted[f] :
            /\ Readable(file[f])
            /\ file' = [file EXCEPT ![f] = Append(@, [by |-> u, event |-> "", model |-> ""])]
            /\ wanted' = [wanted EXCEPT ![f] = @ \cup {u}]
       \/ \E i \in DOMAIN Entries(file[f]) :
            /\ file' = [file EXCEPT ![f] = RemoveAt(@, i)]
            /\ wanted' = [wanted EXCEPT ![f] = @ \ {file[f][i].by}]
       \/ f \notin Text /\ Readable(file[f]) /\ file' = [file EXCEPT ![f] = Garbled] /\ UNCHANGED wanted
    /\ call' = Raced("user", f)
    /\ UNCHANGED spoilt

Next ==
    \/ \E p \in Procs : \/ \E c \in Commands : Begin(p, c)
                        \/ Read(p) \/ Open(p) \/ Write(p) \/ MakeDirectory(p) \/ Fails(p) \/ Killed(p)
    \/ \E f \in ConfigFiles : Edit(f)

Spec == Init /\ [][Next]_vars

-----------------------------------------------------------------------------
TypeOK ==
    /\ DOMAIN file = ConfigFiles /\ edits \in 0 .. MaxEdits /\ spoilt \subseteq ConfigFiles
    /\ wanted \in [ConfigFiles -> SUBSET Users]
    /\ \A p \in Procs : call[p].ready \subseteq ConfigFiles /\ call[p].at \in {"read", "open", "write"}

\* What the user entered stays through every command, its failure or its end, unless
\* the file was unreadable, changed under the command or left half-written; but for the
\* snippet, which is written over, and for what the code takes for its own.
EntriesStay ==
    \A f \in ConfigFiles \ (spoilt \cup {"snippet"}) :
        Readable(file[f]) /\ ~(\E p \in Procs : Writing(p, f)) =>
            wanted[f] \ (Mixed \cup Noted) \subseteq UsersOf(file[f])

\* However commands interleave, a file never holds two entries of the server's, nor two
\* hooks of one event.
OwnOnce ==
    \A f \in ConfigFiles : LET own == OwnIn(Entries(file[f]))
                     IN \A i, j \in DOMAIN own : own[i].event = own[j].event => i = j

\* A file that a command has finished and nobody has changed since holds the server's
\* entry with the model asked for, or the hooks, or none of them after a removal,
\* whatever became of the command afterwards.
ReadyIsConfigured ==
    \A p \in Procs : \A f \in call[p].ready \ call[p].raced :
        LET own == OwnIn(Entries(file[f])) IN
        IF f \in ToSet(Configs) \cup {"codex", "snippet"} THEN own = <<Own("", call[p].model)>>
        ELSE IF f = "agents" THEN Len(own) = 1
        ELSE IF call[p].kind = "uninstall" THEN Uninstalled(Entries(file[f])) = Entries(file[f])
        ELSE own = [i \in DOMAIN Events |-> Own(Events[i], Default)]

\* Entering the server a second time changes nothing.
RepeatsSettle ==
    \A f \in ConfigFiles : Readable(file[f]) => Put(f, Put(f, file[f])) = Put(f, file[f])

SetupSound == TypeOK /\ EntriesStay /\ OwnOnce /\ ReadyIsConfigured /\ RepeatsSettle
=============================================================================
