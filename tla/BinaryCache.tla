----------------------------- MODULE BinaryCache -----------------------------
(***************************************************************************)
(* The VS Code extension's BinaryResolver: calls of resolveCommandPath and *)
(* ensureBinary, in one window or several, over one cache directory.  A    *)
(* release is downloaded into a temporary file of one name, renamed,       *)
(* verified, given its sidecar and made executable, with an await between  *)
(* any two of these; a call may end with its window at each of them.       *)
(* Every call for a version downloads the same content, so a file is the   *)
(* set of the chunks that were written into it.  A reply about a release   *)
(* that is cut off is neither an end nor an error: its call waits on.      *)
(*  The other install methods, and an    *)
(* absolute commandPath, return their setting at once and are left out.    *)
(***************************************************************************)
EXTENDS Naturals, FiniteSets

CONSTANTS
    Calls,
    Requested, Latest,    \* the versions: the one asked for and the newest release
    AllowLatest,          \* waggle.binaryAllowLatestFallback
    Chunks,
    Closing,              \* the calls whose window may close
    Kinds                 \* of {"resolve", "ensure"}: what calls ask for

CacheAssumption == Chunks \in Nat \ {0} /\ AllowLatest \in BOOLEAN

Versions == {Requested, Latest}

VARIABLES
    inode,     \* chunks written and executable bit of every file there was, a call's own
    dest,      \* per version: the binary, an inode or "none"
    tmp,       \* ... the ".download" file
    sidecar,   \* ... whether the metadata file is there
    call,
    lone,      \* history: the last call to begin, if none was at the files then or since; or "none"
    spoilt     \* history: whether its network failed, its release had no checksums, or
               \* it was told of another release than before

vars == <<inode, dest, tmp, sidecar, call, lone, spoilt>>

Empty == [chunks |-> {}, exec |-> FALSE]
Whole(f) == f \in Calls /\ inode[f].chunks = 1 .. Chunks

At(c)     == call[c].at
Active(c) == At(c) \notin {"idle", "returned", "failed", "crashed"}
V(c)      == call[c].version

Goes(c, at)   == call' = [call EXCEPT ![c].at = at]
FileVars      == <<inode, dest, tmp, sidecar>>
Kept          == <<lone, spoilt>>
Spoils(c)     == spoilt' = (spoilt \/ c = lone)

\* A reply came in: fetchBundleMetadata's version is the one asked for, or the latest where allowed.
Offered == IF AllowLatest THEN Versions ELSE {Requested}
Told(c, v) == spoilt' = (spoilt \/ (c = lone /\ call[c].got \notin {"none", v}))

\* A candidate did not verify: what a call does next, by what it verified for.
Missed(c) ==
    CASE call[c].for = "cached" /\ AllowLatest /\ call[c].left # {} ->
           \E v \in call[c].left :
               call' = [call EXCEPT ![c].at = "access", ![c].version = v, ![c].left = @ \ {v}]
      [] call[c].for = "cached" /\ ~(AllowLatest /\ call[c].left # {}) ->
           call' = IF call[c].round = 1 THEN [call EXCEPT ![c].at = "fetch"]
                   ELSE [call EXCEPT ![c].at = "returned", ![c].version = Requested]
      [] call[c].for = "ensure" -> Goes(c, "request")
      [] call[c].for = "downloaded" -> Goes(c, "failed")

\* resolveCommandPath asks the cache twice: whether there is a binary, then for it.
Verified(c) ==
    CASE call[c].for = "cached" /\ call[c].round = 1 ->
           call' = [call EXCEPT ![c].at = "access", ![c].version = Requested, ![c].left = Versions, ![c].round = 2]
      [] call[c].for = "cached" /\ call[c].round = 2 -> Goes(c, "returned")
      [] call[c].for \in {"ensure", "downloaded"} -> Goes(c, "sidecar")

-----------------------------------------------------------------------------
Begin(c, k) ==
    /\ At(c) = "idle"
    /\ call' = [call EXCEPT ![c].at = IF k = "resolve" THEN "access" ELSE "fetch"]
    /\ lone' = IF \E d \in Calls : Active(d) /\ At(d) # "hung" THEN "none" ELSE c
    /\ spoilt' = FALSE
    /\ UNCHANGED FileVars

\* fs.access of the version looked at.
Access(c) ==
    /\ At(c) = "access"
    /\ IF dest[V(c)] = "none" THEN Missed(c) ELSE Goes(c, "metadata")
    /\ UNCHANGED <<FileVars, Kept>>

\* verifyCachedBinary: its metadata are those given, the sidecar's, or fetched, of
\* whatever version the binary is; without a checksum it throws.
Fetches(c) == At(c) = "fetch" \/ (At(c) = "metadata" /\ call[c].for = "cached" /\ ~sidecar[V(c)])

Metadata(c) ==
    /\ At(c) = "metadata"
    /\ IF Fetches(c)
       THEN \/ \E v \in Offered :
                 /\ call' = [call EXCEPT ![c].at = IF v = V(c) THEN "hash" ELSE "hashOther", ![c].got = v]
                 /\ Told(c, v)
            \/ Missed(c) /\ Spoils(c)
       ELSE /\ IF call[c].for = "cached" \/ call[c].sums THEN Goes(c, "hash") ELSE Missed(c)
            /\ UNCHANGED spoilt
    /\ UNCHANGED <<FileVars, lone>>

\* fetchJson waits for the end of a reply whose connection is gone.
Hangs(c) == Fetches(c) /\ Goes(c, "hung") /\ UNCHANGED <<FileVars, Kept>>

\* Mutant: what was read is taken as it is.
Accepted_Any(f) == f # "none"

Accepted(f) == Whole(f)

\* With another version's checksum no file is right, a whole one neither.
Hash(c) ==
    /\ At(c) \in {"hash", "hashOther"}
    /\ IF dest[V(c)] = "none" THEN Missed(c)
       ELSE IF At(c) = "hash" /\ Accepted(dest[V(c)]) THEN Verified(c)
       ELSE Goes(c, "drop")
    /\ UNCHANGED <<FileVars, Kept>>

\* A mismatch unlinks whatever has the name by now, then the sidecar.
Drop(c) ==
    /\ At(c) = "drop"
    /\ dest' = [dest EXCEPT ![V(c)] = "none"]
    /\ Goes(c, "dropMetadata")
    /\ UNCHANGED <<inode, tmp, sidecar, Kept>>

DropMetadata(c) ==
    /\ At(c) = "dropMetadata"
    /\ sidecar' = [sidecar EXCEPT ![V(c)] = FALSE]
    /\ Missed(c)
    /\ UNCHANGED <<inode, dest, tmp, Kept>>

\* fetchBundleMetadata: the release asked for, the latest where allowed, or nothing.
Fetch(c) ==
    /\ At(c) = "fetch"
    /\ \/ \E v \in Offered, sums \in BOOLEAN :
             /\ call' = [call EXCEPT ![c].at = "access", ![c].for = "ensure", ![c].version = v, ![c].sums = sums,
                                     ![c].got = v]
             /\ IF sums THEN Told(c, v) ELSE Spoils(c)
       \/ Goes(c, "failed") /\ Spoils(c)
    /\ UNCHANGED <<FileVars, lone>>

\* downloadFile opens the temporary file, which truncates one that is there ...
Request(c) ==
    /\ At(c) = "request"
    /\ \/ /\ LET f == IF tmp[V(c)] = "none" THEN c ELSE tmp[V(c)]
             IN /\ tmp' = [tmp EXCEPT ![V(c)] = f]
                /\ inode' = [inode EXCEPT ![f].chunks = {}]
                /\ call' = [call EXCEPT ![c].at = "write", ![c].file = f]
          /\ UNCHANGED spoilt
       \/ Goes(c, "failed") /\ Spoils(c) /\ UNCHANGED <<inode, tmp>>
    /\ UNCHANGED <<dest, sidecar, lone>>

\* ... writes it from the start, each stream at its own position, ...
Write(c) ==
    /\ At(c) = "write" /\ call[c].pos < Chunks
    /\ call' = [call EXCEPT ![c].pos = @ + 1]
    /\ inode' = [inode EXCEPT ![call[c].file].chunks = @ \cup {call[c].pos + 1}]
    /\ UNCHANGED <<dest, tmp, sidecar, Kept>>

\* ... fails, after which the name is unlinked, whosever file it is, ...
Breaks(c) == At(c) = "write" /\ Goes(c, "abort") /\ Spoils(c) /\ UNCHANGED <<FileVars, lone>>
Abort(c) ==
    /\ At(c) = "abort"
    /\ tmp' = [tmp EXCEPT ![V(c)] = "none"]
    /\ Goes(c, "failed")
    /\ UNCHANGED <<inode, dest, sidecar, Kept>>

\* ... or gives what has the temporary name by now the binary's.
Rename(c) ==
    /\ At(c) = "write" /\ call[c].pos = Chunks
    /\ IF tmp[V(c)] = "none" THEN Goes(c, "failed") /\ UNCHANGED <<dest, tmp>>
       ELSE /\ dest' = [dest EXCEPT ![V(c)] = tmp[V(c)]]
            /\ tmp' = [tmp EXCEPT ![V(c)] = "none"]
            /\ call' = [call EXCEPT ![c].at = "metadata", ![c].for = "downloaded"]
    /\ UNCHANGED <<inode, sidecar, Kept>>

Sidecar(c) ==
    /\ At(c) = "sidecar"
    /\ sidecar' = [sidecar EXCEPT ![V(c)] = TRUE]
    /\ Goes(c, IF call[c].for = "downloaded" THEN "chmod" ELSE "returned")
    /\ UNCHANGED <<inode, dest, tmp, Kept>>

Chmod(c) ==
    /\ At(c) = "chmod"
    /\ IF dest[V(c)] = "none" THEN Goes(c, "failed") /\ UNCHANGED inode
       ELSE inode' = [inode EXCEPT ![dest[V(c)]].exec = TRUE] /\ Goes(c, "returned")
    /\ UNCHANGED <<dest, tmp, sidecar, Kept>>

\* The window is closed: the call and its streams are gone, the files stay.
Crash(c) == c \in Closing /\ Active(c) /\ Goes(c, "crashed") /\ UNCHANGED <<FileVars, Kept>>

Init ==
    /\ inode = [c \in Calls |-> Empty] /\ dest = [v \in Versions |-> "none"] /\ tmp = dest
    /\ sidecar = [v \in Versions |-> FALSE] /\ lone = "none" /\ spoilt = FALSE
    /\ call = [c \in Calls |-> [at |-> "idle", for |-> "cached", round |-> 1, left |-> Versions,
                                version |-> Requested, sums |-> FALSE, got |-> "none", file |-> "none", pos |-> 0]]

Step(c) ==
    \/ Access(c) \/ Metadata(c) \/ Hash(c) \/ Drop(c) \/ DropMetadata(c) \/ Fetch(c) \/ Request(c)
    \/ Write(c) \/ Breaks(c) \/ Abort(c) \/ Rename(c) \/ Sidecar(c) \/ Chmod(c)

Next == \E c \in Calls : Step(c) \/ Hangs(c) \/ Crash(c) \/ \E k \in Kinds : Begin(c, k)

Spec == Init /\ [][Next]_vars

\* Every await of a call but that one ends: requests have deadlines, a download's reply
\* has an error handler.
FairSpec == Spec /\ \A c \in Calls : WF_vars(Step(c))

-----------------------------------------------------------------------------
TypeOK ==
    /\ \A v \in Versions : {dest[v], tmp[v]} \subseteq Calls \cup {"none"}
    /\ \A c \in Calls : call[c].pos \in 0 .. Chunks /\ call[c].file \in Calls \cup {"none"}

\* Whatever earlier calls and closed windows left behind - a half-written temporary file,
\* a partial binary, a sidecar without one - a call alone that reaches a release succeeds.
LoneCallSucceeds == lone # "none" /\ ~spoilt => At(lone) # "failed"

\* ... and what it returned is whole, until another call begins: also after a window that
\* closed before the sidecar was written, and one that verified with another version's sum.
LoneAnswerIsWhole == lone # "none" /\ ~spoilt /\ At(lone) = "returned" => Whole(dest[V(lone)])

\* A binary that is not whole has a call that will verify it before its path is given out,
\* or was left by a closed window; later calls verify before they return it.
PartialIsWatched ==
    \A v \in Versions : dest[v] # "none" /\ ~Whole(dest[v]) =>
        \E c \in Calls : V(c) = v /\ call[c].for = "downloaded" /\ At(c) \in {"metadata", "hash", "drop", "crashed", "failed"}

\* One that a call alone downloaded and returned runs.
OwnDownloadRuns ==
    lone # "none" /\ At(lone) = "returned" /\ call[lone].for = "downloaded" => inode[dest[V(lone)]].exec

BinarySound == TypeOK /\ LoneCallSucceeds /\ LoneAnswerIsWhole /\ PartialIsWatched /\ OwnDownloadRuns

\* Every call returns or throws, whatever the others do to its files, unless a reply
\* about a release is cut off.
CallsReturn == \A c \in Calls : Active(c) ~> ~Active(c) \/ At(c) = "hung"

\* What the caller does next is run it.  A window closed before chmod leaves a whole
\* binary that every later call verifies and returns, and that does not run.
ReturnedRuns == lone # "none" /\ At(lone) = "returned" /\ dest[V(lone)] # "none" => inode[dest[V(lone)]].exec
===============================================================================
