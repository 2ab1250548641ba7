------------------------------ MODULE AtomicWrite ------------------------------
(***************************************************************************)
(* utils.WriteFileAtomic (utils/io.go): a temporary file in the directory  *)
(* of the target is created, given its mode, written, synced, closed and   *)
(* renamed over the target.  Several processes do this to one path: the    *)
(* service and a CLI command to config.json, two overlapping `run --once`  *)
(* to a certificate.  Any call may fail, a process may be killed between   *)
(* two of them, and the machine may lose power: it then keeps the data     *)
(* that was synced, and any directory entry older than the last one        *)
(* settled may or may not have reached the disk.                           *)
(***************************************************************************)
EXTENDS Naturals, FiniteSets

CONSTANTS
    Writers,    \* processes that write the path
    Original,   \* the contents to begin with
    MaxCalls,   \* bound on the calls of each writer
    MaxFaults   \* bound on failures, kills and power losses

ASSUME OriginalAssumption == Original \notin Writers \X Nat
ASSUME CallsAssumption    == MaxCalls \in Nat /\ MaxFaults \in Nat

VARIABLES
    target,   \* the file at the path: [data, synced]
    stable,   \* the file at the path according to the disk
    temp,     \* [Writers -> the writer's temporary file, or no file]
    names,    \* [Writers -> the calls whose temporary file is in the directory]
    kept,     \* the same according to the disk
    at,       \* [Writers -> the call the writer makes next]
    outcome,  \* [Writers -> "none", "busy", "ok" or "error"]
    calls,    \* [Writers -> calls so far]
    faults,   \* faults so far
    abrupt    \* those after which nothing can be removed

directory == <<names, kept, abrupt>>
vars == <<target, stable, temp, at, outcome, calls, faults, directory>>

\* A file is complete contents, or what is left of a write that was not synced.
Torn    == <<>>
Value   == (Writers \X Nat) \cup {Original}
File    == [data : Value \cup {Torn}, synced : BOOLEAN]
NoFile  == [data |-> Torn, synced |-> FALSE]
Steps   == {"start", "create", "chmod", "write", "sync", "close", "rename"}

Written(w) == <<w, calls[w]>>

Init ==
    /\ target = [data |-> Original, synced |-> TRUE]
    /\ stable = target
    /\ temp = [w \in Writers |-> NoFile]
    /\ at = [w \in Writers |-> "start"]
    /\ outcome = [w \in Writers |-> "none"]
    /\ calls = [w \in Writers |-> 0]
    /\ names = [w \in Writers |-> {}]
    /\ kept = names
    /\ faults = 0
    /\ abrupt = 0

Fault == faults < MaxFaults /\ faults' = faults + 1

\* A kill, a loss of power, or an error after which nothing is removed.
AbruptFault == Fault /\ abrupt' = abrupt + 1

Return(w, result) ==
    /\ at' = [at EXCEPT ![w] = "start"]
    /\ temp' = [temp EXCEPT ![w] = NoFile]
    /\ outcome' = [outcome EXCEPT ![w] = result]

\* The caller has new contents to write.
Call(w) ==
    /\ at[w] = "start"
    /\ calls[w] < MaxCalls
    /\ calls' = [calls EXCEPT ![w] = @ + 1]
    /\ outcome' = [outcome EXCEPT ![w] = "busy"]
    /\ at' = [at EXCEPT ![w] = "create"]
    /\ UNCHANGED <<target, stable, temp, faults, directory>>

\* The name is unique, so no two writers share a temporary file.
CreateTemp(w) ==
    /\ at[w] = "create"
    /\ at' = [at EXCEPT ![w] = "chmod"]
    /\ names' = [names EXCEPT ![w] = @ \cup {calls[w]}]
    /\ UNCHANGED <<target, stable, temp, outcome, calls, faults, kept, abrupt>>

Chmod(w) ==
    /\ at[w] = "chmod"
    /\ at' = [at EXCEPT ![w] = "write"]
    /\ UNCHANGED <<target, stable, temp, outcome, calls, faults, directory>>

Write(w) ==
    /\ at[w] = "write"
    /\ at' = [at EXCEPT ![w] = "sync"]
    /\ temp' = [temp EXCEPT ![w] = [data |-> Written(w), synced |-> FALSE]]
    /\ UNCHANGED <<target, stable, outcome, calls, faults, directory>>

\* Sync left out: the rename may reach the disk before the data does.
Sync_Skipped(w) ==
    /\ at[w] = "sync"
    /\ at' = [at EXCEPT ![w] = "close"]
    /\ UNCHANGED <<target, stable, temp, outcome, calls, faults, directory>>

Sync(w) ==
    /\ at[w] = "sync"
    /\ at' = [at EXCEPT ![w] = "close"]
    /\ temp' = [temp EXCEPT ![w].synced = TRUE]
    /\ UNCHANGED <<target, stable, outcome, calls, faults, directory>>

Close(w) ==
    /\ at[w] = "close"
    /\ at' = [at EXCEPT ![w] = "rename"]
    /\ UNCHANGED <<target, stable, temp, outcome, calls, faults, directory>>

\* The temporary file of the call is gone.
Removed(w) == names' = [names EXCEPT ![w] = @ \ {calls[w]}]

\* The error is noted, and the rename happens all the same.
Cleanup_Late(w) ==
    /\ at[w] \in {"create", "chmod", "write", "sync", "close"}
    /\ Fault
    /\ at' = [at EXCEPT ![w] = "rename"]
    /\ outcome' = [outcome EXCEPT ![w] = "error"]
    /\ UNCHANGED <<target, stable, temp, calls, directory>>

\* The file is closed, but not removed.
Cleanup_Kept(w) ==
    /\ at[w] \in {"create", "chmod", "write", "sync", "close"}
    /\ Fault
    /\ Return(w, "error")
    /\ UNCHANGED <<target, stable, calls, directory>>

\* CreateTemp fails, or a later call does and cleanup removes the file; whether that
\* succeeds is not looked at.
Cleanup(w) ==
    /\ at[w] \in {"create", "chmod", "write", "sync", "close"}
    /\ \/ Fault /\ Removed(w) /\ UNCHANGED abrupt
       \/ AbruptFault /\ at[w] # "create" /\ UNCHANGED names
    /\ Return(w, "error")
    /\ UNCHANGED <<target, stable, calls, kept>>

Rename(w) ==
    /\ at[w] = "rename"
    /\ target' = temp[w]
    /\ Removed(w)
    /\ Return(w, "ok")
    /\ UNCHANGED <<stable, calls, faults, kept, abrupt>>

\* The error of os.Rename is returned as it is; the temporary file stays behind,
\* under a name nothing reads.
RenameFails(w) ==
    /\ at[w] = "rename"
    /\ AbruptFault
    /\ Return(w, "error")
    /\ UNCHANGED <<target, stable, calls, names, kept>>

Kill(w) ==
    /\ at[w] # "start"
    /\ AbruptFault
    /\ Return(w, "none")
    /\ UNCHANGED <<target, stable, calls, names, kept>>

\* The file system writes the directory entries, with or without the data.
Settle ==
    /\ stable' = target
    /\ kept' = names
    /\ UNCHANGED <<target, temp, at, outcome, calls, faults, names, abrupt>>

\* A temporary file that was renamed or removed since may be back.
LosePower ==
    /\ AbruptFault
    /\ target' = IF stable.synced THEN stable ELSE [data |-> Torn, synced |-> TRUE]
    /\ stable' = target'
    /\ names' = kept
    /\ temp' = [w \in Writers |-> NoFile]
    /\ at' = [w \in Writers |-> "start"]
    /\ outcome' = [w \in Writers |-> "none"]
    /\ UNCHANGED <<calls, kept>>

Next ==
    \/ \E w \in Writers :
          \/ Call(w) \/ CreateTemp(w) \/ Chmod(w) \/ Write(w) \/ Sync(w)
          \/ Close(w) \/ Cleanup(w) \/ Rename(w) \/ RenameFails(w) \/ Kill(w)
    \/ Settle \/ LosePower

Spec == Init /\ [][Next]_vars

-----------------------------------------------------------------------------
(* Properties *)

TypeOK ==
    /\ target \in File
    /\ stable \in File
    /\ temp \in [Writers -> File]
    /\ at \in [Writers -> Steps]
    /\ outcome \in [Writers -> {"none", "busy", "ok", "error"}]
    /\ \A w \in Writers : outcome[w] = "busy" <=> at[w] # "start"
    /\ calls \in [Writers -> Nat]
    /\ faults \in Nat
    /\ names \in [Writers -> SUBSET Nat]
    /\ kept \in [Writers -> SUBSET Nat]
    /\ abrupt \in Nat

\* Whoever reads the path, at any moment and after any failure, gets the complete
\* contents of one call: this is what lets the agent write the files a running
\* web server reads, and its own config.json, in place (utils/io.go:23-53).
NeverTorn ==
    /\ target.data \in Value
    /\ stable.synced

\* The temporary files of a writer that are in the directory and not in its hands.
Leftovers(w) ==
    {n \in names[w] : at[w] \in {"start", "create"} \/ n # calls[w]}

\* Temporary files, which may hold a private key and which the agent never looks for again, do
\* not pile up: a writer leaves one behind for each kill, loss of power, failed rename or failed
\* removal at most, and none for any other error (utils/io.go:34-52).
LeftoversArePaidFor == \A w \in Writers : Cardinality(Leftovers(w)) <= abrupt

\* The disk may have one more of each writer: a loss of power then brings it back.
Tidy ==
    \A w \in Writers :
        /\ IsFiniteSet(names[w]) /\ Cardinality(Leftovers(w)) <= abrupt
        /\ IsFiniteSet(kept[w]) /\ Cardinality(kept[w]) <= abrupt + 1

\* The inductive invariant: what the path and the disk hold is complete and synced,
\* and a temporary file is what its writer's progress says.
IndInv ==
    /\ TypeOK
    /\ target.data \in Value /\ target.synced
    /\ stable.data \in Value /\ stable.synced
    /\ \A w \in Writers :
          /\ at[w] \in {"sync", "close", "rename"} => temp[w].data = Written(w)
          /\ at[w] \in {"close", "rename"} => temp[w].synced
    /\ Tidy

Promise == INSTANCE AtomicFile
               WITH contents <- target.data, permanent <- stable.data

\* WriteFileAtomic does what AtomicFile promises: seen from outside it takes
\* effect at once or not at all, and an error it returns (utils/io.go:27-50) means
\* that nothing was written, by however many processes it is called.
ImplementsAtomicFile == Promise!Spec
===============================================================================
