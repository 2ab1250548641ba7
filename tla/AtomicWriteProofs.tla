-------------------------- MODULE AtomicWriteProofs --------------------------
(***************************************************************************)
(* WriteFileAtomic implements AtomicFile, for any number of processes,     *)
(* calls and faults.                                                       *)
(***************************************************************************)
EXTENDS AtomicWrite, FiniteSetTheorems, TLAPS

\* What a writer has written is a value.
LEMMA WrittenIsValue ==
    ASSUME TypeOK, NEW w \in Writers PROVE Written(w) \in Value
BY DEF TypeOK, Written, Value

\* The value for "no temporary file" and the original file are files.
LEMMA NoFileIsFile == NoFile \in File /\ [data |-> Original, synced |-> TRUE] \in File
BY DEF NoFile, File, Torn, Value

-----------------------------------------------------------------------------
(* The directory: which temporary files are left behind *)

\* The part of the type invariant that is about the directory.
DirectoryTypeOK ==
    /\ names \in [Writers -> SUBSET Nat]
    /\ kept \in [Writers -> SUBSET Nat]
    /\ abrupt \in Nat

\* What a step does to the names in the directory, on the disk, and to the faults that leave
\* a file behind.
LEMMA DirectoryEffect ==
    ASSUME TypeOK, [Next]_vars
    PROVE  \/ UNCHANGED directory
           \/ \E w \in Writers : /\ names' = [names EXCEPT ![w] = @ \cup {calls[w]}]
                                 /\ UNCHANGED <<kept, abrupt>>
           \/ \E w \in Writers : Removed(w) /\ UNCHANGED <<kept, abrupt>>
           \/ abrupt' = abrupt + 1 /\ UNCHANGED <<names, kept>>
           \/ kept' = names /\ UNCHANGED <<names, abrupt>>
           \/ abrupt' = abrupt + 1 /\ names' = kept /\ kept' = kept
<1>1. ASSUME NEW w \in Writers, Call(w) \/ Chmod(w) \/ Write(w) \/ Sync(w) \/ Close(w)
      PROVE  UNCHANGED directory
    BY <1>1 DEF Call, Chmod, Write, Sync, Close
<1>2. ASSUME NEW w \in Writers, CreateTemp(w)
      PROVE  /\ names' = [names EXCEPT ![w] = @ \cup {calls[w]}]
             /\ UNCHANGED <<kept, abrupt>>
    BY <1>2 DEF CreateTemp
<1>3. ASSUME NEW w \in Writers, Cleanup(w) \/ Rename(w) \/ RenameFails(w) \/ Kill(w)
      PROVE  \/ Removed(w) /\ UNCHANGED <<kept, abrupt>>
             \/ abrupt' = abrupt + 1 /\ UNCHANGED <<names, kept>>
    BY <1>3 DEF Cleanup, Rename, RenameFails, Kill, AbruptFault
<1>4. ASSUME Settle PROVE kept' = names /\ UNCHANGED <<names, abrupt>>
    BY <1>4 DEF Settle
<1>5. ASSUME LosePower PROVE abrupt' = abrupt + 1 /\ names' = kept /\ kept' = kept
    BY <1>5 DEF LosePower, AbruptFault
<1> QED
    BY <1>1, <1>2, <1>3, <1>4, <1>5 DEF Next, vars

\* So these variables keep to their types.
LEMMA DirectoryTypes ==
    ASSUME TypeOK, [Next]_vars
    PROVE  DirectoryTypeOK'
<1>1. \A w \in Writers : calls[w] \in Nat
    BY DEF TypeOK
<1> QED
    BY <1>1, DirectoryEffect DEF TypeOK, DirectoryTypeOK, Removed, directory

\* A step either leaves no more of a writer's files behind, or leaves one and is a fault that
\* explains it.
LEMMA LeftoversGrow ==
    ASSUME TypeOK, [Next]_vars, NEW w \in Writers
    PROVE  \/ Leftovers(w)' \subseteq Leftovers(w) /\ abrupt' = abrupt
           \/ /\ Leftovers(w)' \subseteq Leftovers(w) \cup {calls[w]}
              /\ abrupt' = abrupt + 1
           \/ Leftovers(w)' \subseteq kept[w] /\ abrupt' = abrupt + 1
<1>0. /\ at \in [Writers -> Steps] /\ calls \in [Writers -> Nat]
      /\ names \in [Writers -> SUBSET Nat]
    BY DEF TypeOK
<1>1. ASSUME NEW v \in Writers, Call(v) \/ CreateTemp(v) \/ Chmod(v) \/ Write(v) \/ Sync(v)
                                \/ Close(v)
      PROVE  Leftovers(w)' \subseteq Leftovers(w) /\ abrupt' = abrupt
    <2>1. CASE Call(v)
        BY <1>0, <2>1 DEF Call, Leftovers, directory
    <2>2. CASE CreateTemp(v)
        BY <1>0, <2>2 DEF CreateTemp, Leftovers
    <2>3. CASE Chmod(v) \/ Write(v) \/ Sync(v) \/ Close(v)
        BY <1>0, <2>3 DEF Chmod, Write, Sync, Close, Leftovers, directory
    <2> QED
        BY <1>1, <2>1, <2>2, <2>3
<1>2. ASSUME NEW v \in Writers, \E result : Return(v, result), Removed(v),
             UNCHANGED <<calls, abrupt>>, at[v] # "start"
      PROVE  Leftovers(w)' \subseteq Leftovers(w) /\ abrupt' = abrupt
    BY <1>0, <1>2 DEF Return, Removed, Leftovers
<1>3. ASSUME NEW v \in Writers, \E result : Return(v, result),
             UNCHANGED <<names, calls>>, abrupt' = abrupt + 1
      PROVE  Leftovers(w)' \subseteq Leftovers(w) \cup {calls[w]}
    BY <1>0, <1>3 DEF Return, Leftovers
<1>4. ASSUME NEW v \in Writers, Cleanup(v) \/ Rename(v) \/ RenameFails(v) \/ Kill(v)
      PROVE  /\ \E result : Return(v, result)
             /\ at[v] # "start" /\ UNCHANGED calls
             /\ \/ Removed(v) /\ UNCHANGED abrupt
                \/ UNCHANGED names /\ abrupt' = abrupt + 1
    BY <1>4 DEF Cleanup, Rename, RenameFails, Kill, AbruptFault
<1>5. ASSUME Settle PROVE Leftovers(w)' = Leftovers(w) /\ abrupt' = abrupt
    BY <1>5 DEF Settle, Leftovers
<1>6. ASSUME LosePower PROVE Leftovers(w)' \subseteq kept[w] /\ abrupt' = abrupt + 1
    BY <1>6 DEF LosePower, AbruptFault, Leftovers
<1>7. ASSUME UNCHANGED vars PROVE Leftovers(w)' = Leftovers(w) /\ abrupt' = abrupt
    BY <1>7 DEF vars, directory, Leftovers
<1> QED
    BY <1>1, <1>2, <1>3, <1>4, <1>5, <1>6, <1>7 DEF Next

\* A part of a set with at most n elements, and one more element.
LEMMA PartIsSmaller ==
    ASSUME NEW S, IsFiniteSet(S), NEW n \in Nat, Cardinality(S) <= n, NEW T \in SUBSET S
    PROVE  IsFiniteSet(T) /\ Cardinality(T) \in Nat /\ Cardinality(T) <= n
<1>1. IsFiniteSet(T) /\ Cardinality(T) <= Cardinality(S)
    BY FS_Subset
<1>2. Cardinality(T) \in Nat /\ Cardinality(S) \in Nat
    BY <1>1, FS_CardinalityType
<1> QED
    BY <1>1, <1>2

LEMMA OneMore ==
    ASSUME NEW S, IsFiniteSet(S), NEW n \in Nat, Cardinality(S) <= n, NEW x
    PROVE  IsFiniteSet(S \cup {x}) /\ Cardinality(S \cup {x}) <= n + 1
<1>1. /\ IsFiniteSet(S \cup {x}) /\ Cardinality(S) \in Nat
      /\ Cardinality(S \cup {x}) = IF x \in S THEN Cardinality(S) ELSE Cardinality(S) + 1
    BY FS_AddElement, FS_CardinalityType, Zenon
<1> QED
    BY <1>1

\* What is left behind stays paid for, in the directory and on the disk.
LEMMA TidyStep ==
    ASSUME TypeOK, Tidy, [Next]_vars
    PROVE  Tidy'
<1> SUFFICES ASSUME NEW w \in Writers
             PROVE  /\ IsFiniteSet(names'[w]) /\ Cardinality(Leftovers(w)') <= abrupt'
                    /\ IsFiniteSet(kept'[w]) /\ Cardinality(kept'[w]) <= abrupt' + 1
    BY DEF Tidy
<1>0. /\ abrupt \in Nat /\ abrupt + 1 \in Nat
      /\ abrupt' = abrupt \/ abrupt' = abrupt + 1
    BY DirectoryEffect DEF TypeOK, directory
<1>1. /\ IsFiniteSet(names[w]) /\ IsFiniteSet(Leftovers(w)) /\ IsFiniteSet(kept[w])
      /\ Cardinality(Leftovers(w)) <= abrupt /\ Cardinality(kept[w]) <= abrupt + 1
    <2>1. Leftovers(w) \in SUBSET names[w]
        BY DEF Leftovers
    <2> QED
        BY <2>1, FS_Subset DEF Tidy
<1>2. Cardinality(Leftovers(w)') <= abrupt'
    <2>1. CASE Leftovers(w)' \subseteq Leftovers(w) /\ abrupt' = abrupt
        BY <1>0, <1>1, <2>1, PartIsSmaller
    <2>2. CASE Leftovers(w)' \subseteq Leftovers(w) \cup {calls[w]} /\ abrupt' = abrupt + 1
        <3>1. /\ IsFiniteSet(Leftovers(w) \cup {calls[w]})
              /\ Cardinality(Leftovers(w) \cup {calls[w]}) <= abrupt + 1
            BY <1>0, <1>1, OneMore
        <3> QED
            BY <1>0, <2>2, <3>1, PartIsSmaller
    <2>3. CASE Leftovers(w)' \subseteq kept[w] /\ abrupt' = abrupt + 1
        BY <1>0, <1>1, <2>3, PartIsSmaller
    <2> QED
        BY <2>1, <2>2, <2>3, LeftoversGrow
<1>3. /\ IsFiniteSet(names[w] \cup {calls[w]})
      /\ \A x : IsFiniteSet(names[w] \ {x})
      /\ Cardinality(names[w]) <= abrupt + 1
    <2>1. /\ IsFiniteSet(Leftovers(w) \cup {calls[w]})
          /\ Cardinality(Leftovers(w) \cup {calls[w]}) <= abrupt + 1
        BY <1>0, <1>1, OneMore
    <2>2. names[w] \in SUBSET (Leftovers(w) \cup {calls[w]})
        BY DEF Leftovers
    <2>3. Cardinality(names[w]) <= abrupt + 1
        BY <1>0, <2>1, <2>2, PartIsSmaller
    <2>4. IsFiniteSet(names[w] \cup {calls[w]})
        BY <1>1, FS_AddElement
    <2>5. ASSUME NEW x PROVE IsFiniteSet(names[w] \ {x})
        <3>1. names[w] \ {x} \in SUBSET names[w]
            OBVIOUS
        <3> QED
            BY <1>1, <3>1, FS_Subset
    <2> QED
        BY <2>3, <2>4, <2>5
<1>4. /\ names'[w] \in {names[w], names[w] \cup {calls[w]}, names[w] \ {calls[w]}, kept[w]}
      /\ kept'[w] \in {kept[w], names[w]}
    BY DirectoryEffect DEF TypeOK, Removed, directory
<1>5. IsFiniteSet(names'[w]) /\ IsFiniteSet(kept'[w])
    BY <1>1, <1>3, <1>4
<1>6. Cardinality(kept'[w]) <= abrupt + 1 /\ Cardinality(kept'[w]) \in Nat
    BY <1>1, <1>3, <1>4, <1>5, FS_CardinalityType
<1> QED
    BY <1>0, <1>2, <1>5, <1>6

-----------------------------------------------------------------------------
(* The files *)

\* The end of a call, whatever its result, leaves nothing under way.
LEMMA ReturnKeeps ==
    ASSUME IndInv, NEW w \in Writers, NEW result \in {"none", "ok", "error"},
           Return(w, result), calls' = calls, stable' = stable,
           target' \in {target, temp[w]}, target'.data \in Value, target'.synced,
           faults' \in Nat, DirectoryTypeOK', Tidy'
    PROVE  IndInv'
<1>1. /\ temp' \in [Writers -> File] /\ at' \in [Writers -> Steps]
      /\ outcome' \in [Writers -> {"none", "busy", "ok", "error"}]
    BY NoFileIsFile DEF IndInv, TypeOK, Return, Steps
<1>2. /\ at'[w] = "start" /\ outcome'[w] = result
      /\ \A v \in Writers : v # w => at'[v] = at[v] /\ outcome'[v] = outcome[v]
                                     /\ temp'[v] = temp[v]
    BY DEF IndInv, TypeOK, Return
<1>3. target' \in File
    BY DEF IndInv, TypeOK
<1>4. TypeOK'
    BY <1>1, <1>2, <1>3 DEF IndInv, TypeOK, DirectoryTypeOK
<1>5. \A v \in Writers :
          /\ at'[v] \in {"sync", "close", "rename"} => temp'[v].data = Written(v)'
          /\ at'[v] \in {"close", "rename"} => temp'[v].synced
    BY <1>2 DEF IndInv, Written
<1> QED
    BY <1>4, <1>5 DEF IndInv

\* A step of a call in progress.
LEMMA ProgressKeeps ==
    ASSUME IndInv, NEW w \in Writers, NEW step \in Steps \ {"start"},
           at[w] # "start", at' = [at EXCEPT ![w] = step],
           temp' \in [Writers -> File],
           \A v \in Writers : v # w => temp'[v] = temp[v],
           step \in {"sync", "close", "rename"} => temp'[w].data = Written(w),
           step \in {"close", "rename"} => temp'[w].synced,
           UNCHANGED <<target, stable, outcome, calls, faults>>, DirectoryTypeOK', Tidy'
    PROVE  IndInv'
<1>1. /\ at' \in [Writers -> Steps] /\ at'[w] = step
      /\ \A v \in Writers : v # w => at'[v] = at[v]
    BY DEF IndInv, TypeOK
<1>2. TypeOK'
    BY <1>1 DEF IndInv, TypeOK, DirectoryTypeOK
<1>3. \A v \in Writers :
          /\ at'[v] \in {"sync", "close", "rename"} => temp'[v].data = Written(v)'
          /\ at'[v] \in {"close", "rename"} => temp'[v].synced
    BY <1>1 DEF IndInv, Written
<1> QED
    BY <1>2, <1>3 DEF IndInv

\* Every system call, failure, kill and loss of power keeps the invariant.
LEMMA StepKeeps == IndInv /\ [Next]_vars => IndInv'
<1> SUFFICES ASSUME IndInv, [Next]_vars PROVE IndInv'
    OBVIOUS
<1>0. TypeOK /\ (Fault => faults' \in Nat)
    BY DEF IndInv, TypeOK, Fault
<1>dir. DirectoryTypeOK' /\ Tidy'
    BY <1>0, DirectoryTypes, TidyStep DEF IndInv
<1>1. ASSUME NEW w \in Writers, Call(w) PROVE IndInv'
    <2>1. /\ calls' \in [Writers -> Nat] /\ at' \in [Writers -> Steps]
          /\ outcome' \in [Writers -> {"none", "busy", "ok", "error"}]
        BY <1>0, <1>1 DEF Call, TypeOK, Steps
    <2>2. /\ at'[w] = "create" /\ outcome'[w] = "busy"
          /\ \A v \in Writers : v # w => /\ at'[v] = at[v] /\ outcome'[v] = outcome[v]
                                         /\ calls'[v] = calls[v]
        BY <1>0, <1>1 DEF Call, TypeOK
    <2>3. UNCHANGED <<target, stable, temp, faults>>
        BY <1>1 DEF Call
    <2>4. TypeOK'
        BY <1>0, <1>dir, <2>1, <2>2, <2>3 DEF TypeOK, DirectoryTypeOK
    <2> QED
        BY <1>dir, <2>2, <2>3, <2>4 DEF IndInv, Written
<1>2. ASSUME NEW w \in Writers, CreateTemp(w) \/ Chmod(w) \/ Close(w) PROVE IndInv'
    <2>1. PICK step \in {"chmod", "write", "rename"} :
              /\ at[w] # "start" /\ at' = [at EXCEPT ![w] = step]
              /\ step = "rename" => at[w] = "close"
              /\ UNCHANGED <<target, stable, temp, outcome, calls, faults>>
        BY <1>2 DEF CreateTemp, Chmod, Close
    <2> QED
        BY <1>0, <1>dir, <2>1, ProgressKeeps DEF IndInv, TypeOK, Steps
<1>3. ASSUME NEW w \in Writers, Write(w) PROVE IndInv'
    <2>1. [data |-> Written(w), synced |-> FALSE] \in File
        BY <1>0, WrittenIsValue DEF File
    <2>2. /\ temp' \in [Writers -> File] /\ temp'[w].data = Written(w)
          /\ \A v \in Writers : v # w => temp'[v] = temp[v]
        BY <1>0, <1>3, <2>1 DEF Write, TypeOK
    <2> QED
        BY <1>3, <1>dir, <2>2, ProgressKeeps DEF Write, Steps
<1>4. ASSUME NEW w \in Writers, Sync(w) PROVE IndInv'
    <2>1. temp[w] \in File /\ temp[w].data = Written(w)
        BY <1>0, <1>4 DEF Sync, IndInv, TypeOK
    <2>2. /\ [temp[w] EXCEPT !.synced = TRUE] \in File
          /\ [temp[w] EXCEPT !.synced = TRUE].data = temp[w].data
          /\ [temp[w] EXCEPT !.synced = TRUE].synced
        BY <2>1 DEF File
    <2>3. /\ temp' \in [Writers -> File] /\ temp'[w].data = Written(w) /\ temp'[w].synced
          /\ \A v \in Writers : v # w => temp'[v] = temp[v]
        BY <1>0, <1>4, <2>1, <2>2 DEF Sync, TypeOK
    <2> QED
        BY <1>4, <1>dir, <2>3, ProgressKeeps DEF Sync, Steps
<1>5. ASSUME NEW w \in Writers, Cleanup(w) \/ RenameFails(w) \/ Kill(w) PROVE IndInv'
    <2>1. PICK result \in {"none", "error"} : Return(w, result)
        BY <1>5 DEF Cleanup, RenameFails, Kill
    <2>2. UNCHANGED <<target, stable, calls>> /\ faults' \in Nat
        BY <1>0, <1>5 DEF Cleanup, RenameFails, Kill, AbruptFault
    <2> QED
        BY <1>dir, <2>1, <2>2, ReturnKeeps DEF IndInv
<1>6. ASSUME NEW w \in Writers, Rename(w) PROVE IndInv'
    <2>1. temp[w].data \in Value /\ temp[w].synced
        BY <1>0, <1>6, WrittenIsValue DEF Rename, IndInv
    <2> QED
        BY <1>0, <1>6, <1>dir, <2>1, ReturnKeeps DEF Rename, TypeOK
<1>7. CASE Settle
    BY <1>7, <1>dir DEF Settle, IndInv, TypeOK, DirectoryTypeOK, Written
<1>8. CASE LosePower
    <2>1. /\ target' = stable /\ stable' = stable /\ calls' = calls /\ faults' \in Nat
          /\ at' = [w \in Writers |-> "start"] /\ temp' = [w \in Writers |-> NoFile]
          /\ outcome' = [w \in Writers |-> "none"]
        BY <1>0, <1>8 DEF LosePower, AbruptFault, IndInv
    <2>2. TypeOK'
        BY <1>0, <1>dir, <2>1, NoFileIsFile DEF TypeOK, DirectoryTypeOK, Steps
    <2> QED
        BY <1>dir, <2>1, <2>2 DEF IndInv
<1>9. CASE UNCHANGED vars
    BY <1>9, <1>dir DEF vars, IndInv, TypeOK, DirectoryTypeOK, Written
<1> QED
    BY <1>1, <1>2, <1>3, <1>4, <1>5, <1>6, <1>7, <1>8, <1>9 DEF Next

\* The initial state satisfies the invariant.
LEMMA InitEstablishes == Init => IndInv
<1> SUFFICES ASSUME Init PROVE IndInv
    OBVIOUS
<1>1. TypeOK
    BY NoFileIsFile DEF Init, TypeOK, Steps
<1>2. Tidy
    <2> SUFFICES ASSUME NEW w \in Writers
                 PROVE  /\ IsFiniteSet(names[w]) /\ Cardinality(Leftovers(w)) <= abrupt
                        /\ IsFiniteSet(kept[w]) /\ Cardinality(kept[w]) <= abrupt + 1
        BY DEF Tidy
    <2>1. names[w] = {} /\ kept[w] = {} /\ Leftovers(w) = {} /\ abrupt = 0
        BY DEF Init, Leftovers
    <2>2. IsFiniteSet({}) /\ Cardinality({}) = 0
        BY FS_EmptySet
    <2> QED
        BY <2>1, <2>2
<1> QED
    BY <1>1, <1>2 DEF Init, IndInv, Value

\* The invariant of the implementation.
THEOREM Invariance == Spec => []IndInv
<1> QED
    BY InitEstablishes, StepKeeps, PTL DEF Spec

\* Every variable keeps to its type.
THEOREM TypeCorrect == Spec => []TypeOK
<1>1. IndInv => TypeOK
    BY DEF IndInv
<1> QED
    BY <1>1, Invariance, PTL

\* A reader never sees half a file, whatever fails and however many write.
THEOREM ReadersSeeWholeFiles == Spec => []NeverTorn
<1>1. IndInv => NeverTorn
    BY DEF IndInv, NeverTorn
<1> QED
    BY <1>1, Invariance, PTL

\* Whatever fails, a writer leaves no more temporary files behind than there were kills, losses
\* of power, failed renames and failed removals.
THEOREM LeftoversAreFew == Spec => []LeftoversArePaidFor
<1>1. IndInv => LeftoversArePaidFor
    BY DEF IndInv, Tidy, LeftoversArePaidFor
<1> QED
    BY <1>1, Invariance, PTL

\* WriteFileAtomic implements AtomicFile: the rename is the moment a write takes
\* effect, and every other step of the code is invisible or ends a call.
THEOREM Refinement == Spec => ImplementsAtomicFile
<1>1. Init => Promise!Init
    BY DEF Init, Promise!Init
<1>2. ASSUME IndInv, [Next]_vars PROVE [Promise!Next]_(Promise!abstractVars)
    <2> USE DEF Promise!Next, Promise!abstractVars
    <2>1. ASSUME NEW w \in Writers, Call(w) PROVE Promise!Next
        <3>1. Promise!Call(w)
            BY <1>2, <2>1 DEF Call, Promise!Call, IndInv, TypeOK
        <3> QED
            BY <3>1
    <2>2. ASSUME NEW w \in Writers,
                 CreateTemp(w) \/ Chmod(w) \/ Close(w) \/ Write(w) \/ Sync(w)
          PROVE  UNCHANGED Promise!abstractVars
        BY <2>2 DEF CreateTemp, Chmod, Close, Write, Sync
    <2>3. ASSUME NEW w \in Writers, Cleanup(w) \/ RenameFails(w) PROVE Promise!Next
        <3>1. Promise!Refuse(w)
            BY <1>2, <2>3 DEF Cleanup, RenameFails, Return, Promise!Refuse, IndInv, TypeOK
        <3> QED
            BY <3>1
    <2>4. ASSUME NEW w \in Writers, Kill(w) PROVE Promise!Next
        <3>1. Promise!Die(w)
            BY <1>2, <2>4 DEF Kill, Return, Promise!Die, IndInv, TypeOK
        <3> QED
            BY <3>1
    <2>5. ASSUME NEW w \in Writers, Rename(w) PROVE Promise!Next
        <3>1. Promise!Commit(w)
            BY <1>2, <2>5
            DEF Rename, Return, Promise!Commit, Promise!Written, Written, IndInv, TypeOK
        <3> QED
            BY <3>1
    <2>6. CASE Settle
        <3>1. Promise!Settle
            BY <2>6 DEF Settle, Promise!Settle
        <3> QED
            BY <3>1
    <2>7. CASE LosePower
        <3>1. Promise!LosePower
            BY <1>2, <2>7 DEF LosePower, Promise!LosePower, IndInv
        <3> QED
            BY <3>1
    <2>8. CASE UNCHANGED vars
        BY <2>8 DEF vars
    <2> QED
        BY <1>2, <2>1, <2>2, <2>3, <2>4, <2>5, <2>6, <2>7, <2>8 DEF Next
<1> QED
    BY <1>1, <1>2, Invariance, PTL DEF Spec, ImplementsAtomicFile, Promise!Spec
===============================================================================
