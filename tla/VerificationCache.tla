------------------------- MODULE VerificationCache -------------------------
(***************************************************************************)
(* The verification cache (rflx/model/cache.py) and its only user, the     *)
(* loop of UncheckedModel.checked (rflx/model/model.py), run by any number *)
(* of rflx processes in the same directory.  A declaration is known to the *)
(* cache by its digest only.  The digest is taken over the text of a       *)
(* message and of the types of its fields.  The text of a sequence type    *)
(* has just the name of the element type, so two messages that differ in   *)
(* nothing but the definition of an element type have the same digest.     *)
(*                                                                         *)
(* FileLock.__exit__ removes the lock file but does not close the cache    *)
(* file; what json.dump left in the buffers of the file object reaches the *)
(* file when _write_cache returns and the object is finalised, that is,    *)
(* after the lock is gone.                                                 *)
(***************************************************************************)
EXTENDS Integers, Sequences, FiniteSets

CONSTANTS
    Process,        \* rflx processes that run at the same time
    Declarations,   \* variants of top-level declarations
    Malformed,      \* rejected by checked(skip_verification=True) already
    Unprovable,     \* rejected by the verification
    Digest,         \* the digest of a declaration: its full name and a hash
    NoDigest,       \* that of every declaration but messages and refinements
    Specs,          \* the specifications, sequences of declarations
    MaxFaults,      \* bound on the number of killed processes and of failing PID writes
    NoProcess, Dead \* values of lock: no lock file, lock file without a living owner

ASSUME CacheAssumption ==
    /\ Malformed \cup Unprovable \subseteq Declarations
    /\ DOMAIN Digest = Declarations
    /\ Specs \subseteq Seq(Declarations)
    /\ MaxFaults \in Nat
    /\ {NoProcess, Dead} \cap Process = {} /\ NoProcess # Dead

VARIABLES
    lock,      \* the owner of the lock file
    file,      \* the content of the cache file
    pc,        \* where each process is
    mode,      \* the cache class: Cache, AlwaysVerify or NeverVerify
    spec,      \* the specification that is being checked
    index,     \* the position in the loop over its declarations
    verified,  \* Cache._verified
    spilled,   \* part of what json.dump wrote has left the buffers
    failed,    \* RecordFluxError has entries
    faults     \* killed processes and failed PID writes so far

vars == <<lock, file, pc, mode, spec, index, verified, spilled, failed, faults>>

Digests == {Digest[d] : d \in Declarations} \ {NoDigest}
Correct == Declarations \ (Malformed \cup Unprovable)
CorrectDigests == {Digest[d] : d \in Correct} \ {NoDigest}

(* A cache file is absent, truncated, a JSON object with a set of digests, or torn:
   parts of the data of one or several writes, which are not JSON.  The writer of a
   torn file is the process that has written a prefix of its data into the empty file,
   as long as that is all it holds.  (Where two writes meet within a hash, the result
   is the digest of no declaration and is left out.)                                *)
FileContent == [kind : {"missing", "empty", "json", "torn"}, digests : SUBSET Digests,
                writer : Process \cup {NoProcess}]
Missing == [kind |-> "missing", digests |-> {}, writer |-> NoProcess]
Empty == [kind |-> "empty", digests |-> {}, writer |-> NoProcess]
Json(ds) == [kind |-> "json", digests |-> ds, writer |-> NoProcess]
Torn(p, ds) == [kind |-> "torn", digests |-> ds, writer |-> p]

Ended == {"idle", "done", "failed", "killed"}
Critical == {"load_pid", "load_open", "load_read", "write_pid", "write_open", "write_dump", "write_exit"}
Writing == {"write_acquire", "write_report", "write_pid", "write_open", "write_dump", "write_exit", "write_flush"}
Loading == {"load_acquire", "load_report", "load_pid", "load_open", "load_read"}
Running == Loading \cup Writing \cup {"check"}

Init ==
    /\ lock = NoProcess
    /\ file = Missing
    /\ pc = [p \in Process |-> "idle"]
    /\ mode = [p \in Process |-> "Cache"]
    /\ spec = [p \in Process |-> << >>]
    /\ index = [p \in Process |-> 1]
    /\ verified = [p \in Process |-> {}]
    /\ spilled = [p \in Process |-> FALSE]
    /\ failed = [p \in Process |-> FALSE]
    /\ faults = 0

Goto(p, label) == pc' = [pc EXCEPT ![p] = label]
run == <<mode, spec, index, verified, spilled, failed, faults>>

-----------------------------------------------------------------------------
(* cli.cache and the constructors: only Cache reads the file. *)
Start(p, m, s) ==
    /\ pc[p] \in Ended
    /\ Goto(p, IF m = "Cache" THEN "load_acquire" ELSE "check")
    /\ mode' = [mode EXCEPT ![p] = m]
    /\ spec' = [spec EXCEPT ![p] = s]
    /\ index' = [index EXCEPT ![p] = 1]
    /\ verified' = [verified EXCEPT ![p] = {}]
    /\ spilled' = [spilled EXCEPT ![p] = FALSE]
    /\ failed' = [failed EXCEPT ![p] = FALSE]
    /\ UNCHANGED <<lock, file, faults>>

(* FileLock.__enter__: the lock file is created without a content, ... *)
Acquire(p) ==
    /\ lock = NoProcess
    /\ \/ pc[p] = "load_acquire" /\ Goto(p, "load_pid")
       \/ pc[p] = "write_acquire" /\ Goto(p, "write_pid")
    /\ lock' = p
    /\ UNCHANGED <<file, run>>

(* ... then the PID is written into it. *)
WritePid(p) ==
    /\ \/ pc[p] = "load_pid" /\ Goto(p, "load_open")
       \/ pc[p] = "write_pid" /\ Goto(p, "write_open")
    /\ UNCHANGED <<lock, file, run>>

(* The write fails.  It is outside of the try statement that removes the lock file, and
   __exit__ is not called if __enter__ raises: the run ends, the lock file stays.      *)
WritePidFails(p) ==
    /\ pc[p] \in {"load_pid", "write_pid"}
    /\ faults < MaxFaults
    /\ Goto(p, "failed")
    /\ lock' = Dead
    /\ faults' = faults + 1
    /\ UNCHANGED <<file, mode, spec, index, verified, spilled, failed>>

(* The lock file cannot be created, or mkdir or the write of CACHEDIR.TAG in _write_cache
   fails.  _load_cache ignores that there is no directory, which then has no file either. *)
AcquireFails(p) ==
    /\ \/ pc[p] = "load_acquire" /\ lock = NoProcess /\ file = Missing /\ Goto(p, "check")
       \/ pc[p] = "load_acquire" /\ lock = NoProcess /\ Goto(p, "failed")
       \/ pc[p] = "write_acquire" /\ Goto(p, "failed")
    /\ UNCHANGED <<lock, file, run>>

(* LOCK_TIMEOUT seconds have passed and the lock file exists. *)
(* Mutant: the processes wait for the lock as long as it takes. *)
GiveUpMutant(p) == FALSE /\ UNCHANGED vars
GiveUp(p) ==
    /\ lock # NoProcess
    /\ \/ pc[p] = "load_acquire" /\ Goto(p, "load_report")
       \/ pc[p] = "write_acquire" /\ Goto(p, "write_report")
    /\ UNCHANGED <<lock, file, run>>

(* Next declaration in the loop of UncheckedModel.checked; bad tells whether this one
   has added an error.                                                             *)
NextDeclaration(p, bad) ==
    /\ Goto(p, "check")
    /\ index' = [index EXCEPT ![p] = @ + 1]
    /\ failed' = [failed EXCEPT ![p] = @ \/ bad]

(* The owner of the lock is read for the error message.  If the lock file has been
   removed meanwhile, FileNotFoundError is raised instead of RecordFluxError:
   _load_cache ignores the former, UncheckedModel.checked handles the latter only.  *)
Report(p) ==
    /\ \/ pc[p] = "load_report" /\ lock # NoProcess /\ Goto(p, "failed") /\ UNCHANGED <<index, failed>>
       \/ pc[p] = "load_report" /\ lock = NoProcess /\ Goto(p, "check") /\ UNCHANGED <<index, failed>>
       \/ pc[p] = "write_report" /\ lock # NoProcess /\ NextDeclaration(p, TRUE)
       \/ pc[p] = "write_report" /\ lock = NoProcess /\ Goto(p, "failed") /\ UNCHANGED <<index, failed>>
    /\ UNCHANGED <<lock, file, mode, spec, verified, spilled, faults>>

(* Path.open fails: the lock file is removed and the exception passed on.  In
   _load_cache it is ignored if the cache file does not exist.                *)
(* Mutant: the lock file is left behind. *)
OpenFailsMutant(p) ==
    /\ \/ pc[p] = "load_open" /\ file = Missing /\ Goto(p, "check")
       \/ pc[p] \in {"load_open", "write_open"} /\ Goto(p, "failed")
    /\ UNCHANGED <<lock, file, run>>
OpenFails(p) ==
    /\ \/ pc[p] = "load_open" /\ file = Missing /\ Goto(p, "check")
       \/ pc[p] \in {"load_open", "write_open"} /\ Goto(p, "failed")
    /\ lock' = NoProcess
    /\ UNCHANGED <<file, run>>

Open(p) ==
    /\ \/ /\ pc[p] = "load_open" /\ file # Missing
          /\ Goto(p, "load_read")
          /\ UNCHANGED file
       \/ /\ pc[p] = "write_open"
          /\ Goto(p, "write_dump")
          /\ file' = Empty
    /\ UNCHANGED <<lock, run>>

(* The body of _load_cache: a content that is not JSON is ignored with a warning. *)
(* Mutant: it is not checked that the content is a dictionary of digests. *)
LoadMutant(p) ==
    /\ pc[p] = "load_read"
    /\ Goto(p, "check")
    /\ verified' = [verified EXCEPT ![p] = IF file.kind = "json" THEN file.digests ELSE {file.kind}]
    /\ lock' = NoProcess
    /\ UNCHANGED <<file, mode, spec, index, spilled, failed, faults>>
Load(p) ==
    /\ pc[p] = "load_read"
    /\ Goto(p, "check")
    /\ verified' = [verified EXCEPT ![p] = IF file.kind = "json" THEN file.digests ELSE {}]
    /\ lock' = NoProcess
    /\ UNCHANGED <<file, mode, spec, index, spilled, failed, faults>>

(* json.dump in _write_cache.  Of a content that exceeds the buffers a part is
   written at once.                                                          *)
Dump(p) ==
    /\ pc[p] = "write_dump"
    /\ Goto(p, "write_exit")
    /\ \/ UNCHANGED <<file, spilled>>
       \/ /\ file' = IF file = Empty THEN Torn(p, verified[p])
                     ELSE Torn(NoProcess, verified[p] \cup file.digests)
          /\ spilled' = [spilled EXCEPT ![p] = TRUE]
    /\ UNCHANGED <<lock, mode, spec, index, verified, failed, faults>>

(* FileLock.__exit__ *)
Exit(p) ==
    /\ pc[p] = "write_exit"
    /\ Goto(p, "write_flush")
    /\ lock' = NoProcess
    /\ UNCHANGED <<file, run>>

(* What the file can hold after the buffers of p are written at the position p has
   reached.  A process that has written nothing yet overwrites a prefix of the file, or
   all of it; one that has written a part before appends the rest to it, unless the file
   was truncated or overwritten meanwhile.                                             *)
Flushed(p) ==
    LET both == verified[p] \cup file.digests
    IN  IF spilled[p]
        THEN CASE file = Torn(p, verified[p]) -> {Json(verified[p])}
               [] file = Empty -> {Torn(NoProcess, verified[p])}
               [] OTHER -> {Torn(NoProcess, both)} \cup {Json(ds) : ds \in SUBSET both}
        ELSE IF file = Empty \/ (file.kind = "json" /\ file.digests \subseteq verified[p])
             THEN {Json(verified[p])}
             ELSE {Json(verified[p]), Torn(NoProcess, both)}

(* The file object is finalised when _write_cache returns. *)
Flush(p) ==
    /\ pc[p] = "write_flush"
    /\ file' \in Flushed(p)
    /\ spilled' = [spilled EXCEPT ![p] = FALSE]
    /\ NextDeclaration(p, FALSE)
    /\ UNCHANGED <<lock, mode, spec, verified, faults>>

-----------------------------------------------------------------------------
(* The loop of UncheckedModel.checked *)

IsVerified(p, d) ==
    \/ mode[p] = "NeverVerify"
    \/ mode[p] = "Cache" /\ Digest[d] \in verified[p]

(* Mutant: --no-verification enters the declarations it has skipped. *)
AddVerifiedMutant(p, d) ==
    IF mode[p] # "AlwaysVerify" /\ Digest[d] \notin verified[p] \cup {NoDigest}
    THEN /\ verified' = [verified EXCEPT ![p] = @ \cup {Digest[d]}]
         /\ Goto(p, "write_acquire")
         /\ UNCHANGED <<index, failed>>
    ELSE /\ NextDeclaration(p, FALSE)
         /\ UNCHANGED verified

AddVerified(p, d) ==
    IF mode[p] = "Cache" /\ Digest[d] \notin verified[p] \cup {NoDigest}
    THEN /\ verified' = [verified EXCEPT ![p] = @ \cup {Digest[d]}]
         /\ Goto(p, "write_acquire")
         /\ UNCHANGED <<index, failed>>
    ELSE /\ NextDeclaration(p, FALSE)
         /\ UNCHANGED verified

(* Mutant: a declaration is entered into the cache before it is verified. *)
CheckMutant(p) ==
    /\ pc[p] = "check" /\ index[p] <= Len(spec[p])
    /\ LET d == spec[p][index[p]]
       IN  \/ d \in Malformed /\ NextDeclaration(p, TRUE) /\ UNCHANGED verified
           \/ d \notin Malformed /\ AddVerified(p, d)
    /\ UNCHANGED <<lock, file, mode, spec, spilled, faults>>

Check(p) ==
    /\ pc[p] = "check" /\ index[p] <= Len(spec[p])
    /\ LET d == spec[p][index[p]]
       IN  \/ d \in Malformed /\ NextDeclaration(p, TRUE) /\ UNCHANGED verified
           \/ /\ d \notin Malformed /\ ~IsVerified(p, d) /\ d \in Unprovable
              /\ NextDeclaration(p, TRUE) /\ UNCHANGED verified
           \/ /\ d \notin Malformed /\ (IsVerified(p, d) \/ d \notin Unprovable)
              /\ AddVerified(p, d)
    /\ UNCHANGED <<lock, file, mode, spec, spilled, faults>>

(* Model(declarations, error) propagates the errors. *)
Finish(p) ==
    /\ pc[p] = "check" /\ index[p] > Len(spec[p])
    /\ Goto(p, IF failed[p] THEN "failed" ELSE "done")
    /\ UNCHANGED <<lock, file, run>>

-----------------------------------------------------------------------------
(* A process is killed: buffers are lost, a lock file stays. *)
Kill(p) ==
    /\ pc[p] \in Running
    /\ faults < MaxFaults
    /\ Goto(p, "killed")
    /\ lock' = IF lock = p THEN Dead ELSE lock
    /\ file' = IF file.writer = p THEN [file EXCEPT !.writer = NoProcess] ELSE file
    /\ spilled' = [spilled EXCEPT ![p] = FALSE]
    /\ faults' = faults + 1
    /\ UNCHANGED <<mode, spec, index, verified, failed>>

(* The user follows the error message and deletes a lock file without a living owner. *)
DeleteLock ==
    /\ lock = Dead
    /\ lock' = NoProcess
    /\ UNCHANGED <<file, pc, run>>

Step(p) ==
    \/ Acquire(p) \/ AcquireFails(p) \/ GiveUp(p) \/ Report(p) \/ WritePid(p)
    \/ OpenFails(p) \/ Open(p) \/ Load(p)
    \/ Dump(p) \/ Exit(p) \/ Flush(p)
    \/ Check(p) \/ Finish(p)

Next ==
    \/ \E p \in Process :
        \/ \E m \in {"Cache", "AlwaysVerify", "NeverVerify"}, s \in Specs : Start(p, m, s)
        \/ Step(p)
        \/ WritePidFails(p)
        \/ Kill(p)
    \/ DeleteLock

Spec == Init /\ [][Next]_vars

(* Every process that has been started is scheduled; nobody has to start or kill one. *)
FairSpec == Spec /\ \A p \in Process : WF_vars(Step(p))

-----------------------------------------------------------------------------
TypeOK ==
    /\ lock \in Process \cup {NoProcess, Dead}
    /\ file \in FileContent
    /\ pc \in [Process -> Ended \cup Running]
    /\ mode \in [Process -> {"Cache", "AlwaysVerify", "NeverVerify"}]
    /\ spec \in [Process -> Seq(Declarations)]
    /\ index \in [Process -> Nat \ {0}]
    /\ verified \in [Process -> SUBSET Digests]
    /\ spilled \in [Process -> BOOLEAN]
    /\ failed \in [Process -> BOOLEAN]
    /\ faults \in Nat

(* Vouched declarations pass the verification, or have the digest of one that does and
   pass the checks that are never skipped.                                            *)
Vouched == Correct \cup {d \in Declarations \ Malformed : Digest[d] \in CorrectDigests}

(* A run that ends without an error, and was not told to skip the verification, has a
   specification of vouched declarations only: whatever other processes, killed or not,
   have left in the cache file, a declaration that cannot be verified is accepted in one
   case only, that its digest is the one of a correct declaration.                      *)
AcceptedVouched ==
    \A p \in Process : pc[p] = "done" /\ mode[p] # "NeverVerify" =>
        \A i \in 1 .. Len(spec[p]) : spec[p][i] \in Vouched

(* Whatever is entered into the cache, in memory or on disk, is the digest of a
   declaration that has been verified.                                          *)
CacheSound ==
    /\ file.digests \subseteq CorrectDigests
    /\ \A p \in Process : verified[p] \subseteq CorrectDigests

(* What the loop of UncheckedModel.checked has established when it is at a position: all
   declarations before it are vouched for unless an error is recorded, and the digest of
   the one that is being written to the cache is among the verified ones.                *)
LoopAt(p) ==
    /\ pc[p] \in Running \cup {"done"} /\ mode[p] # "NeverVerify" /\ ~failed[p] =>
          \A i \in 1 .. Len(spec[p]) : i < index[p] => spec[p][i] \in Vouched
    /\ pc[p] \in Writing => /\ index[p] <= Len(spec[p]) /\ spec[p][index[p]] \notin Malformed
                           /\ Digest[spec[p][index[p]]] \in verified[p]
    /\ pc[p] = "done" => ~failed[p] /\ index[p] > Len(spec[p])
LoopInvariant == \A p \in Process : LoopAt(p)

(* The lock file belongs to a process exactly while this one is between creating it and
   leaving the context of FileLock: nobody else enters the context, and nobody removes the
   file meanwhile.  It outlives its owner only if that was killed or could not write its
   PID; every other error path removes it.                                                *)
LockOwned ==
    /\ \A p \in Process : lock = p <=> pc[p] \in Critical
    /\ lock = Dead => faults > 0

(* Every run comes to an end, also if a lock file was left behind by a process that was
   killed or could not write its PID.                                                  *)
RunsEnd == \A p \in Process : pc[p] \in Running ~> pc[p] \in Ended
=============================================================================
