---------------------- MODULE VerificationCache_proofs ----------------------
(***************************************************************************)
(* For any number of processes, any specifications, any digests and any    *)
(* number of faults: the verification cache is sound.                      *)
(***************************************************************************)
EXTENDS VerificationCache, TLAPS

(* The inductive invariant: soundness of the cache depends on what the loop has
   established, soundness of the result on both.                              *)
CacheInvariant == TypeOK /\ CacheSound /\ LockOwned /\ LoopInvariant

(* A flush only combines digests of the process with digests the file held before. *)
LEMMA FlushedType ==
    ASSUME TypeOK, NEW p \in Process, NEW f \in Flushed(p)
    PROVE  /\ f \in FileContent
           /\ f.digests \subseteq verified[p] \cup file.digests
<1> DEFINE both == verified[p] \cup file.digests
<1>1. verified[p] \subseteq Digests /\ both \subseteq Digests
  BY DEF TypeOK, FileContent
<1>2. \/ \E ds \in SUBSET both : f = Json(ds)
      \/ \E ds \in SUBSET both : f = Torn(NoProcess, ds)
  <2>1. CASE spilled[p]
    <3>1. CASE file = Torn(p, verified[p])
      BY <2>1, <3>1 DEF Flushed
    <3>2. CASE file # Torn(p, verified[p]) /\ file = Empty
      BY <2>1, <3>2 DEF Flushed
    <3>3. CASE file # Torn(p, verified[p]) /\ file # Empty
      BY <2>1, <3>3 DEF Flushed
    <3> QED BY <3>1, <3>2, <3>3
  <2>2. CASE ~spilled[p]
    BY <2>2 DEF Flushed
  <2> QED BY <2>1, <2>2
<1> QED BY <1>1, <1>2 DEF Json, Torn, FileContent

(* The first state satisfies the invariant. *)
LEMMA CacheInit == ASSUME Init PROVE CacheInvariant
<1>1. TypeOK
  <2>1. << >> \in Seq(Declarations) /\ "idle" \in Ended
    BY DEF Ended
  <2>2. Missing \in FileContent
    BY DEF Missing, FileContent
  <2> QED BY <2>1, <2>2 DEF Init, TypeOK
<1>2. CacheSound
  BY DEF Init, CacheSound, Missing
<1>3. LockOwned
  BY CacheAssumption DEF Init, LockOwned, Critical
<1>4. LoopInvariant
  BY DEF Init, LoopInvariant, LoopAt, Running, Loading, Writing
<1> QED BY <1>1, <1>2, <1>3, <1>4 DEF CacheInvariant

(* A jump sets the program counter of one process. *)
LEMMA GotoType ==
    ASSUME TypeOK, NEW p \in Process, NEW label \in Ended \cup Running, Goto(p, label)
    PROVE  /\ pc' \in [Process -> Ended \cup Running]
           /\ pc'[p] = label
           /\ \A q \in Process : q # p => pc'[q] = pc[q]
BY DEF TypeOK, Goto

(* The lock stays with the process that is in the context of FileLock. *)
LEMMA LockFrame ==
    ASSUME TypeOK, LockOwned, NEW p \in Process,
           \A q \in Process : q # p => pc'[q] = pc[q],
           \/ lock' = lock /\ (pc'[p] \in Critical <=> pc[p] \in Critical)
           \/ lock = NoProcess /\ lock' = p /\ pc'[p] \in Critical
           \/ lock = p /\ lock' = NoProcess /\ pc'[p] \notin Critical
           \/ lock = p /\ lock' = Dead /\ pc'[p] \notin Critical /\ faults' > 0,
           faults' = faults \/ faults' > 0
    PROVE  LockOwned'
BY CacheAssumption DEF LockOwned

(* Where a step keeps the position in the loop, it is enough to look at the labels. *)
LEMMA LoopFrame ==
    ASSUME TypeOK, LoopInvariant, NEW p \in Process,
           \A q \in Process : q # p => pc'[q] = pc[q],
           UNCHANGED <<mode, spec, index, failed>>,
           \A q \in Process : q # p => verified'[q] = verified[q],
           pc[p] \in Running,
           pc'[p] \in Writing => pc[p] \in Writing /\ verified'[p] = verified[p],
           pc'[p] # "done"
    PROVE  LoopInvariant'
<1>1. \A q \in Process : q # p => LoopAt(q)'
  BY DEF LoopInvariant, LoopAt
<1>2. LoopAt(p)'
  BY DEF LoopInvariant, LoopAt
<1> QED BY <1>1, <1>2 DEF LoopInvariant

(* The next declaration is due: the current one is correct or an error is recorded. *)
LEMMA LoopNext ==
    ASSUME TypeOK, LoopInvariant, NEW p \in Process, NEW bad \in BOOLEAN,
           NextDeclaration(p, bad), UNCHANGED <<mode, spec, verified>>,
           pc[p] \in Running,
           ~bad /\ mode[p] # "NeverVerify" => spec[p][index[p]] \in Vouched
    PROVE  LoopInvariant' /\ index' \in [Process -> Nat \ {0}] /\ failed' \in [Process -> BOOLEAN]
<1>1. /\ index' \in [Process -> Nat \ {0}] /\ failed' \in [Process -> BOOLEAN]
      /\ index'[p] = index[p] + 1 /\ failed'[p] = (failed[p] \/ bad)
      /\ \A q \in Process : q # p => index'[q] = index[q] /\ failed'[q] = failed[q]
  BY DEF TypeOK, NextDeclaration
<1>2. pc'[p] = "check" /\ \A q \in Process : q # p => pc'[q] = pc[q]
  BY GotoType DEF NextDeclaration, Running
<1>3. \A q \in Process : q # p => LoopAt(q)'
  BY <1>1, <1>2 DEF LoopInvariant, LoopAt
<1>4. LoopAt(p)'
  <2>1. pc'[p] \notin Writing /\ pc'[p] # "done"
    BY <1>2 DEF Writing
  <2>2. ASSUME mode[p] # "NeverVerify", ~failed'[p], NEW i \in 1 .. Len(spec[p]), i < index'[p]
        PROVE  spec[p][i] \in Vouched
    <3>1. CASE i = index[p] BY <1>1, <2>2, <3>1
    <3>2. CASE i < index[p] BY <1>1, <2>2, <3>2 DEF LoopInvariant, LoopAt
    <3> QED BY <1>1, <2>2, <3>1, <3>2 DEF TypeOK
  <2> QED BY <2>1, <2>2 DEF LoopAt
<1> QED BY <1>1, <1>3, <1>4 DEF LoopInvariant

(* The lock file is created: the process enters the context. *)
LEMMA AcquireStep == ASSUME CacheInvariant, NEW p \in Process, Acquire(p) PROVE CacheInvariant'
<1> USE DEF CacheInvariant
<1>1. /\ pc' \in [Process -> Ended \cup Running]
      /\ \A q \in Process : q # p => pc'[q] = pc[q]
      /\ \/ pc[p] = "load_acquire" /\ pc'[p] = "load_pid"
         \/ pc[p] = "write_acquire" /\ pc'[p] = "write_pid"
  <2>1. (pc[p] = "load_acquire" /\ Goto(p, "load_pid")) \/ (pc[p] = "write_acquire" /\ Goto(p, "write_pid"))
    BY DEF Acquire, Goto
  <2> QED BY <2>1, GotoType DEF Ended, Running, Loading, Writing
<1>2. TypeOK'
  BY <1>1 DEF TypeOK, Acquire, run
<1>3. CacheSound'
  BY DEF CacheSound, TypeOK, Acquire, run
<1>4. LockOwned'
  BY <1>1, LockFrame DEF LockOwned, Critical, Running, Loading, Writing, Acquire, run
<1>5. LoopInvariant'
  BY <1>1, LoopFrame DEF TypeOK, Running, Loading, Writing, Acquire, run
<1> QED BY <1>2, <1>3, <1>4, <1>5

(* The PID is written within the context. *)
LEMMA WritePidStep == ASSUME CacheInvariant, NEW p \in Process, WritePid(p) PROVE CacheInvariant'
<1> USE DEF CacheInvariant
<1>1. /\ pc' \in [Process -> Ended \cup Running]
      /\ \A q \in Process : q # p => pc'[q] = pc[q]
      /\ \/ pc[p] = "load_pid" /\ pc'[p] = "load_open"
         \/ pc[p] = "write_pid" /\ pc'[p] = "write_open"
  <2>1. (pc[p] = "load_pid" /\ Goto(p, "load_open")) \/ (pc[p] = "write_pid" /\ Goto(p, "write_open"))
    BY DEF WritePid, Goto
  <2> QED BY <2>1, GotoType DEF Ended, Running, Loading, Writing
<1>2. TypeOK'
  BY <1>1 DEF TypeOK, WritePid, run
<1>3. CacheSound'
  BY DEF CacheSound, TypeOK, WritePid, run
<1>4. LockOwned'
  BY <1>1, LockFrame DEF LockOwned, Critical, Running, Loading, Writing, WritePid, run
<1>5. LoopInvariant'
  BY <1>1, LoopFrame DEF TypeOK, Running, Loading, Writing, WritePid, run
<1> QED BY <1>2, <1>3, <1>4, <1>5

(* The PID cannot be written: the process ends, the lock file stays. *)
LEMMA WritePidFailsStep == ASSUME CacheInvariant, NEW p \in Process, WritePidFails(p) PROVE CacheInvariant'
<1> USE DEF CacheInvariant
<1>1. /\ pc' \in [Process -> Ended \cup Running]
      /\ \A q \in Process : q # p => pc'[q] = pc[q]
      /\ pc'[p] = "failed"
  <2>1. Goto(p, "failed")
    BY DEF WritePidFails
  <2> QED BY <2>1, GotoType DEF Ended, Running, Loading, Writing
<1>2. faults' \in Nat /\ faults' > 0
  BY DEF TypeOK, WritePidFails
<1>3. TypeOK'
  BY <1>1, <1>2 DEF TypeOK, WritePidFails
<1>4. CacheSound'
  BY DEF CacheSound, TypeOK, WritePidFails
<1>5. LockOwned'
  <2>1. lock = p /\ lock' = Dead /\ pc'[p] \notin Critical
    BY <1>1 DEF LockOwned, Critical, WritePidFails
  <2> QED BY <1>1, <1>2, <2>1, LockFrame
<1>6. LoopInvariant'
  BY <1>1, LoopFrame DEF TypeOK, Running, Loading, Writing, WritePidFails
<1> QED BY <1>3, <1>4, <1>5, <1>6

(* The context is not entered. *)
LEMMA AcquireFailsStep == ASSUME CacheInvariant, NEW p \in Process, AcquireFails(p) PROVE CacheInvariant'
<1> USE DEF CacheInvariant
<1>1. /\ pc' \in [Process -> Ended \cup Running]
      /\ \A q \in Process : q # p => pc'[q] = pc[q]
      /\ pc[p] \in {"load_acquire", "write_acquire"} /\ pc'[p] \in {"check", "failed"}
  <2>1. Goto(p, "check") \/ Goto(p, "failed")
    BY DEF AcquireFails
  <2> QED BY <2>1, GotoType DEF Ended, Running, Loading, Writing, AcquireFails
<1>2. TypeOK'
  BY <1>1 DEF TypeOK, AcquireFails, run
<1>3. CacheSound'
  BY DEF CacheSound, TypeOK, AcquireFails, run
<1>4. LockOwned'
  BY <1>1, LockFrame DEF LockOwned, Critical, Running, Loading, Writing, AcquireFails, run
<1>5. LoopInvariant'
  BY <1>1, LoopFrame DEF TypeOK, Running, Loading, Writing, AcquireFails, run
<1> QED BY <1>2, <1>3, <1>4, <1>5

(* The timeout passes; nothing else changes. *)
LEMMA GiveUpStep == ASSUME CacheInvariant, NEW p \in Process, GiveUp(p) PROVE CacheInvariant'
<1> USE DEF CacheInvariant
<1>1. /\ pc' \in [Process -> Ended \cup Running]
      /\ \A q \in Process : q # p => pc'[q] = pc[q]
      /\ \/ pc[p] = "load_acquire" /\ pc'[p] = "load_report"
         \/ pc[p] = "write_acquire" /\ pc'[p] = "write_report"
  <2>1. (pc[p] = "load_acquire" /\ Goto(p, "load_report")) \/ (pc[p] = "write_acquire" /\ Goto(p, "write_report"))
    BY DEF GiveUp, Goto
  <2> QED BY <2>1, GotoType DEF Ended, Running, Loading, Writing
<1>2. TypeOK'
  BY <1>1 DEF TypeOK, GiveUp, run
<1>3. CacheSound'
  BY DEF CacheSound, TypeOK, GiveUp, run
<1>4. LockOwned'
  BY <1>1, LockFrame DEF LockOwned, Critical, Running, Loading, Writing, GiveUp, run
<1>5. LoopInvariant'
  BY <1>1, LoopFrame DEF TypeOK, Running, Loading, Writing, GiveUp, run
<1> QED BY <1>2, <1>3, <1>4, <1>5

(* The context is left because the cache file cannot be opened. *)
LEMMA OpenFailsStep == ASSUME CacheInvariant, NEW p \in Process, OpenFails(p) PROVE CacheInvariant'
<1> USE DEF CacheInvariant
<1>1. /\ pc' \in [Process -> Ended \cup Running]
      /\ \A q \in Process : q # p => pc'[q] = pc[q]
      /\ pc'[p] = "check" \/ pc'[p] = "failed"
  <2>1. Goto(p, "check") \/ Goto(p, "failed")
    BY DEF OpenFails
  <2> QED BY <2>1, GotoType DEF Ended, Running, Loading, Writing
<1>2. TypeOK'
  BY <1>1 DEF TypeOK, OpenFails, run
<1>3. CacheSound'
  BY DEF CacheSound, TypeOK, OpenFails, run
<1>4. LockOwned'
  BY <1>1, LockFrame DEF LockOwned, Critical, Running, Loading, Writing, OpenFails, run
<1>5. LoopInvariant'
  BY <1>1, LoopFrame DEF TypeOK, Running, Loading, Writing, OpenFails, run
<1> QED BY <1>2, <1>3, <1>4, <1>5

(* The cache file is opened within the context. *)
LEMMA OpenStep == ASSUME CacheInvariant, NEW p \in Process, Open(p) PROVE CacheInvariant'
<1> USE DEF CacheInvariant
<1>1. /\ pc' \in [Process -> Ended \cup Running]
      /\ \A q \in Process : q # p => pc'[q] = pc[q]
      /\ \/ pc[p] = "load_open" /\ pc'[p] = "load_read"
         \/ pc[p] = "write_open" /\ pc'[p] = "write_dump"
  <2>1. (pc[p] = "load_open" /\ Goto(p, "load_read")) \/ (pc[p] = "write_open" /\ Goto(p, "write_dump"))
    BY DEF Open, Goto
  <2> QED BY <2>1, GotoType DEF Ended, Running, Loading, Writing
<1>2. TypeOK'
  BY <1>1 DEF TypeOK, Open, run, Empty, FileContent
<1>3. CacheSound'
  BY DEF CacheSound, TypeOK, Open, run, Empty, FileContent
<1>4. LockOwned'
  BY <1>1, LockFrame DEF LockOwned, Critical, Running, Loading, Writing, Open, run
<1>5. LoopInvariant'
  BY <1>1, LoopFrame DEF TypeOK, Running, Loading, Writing, Open, run
<1> QED BY <1>2, <1>3, <1>4, <1>5

(* The digests of the file become those of the process. *)
LEMMA LoadStep == ASSUME CacheInvariant, NEW p \in Process, Load(p) PROVE CacheInvariant'
<1> USE DEF CacheInvariant
<1>1. /\ pc' \in [Process -> Ended \cup Running]
      /\ \A q \in Process : q # p => pc'[q] = pc[q]
      /\ pc'[p] = "check"
  <2>1. Goto(p, "check")
    BY DEF Load
  <2> QED BY <2>1, GotoType DEF Ended, Running, Loading, Writing
<1>2. TypeOK'
  <2>1. file.digests \in SUBSET Digests
    BY DEF TypeOK, FileContent
  <2> QED BY <1>1, <2>1 DEF TypeOK, Load
<1>3. CacheSound'
  BY DEF CacheSound, TypeOK, Load
<1>4. LockOwned'
  BY <1>1, LockFrame DEF LockOwned, Critical, Running, Loading, Writing, Load
<1>5. LoopInvariant'
  BY <1>1, LoopFrame DEF TypeOK, Running, Loading, Writing, Load
<1> QED BY <1>2, <1>3, <1>4, <1>5

(* A part of the data may reach the file. *)
LEMMA DumpStep == ASSUME CacheInvariant, NEW p \in Process, Dump(p) PROVE CacheInvariant'
<1> USE DEF CacheInvariant
<1>1. /\ pc' \in [Process -> Ended \cup Running]
      /\ \A q \in Process : q # p => pc'[q] = pc[q]
      /\ pc'[p] = "write_exit"
  <2>1. Goto(p, "write_exit")
    BY DEF Dump
  <2> QED BY <2>1, GotoType DEF Ended, Running, Loading, Writing
<1>2. TypeOK'
  <2>1. file.digests \in SUBSET Digests /\ verified[p] \in SUBSET Digests
    BY DEF TypeOK, FileContent
  <2>2. file' \in FileContent
    BY <2>1 DEF TypeOK, Dump, Torn, FileContent
  <2>3. spilled' \in [Process -> BOOLEAN]
    BY DEF TypeOK, Dump
  <2> QED BY <1>1, <2>2, <2>3 DEF TypeOK, Dump
<1>3. CacheSound'
  BY DEF CacheSound, TypeOK, Dump, Torn
<1>4. LockOwned'
  BY <1>1, LockFrame DEF LockOwned, Critical, Running, Loading, Writing, Dump
<1>5. LoopInvariant'
  BY <1>1, LoopFrame DEF TypeOK, Running, Loading, Writing, Dump
<1> QED BY <1>2, <1>3, <1>4, <1>5

(* The context is left. *)
LEMMA ExitStep == ASSUME CacheInvariant, NEW p \in Process, Exit(p) PROVE CacheInvariant'
<1> USE DEF CacheInvariant
<1>1. /\ pc' \in [Process -> Ended \cup Running]
      /\ \A q \in Process : q # p => pc'[q] = pc[q]
      /\ pc'[p] = "write_flush"
  <2>1. Goto(p, "write_flush")
    BY DEF Exit
  <2> QED BY <2>1, GotoType DEF Ended, Running, Loading, Writing
<1>2. TypeOK'
  BY <1>1 DEF TypeOK, Exit, run
<1>3. CacheSound'
  BY DEF CacheSound, TypeOK, Exit, run
<1>4. LockOwned'
  BY <1>1, LockFrame DEF LockOwned, Critical, Running, Loading, Writing, Exit, run
<1>5. LoopInvariant'
  BY <1>1, LoopFrame DEF TypeOK, Running, Loading, Writing, Exit, run
<1> QED BY <1>2, <1>3, <1>4, <1>5

(* The loop is left with a model or with errors. *)
LEMMA FinishStep == ASSUME CacheInvariant, NEW p \in Process, Finish(p) PROVE CacheInvariant'
<1> USE DEF CacheInvariant
<1>1. /\ pc' \in [Process -> Ended \cup Running]
      /\ \A q \in Process : q # p => pc'[q] = pc[q]
      /\ pc'[p] = "failed" \/ pc'[p] = "done"
  <2>1. Goto(p, "failed") \/ Goto(p, "done")
    BY DEF Finish
  <2> QED BY <2>1, GotoType DEF Ended, Running, Loading, Writing
<1>2. TypeOK'
  BY <1>1 DEF TypeOK, Finish, run
<1>3. CacheSound'
  BY DEF CacheSound, TypeOK, Finish, run
<1>4. LockOwned'
  BY <1>1, LockFrame DEF LockOwned, Critical, Running, Loading, Writing, Finish, run
<1>5. LoopInvariant'
  <2>1. \A q \in Process : q # p => LoopAt(q)'
    BY <1>1 DEF LoopInvariant, LoopAt, Finish, run
  <2>2. pc'[p] = (IF failed[p] THEN "failed" ELSE "done") /\ pc[p] = "check"
    BY GotoType DEF Finish, Ended
  <2>3. LoopAt(p)'
    BY <2>2 DEF LoopInvariant, LoopAt, Finish, run, Running, Loading, Writing
  <2> QED BY <2>1, <2>3 DEF LoopInvariant
<1> QED BY <1>2, <1>3, <1>4, <1>5

(* A process disappears within or outside of the context. *)
LEMMA KillStep == ASSUME CacheInvariant, NEW p \in Process, Kill(p) PROVE CacheInvariant'
<1> USE DEF CacheInvariant
<1>1. /\ pc' \in [Process -> Ended \cup Running]
      /\ \A q \in Process : q # p => pc'[q] = pc[q]
      /\ pc'[p] = "killed"
  <2>1. Goto(p, "killed")
    BY DEF Kill
  <2> QED BY <2>1, GotoType DEF Ended, Running, Loading, Writing
<1>2. TypeOK'
  <2>1. file' \in FileContent
    BY DEF TypeOK, Kill, FileContent
  <2>2. spilled' \in [Process -> BOOLEAN] /\ faults' \in Nat
    BY DEF TypeOK, Kill
  <2>3. lock' \in Process \cup {NoProcess, Dead}
    BY DEF TypeOK, Kill
  <2> QED BY <1>1, <2>1, <2>2, <2>3 DEF TypeOK, Kill
<1>3. CacheSound'
  BY DEF CacheSound, TypeOK, Kill
<1>4. LockOwned'
  <2>1. faults' > 0
    BY DEF TypeOK, Kill
  <2>2. CASE lock = p
    BY <1>1, <2>1, <2>2, LockFrame DEF Critical, Kill
  <2>3. CASE lock # p
    BY <1>1, <2>1, <2>3, LockFrame DEF LockOwned, Critical, Kill
  <2> QED BY <2>2, <2>3
<1>5. LoopInvariant'
  BY <1>1, LoopFrame DEF TypeOK, Running, Loading, Writing, Kill
<1> QED BY <1>2, <1>3, <1>4, <1>5

(* An error is raised instead of entering the context. *)
LEMMA ReportStep == ASSUME CacheInvariant, NEW p \in Process, Report(p) PROVE CacheInvariant'
<1> USE DEF CacheInvariant
<1>1. CASE pc[p] \in {"load_report", "write_report"} /\ UNCHANGED <<index, failed>>
           /\ (Goto(p, "failed") \/ Goto(p, "check"))
  <2>1. /\ pc' \in [Process -> Ended \cup Running]
        /\ \A q \in Process : q # p => pc'[q] = pc[q]
        /\ pc'[p] \in {"failed", "check"}
    BY <1>1, GotoType DEF Ended, Running
  <2>2. TypeOK' /\ CacheSound'
    BY <1>1, <2>1 DEF TypeOK, CacheSound, Report
  <2>3. LockOwned'
    BY <1>1, <2>1, LockFrame DEF Critical, Report
  <2>4. LoopInvariant'
    BY <1>1, <2>1, LoopFrame DEF Running, Loading, Writing, Report
  <2> QED BY <2>2, <2>3, <2>4
<1>2. CASE pc[p] = "write_report" /\ NextDeclaration(p, TRUE)
  <2>1. LoopInvariant' /\ index' \in [Process -> Nat \ {0}] /\ failed' \in [Process -> BOOLEAN]
    BY <1>2, LoopNext DEF Report, Running, Writing
  <2>2. /\ pc' \in [Process -> Ended \cup Running]
        /\ \A q \in Process : q # p => pc'[q] = pc[q]
        /\ pc'[p] = "check"
    BY <1>2, GotoType DEF NextDeclaration, Running
  <2>3. TypeOK' /\ CacheSound'
    BY <2>1, <2>2 DEF TypeOK, CacheSound, Report
  <2>4. LockOwned'
    BY <1>2, <2>2, LockFrame DEF Critical, Report
  <2> QED BY <2>1, <2>3, <2>4
<1> QED BY <1>1, <1>2 DEF Report, Goto

(* The rest of the data reaches the file; the declaration whose digest was entered is
   vouched for because the cache is sound.                                          *)
LEMMA FlushStep == ASSUME CacheInvariant, NEW p \in Process, Flush(p) PROVE CacheInvariant'
<1> USE DEF CacheInvariant
<1>1. spec[p][index[p]] \in Vouched
  <2>1. /\ index[p] \in 1 .. Len(spec[p]) /\ spec[p][index[p]] \in Declarations \ Malformed
        /\ Digest[spec[p][index[p]]] \in verified[p]
    BY DEF Flush, LoopInvariant, LoopAt, Writing, TypeOK
  <2> QED BY <2>1 DEF CacheSound, Vouched
<1>2. LoopInvariant' /\ index' \in [Process -> Nat \ {0}] /\ failed' \in [Process -> BOOLEAN]
  BY <1>1, LoopNext DEF Flush, Running, Writing
<1>3. /\ pc' \in [Process -> Ended \cup Running]
      /\ \A q \in Process : q # p => pc'[q] = pc[q]
      /\ pc'[p] = "check"
  BY GotoType DEF NextDeclaration, Flush, Running
<1>4. file' \in FileContent /\ file'.digests \subseteq verified[p] \cup file.digests
  BY FlushedType DEF Flush
<1>5. TypeOK'
  <2>1. spilled' \in [Process -> BOOLEAN]
    BY DEF TypeOK, Flush
  <2> QED BY <1>2, <1>3, <1>4, <2>1 DEF TypeOK, Flush
<1>6. CacheSound'
  BY <1>4 DEF CacheSound, Flush
<1>7. LockOwned'
  BY <1>3, LockFrame DEF Critical, Flush
<1> QED BY <1>2, <1>5, <1>6, <1>7

(* One declaration is checked.  It is entered only if it is new and verified: a hit in
   the cache is already there, and --no-verification enters nothing.                 *)
LEMMA CheckStep == ASSUME CacheInvariant, NEW p \in Process, Check(p) PROVE CacheInvariant'
<1> USE DEF CacheInvariant
<1> DEFINE d == spec[p][index[p]]
<1>1. pc[p] = "check" /\ index[p] \in 1 .. Len(spec[p]) /\ d \in Declarations
  BY DEF Check, TypeOK
<1>2. ASSUME NEW bad \in BOOLEAN, NextDeclaration(p, bad), UNCHANGED verified,
             ~bad /\ mode[p] # "NeverVerify" => d \in Vouched
      PROVE  CacheInvariant'
  <2>1. LoopInvariant' /\ index' \in [Process -> Nat \ {0}] /\ failed' \in [Process -> BOOLEAN]
    BY <1>1, <1>2, LoopNext DEF Check, Running
  <2>2. /\ pc' \in [Process -> Ended \cup Running]
        /\ \A q \in Process : q # p => pc'[q] = pc[q]
        /\ pc'[p] = "check"
    BY <1>2, GotoType DEF NextDeclaration, Running
  <2>3. TypeOK' /\ CacheSound'
    BY <1>2, <2>1, <2>2 DEF TypeOK, CacheSound, Check
  <2>4. LockOwned'
    BY <1>1, <2>2, LockFrame DEF Critical, Check
  <2> QED BY <2>1, <2>3, <2>4
<1>3. CASE d \in Malformed
  BY <1>2, <1>3 DEF Check
<1>4. CASE d \notin Malformed /\ ~IsVerified(p, d) /\ d \in Unprovable
  BY <1>2, <1>4 DEF Check
<1>5. CASE d \notin Malformed /\ (IsVerified(p, d) \/ d \notin Unprovable)
  <2>1. AddVerified(p, d)
    BY <1>5 DEF Check
  <2>2. mode[p] # "NeverVerify" => d \in Vouched
    BY <1>1, <1>5 DEF IsVerified, CacheSound, Correct, Vouched
  <2>3. CASE mode[p] = "Cache" /\ Digest[d] \notin verified[p] \cup {NoDigest}
    <3>1. /\ verified' = [verified EXCEPT ![p] = @ \cup {Digest[d]}]
          /\ Goto(p, "write_acquire")
          /\ UNCHANGED <<index, failed>>
      BY <2>1, <2>3 DEF AddVerified
    <3>2. /\ pc' \in [Process -> Ended \cup Running]
          /\ \A q \in Process : q # p => pc'[q] = pc[q]
          /\ pc'[p] = "write_acquire"
      BY <3>1, GotoType DEF Running, Writing
    <3>3. Digest[d] \in CorrectDigests \cap Digests
      BY <1>1, <1>5, <2>3 DEF IsVerified, Correct, CorrectDigests, Digests
    <3>4. verified' \in [Process -> SUBSET Digests]
      BY <3>1, <3>3 DEF TypeOK
    <3>5. TypeOK'
      BY <3>1, <3>2, <3>4 DEF TypeOK, Check
    <3>6. CacheSound'
      BY <3>1, <3>3 DEF TypeOK, CacheSound, Check
    <3>7. LockOwned'
      BY <1>1, <3>2, LockFrame DEF Critical, Check
    <3>8. \A q \in Process : q # p => LoopAt(q)'
      BY <3>1, <3>2 DEF TypeOK, LoopInvariant, LoopAt, Check
    <3>9. LoopAt(p)'
      <4>1. Digest[d] \in verified'[p] /\ d \notin Malformed
        BY <1>5, <3>1 DEF TypeOK
      <4>2. LoopAt(p) /\ pc[p] \in Running /\ UNCHANGED <<mode, spec, index, failed>>
        BY <1>1, <3>1 DEF LoopInvariant, Running, Check
      <4> QED BY <1>1, <3>2, <4>1, <4>2 DEF LoopAt
    <3> QED BY <3>5, <3>6, <3>7, <3>8, <3>9 DEF LoopInvariant
  <2>4. CASE ~(mode[p] = "Cache" /\ Digest[d] \notin verified[p] \cup {NoDigest})
    BY <1>2, <2>1, <2>2, <2>4 DEF AddVerified
  <2> QED BY <2>3, <2>4
<1> QED BY <1>3, <1>4, <1>5

(* A process starts with an empty cache at the first declaration. *)
LEMMA StartStep ==
    ASSUME CacheInvariant, NEW p \in Process, NEW m \in {"Cache", "AlwaysVerify", "NeverVerify"},
           NEW s \in Specs, Start(p, m, s)
    PROVE  CacheInvariant'
<1> USE DEF CacheInvariant
<1>1. /\ pc' \in [Process -> Ended \cup Running]
      /\ \A q \in Process : q # p => pc'[q] = pc[q]
      /\ pc'[p] \in {"load_acquire", "check"}
  BY GotoType DEF Start, Running, Loading
<1>2. s \in Seq(Declarations)
  BY CacheAssumption
<1>3. TypeOK'
  <2>1. mode' \in [Process -> {"Cache", "AlwaysVerify", "NeverVerify"}] /\ spec' \in [Process -> Seq(Declarations)]
    BY <1>2 DEF TypeOK, Start
  <2>2. index' \in [Process -> Nat \ {0}] /\ verified' \in [Process -> SUBSET Digests]
    BY DEF TypeOK, Start
  <2>3. spilled' \in [Process -> BOOLEAN] /\ failed' \in [Process -> BOOLEAN]
    BY DEF TypeOK, Start
  <2> QED BY <1>1, <2>1, <2>2, <2>3 DEF TypeOK, Start
<1>4. CacheSound'
  BY DEF TypeOK, CacheSound, Start
<1>5. LockOwned'
  BY <1>1, LockFrame DEF Critical, Ended, Start
<1>6. LoopInvariant'
  <2>1. \A q \in Process : q # p => LoopAt(q)'
    BY <1>1 DEF TypeOK, LoopInvariant, LoopAt, Start
  <2>2. LoopAt(p)'
    <3>1. index'[p] = 1 /\ spec'[p] = s
      BY DEF TypeOK, Start
    <3>2. pc'[p] \notin Writing /\ pc'[p] # "done"
      BY <1>1 DEF Writing
    <3>3. \A i \in 1 .. Len(s) : ~(i < 1)
      BY <1>2
    <3> QED BY <3>1, <3>2, <3>3 DEF LoopAt
  <2> QED BY <2>1, <2>2 DEF LoopInvariant
<1> QED BY <1>3, <1>4, <1>5, <1>6

(* Every behaviour of any number of rflx processes, with any number of them killed at any
   point or unable to write their PIDs, keeps the inductive invariant: in particular the
   lock file belongs to the one process in the context of FileLock, and all digests are
   those of verified declarations.                                                      *)
THEOREM CacheInductive == Spec => []CacheInvariant
<1>1. Init => CacheInvariant
  BY CacheInit
<1>2. CacheInvariant /\ [Next]_vars => CacheInvariant'
  <2> SUFFICES ASSUME CacheInvariant, [Next]_vars PROVE CacheInvariant'
    OBVIOUS
  <2>1. ASSUME NEW p \in Process, Step(p) PROVE CacheInvariant'
    BY <2>1, AcquireStep, AcquireFailsStep, WritePidStep, GiveUpStep, ReportStep, OpenFailsStep, OpenStep, LoadStep, DumpStep,
       ExitStep, FlushStep, CheckStep, FinishStep DEF Step
  <2>2. ASSUME NEW p \in Process, Kill(p) \/ WritePidFails(p) PROVE CacheInvariant'
    BY <2>2, KillStep, WritePidFailsStep
  <2>3. ASSUME NEW p \in Process, NEW m \in {"Cache", "AlwaysVerify", "NeverVerify"},
               NEW s \in Specs, Start(p, m, s)
        PROVE  CacheInvariant'
    BY <2>3, StartStep
  <2>4. CASE DeleteLock
    BY <2>4, CacheAssumption
       DEF DeleteLock, run, CacheInvariant, TypeOK, CacheSound, LockOwned, LoopInvariant, LoopAt
  <2>5. CASE UNCHANGED vars
    BY <2>5 DEF vars, CacheInvariant, TypeOK, CacheSound, LockOwned, LoopInvariant, LoopAt
  <2> QED BY <2>1, <2>2, <2>3, <2>4, <2>5 DEF Next
<1> QED BY <1>1, <1>2, PTL DEF Spec

(* The type invariant: what is in the cache file, and what a process has read of it before
   the others went on, are digests of declarations.                                      *)
THEOREM CacheType == Spec => []TypeOK
<1>1. CacheInvariant => TypeOK
  BY DEF CacheInvariant
<1> QED BY <1>1, CacheInductive, PTL

(* Only digests of declarations that were verified ever get into the cache file, although
   the file is read, extended and written in separate steps and writers may be killed.   *)
THEOREM CacheFileSound == Spec => []CacheSound
<1>1. CacheInvariant => CacheSound
  BY DEF CacheInvariant
<1> QED BY <1>1, CacheInductive, PTL

(* Whatever is in the cache file, a declaration that cannot be verified is accepted only if
   its digest is the one of a declaration that can.                                      *)
THEOREM CacheAccepts == Spec => []AcceptedVouched
<1>1. CacheInvariant => AcceptedVouched
  <2> SUFFICES ASSUME CacheInvariant, NEW p \in Process, pc[p] = "done", mode[p] # "NeverVerify",
                      NEW i \in 1 .. Len(spec[p])
               PROVE  spec[p][i] \in Vouched
    BY DEF CacheInvariant, AcceptedVouched
  <2>1. spec[p] \in Seq(Declarations) /\ index[p] \in Nat
    BY DEF CacheInvariant, TypeOK
  <2>2. i < index[p] /\ ~failed[p]
    BY <2>1 DEF CacheInvariant, LoopInvariant, LoopAt
  <2> QED BY <2>2 DEF CacheInvariant, LoopInvariant, LoopAt
<1> QED BY <1>1, CacheInductive, PTL

(* A digest that tells the correct declarations from the others is all that the cache needs
   to accept correct declarations only.  The one of cache.py does not: it has the names of
   element types, not their definitions.                                                  *)
DigestTellsCorrect ==
    \A c \in Correct, d \in Declarations \ Malformed : Digest[c] = Digest[d] /\ Digest[d] # NoDigest => d \in Correct
OnlyCorrectAccepted ==
    \A p \in Process : pc[p] = "done" /\ mode[p] # "NeverVerify" =>
        \A i \in 1 .. Len(spec[p]) : spec[p][i] \in Correct
THEOREM CacheIsSound == ASSUME DigestTellsCorrect PROVE Spec => []OnlyCorrectAccepted
<1>1. Vouched \subseteq Correct
  BY DEF Vouched, CorrectDigests, DigestTellsCorrect
<1>2. AcceptedVouched => OnlyCorrectAccepted
  BY <1>1 DEF AcceptedVouched, OnlyCorrectAccepted
<1> QED BY <1>2, CacheAccepts, PTL

(* Nobody but its owner removes the lock file of a living process, and it outlives its owner
   only after a kill or a failing write of the PID.                                        *)
THEOREM LockIsOwned == Spec => []LockOwned
<1>1. CacheInvariant => LockOwned
  BY DEF CacheInvariant
<1> QED BY <1>1, CacheInductive, PTL

=============================================================================
