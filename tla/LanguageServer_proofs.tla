----------------------- MODULE LanguageServer_proofs -----------------------
(***************************************************************************)
(* For any number of notifications and versions: debouncing loses no edit, *)
(* however the threads overlap, and updates and verifications that do not  *)
(* overlap leave the model and the diagnostics of the current text.        *)
(***************************************************************************)
EXTENDS LanguageServer, TLAPS

Labels == Updating \cup {"none", "armed", "cancelled", "fired", "keyerror", "done"}

(* The registered timer of a function belongs to a call of that function that has not
   run yet: its own run, or a run that has come too late, removes it.               *)
TimersRegistered ==
    \A k \in Debounced : timers[k] # 0 =>
        timers[k] \in Jobs /\ kind[timers[k]] = k /\ pc[timers[k]] \in {"armed", "fired"}

(* A job that has fired was caused by a debounced call; new jobs have no history. *)
JobsType ==
    /\ jobs \in 0 .. MaxJobs
    /\ pc \in [Jobs -> Labels]
    /\ kind \in [Jobs -> {"open"} \cup Debounced]
    /\ timers \in [Debounced -> {0} \cup Jobs]
    /\ \A j \in Jobs : j > jobs => pc[j] = "none"
    /\ \A j \in Jobs : pc[j] \in {"armed", "fired"} => kind[j] \in Debounced

TimerInvariant == JobsType /\ TimersRegistered /\ EditPending

(* A notification creates the job with the next number. *)
LEMMA NewJob ==
    ASSUME JobsType, NEW k \in {"open"} \cup Debounced, Notification(k)
    PROVE  /\ jobs + 1 \in Jobs /\ jobs' \in 0 .. MaxJobs /\ jobs' = jobs + 1
           /\ pc[jobs + 1] = "none"
           /\ kind' \in [Jobs -> {"open"} \cup Debounced]
           /\ kind'[jobs + 1] = k
           /\ \A j \in Jobs : j # jobs + 1 => kind'[j] = kind[j]
BY LanguageServerAssumption DEF JobsType, Notification, Jobs

(* A debounced call replaces the registered timer by one that will run. *)
LEMMA DebouncedCall ==
    ASSUME TimerInvariant, NEW k \in Debounced, Notification(k), Debounce(k, jobs + 1)
    PROVE  TimerInvariant'
<1> DEFINE n == jobs + 1
<1>1. /\ n \in Jobs /\ jobs' \in 0 .. MaxJobs /\ jobs' = n
      /\ pc[n] = "none"
      /\ kind' \in [Jobs -> {"open"} \cup Debounced] /\ kind'[n] = k
      /\ \A j \in Jobs : j # n => kind'[j] = kind[j]
  BY NewJob DEF TimerInvariant
<1>2. timers' \in [Debounced -> {0} \cup Jobs] /\ timers'[k] = n
      /\ \A d \in Debounced : d # k => timers'[d] = timers[d]
  BY <1>1 DEF Debounce, TimerInvariant, JobsType
<1>3. timers[k] # n
  BY <1>1 DEF TimerInvariant, TimersRegistered, Jobs
<1>4. /\ pc' \in [Jobs -> Labels] /\ pc'[n] = "armed"
      /\ \A j \in Jobs : j # n => pc'[j] = pc[j] \/ (j = timers[k] /\ pc'[j] = "cancelled")
  BY <1>1, <1>3 DEF Debounce, TimerInvariant, JobsType, Labels
<1>5. JobsType'
  <2>1. \A j \in Jobs : j > jobs' => pc'[j] = "none"
    BY <1>1, <1>4 DEF TimerInvariant, JobsType, TimersRegistered, Jobs
  <2>2. \A j \in Jobs : pc'[j] \in {"armed", "fired"} => kind'[j] \in Debounced
    BY <1>1, <1>4 DEF TimerInvariant, JobsType
  <2> QED BY <1>1, <1>2, <1>4, <2>1, <2>2 DEF JobsType
<1>6. TimersRegistered'
  <2> SUFFICES ASSUME NEW d \in Debounced, timers'[d] # 0
               PROVE  timers'[d] \in Jobs /\ kind'[timers'[d]] = d /\ pc'[timers'[d]] \in {"armed", "fired"}
    BY DEF TimersRegistered
  <2>1. CASE d = k
    BY <1>1, <1>2, <1>4, <2>1
  <2>2. CASE d # k
    <3>1. timers[d] \in Jobs /\ kind[timers[d]] = d /\ pc[timers[d]] \in {"armed", "fired"}
      BY <1>2, <2>2 DEF TimerInvariant, TimersRegistered
    <3>2. timers[d] # n
      BY <1>1, <3>1
    <3>3. timers[d] # timers[k]
      BY <3>1, <2>2 DEF TimerInvariant, TimersRegistered, Jobs
    <3> QED BY <1>1, <1>2, <1>4, <2>2, <3>1, <3>2, <3>3
  <2> QED BY <2>1, <2>2
<1>7. EditPending'
  BY <1>1, <1>2, <1>4 DEF EditPending
<1> QED BY <1>5, <1>6, <1>7 DEF TimerInvariant

(* A step of an update leaves timers alone; only Read makes the text known. *)
LEMMA UpdateStep ==
    ASSUME TimerInvariant, NEW j \in Jobs, NEW from \in Updating, NEW to \in Updating \cup {"done"},
           Step(j, from, to), UNCHANGED <<text, jobs, timers, kind>>,
           \/ state' = text
           \/ state' = state /\ (from = "begin" => to = "read") /\ from # "read"
    PROVE  TimerInvariant'
<1>1. /\ pc' \in [Jobs -> Labels] /\ pc[j] = from /\ pc'[j] = to
      /\ \A i \in Jobs : i # j => pc'[i] = pc[i]
  BY DEF Step, TimerInvariant, JobsType, Labels
<1>2. /\ from \notin {"none", "armed", "fired"} /\ to \notin {"none", "armed", "fired"}
  BY DEF Updating
<1>3. JobsType'
  BY <1>1, <1>2 DEF TimerInvariant, JobsType
<1>4. TimersRegistered'
  BY <1>1, <1>2 DEF TimerInvariant, TimersRegistered
<1>5. EditPending'
  <2>1. CASE state' = text
    BY <2>1 DEF EditPending
  <2>2. CASE state' = state /\ (from = "begin" => to = "read") /\ from # "read"
    <3>1. CASE state = text
      BY <2>2, <3>1 DEF EditPending
    <3>2. CASE \E i \in Jobs : pc[i] \in {"begin", "read"}
      BY <1>1, <2>2, <3>2 DEF EditPending
    <3>3. CASE \E i \in Jobs : pc[i] \in {"armed", "fired"} /\ timers[kind[i]] = i
      BY <1>1, <1>2, <3>3 DEF EditPending
    <3> QED BY <3>1, <3>2, <3>3 DEF TimerInvariant, EditPending
  <2> QED BY <2>1, <2>2
<1> QED BY <1>3, <1>4, <1>5 DEF TimerInvariant

(* A timer fires. *)
LEMMA FireStep == ASSUME TimerInvariant, NEW j \in Jobs, Fire(j) PROVE TimerInvariant'
<1>1. /\ pc' \in [Jobs -> Labels] /\ pc[j] = "armed" /\ pc'[j] = "fired"
      /\ \A i \in Jobs : i # j => pc'[i] = pc[i]
  BY DEF Fire, TimerInvariant, JobsType, Labels
<1>2. UNCHANGED <<text, jobs, timers, kind, state>>
  BY DEF Fire, update
<1>3. JobsType'
  BY <1>1, <1>2 DEF TimerInvariant, JobsType
<1>4. TimersRegistered'
  BY <1>1, <1>2 DEF TimerInvariant, TimersRegistered
<1>5. EditPending'
  BY <1>1, <1>2 DEF TimerInvariant, EditPending
<1> QED BY <1>3, <1>4, <1>5 DEF TimerInvariant

(* A run removes the registered timer, if there is one, and then updates itself;
   otherwise some other update is about to read the text already.              *)
LEMMA RunStep == ASSUME TimerInvariant, NEW j \in Jobs, Run(j) PROVE TimerInvariant'
<1>1. /\ pc' \in [Jobs -> Labels] /\ pc[j] = "fired" /\ kind[j] \in Debounced
      /\ pc'[j] = (IF timers[kind[j]] = 0 THEN "keyerror" ELSE "begin")
      /\ \A i \in Jobs : i # j => pc'[i] = pc[i]
  BY DEF Run, TimerInvariant, JobsType, Labels, Updating
<1>2. UNCHANGED <<text, jobs, kind, state>>
  BY DEF Run, update
<1>3. timers' \in [Debounced -> {0} \cup Jobs] /\ timers'[kind[j]] = 0
      /\ \A d \in Debounced : d # kind[j] => timers'[d] = timers[d]
  BY <1>1 DEF Run, TimerInvariant, JobsType
<1>4. JobsType'
  BY <1>1, <1>2, <1>3 DEF TimerInvariant, JobsType
<1>5. TimersRegistered'
  BY <1>1, <1>2, <1>3 DEF TimerInvariant, TimersRegistered
<1>6. EditPending'
  <2>1. CASE timers[kind[j]] # 0
    BY <1>1, <2>1 DEF EditPending
  <2>2. CASE timers[kind[j]] = 0
    <3>1. timers' = timers
      BY <1>1, <1>3, <2>2 DEF Run, TimerInvariant, JobsType
    <3>2. \A i \in Jobs : timers[kind[i]] = i => i # j
      BY <2>2 DEF Jobs
    <3> QED BY <1>1, <1>2, <3>1, <3>2 DEF TimerInvariant, EditPending
  <2> QED BY <2>1, <2>2
<1> QED BY <1>4, <1>5, <1>6 DEF TimerInvariant

(* did_open updates at once unless the text is known. *)
LEMMA OpenStep == ASSUME TimerInvariant, DidOpen PROVE TimerInvariant'
<1> DEFINE n == jobs + 1
<1>1. /\ n \in Jobs /\ jobs' \in 0 .. MaxJobs /\ jobs' = n
      /\ pc[n] = "none"
      /\ kind' \in [Jobs -> {"open"} \cup Debounced]
      /\ \A j \in Jobs : j # n => kind'[j] = kind[j]
  BY NewJob DEF TimerInvariant, DidOpen
<1>2. UNCHANGED <<timers, state>>
  BY DEF DidOpen
<1>3. CASE text' # state
  <2>1. /\ pc' \in [Jobs -> Labels] /\ pc'[n] = "begin"
        /\ \A i \in Jobs : i # n => pc'[i] = pc[i]
    BY <1>1, <1>3 DEF DidOpen, TimerInvariant, JobsType, Labels, Updating
  <2>2. JobsType'
    BY <1>1, <1>2, <2>1 DEF TimerInvariant, JobsType, Jobs
  <2>3. TimersRegistered'
    BY <1>1, <1>2, <2>1 DEF TimerInvariant, TimersRegistered
  <2>4. EditPending'
    BY <1>1, <2>1 DEF EditPending
  <2> QED BY <2>2, <2>3, <2>4 DEF TimerInvariant
<1>4. CASE text' = state
  <2>1. pc' = pc
    BY <1>4 DEF DidOpen
  <2>2. JobsType'
    BY <1>1, <1>2, <2>1 DEF TimerInvariant, JobsType, Jobs
  <2>3. TimersRegistered'
    BY <1>1, <1>2, <2>1 DEF TimerInvariant, TimersRegistered
  <2>4. EditPending'
    BY <1>2, <1>4 DEF EditPending
  <2> QED BY <2>2, <2>3, <2>4 DEF TimerInvariant
<1> QED BY <1>3, <1>4

(* Every step of the server keeps the invariant. *)
LEMMA TimerStep == ASSUME TimerInvariant, [Next]_vars PROVE TimerInvariant'
<1>1. CASE DidOpen
  BY <1>1, OpenStep
<1>2. CASE DidChange
  BY <1>2, DebouncedCall DEF DidChange, Debounced
<1>3. CASE DidSave
  BY <1>3, DebouncedCall DEF DidSave, Debounced
<1>4. ASSUME NEW j \in Jobs, JobStep(j) PROVE TimerInvariant'
  <2>1. CASE Fire(j) BY <2>1, FireStep
  <2>2. CASE Run(j) BY <2>2, RunStep
  <2>3. CASE Begin(j) BY <2>3, UpdateStep DEF Begin, others, Updating
  <2>4. CASE Read(j) BY <2>4, UpdateStep DEF Read, others, Updating
  <2>5. CASE Extend(j) BY <2>5, UpdateStep DEF Extend, others, Updating
  <2>6. CASE Publish(j) BY <2>6, UpdateStep DEF Publish, others, Updating
  <2>7. CASE Send(j) BY <2>7, UpdateStep DEF Send, others, Updating
  <2>8. CASE Reset(j) BY <2>8, UpdateStep DEF Reset, others, Updating
  <2>9. CASE Clear(j) BY <2>9, UpdateStep DEF Clear, others, Updating
  <2>10. CASE Store(j) BY <2>10, UpdateStep DEF Store, Updating
  <2>11. CASE Parse(j) BY <2>11, UpdateStep DEF Parse, others, Updating
  <2> QED BY <1>4, <2>1, <2>2, <2>3, <2>4, <2>5, <2>6, <2>7, <2>8, <2>9, <2>10, <2>11 DEF JobStep
<1>5. ASSUME NEW j \in Jobs, VerificationStep(j) PROVE TimerInvariant'
  <2>1. UNCHANGED unverified
    BY <1>5 DEF VerificationStep, Verify, VerifyExtend, VerifyPublish, VerifySend
  <2> QED BY <2>1 DEF unverified, TimerInvariant, JobsType, TimersRegistered, EditPending
<1>6. CASE UNCHANGED vars
  BY <1>6 DEF vars, update, TimerInvariant, JobsType, TimersRegistered, EditPending
<1> QED BY <1>1, <1>2, <1>3, <1>4, <1>5, <1>6 DEF Next

(* No interleaving of edits, saves, timers, updates and verifications makes the server
   forget an edit, although runs of timers may fail with KeyError.                    *)
THEOREM NoEditLost == Spec => []EditPending
<1>1. Init => TimerInvariant
  <2> SUFFICES ASSUME Init PROVE TimerInvariant
    OBVIOUS
  <2>1. JobsType
    BY LanguageServerAssumption DEF Init, JobsType, Labels, Debounced, Jobs
  <2>2. TimersRegistered /\ EditPending
    BY DEF Init, TimersRegistered, EditPending
  <2> QED BY <2>1, <2>2 DEF TimerInvariant
<1>2. TimerInvariant /\ [Next]_vars => TimerInvariant'
  BY TimerStep
<1>3. TimerInvariant => EditPending
  BY DEF TimerInvariant
<1> QED BY <1>1, <1>2, <1>3, PTL DEF Spec
-----------------------------------------------------------------------------
(* Updates and verifications that do not overlap.                          *)

Started == (Updating \ {"begin"}) \cup {"done"}
Parsed == {"publish", "send", "reset", "clear", "store"}
ErrorLists == SUBSET ({"update", "verify"} \X Nat)

ServerType ==
    /\ text \in Nat /\ state \in Nat
    /\ error \in {0} \cup Jobs /\ model \in {0} \cup Jobs
    /\ seen \in [Jobs -> Nat]
    /\ entries \in [Jobs -> ErrorLists] /\ snapshot \in [Jobs -> ErrorLists]
    /\ target \in [Jobs -> {0} \cup Jobs]
    /\ vpc \in [Jobs -> {"none", "queued", "done"} \cup Verifying]
    /\ overlapped \in BOOLEAN

(* Whatever overlaps: texts grow, the list in use belongs to an update that has started,
   the list of one that has not is empty, and an update is verified after it is done.  *)
History ==
    /\ state <= text /\ \A j \in Jobs : seen[j] <= text
    /\ error # 0 => pc[error] \in Started
    /\ \A j \in Jobs : pc[j] \in Started => error # 0
    /\ \A j \in Jobs : pc[j] \notin Started => entries[j] = {}
    /\ \A j \in Jobs : vpc[j] # "none" => pc[j] = "done"

(* The errors of a version, those of its verification at least in part. *)
Shown(list, v) ==
    UpdateError(v) \subseteq list /\ list \subseteq UpdateError(v) \cup VerifyError(v)

(* The job whose list is in use is the only one under way: it updates, or some job
   verifies its model.                                                            *)
OneAtATime ==
    /\ error = 0 => model = 0 /\ state = 0 /\ diagnostics = {}
    /\ \A j \in Jobs : pc[j] \in Updating \ {"begin"} => j = error
    /\ \A j \in Jobs : vpc[j] \in Verifying =>
        /\ error # 0 /\ pc[error] = "done" /\ target[j] = error
        /\ vpc[j] = "send" => snapshot[j] = entries[error]
        /\ \A i \in Jobs : vpc[i] \in Verifying => i = j

(* What job e has done to its list and to the diagnostics. *)
Progress(e) ==
    /\ pc[e] \in {"read", "parse", "extend"} => entries[e] = {}
    /\ pc[e] \in Parsed => entries[e] = UpdateError(seen[e])
    /\ pc[e] \in Parsed \cup {"extend", "done"} => state <= seen[e]
    /\ pc[e] \in {"send", "clear"} => snapshot[e] = entries[e]
    /\ pc[e] \in {"reset", "clear"} => entries[e] = {} \/ diagnostics = entries[e]
    /\ pc[e] \in {"store", "done"} => Shown(diagnostics, seen[e])
    /\ pc[e] = "done" => model = e /\ Shown(entries[e], seen[e])

SerialInvariant ==
    /\ ServerType /\ History
    /\ ~overlapped => OneAtATime /\ (error # 0 => Progress(error))

Unread == <<vpc, state, seen, error, entries, snapshot, model, target, diagnostics, overlapped>>

(* Edits and timers concern neither lists nor models. *)
LEMMA QuietStep ==
    ASSUME SerialInvariant, UNCHANGED Unread, text' \in Nat, text' >= text,
           \A j \in Jobs : \/ pc'[j] = pc[j]
                           \/ pc[j] \notin Started /\ pc'[j] \notin Started
    PROVE  SerialInvariant'
<1>1. ServerType'
  BY DEF SerialInvariant, ServerType, Unread
<1>2. History'
  BY DEF SerialInvariant, ServerType, History, Unread, Started
<1>3. ASSUME ~overlapped' PROVE OneAtATime'
  BY <1>3 DEF SerialInvariant, ServerType, OneAtATime, Unread, Started
<1>4. ASSUME ~overlapped', error' # 0 PROVE Progress(error)'
  <2>1. pc'[error] = pc[error] /\ Progress(error)
    BY <1>4 DEF SerialInvariant, ServerType, History, Unread
  <2> QED BY <2>1 DEF Progress, Shown, Unread
<1> QED BY <1>1, <1>2, <1>3, <1>4 DEF SerialInvariant

(* The list of errors of a version. *)
LEMMA ErrorTypes ==
    ASSUME NEW v
    PROVE  UpdateError(v) \in ErrorLists /\ VerifyError(v) \in ErrorLists
BY LanguageServerAssumption DEF UpdateError, VerifyError, ErrorLists

(* A step of an update that has begun: what is left to show is that the job itself
   proceeds properly, provided that it is alone.                                  *)
LEMMA UpdateSerial ==
    ASSUME JobsType, SerialInvariant, ServerType',
           NEW j \in Jobs, NEW from \in Updating \ {"begin"}, NEW to \in Started, Step(j, from, to),
           UNCHANGED <<text, error, target, overlapped>>,
           state' = state \/ state' = text,
           \A i \in Jobs : seen'[i] = seen[i] \/ seen'[i] = text,
           \A i \in Jobs : entries'[i] = entries[i] \/ i = error,
           \A i \in Jobs : \/ vpc'[i] = vpc[i]
                           \/ i = j /\ to = "done" /\ vpc'[i] = "queued",
           j = error /\ OneAtATime /\ Progress(j) => Progress(j)'
    PROVE  SerialInvariant'
<1>1. /\ pc \in [Jobs -> Labels] /\ pc[j] = from /\ pc'[j] = to
      /\ \A i \in Jobs : i # j => pc'[i] = pc[i]
  BY DEF Step, JobsType
<1>2. History'
  <2>1. state' <= text' /\ \A i \in Jobs : seen'[i] <= text'
    BY DEF SerialInvariant, ServerType, History
  <2>2. from # "done" /\ from \in Started /\ (to # "done" => vpc'[j] = vpc[j])
    BY DEF Updating, Started
  <2>3. error' # 0 => pc'[error'] \in Started
    BY <1>1 DEF SerialInvariant, ServerType, History
  <2>4. \A i \in Jobs : pc'[i] \notin Started => entries'[i] = {}
    BY <1>1, <2>2, <2>3 DEF SerialInvariant, ServerType, History, Jobs
  <2>5. \A i \in Jobs : vpc'[i] # "none" => pc'[i] = "done"
    BY <1>1, <2>2 DEF SerialInvariant, ServerType, History
  <2>6. error' # 0
    BY <1>1, <2>2 DEF SerialInvariant, History
  <2> QED BY <2>1, <2>3, <2>4, <2>5, <2>6 DEF History
<1>3. ASSUME ~overlapped' PROVE OneAtATime' /\ (error' # 0 => Progress(error)')
  <2>1. OneAtATime /\ (error # 0 => Progress(error))
    BY <1>3 DEF SerialInvariant
  <2>2. j = error /\ error # 0 /\ from # "done"
    BY <1>1, <2>1 DEF OneAtATime, Jobs, Updating
  <2>3. \A i \in Jobs : vpc'[i] \notin Verifying
    BY <1>1, <2>1, <2>2 DEF OneAtATime, Verifying
  <2>4. OneAtATime'
    BY <1>1, <2>1, <2>2, <2>3 DEF OneAtATime
  <2>5. Progress(j)'
    BY <2>1, <2>2
  <2> QED BY <2>2, <2>4, <2>5
<1> QED BY <1>2, <1>3 DEF SerialInvariant

LEMMA ReadSerial == ASSUME JobsType, SerialInvariant, NEW j \in Jobs, Read(j) PROVE SerialInvariant'
<1>1. ServerType'
  BY DEF Read, SerialInvariant, ServerType, others
<1>2. pc[j] = "read" /\ pc'[j] = "parse" /\ Step(j, "read", "parse")
  BY DEF Read, Step, JobsType
<1>3. ASSUME j = error, OneAtATime, Progress(j) PROVE Progress(j)'
  BY <1>2, <1>3 DEF Read, SerialInvariant, ServerType, History, Progress, Parsed, Shown, OneAtATime, others
<1> QED BY <1>1, <1>2, <1>3, UpdateSerial DEF Read, SerialInvariant, ServerType, Updating, Started, others

LEMMA ParseSerial == ASSUME JobsType, SerialInvariant, NEW j \in Jobs, Parse(j) PROVE SerialInvariant'
<1>1. ServerType'
  BY DEF Parse, SerialInvariant, ServerType, others
<1>2. pc[j] = "parse" /\ pc'[j] = "extend" /\ Step(j, "parse", "extend")
  BY DEF Parse, Step, JobsType
<1>3. ASSUME j = error, OneAtATime, Progress(j) PROVE Progress(j)'
  BY <1>2, <1>3 DEF Parse, SerialInvariant, ServerType, History, Progress, Parsed, Shown, OneAtATime, others
<1> QED BY <1>1, <1>2, <1>3, UpdateSerial DEF Parse, SerialInvariant, ServerType, Updating, Started, others

LEMMA ExtendSerial == ASSUME JobsType, SerialInvariant, NEW j \in Jobs, Extend(j) PROVE SerialInvariant'
<1>1. ServerType'
  BY ErrorTypes DEF Extend, SerialInvariant, ServerType, others, ErrorLists
<1>2. pc[j] = "extend" /\ pc'[j] = "publish" /\ Step(j, "extend", "publish")
  BY DEF Extend, Step, JobsType
<1>3. ASSUME j = error, OneAtATime, Progress(j) PROVE Progress(j)'
  BY <1>2, <1>3 DEF Extend, SerialInvariant, ServerType, History, Progress, Parsed, Shown, OneAtATime, others
<1> QED BY <1>1, <1>2, <1>3, UpdateSerial DEF Extend, SerialInvariant, ServerType, Updating, Started, others

LEMMA PublishSerial == ASSUME JobsType, SerialInvariant, NEW j \in Jobs, Publish(j) PROVE SerialInvariant'
<1>1. ServerType'
  <2>1. error \in Jobs
    BY DEF Publish, Step, SerialInvariant, ServerType, History, Started, Updating
  <2> QED BY <2>1 DEF Publish, SerialInvariant, ServerType, others
<1>2. pc[j] = "publish" /\ pc'[j] = "send" /\ Step(j, "publish", "send")
  BY DEF Publish, Step, JobsType
<1>3. ASSUME j = error, OneAtATime, Progress(j) PROVE Progress(j)'
  BY <1>2, <1>3 DEF Publish, SerialInvariant, ServerType, History, Progress, Parsed, Shown, OneAtATime, others
<1> QED BY <1>1, <1>2, <1>3, UpdateSerial DEF Publish, SerialInvariant, ServerType, Updating, Started, others

LEMMA SendSerial == ASSUME JobsType, SerialInvariant, NEW j \in Jobs, Send(j) PROVE SerialInvariant'
<1>1. ServerType'
  BY DEF Send, SerialInvariant, ServerType, others
<1>2. pc[j] = "send" /\ pc'[j] = "reset" /\ Step(j, "send", "reset")
  BY DEF Send, Step, JobsType
<1>3. ASSUME j = error, OneAtATime, Progress(j) PROVE Progress(j)'
  <2>1. pc[j] \in Parsed /\ pc'[j] \in Parsed /\ pc'[j] = "reset"
    BY <1>2 DEF Parsed
  <2>2. snapshot[j] = entries[j] /\ entries[j] = UpdateError(seen[j]) /\ state <= seen[j]
    BY <1>2, <1>3, <2>1 DEF Progress
  <2>3. UNCHANGED <<entries, seen, state>>
    BY DEF Send
  <2>4. entries'[j] = {} \/ diagnostics' = entries'[j]
    BY <2>2, <2>3 DEF Send
  <2> QED BY <2>1, <2>2, <2>3, <2>4 DEF Progress
<1> QED BY <1>1, <1>2, <1>3, UpdateSerial DEF Send, SerialInvariant, ServerType, Updating, Started, others

LEMMA ResetSerial == ASSUME JobsType, SerialInvariant, NEW j \in Jobs, Reset(j) PROVE SerialInvariant'
<1>1. ServerType'
  <2>1. error \in Jobs
    BY DEF Reset, Step, SerialInvariant, ServerType, History, Started, Updating
  <2> QED BY <2>1 DEF Reset, SerialInvariant, ServerType, others
<1>2. pc[j] = "reset" /\ pc'[j] = "clear" /\ Step(j, "reset", "clear")
  BY DEF Reset, Step, JobsType
<1>3. ASSUME j = error, OneAtATime, Progress(j) PROVE Progress(j)'
  BY <1>2, <1>3 DEF Reset, SerialInvariant, ServerType, History, Progress, Parsed, Shown, OneAtATime, others
<1> QED BY <1>1, <1>2, <1>3, UpdateSerial DEF Reset, SerialInvariant, ServerType, Updating, Started, others

LEMMA ClearSerial == ASSUME JobsType, SerialInvariant, NEW j \in Jobs, Clear(j) PROVE SerialInvariant'
<1>1. ServerType'
  BY DEF Clear, SerialInvariant, ServerType, others
<1>2. pc[j] = "clear" /\ pc'[j] = "store" /\ Step(j, "clear", "store")
  BY DEF Clear, Step, JobsType
<1>3. ASSUME j = error, OneAtATime, Progress(j) PROVE Progress(j)'
  BY <1>2, <1>3 DEF Clear, SerialInvariant, ServerType, History, Progress, Parsed, Shown, OneAtATime, others
<1> QED BY <1>1, <1>2, <1>3, UpdateSerial DEF Clear, SerialInvariant, ServerType, Updating, Started, others

LEMMA StoreSerial == ASSUME JobsType, SerialInvariant, NEW j \in Jobs, Store(j) PROVE SerialInvariant'
<1>1. ServerType'
  BY DEF Store, SerialInvariant, ServerType
<1>2. pc[j] = "store" /\ pc'[j] = "done" /\ Step(j, "store", "done")
  BY DEF Store, Step, JobsType
<1>3. ASSUME j = error, OneAtATime, Progress(j) PROVE Progress(j)'
  BY <1>2, <1>3 DEF Store, SerialInvariant, ServerType, History, Progress, Parsed, Shown, OneAtATime
<1> QED BY <1>1, <1>2, <1>3, UpdateSerial DEF Store, SerialInvariant, ServerType, Updating, Started

(* An update begins with an empty list; it overlaps unless nothing else is under way. *)
LEMMA BeginSerial == ASSUME JobsType, SerialInvariant, NEW j \in Jobs, Begin(j) PROVE SerialInvariant'
<1>1. /\ pc \in [Jobs -> Labels] /\ pc[j] = "begin" /\ pc'[j] = "read" /\ error' = j
      /\ \A i \in Jobs : i # j => pc'[i] = pc[i]
      /\ UNCHANGED <<text, vpc, target, state, seen, entries, snapshot, model, diagnostics>>
  BY DEF Begin, Step, JobsType
<1>2. ServerType'
  BY <1>1 DEF Begin, SerialInvariant, ServerType
<1>3. pc[j] \notin Started /\ pc'[j] \in Started /\ pc[j] # "done" /\ j # 0
  BY <1>1 DEF Started, Updating, Jobs
<1>4. entries[j] = {} /\ vpc[j] = "none"
  BY <1>3 DEF SerialInvariant, History
<1>5. History'
  BY <1>1, <1>3, <1>4 DEF SerialInvariant, ServerType, History
<1>6. ASSUME ~overlapped' PROVE OneAtATime' /\ Progress(error)'
  <2>1. Alone(j)
    BY <1>6 DEF Begin, SerialInvariant, ServerType
  <2>2. \A i \in Jobs : pc'[i] \in Updating \ {"begin"} => i = j
    BY <1>1, <2>1 DEF Alone
  <2>3. \A i \in Jobs : vpc'[i] \notin Verifying
    BY <1>1, <1>4, <2>1 DEF Alone, Verifying
  <2>4. OneAtATime'
    BY <1>1, <1>3, <2>2, <2>3 DEF OneAtATime
  <2>5. Progress(j)'
    BY <1>1, <1>4 DEF Progress, Parsed
  <2> QED BY <1>1, <2>4, <2>5
<1> QED BY <1>2, <1>5, <1>6 DEF SerialInvariant

(* A verification that starts alone takes the model of the latest update. *)
LEMMA VerifySerial == ASSUME JobsType, SerialInvariant, NEW j \in Jobs, Verify(j) PROVE SerialInvariant'
<1>1. /\ vpc[j] = "queued" /\ vpc'[j] = "extend" /\ target'[j] = model
      /\ \A i \in Jobs : i # j => vpc'[i] = vpc[i] /\ target'[i] = target[i]
      /\ UNCHANGED <<text, pc, state, seen, error, entries, snapshot, model, diagnostics>>
  BY DEF Verify, VerifyStep, SerialInvariant, ServerType, unverified
<1>2. ServerType'
  BY <1>1 DEF Verify, VerifyStep, SerialInvariant, ServerType, Verifying
<1>3. History'
  BY <1>1 DEF SerialInvariant, ServerType, History
<1>4. ASSUME ~overlapped' PROVE OneAtATime' /\ (error' # 0 => Progress(error)')
  <2>1. Alone(j) /\ ~overlapped
    BY <1>4 DEF Verify, SerialInvariant, ServerType
  <2>2. OneAtATime /\ (error # 0 => Progress(error))
    BY <2>1 DEF SerialInvariant
  <2>3. pc[j] = "done" /\ error # 0 /\ error \in Jobs
    BY <1>1 DEF SerialInvariant, ServerType, History, Started
  <2>4. \A i \in Jobs : pc[i] \notin Updating \ {"begin"}
    BY <2>1, <2>3 DEF Alone, Updating
  <2>5. pc[error] = "done" /\ model = error
    BY <2>2, <2>3, <2>4 DEF SerialInvariant, History, Started, Progress
  <2>6. \A i \in Jobs : vpc'[i] \in Verifying => i = j
    BY <1>1, <2>1 DEF Alone
  <2>7. OneAtATime'
    BY <1>1, <2>2, <2>3, <2>5, <2>6 DEF OneAtATime
  <2>8. Progress(error)'
    BY <1>1, <2>2, <2>3 DEF Progress, Shown
  <2> QED BY <2>7, <2>8
<1> QED BY <1>2, <1>3, <1>4 DEF SerialInvariant

(* A step of a verification that has started changes the list in use, a snapshot and the
   diagnostics only; alone, it shows errors of the verified text only.                 *)
LEMMA VerifyingSerial ==
    ASSUME JobsType, SerialInvariant, ServerType', NEW j \in Jobs,
           NEW from \in Verifying, NEW to \in Verifying \cup {"done"}, VerifyStep(j, from, to),
           UNCHANGED <<unverified, overlapped, target>>,
           \A i \in Jobs : entries'[i] = entries[i] \/ i = error,
           target[j] = error /\ error \in Jobs /\ Progress(error) /\ pc[error] = "done" =>
               /\ Shown(entries'[error], seen[error])
               /\ from = "send" => (snapshot[j] = entries[error] => Shown(diagnostics', seen[error]))
               /\ from # "send" => diagnostics' = diagnostics
               /\ to = "send" => snapshot'[j] = entries'[error]
    PROVE  SerialInvariant'
<1>1. /\ vpc[j] = from /\ vpc'[j] = to /\ \A i \in Jobs : i # j => vpc'[i] = vpc[i]
      /\ UNCHANGED <<text, pc, state, seen, error, model, target, overlapped>>
  BY DEF VerifyStep, SerialInvariant, ServerType, unverified
<1>2. from # "none" /\ pc[j] = "done" /\ error # 0 /\ error \in Jobs
  BY <1>1 DEF SerialInvariant, ServerType, History, Started, Verifying
<1>3. History'
  BY <1>1, <1>2 DEF SerialInvariant, ServerType, History
<1>4. ASSUME ~overlapped' PROVE OneAtATime' /\ Progress(error)'
  <2>1. OneAtATime /\ Progress(error)
    BY <1>1, <1>2, <1>4 DEF SerialInvariant
  <2>2. /\ pc[error] = "done" /\ target[j] = error
        /\ from = "send" => snapshot[j] = entries[error]
        /\ \A i \in Jobs : vpc[i] \in Verifying => i = j
    BY <1>1, <2>1 DEF OneAtATime
  <2>3. /\ Shown(entries'[error], seen[error]) /\ Shown(diagnostics', seen[error])
        /\ to = "send" => snapshot'[j] = entries'[error]
    BY <1>2, <2>1, <2>2 DEF Progress
  <2>4. \A i \in Jobs : vpc'[i] \in Verifying => i = j
    BY <1>1, <2>2
  <2>5. OneAtATime'
    BY <1>1, <1>2, <2>1, <2>2, <2>3, <2>4 DEF OneAtATime
  <2>6. Progress(error)'
    BY <1>1, <2>1, <2>2, <2>3 DEF Progress, Parsed
  <2> QED BY <2>5, <2>6
<1> QED BY <1>3, <1>4 DEF SerialInvariant

LEMMA VerifyExtendSerial ==
    ASSUME JobsType, SerialInvariant, NEW j \in Jobs, VerifyExtend(j) PROVE SerialInvariant'
<1>1. error \in Jobs /\ seen[error] \in Nat
  BY DEF VerifyExtend, VerifyStep, SerialInvariant, ServerType, History, Started
<1> DEFINE v == seen[target[j]]
<1>2. ServerType'
  <2>1. UpdateError(v) \in ErrorLists /\ VerifyError(v) \in ErrorLists
    BY ErrorTypes
  <2>2. entries' \in [Jobs -> ErrorLists]
    BY <2>1 DEF VerifyExtend, SerialInvariant, ServerType, ErrorLists
  <2> QED BY <2>2 DEF VerifyExtend, VerifyStep, SerialInvariant, ServerType, unverified, Verifying
<1>3. \A i \in Jobs : entries'[i] = entries[i] \/ i = error
  BY DEF VerifyExtend, SerialInvariant, ServerType
<1>4. ASSUME target[j] = error, Progress(error), pc[error] = "done"
      PROVE  Shown(entries'[error], seen[error])
  <2>1. entries'[error] = entries[error] \cup UpdateError(seen[error]) \cup VerifyError(seen[error])
    BY <1>1, <1>4 DEF VerifyExtend, SerialInvariant, ServerType
  <2> QED BY <1>4, <2>1 DEF Progress, Shown
<1> QED BY <1>2, <1>3, <1>4, VerifyingSerial DEF VerifyExtend, Verifying

LEMMA VerifyPublishSerial ==
    ASSUME JobsType, SerialInvariant, NEW j \in Jobs, VerifyPublish(j) PROVE SerialInvariant'
<1>1. error \in Jobs
  BY DEF VerifyPublish, VerifyStep, SerialInvariant, ServerType, History, Started
<1>2. ServerType' /\ snapshot'[j] = entries[error]
  BY <1>1 DEF VerifyPublish, VerifyStep, SerialInvariant, ServerType, unverified, Verifying
<1> QED BY <1>2, VerifyingSerial DEF VerifyPublish, Verifying, Progress

LEMMA VerifySendSerial ==
    ASSUME JobsType, SerialInvariant, NEW j \in Jobs, VerifySend(j) PROVE SerialInvariant'
<1>1. ServerType'
  BY DEF VerifySend, VerifyStep, SerialInvariant, ServerType, unverified, Verifying
<1> QED BY <1>1, VerifyingSerial DEF VerifySend, Verifying, Progress

(* Every step keeps the invariant. *)
LEMMA SerialStep ==
    ASSUME TimerInvariant, SerialInvariant, [Next]_vars PROVE SerialInvariant'
<1> JobsType
  BY DEF TimerInvariant
<1>1. CASE DidOpen
  <2>1. jobs + 1 \in Jobs /\ pc[jobs + 1] = "none"
    BY <1>1, NewJob DEF DidOpen
  <2>2. \A j \in Jobs : pc'[j] = pc[j] \/ (pc[j] \notin Started /\ pc'[j] \notin Started)
    BY <1>1, <2>1 DEF DidOpen, JobsType, Started, Updating
  <2>3. text' \in Nat /\ text' >= text
    BY <1>1 DEF DidOpen, SerialInvariant, ServerType
  <2> QED BY <1>1, <2>2, <2>3, QuietStep DEF DidOpen, Notification, Unread
<1>2. ASSUME NEW k \in Debounced, Notification(k), Debounce(k, jobs + 1)
      PROVE  \A j \in Jobs : pc'[j] = pc[j] \/ (pc[j] \notin Started /\ pc'[j] \notin Started)
  <2>1. pc[jobs + 1] = "none"
    BY <1>2, NewJob
  <2> QED BY <1>2, <2>1 DEF Debounce, Started, Updating
<1>3. CASE DidChange
  <2>1. text' \in Nat /\ text' >= text
    BY <1>3 DEF DidChange, SerialInvariant, ServerType
  <2> QED BY <1>2, <1>3, <2>1, QuietStep DEF DidChange, Notification, Debounced, Unread
<1>4. CASE DidSave
  <2>1. text' \in Nat /\ text' >= text
    BY <1>4 DEF DidSave, SerialInvariant, ServerType
  <2> QED BY <1>2, <1>4, <2>1, QuietStep DEF DidSave, Notification, Debounced, Unread
<1>5. ASSUME NEW j \in Jobs, Fire(j) \/ Run(j) PROVE SerialInvariant'
  <2>1. text' \in Nat /\ text' >= text
    BY <1>5 DEF Fire, Run, SerialInvariant, ServerType
  <2>2. \A i \in Jobs : pc'[i] = pc[i] \/ (pc[i] \notin Started /\ pc'[i] \notin Started)
    BY <1>5 DEF Fire, Run, JobsType, Started, Updating
  <2>3. UNCHANGED Unread
    BY <1>5 DEF Fire, Run, update, Unread
  <2> QED BY <2>1, <2>2, <2>3, QuietStep
<1>6. ASSUME NEW j \in Jobs, JobStep(j) PROVE SerialInvariant'
  BY <1>5, <1>6, BeginSerial, ReadSerial, ParseSerial, ExtendSerial, PublishSerial, SendSerial,
     ResetSerial, ClearSerial, StoreSerial DEF JobStep
<1>7. ASSUME NEW j \in Jobs, VerificationStep(j) PROVE SerialInvariant'
  BY <1>7, VerifySerial, VerifyExtendSerial, VerifyPublishSerial, VerifySendSerial DEF VerificationStep
<1>8. CASE UNCHANGED vars
  <2>1. UNCHANGED Unread /\ text' = text /\ pc' = pc
    BY <1>8 DEF vars, update, Unread
  <2> QED BY <2>1, QuietStep DEF SerialInvariant, ServerType
<1> QED BY <1>1, <1>3, <1>4, <1>6, <1>7, <1>8 DEF Next

(* For any number of edits, saves and jobs: once everything has come to rest and no two
   jobs have overlapped, the model is the one of the current text, and the client shows
   its errors and no others.                                                          *)
THEOREM SerialJobsConsistent == Spec => []SerialConsistent
<1>1. Init => TimerInvariant /\ SerialInvariant
  <2> SUFFICES ASSUME Init PROVE TimerInvariant /\ SerialInvariant
    OBVIOUS
  <2>1. JobsType
    BY LanguageServerAssumption DEF Init, JobsType, Labels, Debounced, Jobs
  <2>2. TimersRegistered /\ EditPending
    BY DEF Init, TimersRegistered, EditPending
  <2>3. ServerType
    BY DEF Init, ServerType, ErrorLists
  <2>4. History
    BY DEF Init, History, Started, Updating
  <2>5. OneAtATime /\ error = 0
    BY DEF Init, OneAtATime, Updating, Verifying
  <2> QED BY <2>1, <2>2, <2>3, <2>4, <2>5 DEF TimerInvariant, SerialInvariant
<1>2. TimerInvariant /\ SerialInvariant /\ [Next]_vars => (TimerInvariant /\ SerialInvariant)'
  BY TimerStep, SerialStep
<1>3. TimerInvariant /\ SerialInvariant => SerialConsistent
  <2> SUFFICES ASSUME TimerInvariant, SerialInvariant, AtRest, ~overlapped
               PROVE  ModelCurrent /\ DiagnosticsCurrent /\ DiagnosticsComplete
    BY DEF SerialConsistent
  <2>1. state = text
    BY DEF TimerInvariant, EditPending, AtRest
  <2>2. CASE error = 0
    BY <2>1, <2>2 DEF SerialInvariant, OneAtATime, ModelCurrent, DiagnosticsCurrent, DiagnosticsComplete
  <2>3. CASE error # 0
    <3>1. error \in Jobs /\ pc[error] = "done" /\ Progress(error)
      BY <2>3 DEF SerialInvariant, ServerType, History, AtRest, Started, Updating
    <3>2. model = error /\ state <= seen[error] /\ Shown(diagnostics, seen[error])
      BY <3>1 DEF Progress
    <3>3. seen[error] = text
      BY <2>1, <3>1, <3>2 DEF SerialInvariant, ServerType, History
    <3> QED BY <3>2, <3>3 DEF ModelCurrent, DiagnosticsCurrent, DiagnosticsComplete, Shown
  <2> QED BY <2>2, <2>3
<1> QED BY <1>1, <1>2, <1>3, PTL DEF Spec
=============================================================================
