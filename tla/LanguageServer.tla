--------------------------- MODULE LanguageServer ---------------------------
(***************************************************************************)
(* The language server (rflx/ls/server.py): what the event loop, the       *)
(* threads of debounced updates and the threads that verify do with the    *)
(* document state, the models, the list of errors and the diagnostics of   *)
(* one document.  Versions of its text are numbers.  A timer, the update   *)
(* it runs and the verification that the update submits share an index;    *)
(* job 0 is none.                                                          *)
(*                                                                         *)
(* RecordFluxLanguageServer._error is read anew wherever it is used: it    *)
(* may be the list of an update that has started since.                    *)
(***************************************************************************)
EXTENDS Integers, FiniteSets

CONSTANTS
    MaxJobs,        \* bound on the number of notifications
    MaxVersion,     \* bound on the number of versions of the text
    UpdateErrors,   \* versions with errors that parsing reports
    VerifyErrors    \* versions with errors that the verification reports

ASSUME LanguageServerAssumption ==
    /\ MaxJobs \in Nat /\ MaxVersion \in Nat \ {0}
    /\ UpdateErrors \cup VerifyErrors \subseteq 1 .. MaxVersion

Jobs == 1 .. MaxJobs
Versions == 1 .. MaxVersion
Debounced == {"change", "save"}   \* the two debounced functions, each with its own timers

VARIABLES
    text,         \* version of the document in the workspace, 0 before it is opened
    jobs,         \* number of jobs so far
    kind,         \* what has caused a job: "open", "change" or "save"
    pc,           \* the timer or update of a job
    vpc,          \* its verification
    timers,       \* timers[key] of each debounced function
    loop,         \* the job that the event loop executes itself
    state,        \* _document_state: version whose hash the latest update has taken
    seen,         \* version that the update of a job has parsed
    error,        \* _error: the job whose list it is
    entries,      \* the lists of errors, as sets
    snapshot,     \* entries that a thread is about to publish
    model,        \* _models: the job whose model it is
    target,       \* the model that a verification works on
    diagnostics,  \* what the client shows
    saved,        \* version at the latest notification that asks for a verification
    verified,     \* highest version whose verification has started
    overlapped    \* history: an update or verification started while another was running

update == <<kind, seen, error, entries, snapshot, model, overlapped>>
vars == <<text, jobs, pc, vpc, timers, loop, state, target, diagnostics, saved, verified, update>>

UpdateError(v) == {<<"update", v>> : w \in UpdateErrors \cap {v}}
VerifyError(v) == {<<"verify", v>> : w \in VerifyErrors \cap {v}}

Updating == {"begin", "read", "parse", "extend", "publish", "send", "reset", "clear", "store"}
Verifying == {"extend", "publish", "send"}

Init ==
    /\ text = 0 /\ jobs = 0 /\ loop = 0 /\ state = 0 /\ error = 0 /\ model = 0
    /\ kind = [j \in Jobs |-> "change"]
    /\ pc = [j \in Jobs |-> "none"]
    /\ vpc = [j \in Jobs |-> "none"]
    /\ timers = [k \in Debounced |-> 0]
    /\ seen = [j \in Jobs |-> 0]
    /\ entries = [j \in Jobs |-> {}]
    /\ snapshot = [j \in Jobs |-> {}]
    /\ target = [j \in Jobs |-> 0]
    /\ diagnostics = {} /\ saved = 0 /\ verified = 0 /\ overlapped = FALSE

-----------------------------------------------------------------------------
(* Notifications, handled by the event loop.                               *)

(* debounced(): the timer of an earlier call is cancelled unless it has fired. *)
(* Mutant: the new timer is started only if there was none. *)
DebounceMutant(k, j) ==
    /\ pc' = [i \in Jobs |->
                IF i = timers[k] /\ pc[i] = "armed" THEN "cancelled"
                ELSE IF i = j THEN (IF timers[k] = 0 THEN "armed" ELSE "cancelled")
                ELSE pc[i]]
    /\ timers' = [timers EXCEPT ![k] = j]
Debounce(k, j) ==
    /\ pc' = [i \in Jobs |->
                IF i = timers[k] /\ pc[i] = "armed" THEN "cancelled"
                ELSE IF i = j THEN "armed"
                ELSE pc[i]]
    /\ timers' = [timers EXCEPT ![k] = j]

Notification(k) ==
    /\ loop = 0 /\ jobs < MaxJobs
    /\ jobs' = jobs + 1
    /\ kind' = [kind EXCEPT ![jobs + 1] = k]
    /\ UNCHANGED overlapped

(* did_open updates within the event loop, if the text is not the one of the latest update. *)
DidOpen ==
    /\ Notification("open")
    /\ text' = IF text = 0 THEN 1 ELSE text
    /\ IF text' # state
       THEN /\ pc' = [pc EXCEPT ![jobs + 1] = "begin"]
            /\ loop' = jobs + 1
            /\ saved' = text'
       ELSE UNCHANGED <<pc, loop, saved>>
    /\ UNCHANGED <<vpc, timers, state, seen, error, entries, snapshot, model, target, diagnostics,
                   verified>>

DidChange ==
    /\ Notification("change")
    /\ text # 0 /\ text < MaxVersion
    /\ text' = text + 1
    /\ Debounce("change", jobs + 1)
    /\ UNCHANGED <<vpc, loop, state, seen, error, entries, snapshot, model, target, diagnostics,
                   saved, verified>>

DidSave ==
    /\ Notification("save")
    /\ text # 0
    /\ saved' = text
    /\ Debounce("save", jobs + 1)
    /\ UNCHANGED <<text, vpc, loop, state, seen, error, entries, snapshot, model, target,
                   diagnostics, verified>>

-----------------------------------------------------------------------------
(* Timers.                                                                 *)

Fire(j) ==
    /\ pc[j] = "armed"
    /\ pc' = [pc EXCEPT ![j] = "fired"]
    /\ UNCHANGED <<text, jobs, vpc, timers, loop, state, target, diagnostics, saved, verified, update>>

(* run(): deletes whatever entry there is.  Without an entry, del raises KeyError and
   the thread ends.                                                                *)
Run(j) ==
    /\ pc[j] = "fired"
    /\ pc' = [pc EXCEPT ![j] = IF timers[kind[j]] = 0 THEN "keyerror" ELSE "begin"]
    /\ timers' = [timers EXCEPT ![kind[j]] = 0]
    /\ UNCHANGED <<text, jobs, vpc, loop, state, target, diagnostics, saved, verified, update>>

-----------------------------------------------------------------------------
(* update(), one action for each access to shared state.                   *)

(* No other update or verification is under way. *)
Alone(j) ==
    \A i \in Jobs \ {j} : pc[i] \notin Updating \ {"begin"} /\ vpc[i] \notin Verifying

Step(j, from, to) == pc[j] = from /\ pc' = [pc EXCEPT ![j] = to]
others == <<text, jobs, vpc, timers, target, saved, verified, kind, overlapped>>

Begin(j) ==
    /\ Step(j, "begin", "read")
    /\ error' = j
    /\ overlapped' = (overlapped \/ ~Alone(j))
    /\ UNCHANGED <<text, jobs, vpc, timers, target, saved, verified, kind, loop,
                   state, seen, entries, snapshot, model, diagnostics>>

(* The text is read twice, for its hash and for the parser. *)
Read(j) ==
    /\ Step(j, "read", "parse")
    /\ state' = text
    /\ UNCHANGED <<others, loop, seen, error, entries, snapshot, model, diagnostics>>
Parse(j) ==
    /\ Step(j, "parse", "extend")
    /\ seen' = [seen EXCEPT ![j] = text]
    /\ UNCHANGED <<others, loop, state, error, entries, snapshot, model, diagnostics>>

Extend(j) ==
    /\ Step(j, "extend", "publish")
    /\ entries' = [entries EXCEPT ![error] = @ \cup UpdateError(seen[j])]
    /\ UNCHANGED <<others, loop, state, seen, error, snapshot, model, diagnostics>>

(* _publish_errors_as_diagnostics collects the entries of the file and sends them if
   there are any.                                                                  *)
Publish(j) ==
    /\ Step(j, "publish", "send")
    /\ snapshot' = [snapshot EXCEPT ![j] = entries[error]]
    /\ UNCHANGED <<others, loop, state, seen, error, entries, model, diagnostics>>
Send(j) ==
    /\ Step(j, "send", "reset")
    /\ diagnostics' = IF snapshot[j] # {} THEN snapshot[j] ELSE diagnostics
    /\ UNCHANGED <<others, loop, state, seen, error, entries, snapshot, model>>

(* _reset_diagnostics clears the diagnostics of a file without entries. *)
Reset(j) ==
    /\ Step(j, "reset", "clear")
    /\ snapshot' = [snapshot EXCEPT ![j] = entries[error]]
    /\ UNCHANGED <<others, loop, state, seen, error, entries, model, diagnostics>>
(* Mutant: clears the diagnostics of all files. *)
ClearMutant(j) ==
    /\ Step(j, "clear", "store")
    /\ diagnostics' = {}
    /\ UNCHANGED <<others, loop, state, seen, error, entries, snapshot, model>>
Clear(j) ==
    /\ Step(j, "clear", "store")
    /\ diagnostics' = IF snapshot[j] = {} THEN {} ELSE diagnostics
    /\ UNCHANGED <<others, loop, state, seen, error, entries, snapshot, model>>

(* The end of update() and of its caller, which submits the verification. *)
(* Mutant: an existing model is kept. *)
StoreMutant(j) ==
    /\ Step(j, "store", "done")
    /\ model' = IF model = 0 THEN j ELSE model
    /\ vpc' = IF kind[j] = "change" THEN vpc ELSE [vpc EXCEPT ![j] = "queued"]
    /\ loop' = IF loop = j THEN 0 ELSE loop
    /\ UNCHANGED <<text, jobs, timers, target, saved, verified, kind, state, seen, error, entries,
                   snapshot, diagnostics, overlapped>>
Store(j) ==
    /\ Step(j, "store", "done")
    /\ model' = j
    /\ vpc' = IF kind[j] = "change" THEN vpc ELSE [vpc EXCEPT ![j] = "queued"]
    /\ loop' = IF loop = j THEN 0 ELSE loop
    /\ UNCHANGED <<text, jobs, timers, target, saved, verified, kind, state, seen, error, entries,
                   snapshot, diagnostics, overlapped>>

-----------------------------------------------------------------------------
(* verify() in a thread of the pool.                                       *)

VerifyStep(j, from, to) == vpc[j] = from /\ vpc' = [vpc EXCEPT ![j] = to]
unverified == <<text, jobs, pc, timers, loop, state, kind, seen, error, model, saved>>

Verify(j) ==
    /\ VerifyStep(j, "queued", "extend")
    /\ overlapped' = (overlapped \/ ~Alone(j))
    /\ target' = [target EXCEPT ![j] = model]
    /\ verified' = IF seen[model] > verified THEN seen[model] ELSE verified
    /\ UNCHANGED <<unverified, entries, snapshot, diagnostics>>

VerifyExtend(j) ==
    /\ VerifyStep(j, "extend", "publish")
    /\ LET v == seen[target[j]]
       IN  entries' = [entries EXCEPT ![error] = @ \cup UpdateError(v) \cup VerifyError(v)]
    /\ UNCHANGED <<unverified, overlapped, target, verified, snapshot, diagnostics>>

VerifyPublish(j) ==
    /\ VerifyStep(j, "publish", "send")
    /\ snapshot' = [snapshot EXCEPT ![j] = entries[error]]
    /\ UNCHANGED <<unverified, overlapped, target, verified, entries, diagnostics>>

VerifySend(j) ==
    /\ VerifyStep(j, "send", "done")
    /\ diagnostics' = IF snapshot[j] # {} THEN snapshot[j] ELSE diagnostics
    /\ UNCHANGED <<unverified, overlapped, target, verified, entries, snapshot>>

-----------------------------------------------------------------------------
JobStep(j) ==
    \/ Fire(j) \/ Run(j)
    \/ Begin(j) \/ Read(j) \/ Parse(j) \/ Extend(j) \/ Publish(j) \/ Send(j)
    \/ Reset(j) \/ Clear(j) \/ Store(j)
VerificationStep(j) == Verify(j) \/ VerifyExtend(j) \/ VerifyPublish(j) \/ VerifySend(j)

Next ==
    \/ DidOpen \/ DidChange \/ DidSave
    \/ \E j \in Jobs : JobStep(j) \/ VerificationStep(j)

(* Timers expire and threads are scheduled; the client need not send anything. *)
Spec ==
    /\ Init /\ [][Next]_vars
    /\ \A j \in Jobs : WF_vars(JobStep(j)) /\ WF_vars(VerificationStep(j))

-----------------------------------------------------------------------------
AtRest ==
    \A j \in Jobs :
        /\ pc[j] \in {"none", "cancelled", "keyerror", "done"}
        /\ vpc[j] \in {"none", "done"}

(* Debouncing and the race between a timer that fires and one that replaces it never
   lose an edit: some update reads a text that contains it, although the thread of a
   timer whose entry another one has deleted ends without doing anything.            *)
EditsServed == \A v \in Versions : text = v ~> state >= v

(* An edit that no update has read yet is not forgotten: an update is about to read the
   text, or a timer is registered whose run will not end with KeyError.             *)
EditPending ==
    \/ state = text
    \/ \E j \in Jobs : pc[j] \in {"begin", "read"}
    \/ \E j \in Jobs : pc[j] \in {"armed", "fired"} /\ timers[kind[j]] = j

(* A notification that asks for a verification is followed by the verification of a
   text at least as recent, unless updates or verifications overlap.                *)
SavesVerified == \A v \in Versions : saved = v ~> verified >= v \/ overlapped

ModelCurrent == model # 0 => seen[model] = text
DiagnosticsCurrent == diagnostics \subseteq UpdateError(text) \cup VerifyError(text)

DiagnosticsComplete == text # 0 => UpdateError(text) \subseteq diagnostics

(* When all jobs are done and no two of them have overlapped, the model is that of the
   current text and the client shows the errors of that text only, at least all that
   parsing reports: whatever edits arrived while an update or a verification was
   running, nothing of an older text is left behind.                                 *)
SerialConsistent ==
    AtRest /\ ~overlapped => ModelCurrent /\ DiagnosticsCurrent /\ DiagnosticsComplete
=============================================================================
