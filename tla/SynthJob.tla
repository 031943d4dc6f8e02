------------------------------ MODULE SynthJob ------------------------------
(***************************************************************************)
(* One job of teacher/synth.py: a thread that sends prompts to a teacher,  *)
(* a few at a time, and keeps the answers; and the requests of             *)
(* routes/teacher_routes.py that start, resume, stop and delete it.        *)
(***************************************************************************)
EXTENDS Naturals, Sequences, FiniteSets

CONSTANTS
  Posters,           \* request threads
  Asked,             \* the prompts of the job
  Answers,           \* the near-duplicate classes of a teacher's answers
  Gated,             \* those that is_json_valid or is_length_ok refuses
  NoAnswer,
  Workers,           \* max_concurrency
  Streak,            \* FAILURE_ABORT_STREAK
  FlushEvery,        \* STATE_FLUSH_EVERY
  Warmup, RateTenths,  \* FAILURE_RATE_WARMUP, ten times FAILURE_RATE_ABORT
  OverlapResumes,    \* may two requests for the job overlap
  MaxResumes, MaxSynthCrashes, MaxRefusals  \* bounds

JobRuns == 1 .. MaxResumes

ASSUME SynthAssumption ==
  /\ {Workers, Streak, FlushEvery, Warmup, RateTenths, MaxResumes, MaxSynthCrashes, MaxRefusals} \subseteq Nat
  /\ Workers > 0 /\ Streak > 0 /\ FlushEvery > 0 /\ OverlapResumes \in BOOLEAN
  /\ Answers \cap {NoAnswer, "no", "call", "bad"} = {}
  /\ Gated \subseteq Answers /\ IsFiniteSet(Asked)

VARIABLES
  samples,        \* samples.jsonl: rows of an id and an answer
  cached,         \* cache.sqlite: the answer of each prompt
  leftOnDisk,     \* "remaining" in state.json
  job,            \* the run registered in _JOBS, or 0
  runPc,            \* each run: "off", "run", "closing", "end"
  queueOf,        \* its prompts not yet submitted
  flight,         \* what it has in flight: "call", then "bad" or the answer
  batch,          \* the futures wait() has returned, not yet looked at
  remaining, failed, kept, streak, processed,  \* as in run()
  stopped,        \* its _stop event
  callPc,            \* where each request is
  runs, synthCrashes, refusals  \* counts

diskS == <<samples, cached, leftOnDisk>>
runS == <<queueOf, flight, batch, remaining, failed, kept, streak, processed, stopped>>
synthVars == <<diskS, job, runPc, runS, callPc, runs, synthCrashes, refusals>>

Done == {samples[i].id : i \in 1 .. Len(samples)}
InFlight(r) == {p \in Asked : flight[r][p] # "no"}
RunAlive(r) == r # 0 /\ runPc[r] \in {"open", "run", "closing"}

SynthInit ==
  /\ samples = <<>> /\ cached = [p \in Asked |-> NoAnswer] /\ leftOnDisk = {} /\ job = 0
  /\ runPc = [r \in JobRuns |-> "off"]
  /\ queueOf = [r \in JobRuns |-> {}] /\ flight = [r \in JobRuns |-> [p \in Asked |-> "no"]]
  /\ batch = [r \in JobRuns |-> {}] /\ remaining = [r \in JobRuns |-> {}]
  /\ failed = [r \in JobRuns |-> {}] /\ kept = [r \in JobRuns |-> {}]
  /\ streak = [r \in JobRuns |-> 0] /\ processed = [r \in JobRuns |-> 0]
  /\ stopped = [r \in JobRuns |-> FALSE]
  /\ callPc = [t \in Posters |-> "idle"]
  /\ runs = 0 /\ synthCrashes = 0 /\ refusals = 0

----------------------------------------------------------------------------
(* The requests.                                                           *)

MayCall(t) == callPc[t] = "idle" /\ (OverlapResumes \/ \A u \in Posters : callPc[u] = "idle")
Step(t, pc) == callPc' = [callPc EXCEPT ![t] = pc]

\* A running job is refused; the job is built and registered further on.
ResumeLooks(t) ==
  /\ MayCall(t) /\ ~RunAlive(job) /\ runs < MaxResumes /\ Step(t, "register")
  /\ UNCHANGED <<diskS, job, runPc, runS, runs, synthCrashes, refusals>>

ResumeRegisters(t) ==
  /\ callPc[t] = "register" /\ runs < MaxResumes
  /\ runs' = runs + 1 /\ job' = runs' /\ runPc' = [runPc EXCEPT ![runs'] = "open"]
  /\ Step(t, "idle")
  /\ UNCHANGED <<diskS, runS, synthCrashes, refusals>>

StopJob(t) ==
  /\ MayCall(t) /\ job # 0
  /\ stopped' = [stopped EXCEPT ![job] = TRUE]
  /\ UNCHANGED <<diskS, job, runPc, queueOf, flight, batch, remaining, failed, kept, streak, processed,
                 callPc, runs, synthCrashes, refusals>>

DeleteLooks(t) ==
  /\ MayCall(t) /\ ~RunAlive(job) /\ Step(t, "delete")
  /\ UNCHANGED <<diskS, job, runPc, runS, runs, synthCrashes, refusals>>

DeleteRemoves(t) ==
  /\ callPc[t] = "delete" /\ Step(t, "forget")
  /\ samples' = <<>> /\ cached' = [p \in Asked |-> NoAnswer] /\ leftOnDisk' = {}
  /\ UNCHANGED <<job, runPc, runS, runs, synthCrashes, refusals>>

DeleteForgets(t) ==
  /\ callPc[t] = "forget" /\ job' = 0 /\ Step(t, "idle")
  /\ UNCHANGED <<diskS, runPc, runS, runs, synthCrashes, refusals>>

----------------------------------------------------------------------------
(* The run.  Its first step reads what is done already.                    *)

OpenForgets(r) ==
  /\ runPc[r] = "open" /\ runPc' = [runPc EXCEPT ![r] = "run"]
  /\ queueOf' = [queueOf EXCEPT ![r] = Asked] /\ remaining' = [remaining EXCEPT ![r] = Asked]
  /\ UNCHANGED <<diskS, job, flight, batch, failed, kept, streak, processed, stopped,
                 callPc, runs, synthCrashes, refusals>>

Opens(r) ==
  /\ runPc[r] = "open" /\ runPc' = [runPc EXCEPT ![r] = "run"]
  /\ queueOf' = [queueOf EXCEPT ![r] = Asked \ Done]
  /\ remaining' = [remaining EXCEPT ![r] = Asked \ Done]
  /\ UNCHANGED <<diskS, job, flight, batch, failed, kept, streak, processed, stopped,
                 callPc, runs, synthCrashes, refusals>>

\* What is in the cache needs no call.
Submits(r, p) ==
  /\ runPc[r] = "run" /\ batch[r] = {} /\ ~stopped[r] /\ p \in queueOf[r]
  /\ Cardinality(InFlight(r)) < Workers
  /\ queueOf' = [queueOf EXCEPT ![r] = @ \ {p}]
  /\ flight' = [flight EXCEPT ![r][p] = IF cached[p] = NoAnswer THEN "call" ELSE cached[p]]
  /\ UNCHANGED <<diskS, job, runPc, batch, remaining, failed, kept, streak, processed, stopped,
                 callPc, runs, synthCrashes, refusals>>

\* A worker's call ends.  Its answer goes into the cache while that is open: a
\* call still out when the run ends is paid for and forgotten.
Answered(r, p) ==
  /\ flight[r][p] = "call" /\ runPc[r] \in {"run", "closing"}
  /\ \E a \in Answers : /\ cached' = [cached EXCEPT ![p] = a]
                        /\ flight' = [flight EXCEPT ![r][p] = a]
  /\ UNCHANGED <<samples, leftOnDisk, job, runPc, queueOf, batch, remaining, failed, kept, streak,
                 processed, stopped, callPc, runs, synthCrashes, refusals>>

Refused(r, p) ==
  /\ flight[r][p] = "call" /\ runPc[r] \in {"run", "closing"}
  /\ refusals < MaxRefusals /\ refusals' = refusals + 1
  /\ flight' = [flight EXCEPT ![r][p] = "bad"]
  /\ UNCHANGED <<diskS, job, runPc, queueOf, batch, remaining, failed, kept, streak,
                 processed, stopped, callPc, runs, synthCrashes>>

Full(r) == queueOf[r] = {} \/ Cardinality(InFlight(r)) = Workers \/ stopped[r]

\* wait(): at least one future is done, and all that are done are taken.
Waits(r) ==
  /\ runPc[r] = "run" /\ batch[r] = {} /\ Full(r)
  /\ LET ended == {p \in Asked : flight[r][p] \in Answers \cup {"bad"}}
     IN  ended # {} /\ batch' = [batch EXCEPT ![r] = ended]
  /\ UNCHANGED <<diskS, job, runPc, queueOf, flight, remaining, failed, kept, streak,
                 processed, stopped, callPc, runs, synthCrashes, refusals>>

Handled(r, p) ==
  /\ p \in batch[r] /\ batch' = [batch EXCEPT ![r] = @ \ {p}]
  /\ flight' = [flight EXCEPT ![r][p] = "no"]
  /\ remaining' = [remaining EXCEPT ![r] = @ \ {p}]
  /\ processed' = [processed EXCEPT ![r] = @ + 1]
  /\ UNCHANGED <<cached, job, runPc, queueOf, callPc, runs, synthCrashes, refusals>>

\* record_ok: a near-duplicate of what this run has kept is skipped.
Keeps(r, p) ==
  /\ Handled(r, p) /\ flight[r][p] \in Answers \ Gated
  /\ IF flight[r][p] \in kept[r] THEN UNCHANGED <<samples, kept>>
     ELSE /\ samples' = Append(samples, [id |-> p, answer |-> flight[r][p]])
          /\ kept' = [kept EXCEPT ![r] = @ \cup {flight[r][p]}]
  /\ streak' = [streak EXCEPT ![r] = 0]
  /\ leftOnDisk' = IF processed'[r] % FlushEvery = 0 THEN remaining'[r] ELSE leftOnDisk
  /\ UNCHANGED <<failed, stopped>>

TooMany(s, f, n) == s >= Streak \/ (n >= Warmup /\ 10 * f >= RateTenths * n)

\* Mutant: a failure is not listed.
FailsUnlisted(r, p) ==
  /\ Handled(r, p) /\ flight[r][p] \in Gated \cup {"bad"}
  /\ streak' = [streak EXCEPT ![r] = @ + 1]
  /\ stopped' = [stopped EXCEPT ![r] = @ \/ streak[r] + 1 >= Streak]
  /\ UNCHANGED <<samples, leftOnDisk, kept, failed>>

\* record_failure, and maybe_abort after it.
Fails(r, p) ==
  /\ Handled(r, p) /\ flight[r][p] \in Gated \cup {"bad"}
  /\ failed' = [failed EXCEPT ![r] = @ \cup {p}] /\ streak' = [streak EXCEPT ![r] = @ + 1]
  /\ stopped' = [stopped EXCEPT ![r] =
       @ \/ TooMany(streak[r] + 1, Cardinality(failed'[r]), processed[r] + 1)]
  /\ UNCHANGED <<samples, leftOnDisk, kept>>

\* Nothing in flight, or stopped with the last batch looked at; then the state
\* is flushed, the cache closed, and calls still out are let go.
Finishes(r) ==
  /\ runPc[r] = "run" /\ batch[r] = {} /\ ((InFlight(r) = {} /\ Full(r)) \/ stopped[r])
  /\ runPc' = [runPc EXCEPT ![r] = "closing"] /\ leftOnDisk' = remaining[r]
  /\ UNCHANGED <<samples, cached, job, runS, callPc, runs, synthCrashes, refusals>>

Closes(r) ==
  /\ runPc[r] = "closing" /\ runPc' = [runPc EXCEPT ![r] = "end"]
  /\ flight' = [flight EXCEPT ![r] = [p \in Asked |-> "no"]]
  /\ UNCHANGED <<diskS, job, queueOf, batch, remaining, failed, kept, streak, processed, stopped,
                 callPc, runs, synthCrashes, refusals>>

\* The server ends: its threads with it, and _JOBS.
SynthCrash ==
  /\ synthCrashes < MaxSynthCrashes /\ synthCrashes' = synthCrashes + 1
  /\ runPc' = [r \in JobRuns |-> IF runPc[r] = "off" THEN "off" ELSE "end"]
  /\ job' = 0 /\ callPc' = [t \in Posters |-> "idle"]
  /\ flight' = [r \in JobRuns |-> [p \in Asked |-> "no"]] /\ batch' = [r \in JobRuns |-> {}]
  /\ UNCHANGED <<diskS, queueOf, remaining, failed, kept, streak, processed, stopped,
                 runs, refusals>>

SynthNext ==
  \/ \E t \in Posters : \/ ResumeLooks(t) \/ ResumeRegisters(t) \/ StopJob(t)
                        \/ DeleteLooks(t) \/ DeleteRemoves(t) \/ DeleteForgets(t)
  \/ \E r \in JobRuns : \/ Opens(r) \/ Waits(r) \/ Finishes(r) \/ Closes(r)
                     \/ \E p \in Asked : \/ Submits(r, p) \/ Answered(r, p) \/ Refused(r, p)
                                         \/ Keeps(r, p) \/ Fails(r, p)
  \/ SynthCrash

SynthSpec == SynthInit /\ [][SynthNext]_synthVars

----------------------------------------------------------------------------
RowAnswers == {samples[i].answer : i \in 1 .. Len(samples)}

\* The state is well formed, and a run never has more calls out than it has
\* workers (submit_next 294-299).
SynthTypeOK ==
  /\ samples \in Seq([id : Asked, answer : Answers]) /\ cached \in [Asked -> Answers \cup {NoAnswer}]
  /\ leftOnDisk \subseteq Asked /\ job \in 0 .. runs /\ runs \in 0 .. MaxResumes
  /\ runPc \in [JobRuns -> {"off", "open", "run", "closing", "end"}]
  /\ flight \in [JobRuns -> [Asked -> Answers \cup {"no", "call", "bad"}]]
  /\ queueOf \in [JobRuns -> SUBSET Asked] /\ batch \in [JobRuns -> SUBSET Asked]
  /\ remaining \in [JobRuns -> SUBSET Asked] /\ failed \in [JobRuns -> SUBSET Asked]
  /\ kept \in [JobRuns -> SUBSET Answers] /\ stopped \in [JobRuns -> BOOLEAN]
  /\ streak \in [JobRuns -> Nat] /\ processed \in [JobRuns -> Nat]
  /\ callPc \in [Posters -> {"idle", "register", "delete", "forget"}]
  /\ \A r \in JobRuns : Cardinality(InFlight(r)) <= Workers /\ batch[r] \subseteq InFlight(r)

\* Each prompt has at most one row, however often the job is stopped, killed
\* and resumed: what is done is not done again (run 205-210; build_7.md:118).
OneRowPerPrompt ==
  \A i, j \in 1 .. Len(samples) : samples[i].id = samples[j].id => i = j

\* A run loses no prompt: each that it took on has a row, or failed, or is a
\* near-duplicate of a row, or is in "remaining" (record_ok, record_failure).
NothingForgotten ==
  \A r \in JobRuns : runPc[r] \in {"run", "closing"} =>
    \A p \in Asked \ (remaining[r] \cup failed[r]) :
      p \in Done \/ cached[p] \in RowAnswers

\* A failing teacher is given up: no run counts more failures in a row than
\* the streak that ends it and the calls that were out then (maybe_abort).
GivesUp == \A r \in JobRuns : streak[r] < Streak + Workers

\* "skipped - a near-duplicate of a sample already kept"
\* (local_teacher_tuning.md:73): no two rows are near-duplicates.
NoNearDuplicates ==
  \A i, j \in 1 .. Len(samples) : samples[i].answer = samples[j].answer => i = j

----------------------------------------------------------------------------
(* Why.  That a failing teacher is given up rests on each run alone; the   *)
(* rows, on the registered run being the only one that writes, which the   *)
(* requests do not ensure: two that overlap can both find no run.          *)

\* A run starts with nothing, and has calls and a batch only while it works.
Phases(r) ==
  /\ runPc[r] = "off" <=> r > runs
  /\ runPc[r] \in {"off", "open"} => kept[r] = {} /\ failed[r] = {} /\ streak[r] = 0
  /\ runPc[r] \notin {"run", "closing"} => InFlight(r) = {}
  /\ runPc[r] = "run" => queueOf[r] \cap InFlight(r) = {}
  /\ batch[r] # {} => runPc[r] = "run"

\* Past the streak that stops it a run submits nothing more.
StreakEnds(r) ==
  /\ ~stopped[r] => streak[r] < Streak
  /\ streak[r] >= Streak => streak[r] + Cardinality(InFlight(r)) < Streak + Workers

TeacherInv == SynthTypeOK /\ \A r \in JobRuns : Phases(r) /\ StreakEnds(r)

\* No request is between its look at the job and what it does to it while another is.
OneCall == \A t, u \in Posters : callPc[t] # "idle" /\ callPc[u] # "idle" => t = u

\* A run that has not ended is the registered one, and no request that found
\* none is about to register another or to delete the job.
OneWriter ==
  \A r \in JobRuns : runPc[r] \in {"open", "run", "closing"} =>
    r = job /\ \A t \in Posters : callPc[t] = "idle"

\* What a run still has to do has no row, and is in "remaining"; an answer it waits to
\* look at is the cached one.
StillToDo(r) ==
  /\ runPc[r] = "run" =>
       /\ Done \cap (queueOf[r] \cup InFlight(r)) = {}
       /\ kept[r] \subseteq RowAnswers /\ queueOf[r] \subseteq remaining[r]
  /\ InFlight(r) \subseteq remaining[r]
  /\ \A p \in Asked : flight[r][p] \in Answers => cached[p] = flight[r][p]

SynthInv ==
  /\ TeacherInv /\ OneWriter /\ \A r \in JobRuns : StillToDo(r)
  /\ OneRowPerPrompt /\ NothingForgotten
=============================================================================
