----------------------------- MODULE Heartbeat ------------------------------
(***************************************************************************)
(* The heartbeat's state file, runtime/heartbeat.py: counters and queues   *)
(* that request threads add to and one thread posts and takes away.  A     *)
(* recorder reads the state, changes what it read and writes it back; only *)
(* the read and the write hold the lock.  The queue it changes is the list *)
(* of the cached state itself, so lists are objects here.                  *)
(***************************************************************************)
EXTENDS Naturals, Sequences

CONSTANTS
  Recorders,
  PerPing,         \* TRAINING_EVENTS_PER_PING_MAX; four times that are kept
  OverlapRecords,  \* may a write come between another thread's read and write
  MaxEvents, MaxErrors, MaxSends, MaxBeatFaults, MaxRearms  \* bounds

Pinger == "pinger"

ASSUME BeatAssumption ==
  /\ {PerPing, MaxEvents, MaxErrors, MaxSends, MaxBeatFaults, MaxRearms} \subseteq Nat
  /\ PerPing > 0 /\ OverlapRecords \in BOOLEAN /\ Pinger \notin Recorders

VARIABLES
  heap,                   \* the list objects made so far
  queue, queueOnDisk,     \* pending_training_events: the cached object, the file
  errors, hwSent,         \* errors_pending, hw_dump_sent
  hpc, list, count,       \* where each thread is, the list and the number it read
  payload,                \* what the pinger is sending
  gotEvents, gotErrors, gotHw,  \* what has reached the server
  events, done, ticks, specs, sends, beatFaults  \* counts; the events recorded

queueVars == <<heap, queue, queueOnDisk>>
stateVars == <<errors, hwSent>>
serverVars == <<gotEvents, gotErrors, gotHw>>
tallies == <<events, done, ticks, specs, sends, beatFaults>>
beatVars == <<queueVars, stateVars, hpc, list, count, payload, serverVars, tallies>>

Front(s, n) == SubSeq(s, 1, IF n < Len(s) THEN n ELSE Len(s))
Rest(s, n) == SubSeq(s, n + 1, Len(s))
Tail4(s) == IF Len(s) > 4 * PerPing THEN Rest(s, Len(s) - 4 * PerPing) ELSE s
Occurs(s) == {s[i] : i \in 1 .. Len(s)}

BeatInit ==
  /\ heap = << <<>> >> /\ queue = 1 /\ queueOnDisk = <<>>
  /\ errors = 0 /\ hwSent = FALSE
  /\ hpc = [t \in Recorders \cup {Pinger} |-> "idle"]
  /\ list = [t \in Recorders \cup {Pinger} |-> 1] /\ count = [t \in Recorders \cup {Pinger} |-> 0]
  /\ payload = [events |-> <<>>, errors |-> 0, hw |-> 0]
  /\ gotEvents = {} /\ gotErrors = 0 /\ gotHw = 0
  /\ events = 0 /\ done = {} /\ ticks = 0 /\ specs = 1 /\ sends = 0 /\ beatFaults = 0

\* The threads between their read and their write.
Between == {t \in Recorders \cup {Pinger} : hpc[t] \in {"training", "error", "drain", "drop"}}
MayRead == OverlapRecords \/ Between = {}
To(t, pc) == hpc' = [hpc EXCEPT ![t] = pc]
Forgets(t) == list' = [list EXCEPT ![t] = 1] /\ count' = [count EXCEPT ![t] = 0]

\* A new list object, and its name.
Made(s) == heap' = Append(heap, s)
Fresh == Len(heap) + 1

\* A write that says nothing of the queue: the cache gets the file's, a new list.
Reread == Made(queueOnDisk) /\ queue' = Fresh /\ UNCHANGED queueOnDisk

----------------------------------------------------------------------------
(* The recorders.                                                          *)

\* An empty list is replaced by a new one, another is appended to in place; one
\* that grew too long is cut at the front, into a new list.
RecordTraining(t) ==
  /\ hpc[t] = "idle" /\ MayRead /\ events < MaxEvents
  /\ LET old == heap[queue]
         longer == Append(old, events + 1)
     IN  \/ /\ old = <<>> /\ Made(longer) /\ list' = [list EXCEPT ![t] = Fresh]
         \/ /\ old # <<>> /\ Len(longer) <= 4 * PerPing
            /\ heap' = [heap EXCEPT ![queue] = longer] /\ list' = [list EXCEPT ![t] = queue]
         \/ /\ old # <<>> /\ Len(longer) > 4 * PerPing
            /\ heap' = Append([heap EXCEPT ![queue] = longer], Tail4(longer))
            /\ list' = [list EXCEPT ![t] = Fresh]
  /\ events' = events + 1 /\ count' = [count EXCEPT ![t] = events + 1]
  /\ To(t, "training")
  /\ UNCHANGED <<queue, queueOnDisk, stateVars, payload, serverVars, done, ticks, specs, sends, beatFaults>>

WriteTraining(t) ==
  /\ hpc[t] = "training"
  /\ queue' = list[t] /\ queueOnDisk' = heap[list[t]]
  /\ done' = done \cup {count[t]} /\ To(t, "idle") /\ Forgets(t)
  /\ UNCHANGED <<heap, stateVars, payload, serverVars,
                 events, ticks, specs, sends, beatFaults>>

RecordError(t) ==
  /\ hpc[t] = "idle" /\ MayRead /\ ticks < MaxErrors
  /\ count' = [count EXCEPT ![t] = errors + 1] /\ ticks' = ticks + 1
  /\ To(t, "error")
  /\ UNCHANGED <<queueVars, stateVars, list, payload, serverVars,
                 events, done, specs, sends, beatFaults>>

WriteError(t) ==
  /\ hpc[t] = "error" /\ errors' = count[t] /\ To(t, "idle") /\ Forgets(t) /\ Reread
  /\ UNCHANGED <<hwSent, payload, serverVars, tallies>>

\* A manual re-detect: the machine's specs may be new.
RearmHw ==
  /\ specs < MaxRearms + 1 /\ specs' = specs + 1 /\ hwSent' = FALSE
  /\ Reread
  /\ UNCHANGED <<errors, hpc, list, count, payload, serverVars,
                 events, done, ticks, sends, beatFaults>>

----------------------------------------------------------------------------
(* The pinger: _build_payload, _post, and what _send_once records.         *)

\* The state as it is before the errors are taken out of it.
SendReads ==
  /\ hpc[Pinger] = "idle" /\ MayRead /\ sends < MaxSends /\ sends' = sends + 1
  /\ payload' = [events |-> <<>>, errors |-> errors, hw |-> IF hwSent THEN 0 ELSE specs]
  /\ list' = [list EXCEPT ![Pinger] = queue] /\ To(Pinger, "drain")
  /\ UNCHANGED <<queueVars, stateVars, count, serverVars,
                 events, done, ticks, specs, beatFaults>>

SendDrains ==
  /\ hpc[Pinger] = "drain"
  /\ IF payload.errors = 0 THEN UNCHANGED <<queueVars, errors>> ELSE errors' = 0 /\ Reread
  /\ payload' = [payload EXCEPT !.events = Front(heap[list[Pinger]], PerPing)]
  /\ To(Pinger, "post")
  /\ UNCHANGED <<hwSent, list, count, serverVars, tallies>>

Arrives ==
  /\ gotEvents' = gotEvents \cup Occurs(payload.events)
  /\ gotErrors' = gotErrors + payload.errors
  /\ gotHw' = IF payload.hw = 0 THEN gotHw ELSE payload.hw

\* Mutant: an answer empties the list.
PostAnsweredEmpties ==
  /\ hpc[Pinger] = "post" /\ MayRead /\ Arrives
  /\ Made(<<>>) /\ list' = [list EXCEPT ![Pinger] = Fresh]
  /\ To(Pinger, "drop")
  /\ UNCHANGED <<queue, queueOnDisk, stateVars, count, payload, tallies>>

\* An answer: as many events as were sent are cut off the list as it is now.
PostAnswered ==
  /\ hpc[Pinger] = "post" /\ MayRead /\ Arrives
  /\ IF payload.events = <<>> THEN UNCHANGED <<heap, list>>
     ELSE /\ Made(Rest(heap[queue], Len(payload.events)))
          /\ list' = [list EXCEPT ![Pinger] = Fresh]
  /\ To(Pinger, "drop")
  /\ UNCHANGED <<queue, queueOnDisk, stateVars, count, payload, tallies>>

SendRecords ==
  /\ hpc[Pinger] = "drop"
  /\ hwSent' = (hwSent \/ payload.hw # 0)
  /\ IF payload.events = <<>> THEN Reread
     ELSE queue' = list[Pinger] /\ queueOnDisk' = heap[list[Pinger]] /\ UNCHANGED heap
  /\ payload' = [events |-> <<>>, errors |-> 0, hw |-> 0]
  /\ To(Pinger, "idle")
  /\ UNCHANGED <<errors, list, count, serverVars, tallies>>

\* No answer, or an error; the ping may have arrived all the same.
PostFails ==
  /\ hpc[Pinger] = "post" /\ beatFaults < MaxBeatFaults /\ beatFaults' = beatFaults + 1
  /\ Arrives \/ UNCHANGED serverVars
  /\ payload' = [events |-> <<>>, errors |-> 0, hw |-> 0]
  /\ To(Pinger, "idle") /\ Reread
  /\ UNCHANGED <<stateVars, list, count, events, done, ticks, specs, sends>>

\* The server ends; the next one reads the file.
BeatCrash ==
  /\ beatFaults < MaxBeatFaults /\ beatFaults' = beatFaults + 1
  /\ Made(queueOnDisk) /\ queue' = Fresh
  /\ hpc' = [t \in Recorders \cup {Pinger} |-> "idle"]
  /\ payload' = [events |-> <<>>, errors |-> 0, hw |-> 0]
  /\ UNCHANGED <<queueOnDisk, stateVars, list, count, serverVars, events, done, ticks, specs, sends>>

BeatNext ==
  \/ \E t \in Recorders : RecordTraining(t) \/ WriteTraining(t) \/ RecordError(t) \/ WriteError(t)
  \/ RearmHw \/ SendReads \/ SendDrains \/ PostAnswered \/ SendRecords \/ PostFails \/ BeatCrash

BeatSpec == BeatInit /\ [][BeatNext]_beatVars

----------------------------------------------------------------------------
\* Three pings' worth of events have come since.
TooOld(e) == e + 3 * PerPing <= events

\* A recorded training start reaches the server or waits in the file, through
\* failed posts, restarts, and events recorded while a ping is under way
\* (record_training_event 254-270, _send_once 549-600), unless it is old: an answer
\* takes as many events off the queue as were sent, and where the queue was cut in
\* between those are not the ones sent.
TrainingsKept == \A e \in done : e \in gotEvents \cup Occurs(queueOnDisk) \/ TooOld(e)

\* The server is never told of more errors than there were (273-295).
ErrorsNotInvented == gotErrors + errors <= ticks

\* The errors on their way to the server; the error read and not written.
ErrorsSent == IF hpc[Pinger] = "post" THEN payload.errors ELSE 0
ErrorsHeld == IF \E t \in Recorders : hpc[t] = "error" THEN 1 ELSE 0

\* record_error_tick "always increments the count" (233): an error is in the
\* count, on its way to the server or there.
EveryErrorCounts ==
  ErrorsHeld = 0 => gotErrors + errors + ErrorsSent >= ticks

\* A re-detect is sent "one more time" (141-145): the specs the server has are
\* the newest once the state says they were sent.
RedetectReaches == hwSent => gotHw = specs

----------------------------------------------------------------------------
(* Why, as long as no write comes between another thread's read and write. *)

\* The state is well formed.
BeatTypeOK ==
  /\ heap \in Seq(Seq(Nat)) /\ queue \in 1 .. Len(heap) /\ queueOnDisk \in Seq(Nat)
  /\ errors \in Nat /\ hwSent \in BOOLEAN /\ specs \in 1 .. MaxRearms + 1
  /\ hpc \in [Recorders \cup {Pinger} ->
                {"idle", "training", "error", "drain", "post", "drop"}]
  /\ \A t \in Recorders : hpc[t] \in {"idle", "training", "error"}
  /\ hpc[Pinger] \in {"idle", "drain", "post", "drop"}
  /\ list \in [Recorders \cup {Pinger} -> 1 .. Len(heap)]
  /\ count \in [Recorders \cup {Pinger} -> Nat]
  /\ payload \in [events : Seq(Nat), errors : Nat, hw : 0 .. specs]
  /\ Len(payload.events) <= PerPing
  /\ gotErrors \in Nat /\ gotEvents \subseteq Nat
  /\ events \in Nat /\ done \subseteq 0 .. events /\ ticks \in 0 .. MaxErrors

\* One thread at a time is between its read and its write.
OneBetween == \A t, u \in Between : t = u

\* The file holds the last events in the order they came, four pings' worth at most.
QueueGrows ==
  /\ Len(queueOnDisk) <= 4 * PerPing
  /\ \A i, j \in 1 .. Len(queueOnDisk) : i < j => queueOnDisk[i] + (j - i) <= queueOnDisk[j]
  /\ \A i \in 1 .. Len(queueOnDisk) : queueOnDisk[i] \in 0 .. events

\* What a thread holds for the file: the queue and the event it records; the queue a
\* ping starts with.  The cached queue is the file's but for a recorder's append.
HeldIsQueue ==
  /\ \A t \in Recorders : hpc[t] = "training" =>
       /\ count[t] = events /\ heap[list[t]] = Tail4(Append(queueOnDisk, events))
       /\ \A i \in 1 .. Len(queueOnDisk) : queueOnDisk[i] < events
  /\ (\A t \in Recorders : hpc[t] # "training") => heap[queue] = queueOnDisk
  /\ hpc[Pinger] = "drain" => heap[list[Pinger]] = queueOnDisk

\* What was sent is the front of the queue, or the queue is full; what an answer takes
\* off it was sent, or is old.
SentIsFront ==
  /\ hpc[Pinger] = "post" =>
       \/ Len(queueOnDisk) = 4 * PerPing
       \/ /\ Len(payload.events) <= Len(queueOnDisk)
          /\ \A i \in 1 .. Len(payload.events) : payload.events[i] = queueOnDisk[i]
  /\ hpc[Pinger] = "drop" /\ payload.events # <<>> =>
       /\ Len(payload.events) <= Len(queueOnDisk)
       /\ heap[list[Pinger]] = Rest(queueOnDisk, Len(payload.events))
       /\ \A i \in 1 .. Len(payload.events) :
            queueOnDisk[i] \in gotEvents \/ TooOld(queueOnDisk[i])

\* The errors a ping takes out of the count are in its payload.
ErrorsAccounted ==
  /\ gotErrors + errors + ErrorsSent + ErrorsHeld <= ticks
  /\ \A t \in Recorders : hpc[t] = "error" => count[t] = errors + 1
  /\ hpc[Pinger] = "drain" => payload.errors = errors

\* The inductive invariant.
BeatInv ==
  /\ BeatTypeOK /\ OneBetween /\ QueueGrows /\ HeldIsQueue /\ SentIsFront
  /\ ErrorsAccounted /\ TrainingsKept
=============================================================================
