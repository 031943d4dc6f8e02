----------------------------- MODULE BrainHost ------------------------------
(***************************************************************************)
(* The one PyTorch model the server holds: app.config's BRAIN and          *)
(* BRAIN_MODEL, and the requests that load it, drop it, generate with it   *)
(* and chat with it (routes/backends_routes.py, hybrid_routes.py,          *)
(* settings_routes.py, the watcher of app.py).  Each statement that writes *)
(* app.config is a step: no lock guards it.  A generation holds the lock   *)
(* of its brain, and sets and resets the ablation of a neuron in it.       *)
(***************************************************************************)
EXTENDS Naturals

CONSTANTS
  BrainUsers,     \* request threads, and the idle watcher
  Models, Ablations,
  BrainSessions,  \* the sets of requests to check together
  NoModel, NoAblation,
  MaxBrains       \* bound: models loaded

Brains == 1 .. MaxBrains  \* 0 is no brain

ASSUME BrainAssumption ==
  /\ \A S \in BrainSessions :
       S \subseteq {"load", "unload", "generate", "lookup", "chat", "watch"}
  /\ MaxBrains \in Nat
  /\ NoModel \notin Models \cup BrainUsers /\ NoAblation \notin Ablations

VARIABLES
  brain, brainModel,  \* BRAIN, BRAIN_MODEL
  modelOf,            \* the model each brain was loaded from
  loaded,             \* how many were
  holder,             \* who holds the lock of each brain, NoModel for nobody
  ablation,           \* its _ablate_layer and _ablate_neuron
  used,               \* is BRAIN_LAST_USED within pytorch_idle_unload_secs
  uses,               \* the requests this behaviour makes
  bpc,                \* where each thread is
  mine,               \* the brain it has read
  asked               \* the model or the ablation it was asked for

slotB == <<brain, brainModel>>
heapB == <<modelOf, loaded>>
lockB == <<holder, ablation>>
brainVars == <<slotB, heapB, lockB, used, uses, bpc, mine, asked>>

BrainInit ==
  /\ brain = 0 /\ brainModel = NoModel
  /\ modelOf = [b \in Brains |-> NoModel] /\ loaded = 0
  /\ holder = [b \in Brains |-> NoModel] /\ ablation = [b \in Brains |-> NoAblation]
  /\ used = FALSE /\ uses \in BrainSessions
  /\ bpc = [t \in BrainUsers |-> "idle"] /\ mine = [t \in BrainUsers |-> 0]
  /\ asked = [t \in BrainUsers |-> NoModel]

At(t, pc) == bpc[t] = pc
Goes(t, pc) == bpc' = [bpc EXCEPT ![t] = pc]
New(t, op) == At(t, "idle") /\ op \in uses

----------------------------------------------------------------------------
(* Load and unload.                                                        *)

\* Loaded already: nothing to do.  Another model is dropped first.
LoadBrain(t) ==
  /\ New(t, "load")
  /\ \E m \in Models :
       /\ ~(brain # 0 /\ brainModel = m)
       /\ asked' = [asked EXCEPT ![t] = m]
       /\ Goes(t, IF brain # 0 THEN "swap" ELSE "load")
       /\ brain' = 0
  /\ UNCHANGED <<brainModel, heapB, lockB, used, uses, mine>>

SwapClears(t) ==
  /\ At(t, "swap") /\ brainModel' = NoModel /\ Goes(t, "load")
  /\ UNCHANGED <<brain, heapB, lockB, used, uses, mine, asked>>

\* load_pytorch_brain has returned; BRAIN is set, BRAIN_MODEL is next.  A load
\* that fails leaves the slot as it is.
SetsBrain(t, from, to) ==
  /\ At(t, from) /\ loaded < MaxBrains
  /\ loaded' = loaded + 1 /\ modelOf' = [modelOf EXCEPT ![loaded'] = asked[t]]
  /\ brain' = loaded' /\ Goes(t, to)
  /\ UNCHANGED <<brainModel, lockB, used, uses, mine, asked>>

LoadFails(t) ==
  /\ bpc[t] \in {"load", "ensure"} /\ Goes(t, "idle")
  /\ UNCHANGED <<slotB, heapB, lockB, used, uses, mine, asked>>

\* The settings flip and the eager load end the same way.
SetsModel(t) ==
  /\ At(t, "name") /\ brainModel' = asked[t]
  /\ used' = TRUE /\ Goes(t, "idle")
  /\ UNCHANGED <<brain, heapB, lockB, uses, mine, asked>>

Unloads(t) ==
  /\ New(t, "unload") /\ brain # 0
  /\ brain' = 0 /\ Goes(t, "drop")
  /\ UNCHANGED <<brainModel, heapB, lockB, used, uses, mine, asked>>

\* The watcher: loaded, no lock held, not used of late; then it drops the brain.
WatcherLooks(t) ==
  /\ New(t, "watch") /\ brain # 0 /\ holder[brain] = NoModel /\ ~used
  /\ Goes(t, "stale")
  /\ UNCHANGED <<slotB, heapB, lockB, used, uses, mine, asked>>

WatcherUnloads(t) ==
  /\ At(t, "stale")
  /\ brain' = 0 /\ Goes(t, "drop")
  /\ UNCHANGED <<brainModel, heapB, lockB, used, uses, mine, asked>>

DropsModel(t) ==
  /\ At(t, "drop") /\ brainModel' = NoModel /\ Goes(t, "idle")
  /\ UNCHANGED <<brain, heapB, lockB, used, uses, mine, asked>>

UseExpires ==
  /\ used /\ used' = FALSE
  /\ UNCHANGED <<slotB, heapB, lockB, uses, bpc, mine, asked>>

----------------------------------------------------------------------------
(* Under the lock: generate, and what only reads (a neuron lookup, a suite *)
(* of evaluations, an agent's run).                                        *)

ReadsBrain(t) ==
  /\ brain # 0 /\ mine' = [mine EXCEPT ![t] = brain] /\ used' = TRUE
  /\ \/ New(t, "generate") /\ Goes(t, "wait")
        /\ \E a \in Ablations \cup {NoAblation} : asked' = [asked EXCEPT ![t] = a]
     \/ New(t, "lookup") /\ Goes(t, "waitRead")
        /\ asked' = [asked EXCEPT ![t] = NoAblation]
  /\ UNCHANGED <<slotB, heapB, lockB, uses>>

TakesBrain(t) ==
  /\ bpc[t] \in {"wait", "waitRead"} /\ holder[mine[t]] = NoModel
  /\ holder' = [holder EXCEPT ![mine[t]] = t]
  /\ Goes(t, IF At(t, "wait") THEN "stream" ELSE "read")
  /\ ablation' = IF At(t, "wait") THEN [ablation EXCEPT ![mine[t]] = asked[t]] ELSE ablation
  /\ UNCHANGED <<slotB, heapB, used, uses, mine, asked>>

EndsAblated(t) ==
  /\ bpc[t] \in {"stream", "read"}
  /\ holder' = [holder EXCEPT ![mine[t]] = NoModel]
  /\ mine' = [mine EXCEPT ![t] = 0] /\ Goes(t, "idle")
  /\ UNCHANGED <<slotB, heapB, ablation, used, uses, asked>>

\* However a stream ends - done, an error, a client that left - the ablation
\* is taken out before the lock is given back.
Ends(t) ==
  /\ bpc[t] \in {"stream", "read"}
  /\ ablation' = IF At(t, "stream") THEN [ablation EXCEPT ![mine[t]] = NoAblation] ELSE ablation
  /\ holder' = [holder EXCEPT ![mine[t]] = NoModel]
  /\ mine' = [mine EXCEPT ![t] = 0] /\ Goes(t, "idle")
  /\ UNCHANGED <<slotB, heapB, used, uses, asked>>

----------------------------------------------------------------------------
(* A chat: _ensure_pytorch, then cfg["BRAIN"] read once more, and streamed *)
(* from without its lock.                                                  *)

EnsuresBrain(t) ==
  /\ New(t, "chat")
  /\ \E m \in Models :
       /\ asked' = [asked EXCEPT ![t] = m]
       /\ Goes(t, IF brain # 0 /\ brainModel = m THEN "take" ELSE "ensure")
  /\ UNCHANGED <<slotB, heapB, lockB, used, uses, mine>>

EnsuresModel(t) ==
  /\ At(t, "ensureName") /\ brainModel' = asked[t] /\ Goes(t, "take")
  /\ UNCHANGED <<brain, heapB, lockB, used, uses, mine, asked>>

\* A brain that went in between is an AttributeError, and no answer.
TakesForChat(t) ==
  /\ At(t, "take")
  /\ Goes(t, IF brain = 0 THEN "idle" ELSE "chat") /\ mine' = [mine EXCEPT ![t] = brain]
  /\ UNCHANGED <<slotB, heapB, lockB, used, uses, asked>>

ChatEnds(t) ==
  /\ At(t, "chat") /\ mine' = [mine EXCEPT ![t] = 0] /\ Goes(t, "idle")
  /\ UNCHANGED <<slotB, heapB, lockB, used, uses, asked>>

BrainNext ==
  \/ \E t \in BrainUsers :
       \/ LoadBrain(t) \/ SwapClears(t) \/ SetsBrain(t, "load", "name") \/ SetsModel(t)
       \/ LoadFails(t) \/ Unloads(t) \/ WatcherLooks(t) \/ WatcherUnloads(t) \/ DropsModel(t)
       \/ ReadsBrain(t) \/ TakesBrain(t) \/ Ends(t)
       \/ EnsuresBrain(t) \/ SetsBrain(t, "ensure", "ensureName") \/ EnsuresModel(t)
       \/ TakesForChat(t) \/ ChatEnds(t)
  \/ UseExpires

BrainSpec == BrainInit /\ [][BrainNext]_brainVars

----------------------------------------------------------------------------
\* The state is well formed, and the lock of a brain is held by the one thread
\* that streams or reads from it (backends_routes.py 694, 903).
BrainTypeOK ==
  /\ brain \in 0 .. loaded /\ brainModel \in Models \cup {NoModel}
  /\ modelOf \in [Brains -> Models \cup {NoModel}] /\ loaded \in 0 .. MaxBrains
  /\ holder \in [Brains -> BrainUsers \cup {NoModel}]
  /\ ablation \in [Brains -> Ablations \cup {NoAblation}]
  /\ used \in BOOLEAN /\ uses \in BrainSessions
  /\ mine \in [BrainUsers -> 0 .. loaded] /\ DOMAIN bpc = BrainUsers
  /\ \A t \in BrainUsers : bpc[t] \in {"stream", "read"} => holder[mine[t]] = t

\* A generation is ablated as it asked to be, from its first byte to its last,
\* and a lookup or an evaluation never sees an ablation, whatever generations
\* came before it or wait behind it (backends_routes.py 902-965).
OwnAblation ==
  \A t \in BrainUsers : bpc[t] \in {"stream", "read"} => ablation[mine[t]] = asked[t]

\* What a request has read and asks for while it waits and streams; and a brain
\* that nobody holds is whole.
LockOfBrain ==
  DOMAIN asked = BrainUsers /\ \A t \in BrainUsers :
    /\ bpc[t] \in {"wait", "waitRead", "stream", "read"} => mine[t] \in Brains
    /\ bpc[t] \in {"wait", "stream"} => asked[t] \in Ablations \cup {NoAblation}
    /\ bpc[t] \in {"waitRead", "read"} => asked[t] = NoAblation
    /\ bpc[t] \in {"swap", "load", "name", "ensure", "ensureName"} => asked[t] \in Models
WholeWhenFree == \A b \in Brains : holder[b] = NoModel => ablation[b] = NoAblation

\* Why generations and lookups keep out of each other's way.
BrainInv == BrainTypeOK /\ LockOfBrain /\ WholeWhenFree /\ OwnAblation

\* The threads within the statements that write the slot.
Writers == {t \in BrainUsers : bpc[t] \in {"swap", "load", "name", "ensure", "ensureName", "drop"}}
OneWriting == \A t, u \in Writers : t = u

\* The loaded model is the one its name says, once its loader is done: what
\* "already loaded" and a chat's choice of model rest on.
SlotNamesBrain ==
  brain # 0 /\ Writers = {} => brainModel \in {modelOf[brain], NoModel}

\* Why, while no two threads write the slot at once: one is in the middle of a
\* change, and knows which, or what it left is right.
SlotBetween ==
  /\ \A t \in BrainUsers :
       /\ bpc[t] \in {"swap", "load", "drop"} => brain = 0
       /\ bpc[t] \in {"name", "ensureName"} => brain # 0 /\ modelOf[brain] = asked[t]
  /\ brain # 0 /\ (\A t \in Writers : bpc[t] = "ensure") => brainModel \in {modelOf[brain], NoModel}

\* A chat answers with the model it was sent to, unablated (hybrid_routes.py
\* 261-312; inference_brain.md: requests "serialize on the brain lock").
ChatIsItsOwn ==
  \A t \in BrainUsers : At(t, "chat") =>
    modelOf[mine[t]] = asked[t] /\ ablation[mine[t]] = NoAblation

\* The watcher never unloads mid-stream (app.py 110-111).
WatcherSparesStreams ==
  [][\A t \in BrainUsers : WatcherUnloads(t) =>
       \A u \in BrainUsers : bpc[u] \in {"stream", "read", "chat"} => mine[u] # brain]_brainVars
=============================================================================
