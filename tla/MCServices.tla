----------------------------- MODULE MCServices -----------------------------
(***************************************************************************)
(* The services of the server, each with its own state and locks: they     *)
(* share no variable, so each is checked by itself; focus names the one    *)
(* that moves.                                                             *)
(***************************************************************************)
EXTENDS TrainerRunner, EngineHost, BrainHost, Heartbeat, SynthJob, TrainRun, MCDecode, TLC

CONSTANTS
  Focus,       \* the services to check
  MaxMishaps   \* errors, re-detections and failed sends in one behaviour, a bound

VARIABLE focus

\* What the service S leaves alone.
Others(S) ==
  /\ UNCHANGED focus
  /\ S # "trainer" => UNCHANGED vars
  /\ S # "host" => UNCHANGED hostVars
  /\ S # "brain" => UNCHANGED brainVars
  /\ S # "beat" => UNCHANGED beatVars
  /\ S # "synth" => UNCHANGED synthVars
  /\ S # "run" => UNCHANGED runVars
  /\ S # "decode" => UNCHANGED decodeVars

ServicesInit ==
  /\ focus \in Focus
  /\ Init
  /\ HostInit /\ (focus # "host" => binary = 0 /\ ops = CHOOSE S \in HostSessions : TRUE)
  /\ BrainInit /\ (focus # "brain" => uses = CHOOSE S \in BrainSessions : TRUE)
  /\ BeatInit /\ SynthInit /\ RunInit
  /\ IF focus = "decode" THEN TRUE ELSE req = CHOOSE r \in Requests : TRUE
  /\ DecodeInit

ServicesNext ==
  \/ focus = "trainer" /\ Next /\ Others("trainer")
  \/ focus = "host" /\ HostNext /\ Others("host")
  \/ focus = "brain" /\ BrainNext /\ Others("brain")
  \/ focus = "beat" /\ BeatNext /\ Others("beat") /\ ticks' + specs' - 1 + beatFaults' <= MaxMishaps
  \/ focus = "synth" /\ SynthNext /\ Others("synth")
  \/ focus = "run" /\ RunNext /\ Others("run")
  \/ focus = "decode" /\ DecodeNext /\ Others("decode")

ServicesSpec == ServicesInit /\ [][ServicesNext]_<<vars, hostVars, brainVars, beatVars,
                                                  synthVars, runVars, decodeVars, focus>>

\* Prompts are alike.
Perms == Permutations(Asked)

\* What the other properties of the service that moves rest on: the inductive invariants
\* the proofs use.
ServicesInv ==
  /\ focus = "trainer" => IInv
  /\ focus = "host" => HostInv
  /\ focus = "brain" => BrainInv
  /\ focus = "beat" => BeatInv
  /\ focus = "synth" => SynthInv
  /\ focus = "run" => RunInv
  /\ focus = "decode" => DecodeInv
=============================================================================
