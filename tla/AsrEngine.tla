------------------------------- MODULE AsrEngine -------------------------------
(***************************************************************************)
(* From a LitertLmAsrConfig to an engine and to the audio source of a      *)
(* session: ValidateConfig, the two engines a build can have (the ASR      *)
(* engine of v0.16 and the Omni registry of v0.19), and the geometry the   *)
(* PushAudioSource computes again from the same numbers.                   *)
(*                                                                         *)
(* The check and the source divide differently, and the registry routes by *)
(* exact names while callers of ABI version 1 may pass any label.          *)
(***************************************************************************)
EXTENDS Integers

CONSTANTS Rates,         \* sample_rate_hz
          Milliseconds,  \* input_milliseconds, max_buffered_audio_milliseconds
          Unit,          \* what overlap_ratio is counted in: Part / Unit, exactly
          Parts          \* the counts; with Unit = 2^25 every float from 1/4 on

ASSUME EngineConfig ==
  /\ Rates \subseteq Nat /\ Milliseconds \subseteq Nat
  /\ Unit \in Nat \ {0} /\ Parts \subseteq Nat

VARIABLES omni,     \* which engine is built in
          config,   \* the caller's
          model,    \* what model_path holds, and the name its path suggests
          known,    \* the registry has the name that was asked for
          engine,   \* NoEngine, or the engine created
          source,   \* NoSource, or the geometry of the session's audio source
          status    \* of the last call

engineVars == <<omni, config, model, known, engine, source, status>>

Families == {"whisper", "moonshine", "qwen3-asr", "parakeet"}
\* Names of the registry; a Parakeet model is one of two.
Routes == {"whisper", "moonshine", "qwen3-asr", "parakeet-tdt", "parakeet-ctc"}

\* What callers ask for, lowered and with dashes.  Two do not contain a route: a
\* family without its variant, and one without its dash.
Names == Routes \cup {"", "parakeet", "qwen3asr", "tinygemma-asr", "label"}

FamilyOf(name) ==
  CASE name \in {"parakeet", "parakeet-tdt", "parakeet-ctc"} -> "parakeet"
    [] name = "qwen3asr" -> "qwen3-asr"
    [] name \in Families -> name
    [] OTHER -> "none"

\* "llm" is a Qwen3-ASR container that declares an LLM only; "file" is a plain
\* TFLite model.
Models == [holds : Routes \cup {"llm", "other", "file"}, named : {"", "whisper", "parakeet-tdt"}]

Presets ==
  {[name |-> "parakeet-tdt", decoder |-> "TDT", logMel |-> TRUE, norm |-> "STANDARD", start |-> TRUE, ms |-> 5000],
   [name |-> "parakeet-ctc", decoder |-> "CTC", logMel |-> TRUE, norm |-> "STANDARD", start |-> FALSE, ms |-> 5000],
   [name |-> "moonshine", decoder |-> "STATELESS", logMel |-> FALSE, norm |-> "STANDARD", start |-> TRUE, ms |-> 5000],
   [name |-> "whisper", decoder |-> "STATELESS", logMel |-> TRUE, norm |-> "WHISPER", start |-> TRUE, ms |-> 30000],
   [name |-> "qwen3-asr", decoder |-> "STATELESS", logMel |-> TRUE, norm |-> "WHISPER", start |-> TRUE, ms |-> 5000]}

\* llround of a / b, for natural numbers.
Round(a, b) == (2 * a + b) \div (2 * b)

\* litert_lm_asr_config_init, for a preset; 0.4f is the nearest count to 2/5.
Defaults(p) ==
  [rate |-> 16000, ms |-> p.ms, buffered |-> 30000, part |-> Round(2 * Unit, 5), threads |-> 4,
   channels |-> 1, backend |-> "CPU", merger |-> "TIMESTAMP", name |-> p.name,
   decoder |-> p.decoder, logMel |-> p.logMel, norm |-> p.norm, start |-> p.start]

NoEngine == [route |-> "none"]
NoSource == [window |-> 0]

-----------------------------------------------------------------------------
(***************************************************************************)
(* Numbers.  Unit parts and more stand for ratios that are not below 1.    *)
(***************************************************************************)

Overlap(window, part) == Round(window * part, Unit)

\* Mutant: a ratio below one leaves something of every window.
RatioLeavesAStep(c) ==
  LET window == (c.rate * c.ms) \div 1000
  IN  window > 0 /\ c.part < Unit

\* The window in whole samples, rounded down, must be longer than its overlap.
LeavesAStep(c) ==
  LET window == (c.rate * c.ms) \div 1000
  IN  window > 0 /\ Overlap(window, c.part) < window

ValidConfig(c) ==
  /\ c.rate > 0 /\ c.ms > 0 /\ c.channels = 1
  /\ c.buffered >= c.ms
  /\ c.part < Unit
  /\ LeavesAStep(c)
  /\ c.threads > 0

\* The constructor of PushAudioSource: milliseconds rounded to the nearest sample.
Geometry(c) ==
  LET window == Round(c.rate * c.ms, 1000)
  IN  [window |-> window, overlap |-> Overlap(window, c.part),
       step |-> window - Overlap(window, c.part),
       capacity |-> Round(c.rate * c.buffered, 1000)]

-----------------------------------------------------------------------------
(***************************************************************************)
(* Choosing the session.                                                   *)
(***************************************************************************)

\* ToUpstreamConfig and ValidateEnums refuse the same values.
ValidEnums(c) ==
  /\ c.decoder \in {"CTC", "TDT", "STATELESS"}
  /\ c.backend \in {"CPU", "GPU", "NPU"}
  /\ c.merger \in {"LEVENSHTEIN", "TIMESTAMP"}
  /\ c.logMel => c.norm \in {"STANDARD", "WHISPER"}

\* RouteContainer: the speech metadata, or the LLM metadata of a Qwen3-ASR model.
Route(m) == IF m.holds = "llm" THEN "qwen3-asr"
            ELSE IF m.holds = "other" THEN "none" ELSE m.holds

\* Mutant: names are compared as they are.
NamesOtherFamilyExactly(name, route) ==
  name \in Routes /\ FamilyOf(name) # FamilyOf(route)

\* A name selects another family when it has that family's name in it, dashes or
\* not.
NamesOtherFamily(name, route) == FamilyOf(name) \notin {"none", FamilyOf(route)}

\* ResolveContainerModelName, "error" when it refuses.
Resolved(c, m) ==
  LET route == Route(m)
  IN  CASE route = "none" /\ c.name # "" -> c.name
        [] route = "none" /\ c.name = "" -> IF m.named # "" THEN m.named ELSE "error"
        [] route # "none" /\ c.name = "" -> route
        [] OTHER -> IF NamesOtherFamily(c.name, route) THEN "error"
                    ELSE IF c.name = route /\ known THEN c.name ELSE route

\* The registry makes sessions for names it has; its decoders that are language
\* models refuse start tokens.
LmBacked == {"qwen3-asr", "tinygemma-asr"}
RegistryCreates(name, start) ==
  /\ name \in Routes \cup {"tinygemma-asr"} \/ (name = config.name /\ known /\ name # "")
  /\ name \in LmBacked => ~start

\* Start tokens that presets carry are dropped for those decoders.
StartTokens(c, name) == c.start /\ name \notin LmBacked

\* A plain file takes the decoder the config names, whatever its label.
OmniEngine(c, m) ==
  IF m.holds = "file" THEN [route |-> "file", decoder |-> c.decoder]
  ELSE LET name == Resolved(c, m)
       IN  IF name # "error" /\ RegistryCreates(name, StartTokens(c, name))
             THEN [route |-> name] ELSE NoEngine

-----------------------------------------------------------------------------
EngineCreate ==
  LET ok == ValidConfig(config) /\ ValidEnums(config)
      made == IF ~ok THEN NoEngine
              ELSE IF omni THEN OmniEngine(config, model)
              ELSE [route |-> "v0.16", decoder |-> config.decoder]
  IN  /\ status = "none"
      /\ engine' = made
      /\ status' = IF made = NoEngine THEN "refused" ELSE "created"
      /\ UNCHANGED <<omni, config, model, known, source>>

\* The engine keeps the numbers of the config and none of its strings.
SessionCreate ==
  /\ engine # NoEngine /\ source = NoSource
  /\ source' = Geometry(config)
  /\ status' = "ready"
  /\ UNCHANGED <<omni, config, model, known, engine>>

NumericConfig ==
  \E p \in Presets, r \in Rates, a, b \in Milliseconds, q \in Parts, n \in 0..1 :
    /\ p.name = "moonshine"
    /\ config = [Defaults(p) EXCEPT !.rate = r, !.ms = a, !.buffered = b, !.part = q,
                                    !.threads = n]

LabelledConfig ==
  \E p \in Presets :
    \/ \E n \in Names, k \in {"STANDARD", "WHISPER", "bad"} :
         config = [Defaults(p) EXCEPT !.name = n, !.norm = k]
    \/ \E d \in {"CTC", "bad"}, b \in {"GPU", "NPU", "bad"}, g \in {"LEVENSHTEIN", "bad"} :
         config = [Defaults(p) EXCEPT !.decoder = d, !.backend = b, !.merger = g]
    \/ config = Defaults(p)

EngineInit ==
  /\ omni \in BOOLEAN /\ known \in BOOLEAN
  /\ \/ NumericConfig /\ model = [holds |-> "file", named |-> ""] /\ known
     \/ LabelledConfig /\ model \in Models
  /\ engine = NoEngine /\ source = NoSource /\ status = "none"

EngineNext == EngineCreate \/ SessionCreate

EngineSpec == EngineInit /\ [][EngineNext]_engineVars

-----------------------------------------------------------------------------
\* Whatever numbers a config is accepted with, the source of its sessions can hold
\* a window and moves on by at least a sample with each: the check divides where
\* the source rounds, so the window the source takes may be longer than the one
\* that was checked, and its overlap with it.
AcceptedWindowsAdvance ==
  source # NoSource =>
    /\ source.window > 0 /\ source.step > 0
    /\ source.overlap < source.window
    /\ source.window <= source.capacity

\* An engine on a container of a known family decodes that family, and the variant
\* its sections show, whatever label the caller passed; a label of another family
\* is refused.  And each preset works with its own model, in either build.
EngineFitsTheModel ==
  /\ engine.route \in Routes \cup Names /\ Route(model) # "none" =>
       /\ engine.route = Route(model)
       /\ FamilyOf(config.name) \in {"none", FamilyOf(Route(model))}
  /\ \A p \in Presets :
       config = Defaults(p) /\ model.holds \in {p.name, "file"} => status # "refused"
=============================================================================
