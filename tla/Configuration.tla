--------------------------- MODULE Configuration ---------------------------
(***************************************************************************)
(* How the options of a run are put together: parse_args of cli.py and     *)
(* build_config of config.py, from the command line, the CLAWPERF_*        *)
(* variables, a YAML file and the defaults, then the context profile.      *)
(* Values are texts; a number or a list of modes is one that parses.       *)
(***************************************************************************)
EXTENDS Sequences, SequencesExt, TLC

CONSTANTS
    Default,   \* the defaults of BenchmarkConfig, by field
    Kind,      \* "number", "flag" or "text", by field
    Texts,     \* the texts that may be written for a field, by field
    Lines,     \* command lines
    Profiles   \* the fields each context profile sets

VARIABLES stage, env, file, line, config

vars == <<stage, env, file, line, config>>

Fields == DOMAIN Default

(* What is written in one place: some of the fields.                       *)
Layer == UNION {{l \in [set -> UNION {Texts[f] : f \in Fields}] : \A f \in set : l[f] \in Texts[f]} :
                    set \in SUBSET Fields}

Init ==
    /\ stage = "started" /\ config = Default
    /\ env \in Layer /\ file \in Layer /\ line \in Lines

-----------------------------------------------------------------------------
Garbage == "garbage"

(* A variable that is no number is ignored, a flag is on for a few texts.  *)
Coerced(f, text) == IF Kind[f] = "flag" THEN (IF text = "on" THEN "on" ELSE "off") ELSE text

LoadEnvConfig(texts) ==
    [f \in {g \in DOMAIN texts : Kind[g] = "number" => texts[g] # Garbage} |-> Coerced(f, texts[f])]

(* The command line is a sequence of options, each spelled out or          *)
(* abbreviated; of several for a field the last one counts.                *)
Parsed(options) ==
    FoldLeft(LAMBDA args, o : (o.field :> o.value) @@ args, Default, options)

(* Only an option that is spelled out is known to have been passed; any    *)
(* other is told by its value, a flag not at all.                          *)
ExplicitDests(options) == {o.field : o \in {p \in Range(options) : p.spelledOut}}

CliArgs(options) ==
    LET args == Parsed(options)
        passed == ExplicitDests(options)
        Kept(f) == f \in passed \/ (Kind[f] # "flag" /\ args[f] # Default[f])
    IN  [f \in {g \in Fields : Kept(g)} |-> args[f]]

(* build_config starts from the environment, updates it from the file and  *)
(* then from the command line.                                             *)
Merged(variables, yaml, args) == args @@ yaml @@ variables @@ Default

(* __post_init__: a profile overrides the raw token fields.                *)
ApplyProfile(c) ==
    IF c["context_profile"] = "" THEN c ELSE Profiles[c["context_profile"]] @@ c

(* An arrival mode or a profile that does not parse is a ValueError.       *)
Rejected(c) ==
    c["user_arrival"] = Garbage \/ c["context_profile"] \notin {""} \cup DOMAIN Profiles

ParseArgs ==
    /\ stage = "started"
    /\ LET merged == Merged(LoadEnvConfig(env), file, CliArgs(line))
       IN  IF Rejected(merged) THEN stage' = "refused" /\ UNCHANGED config
           ELSE stage' = "configured" /\ config' = ApplyProfile(merged)
    /\ UNCHANGED <<env, file, line>>

Ended == stage # "started" /\ UNCHANGED vars

Next == ParseArgs \/ Ended

Spec == Init /\ [][Next]_vars

-----------------------------------------------------------------------------
Layered(f) ==
    CASE f \in DOMAIN CliArgs(line)       -> CliArgs(line)[f]
      [] f \in DOMAIN LoadEnvConfig(env)  -> LoadEnvConfig(env)[f]
      [] f \in DOMAIN file                -> file[f]
      [] OTHER                            -> Default[f]

(* "CLI args (explicit) > CLAWPERF_* env vars > YAML (--config) >          *)
(* dataclass defaults": a field no profile overrides has the value of the  *)
(* first layer that sets it.                                               *)
PrecedenceIsKept ==
    stage = "configured" =>
        \A f \in Fields :
            (config["context_profile"] = "" \/ f \notin DOMAIN Profiles[config["context_profile"]])
              => config[f] = Layered(f)
=============================================================================
