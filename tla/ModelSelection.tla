----------------------------- MODULE ModelSelection -----------------------------
(***************************************************************************)
(* Which model a run talks to, where, and with which key: ModelResolver,   *)
(* the registries it reads, and what /model makes of its arguments.  A     *)
(* model is a pair of provider and name; env is the set of environment     *)
(* variables that are set.                                                 *)
(***************************************************************************)
EXTENDS Naturals, Sequences, SequencesExt, FiniteSets

DefaultModels ==
    { <<"deepseek", "deepseek-chat">>, <<"openai", "gpt-4o">>, <<"openai", "gpt-4o-mini">>,
      <<"siliconflow", "Qwen/Qwen3.5-4B">> }

Providers == {"deepseek", "openai", "siliconflow"}

KeyVars(provider) ==
    CASE provider = "openai"      -> <<"OPENAI_API_KEY", "LLM_API_KEY">>
      [] provider = "siliconflow" -> <<"SILICONFLOW_API_KEY", "LLM_API_KEY">>
      [] OTHER                    -> <<"LLM_API_KEY">>

UrlVar(provider) ==
    CASE provider = "openai"      -> "OPENAI_BASE_URL"
      [] provider = "siliconflow" -> "SILICONFLOW_BASE_URL"
      [] OTHER                    -> "LLM_BASE_URL"

\* ModelResolver.lookup: "" when the pair is a model.  models is the registry.
LookupError(models, provider, name) ==
    LET owners == {m[1] : m \in {m \in models : m[2] = name}}
    IN  IF provider \notin Providers THEN "unknown provider"
        ELSE IF name = "" THEN "invalid model"
        ELSE IF owners # {} /\ provider \notin owners THEN "mismatch"
        ELSE IF <<provider, name>> \notin models THEN "unknown model"
        ELSE ""

\* The variable a key is read from; the source of credentials, which is asked
\* last, reads LLM_API_KEY.
KeyFrom(provider, env) ==
    LET isSet(v) == v \in env
        found == SelectSeq(KeyVars(provider) \o <<"LLM_API_KEY">>, isSet)
    IN  IF found = <<>> THEN "none" ELSE Head(found)

\* The provider's own address, unless its variable is set.
UrlFrom(provider, env) == IF UrlVar(provider) \in env THEN UrlVar(provider) ELSE provider

IsCredentialConfigured(provider, env) ==
    ToSet(KeyVars(provider)) \cap env # {} \/ "LLM_API_KEY" \in env

\* ModelResolver.resolve: an error, or the client's configuration.
Resolve(models, provider, name, env) ==
    [error |-> IF LookupError(models, provider, name) # "" THEN LookupError(models, provider, name)
               ELSE IF KeyFrom(provider, env) = "none" THEN "no key"
               ELSE "",
     key |-> KeyFrom(provider, env), url |-> UrlFrom(provider, env), model |-> name]

-----------------------------------------------------------------------------
\* AgentService.parse_model_ref, and the switch of a session that follows

\* A name alone is a model's if only one has it, or the current provider's of
\* several.  <<>> is an unknown model.
ParseModelRef(models, words, current) ==
    LET named == {m \in models : m[2] = words[1]}
        here  == {m \in named : m[1] = current}
    IN  IF words = <<>> THEN <<>>
        ELSE IF Len(words) >= 2 THEN <<words[1], words[2]>>
        ELSE IF Cardinality(named) = 1 THEN CHOOSE m \in named : TRUE
        ELSE IF here # {} THEN CHOOSE m \in here : TRUE
        ELSE <<>>

\* What /model does to a session's model: nothing when the pair is no model.
Switched(models, session, words) ==
    LET ref == ParseModelRef(models, words, session[1])
    IN  IF ref # <<>> /\ LookupError(models, ref[1], ref[2]) = "" THEN ref ELSE session
===============================================================================
