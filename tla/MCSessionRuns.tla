----------------------------- MODULE MCSessionRuns -----------------------------
\* Instances of SessionRuns for TLC.
EXTENDS SessionRuns, TLC

CONSTANTS a, b, s1, s2, r1, r2, m1

Call(id, writes) == [id |-> id, writes |-> writes]

\* A write and an answer; a text the plan refuses, then a batch that begins
\* with a call without an id and is cut by a hard stop; a batch whose end is
\* cut and repeats an id.  A second run of the same trace repeats the ids of
\* the first.
MCTraces ==
    << [turns |-> << <<Call(a, TRUE)>>, <<>> >>, cut |-> 0, answered |-> TRUE],
       [turns |-> << <<>>, <<Call(NoId, TRUE), Call(b, FALSE)>> >>,
        cut |-> 1, answered |-> FALSE],
       [turns |-> << <<Call(a, FALSE)>>, <<Call(b, FALSE), Call(a, FALSE)>> >>,
        cut |-> 1, answered |-> FALSE] >>

Load(sessions, models, switches, others) ==
    [sessionOf |-> sessions, model |-> models,
     requests |-> ("switch" :> switches) @@ ("other" :> others),
     faults |-> 1, crashes |-> 1]

\* Both runs in one session, or one in each; and one run whose session is
\* switched to and fro (the other run's session is gone).
MCWorkloads ==
    LET both == (r1 :> s1) @@ (r2 :> s1)
        each == (r1 :> s1) @@ (r2 :> s2)
    IN  {Load(sessions, (s1 :> m1) @@ (s2 :> m1), 0, 1) : sessions \in {both, each}} \cup
        {Load(each, (s1 :> m1) @@ (s2 :> None), 3, 0)}

\* A version that can be repeated and one that cannot, as in 004.
MCScripts == << <<TRUE, TRUE>>, <<TRUE, FALSE>> >>

-----------------------------------------------------------------------------
\* The models that a session's row may name.

Llm == INSTANCE ModelSelection

EnvVars == {"LLM_API_KEY", "OPENAI_API_KEY", "SILICONFLOW_API_KEY",
            "LLM_BASE_URL", "OPENAI_BASE_URL", "SILICONFLOW_BASE_URL"}

\* The default registry, and one in which two providers have one name.
Registries == {Llm!DefaultModels, Llm!DefaultModels \cup {<<"deepseek", "gpt-4o">>}}

Names == {"deepseek-chat", "gpt-4o", "other", ""}
Words == UNION {[1..n -> (Llm!Providers \cup Names) \ {""}] : n \in 0..2}

\* Whatever the user types, the session keeps a model of the registry, whose
\* client can be made if and only if its credential counts as configured.
ASSUME ModelsResolve ==
    \A models \in Registries, env \in SUBSET EnvVars, words \in Words, session \in Llm!DefaultModels :
        LET new    == Llm!Switched(models, session, words)
            config == Llm!Resolve(models, new[1], new[2], env)
        IN  /\ new \in models
            /\ config.error = "" <=> Llm!IsCredentialConfigured(new[1], env)

\* A name that two providers have is the current one's, or needs its provider.
ASSUME AmbiguousNames ==
    LET both == Llm!DefaultModels \cup {<<"deepseek", "gpt-4o">>}
    IN  /\ Llm!ParseModelRef(both, <<"gpt-4o">>, "openai") = <<"openai", "gpt-4o">>
        /\ Llm!ParseModelRef(both, <<"gpt-4o">>, "siliconflow") = <<>>
===============================================================================
