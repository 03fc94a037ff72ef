------------------------------ MODULE MCAgentLoop ------------------------------
(* AgentLoop for TLC: three turns of up to two calls, so that a batch can     *)
(* signal twice and a plan of two steps can be finished, cut short or left    *)
(* open when the turns run out.                                               *)
EXTENDS AgentLoop, FiniteSets

-------------------------------------------------------------------------------
(* The reply that a turn begins with: a text and two calls, cut into chunks   *)
(* that arrive in any order, each part's own chunks in theirs.                *)

R == INSTANCE StreamedReply WITH Objects <- {<<"{", "}">>}

\* The second call has no id, and arguments that are cut off.
Reply ==
    [content |-> <<"a", "b">>,
     calls   |-> << [id |-> "c1", name |-> "f", arguments |-> <<"{", "}">>],
                    [id |-> "",   name |-> "g", arguments |-> <<"{">>] >>]

Chunk(text, i, id, name, arguments) ==
    [text |-> text,
     fragments |-> IF i = 0 THEN <<>>
                   ELSE << [index |-> i, id |-> id, name |-> name, arguments |-> arguments] >>]

TextChunks == [k \in DOMAIN Reply.content |-> Chunk(<<Reply.content[k]>>, 0, "", "", <<>>)]

\* A head with id and name, then the arguments one by one.
CallChunks(i) ==
    LET call == Reply.calls[i]
    IN  <<Chunk(<<>>, i, call.id, call.name, <<>>)>>
        \o [k \in DOMAIN call.arguments |-> Chunk(<<>>, i, "", "", <<call.arguments[k]>>)]

Parts == <<TextChunks, CallChunks(1), CallChunks(2)>>

\* from[i] is the part whose next chunk is the i-th to arrive.
Arrivals ==
    LET Sizes == [p \in DOMAIN Parts |-> Len(Parts[p])]
        Total == Sizes[1] + Sizes[2] + Sizes[3]
        Nth(from, i) == Cardinality({j \in 1..i : from[j] = from[i]})
    IN  { [i \in 1..Total |-> Parts[from[i]][Nth(from, i)]] :
            from \in {f \in [1..Total -> DOMAIN Parts] :
                        \A p \in DOMAIN Parts :
                            Cardinality({i \in 1..Total : f[i] = p}) = Sizes[p]} }

\* The reply does not depend on how it was cut and in which order it arrived;
\* what stays shown is what a replay would show: the text of a reply without
\* calls, also when text came before the first call.
ASSUME StreamIsWhole ==
    /\ \A chunks \in Arrivals :
          /\ R!Streamed(chunks) = R!Whole(Reply)
          /\ R!Shown(chunks) = R!Replayed(R!Whole(Reply))
    /\ R!Shown(TextChunks) = R!Replayed(R!Streamed(TextChunks))
    /\ R!Streamed(TextChunks) = R!Whole([Reply EXCEPT !.calls = <<>>])

\* A reply of nothing raises, and a fragment of nothing is no call.
ASSUME NothingRaises ==
    /\ R!Streamed(<<>>).raises
    /\ R!Streamed(<<Chunk(<<>>, 1, "c1", "", <<>>)>>).raises
===============================================================================
