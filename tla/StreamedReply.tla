----------------------------- MODULE StreamedReply -----------------------------
(***************************************************************************)
(* How LLMClient puts a reply together.  A streamed reply comes in chunks: *)
(* a piece of text (possibly none) and fragments of tool calls, each with  *)
(* the index of its call and parts of the call's id, name and arguments.   *)
(* A text, and the arguments of a call, are sequences of pieces; "" is a   *)
(* part that a fragment does not have.                                     *)
(***************************************************************************)
EXTENDS Naturals, Sequences, SequencesExt, TLC

CONSTANT Objects    \* the arguments that are JSON objects

NoSlot == [id |-> "", name |-> "", arguments |-> <<>>]

\* A later id or name replaces an earlier one; arguments are appended.
Merge(slot, fragment) ==
    [id        |-> IF fragment.id # "" THEN fragment.id ELSE slot.id,
     name      |-> IF fragment.name # "" THEN fragment.name ELSE slot.name,
     arguments |-> slot.arguments \o fragment.arguments]

\* tool_acc, a function from indices.
Collect(slots, fragment) ==
    LET i == fragment.index
    IN  (i :> Merge(IF i \in DOMAIN slots THEN slots[i] ELSE NoSlot, fragment)) @@ slots

\* shown is what the user has been shown of the reply and not been taken back.
Start == [content |-> <<>>, slots |-> <<>>, sawTools |-> FALSE, shown |-> <<>>]

\* One chunk, its fragments first: the first of them takes back the text shown.
Consume(reply, chunk) ==
    LET saw == reply.sawTools \/ chunk.fragments # <<>>
    IN  [content  |-> reply.content \o chunk.text,
         slots    |-> FoldLeft(Collect, reply.slots, chunk.fragments),
         sawTools |-> saw,
         shown    |-> IF saw THEN <<>> ELSE reply.shown \o chunk.text]

\* Arguments that are no object are kept as an error, which the loop reports.
ToolCall(call) ==
    [id |-> call.id, name |-> call.name,
     arguments |-> IF call.arguments \in Objects THEN call.arguments ELSE <<>>,
     parseError |-> call.arguments # <<>> /\ call.arguments \notin Objects]

\* Calls in the order of their indices; one that never got a name nor arguments
\* is none.
Calls(slots) ==
    LET named == {i \in DOMAIN slots : slots[i].name # "" \/ slots[i].arguments # <<>>}
        order == SetToSortSeq(named, LAMBDA i, j : i < j)
    IN  [k \in DOMAIN order |-> ToolCall(slots[order[k]])]

\* A reply of nothing raises.
Reply(content, calls) ==
    [raises |-> content = <<>> /\ calls = <<>>, content |-> content, calls |-> calls]

\* chat_stream, and what it has shown.
Streamed(chunks) ==
    LET end == FoldLeft(Consume, Start, chunks)
    IN  Reply(end.content, Calls(end.slots))

Shown(chunks) == FoldLeft(Consume, Start, chunks).shown

\* chat: the whole message at once.
Whole(message) ==
    Reply(message.content, [k \in DOMAIN message.calls |-> ToolCall(message.calls[k])])

\* Without an SDK client the text is replayed when chat has returned.
Replayed(reply) == IF reply.calls # <<>> THEN <<>> ELSE reply.content
===============================================================================
