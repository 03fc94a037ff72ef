---------------------------- MODULE ContextAssembly ----------------------------
(***************************************************************************)
(* DefaultContextManager's view of a conversation for the LLM: all of it   *)
(* if it fits the budget, else a checkpoint and a tail, whose chain of     *)
(* tool calls is repaired.  The room for the tail is whatever the other    *)
(* sections leave, here any number.                                        *)
(*                                                                         *)
(* A message is a role, the calls an assistant makes, the call a tool      *)
(* message answers, a cost, and its text.  Assistants that call tools have *)
(* mostly the same text, none, which the repair cannot tell apart.         *)
(***************************************************************************)
EXTENDS Naturals, Sequences, SequencesExt, FiniteSetsExt

CONSTANTS
    Rooms,          \* the budgets for the tail
    TailMessages,   \* recent_tail_messages
    RefreshAfter,   \* of _should_refresh_checkpoint
    Batches,        \* how many calls an assistant may make at once
    ToolCosts,      \* of a pruned tool message
    PrunedCost,     \* at most that much once it is pruned again
    MaxMessages,    \* bound on the conversation
    NoCheckpoint

ASSUME AssemblyAssumptions ==
    /\ Rooms \subseteq Nat /\ Batches \subseteq Nat \ {0} /\ ToolCosts \subseteq Nat \ {0}
    /\ RefreshAfter \in Nat /\ TailMessages \in Nat
    /\ PrunedCost \in Nat \ {0} /\ MaxMessages \in Nat

VARIABLES
    conversation,   \* the messages without the system prompt
    saved,          \* how many of them are rows
    unanswered,     \* calls of the last assistant message that have no result
    checkpoint,     \* latest_checkpoint: its retained_message_boundary
    view            \* of the last assembly: [recent, compacted, fit, twin],
                    \* until a message is appended

assemblyVars == <<conversation, saved, unanswered, checkpoint, view>>

Message(role, calls, answers, cost, text) ==
    [role |-> role, calls |-> calls, answers |-> answers, cost |-> cost, text |-> text]

\* Texts are numbers: 0 is none, others are each message's own.
PrunedText == MaxMessages + 1
NoCall == <<0, 0>>

\* fit: how many messages the budget leaves room for.  twin: an earlier message
\* is alike the one the tail begins with.
NoView == [recent |-> <<>>, compacted |-> FALSE, fit |-> 0, twin |-> FALSE]

AInit ==
    /\ conversation = <<>> /\ saved = 0 /\ unanswered = <<>>
    /\ checkpoint = NoCheckpoint /\ view = NoView

Cost(messages) ==
    LET sum[n \in 0..Len(messages)] == IF n = 0 THEN 0 ELSE sum[n - 1] + messages[n].cost
    IN  sum[Len(messages)]

-----------------------------------------------------------------------------
\* The tail

Suffix(s, n) == SubSeq(s, Len(s) - n + 1, Len(s))

\* The most messages, from the last, that fit.
Fitting(s, room) == Max({n \in 0..Len(s) : Cost(Suffix(s, n)) <= room})

\* The last message alone is too much: a tool message is pruned once more.
Repruned(m) == [m EXCEPT !.cost = PrunedCost, !.text = PrunedText]

TooMuch(s, room) == s # <<>> /\ Last(s).cost > room

Tail_(s, room) ==
    IF ~TooMuch(s, room) THEN Suffix(s, Fitting(s, room))
    ELSE IF Last(s).role = "tool" /\ Last(s).cost > PrunedCost /\ PrunedCost <= room
         THEN LET pruned == Append(Front(s), Repruned(Last(s)))
              IN  Suffix(pruned, Fitting(pruned, room))
         ELSE <<>>

\* The same role, text and call id is the same message.
Alike(m, n) == m.role = n.role /\ m.text = n.text /\ m.answers = n.answers

\* Where a message is in the conversation: the first that is alike, or the start.
Position(s, m) == Min({i \in 1..Len(s) : Alike(s[i], m)} \cup {Len(s) + 1})

Start(s, tail) == IF Position(s, tail[1]) > Len(s) THEN 1 ELSE Position(s, tail[1])

\* Back from tool messages to the one that made the calls.
CallOf(s, i) == Max({1} \cup {j \in 1..i : s[j].role # "tool"})

\* Mutant: the tail is taken as it is.
KeepTail(s, tail) == tail

\* Mutant: back to the question, whatever the tail begins with.
RepairToUser(s, tail) ==
    IF tail = <<>> THEN tail
    ELSE SubSeq(s, Max({1} \cup {j \in 1..Start(s, tail) : s[j].role = "user"}), Len(s))

\* _repair_tool_call_chain
Repair(s, tail) ==
    IF tail = <<>> THEN tail
    ELSE LET i == CallOf(s, Start(s, tail))
         IN  IF s[i].role = "assistant" /\ s[i].calls > 0 THEN SubSeq(s, i, Len(s)) ELSE tail

-----------------------------------------------------------------------------
\* The checkpoint: of the messages it holds no more than their number.

Checkpoint(n) == IF n > TailMessages THEN n - TailMessages ELSE 0

NeedsCheckpoint(n) == checkpoint = NoCheckpoint \/ n > checkpoint + RefreshAfter

HasTwin(s, tail) == tail # <<>> /\ Position(s, tail[1]) <= Len(s) - Len(tail)

\* _assemble
Assemble(s, room) ==
    LET fits == Cost(s) <= room
        tail == Tail_(s, room)
    IN  /\ checkpoint' = IF ~fits /\ NeedsCheckpoint(Len(s)) THEN Checkpoint(Len(s))
                         ELSE checkpoint
        /\ view' = IF fits THEN [NoView EXCEPT !.recent = s]
                   ELSE [recent |-> Repair(s, tail), compacted |-> TRUE,
                         fit |-> Len(tail), twin |-> HasTwin(s, tail)]

\* build_context for a turn of the loop.
BuildContext(room) ==
    /\ conversation # <<>> /\ unanswered = <<>>
    /\ Assemble(conversation, room)
    /\ UNCHANGED <<conversation, saved, unanswered>>

\* status: another thread assembles the rows the session has.
ContextStatus(room) ==
    /\ saved > 0
    /\ Assemble(SubSeq(conversation, 1, saved), room)
    /\ UNCHANGED <<conversation, saved, unanswered>>

\* compact, from /compact: a checkpoint of the rows.
CompactContext ==
    /\ saved > 0
    /\ checkpoint' = Checkpoint(saved)
    /\ UNCHANGED <<conversation, saved, unanswered, view>>

-----------------------------------------------------------------------------
\* The conversation, as the loop appends to it.

Fits(n) == Len(conversation) + n <= MaxMessages

Append_(m) == conversation' = Append(conversation, m) /\ view' = NoView

UserMessage ==
    /\ Fits(1) /\ unanswered = <<>>
    /\ Append_(Message("user", 0, NoCall, 1, Len(conversation) + 1))
    /\ UNCHANGED <<saved, unanswered, checkpoint>>

TextMessage ==
    /\ Fits(1) /\ unanswered = <<>> /\ conversation # <<>>
    /\ Last(conversation).role # "assistant"
    /\ Append_(Message("assistant", 0, NoCall, 1, Len(conversation) + 1))
    /\ UNCHANGED <<saved, unanswered, checkpoint>>

\* n calls, with a text of its own or with none.
CallMessage(n, said) ==
    /\ Fits(n + 1) /\ unanswered = <<>> /\ conversation # <<>>
    /\ Append_(Message("assistant", n, NoCall, 1, IF said THEN Len(conversation) + 1 ELSE 0))
    /\ unanswered' = [k \in 1..n |-> <<Len(conversation) + 1, k>>]
    /\ UNCHANGED <<saved, checkpoint>>

ToolMessage(cost) ==
    /\ unanswered # <<>>
    /\ Append_(Message("tool", 0, Head(unanswered), cost, Len(conversation) + 1))
    /\ unanswered' = Tail(unanswered)
    /\ UNCHANGED <<saved, checkpoint>>

\* The run's messages are saved, those of a hard stop with calls that have no
\* result, or lost with a run that fails: the next loads the rows, and the
\* checkpoint stays.
SaveMessages ==
    /\ saved' = Len(conversation)
    /\ unanswered' = <<>>
    /\ view' = NoView
    /\ UNCHANGED <<conversation, checkpoint>>

LoseMessages ==
    /\ saved < Len(conversation)
    /\ conversation' = SubSeq(conversation, 1, saved)
    /\ unanswered' = <<>>
    /\ view' = NoView
    /\ UNCHANGED <<saved, checkpoint>>

-----------------------------------------------------------------------------
Answered(s, i) == \E j \in 1..(i - 1) :
    s[j].role = "assistant" /\ s[j].calls > 0 /\ \A k \in (j + 1)..i : s[k].role = "tool"

\* However small the room, the LLM is not shown the result of a call without
\* the call: providers refuse such a conversation and the run fails.  The
\* exception is the last result on its own, too large and pruned again: the
\* repair does not find it, and it stays alone.
CallsKeptTogether ==
    \/ \A i \in 1..Len(view.recent) :
          view.recent[i].role = "tool" => Answered(view.recent, i)
    \/ view.recent[1].text = PrunedText

\* A compacted view shows what the budget has room for and, where the cut
\* falls between a call and its results, the one batch of calls it falls in,
\* however often it is repaired and whatever was pruned, saved or lost before:
\* unless an earlier message is alike the first of the tail.
OverrunIsOneBatch ==
    view.compacted /\ ~view.twin =>
        \/ Len(view.recent) <= view.fit
        \/ \E b \in Batches : Len(view.recent) <= view.fit + b
===============================================================================
