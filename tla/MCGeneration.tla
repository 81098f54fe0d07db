---------------------------- MODULE MCGeneration -----------------------------
(* A turn of a thread that asks an unreliable provider. The thread is new, or *)
(* carries the conversation of an earlier turn: with its summary, or with one *)
(* made by a turn that did not see all the messages before it.                *)
EXTENDS Generation

CONSTANTS t0, t1, t2

MCTurns == {t1}

Asked == Message(UserMessage(t0))
Called == Message(AssistantMessage(Before, <<>>, <<<<Before, 1>>>>))
Failed == Message(ToolMessage(<<Before, 1>>, TRUE))
Found == Message(ToolMessage(<<Before, 1>>, FALSE))
Answer == Message(AssistantMessage(Before, <<<<Before, 2>>>>, <<>>))
Overlapping == Message(UserMessage(t2))

Covers(messages) == Compacted(Compaction(messagesFromEvents(messages)))

MCEarlier ==
    {<<>>,
     <<Asked, Called, Found, Covers(<<Asked, Called>>), Answer>>,
     <<Asked, Overlapping, Called, Failed, Covers(<<Asked, Called>>), Answer>>}
=============================================================================
