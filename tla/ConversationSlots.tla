-------------------------- MODULE ConversationSlots -------------------------
(* A conversation implements the slots: what goroutine runs is the slot, and *)
(* the user messages are the questions.                                      *)
EXTENDS Conversation

UserMessages == {m \in DOMAIN messages : messages[m].role = "user"}

questionsOf ==
    [m \in UserMessages |-> [bot |-> messages[m].bot, status |-> messages[m].status]]

slotOf ==
    [b \in Bots |-> LET serving == {p \in Turns : proc[p].bot = b}
                    IN  IF serving = {} THEN NoId ELSE proc[CHOOSE p \in serving : TRUE].msg]

Slots == INSTANCE ReplySlots WITH
    questions <- questionsOf, slot <- slotOf, serving <- up

\* Unless bots are deleted, every step of the server, its death and its restart are
\* steps of the slots: nothing settles a question but the one turn that holds its bot.
ImplementsSlots == Slots!SlotsSpec
=============================================================================
