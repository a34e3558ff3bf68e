----------------------------- MODULE ReplySlots -----------------------------
(* What the botnet server promises about answering: each bot has one slot,   *)
(* and only the turn that holds it decides what becomes of its question.     *)
(* Nothing is said of segments, summaries or the order of a transcript.      *)

CONSTANTS Bots, NoId

VARIABLES
    questions,   \* what has been asked: by message id, the bot and the status
    slot,        \* the question that each bot is answering, or NoId
    serving      \* a server process is up

slotVars == <<questions, slot, serving>>

Become(m, b, status) ==
    questions' = [q \in DOMAIN questions \cup {m} |->
                    IF q = m THEN [bot |-> b, status |-> status] ELSE questions[q]]

Hold(b, m) == slot' = [slot EXCEPT ![b] = m]

SlotsInit ==
    /\ questions = [m \in {} |-> NoId]
    /\ slot = [b \in Bots |-> NoId]
    /\ serving = TRUE

\* A new question takes the free slot of its bot.
Ask(b) ==
    /\ serving = TRUE
    /\ slot[b] = NoId
    /\ \E m \in DOMAIN questions' \ DOMAIN questions :
          /\ Become(m, b, "awaiting")
          /\ Hold(b, m)
    /\ UNCHANGED serving

\* So does an old one that is asked again; it need not have failed.
AskAgain(b) ==
    /\ serving = TRUE
    /\ slot[b] = NoId
    /\ \E m \in DOMAIN questions :
          /\ questions[m].bot = b
          /\ Become(m, b, "awaiting")
          /\ Hold(b, m)
    /\ UNCHANGED serving

\* The turn that holds the slot ends, and with that the slot is free again.
Settle(b) ==
    /\ serving = TRUE
    /\ slot[b] # NoId
    /\ \E outcome \in {"sent", "failed"} : Become(slot[b], b, outcome)
    /\ Hold(b, NoId)
    /\ UNCHANGED serving

\* The process dies, and every turn with it.
Die ==
    /\ serving = TRUE
    /\ serving' = FALSE
    /\ slot' = [b \in Bots |-> NoId]
    /\ UNCHANGED questions

\* The next process fails what was being answered before it serves anything.
Recover ==
    /\ serving = FALSE
    /\ serving' = TRUE
    /\ questions' = [m \in DOMAIN questions |->
            [questions[m] EXCEPT !.status = IF @ = "awaiting" THEN "failed" ELSE @]]
    /\ UNCHANGED slot

SlotsNext ==
    \/ \E b \in Bots : Ask(b) \/ AskAgain(b) \/ Settle(b)
    \/ Die
    \/ Recover

SlotsSpec == SlotsInit /\ [][SlotsNext]_slotVars
=============================================================================
