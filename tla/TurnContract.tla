---------------------------- MODULE TurnContract ----------------------------
(***************************************************************************)
(* What the tool phase promises to the conversation, with no mention of    *)
(* invocations, checkpoints, pauses or decisions: the calls of a turn are  *)
(* answered in the order they were asked, what has been answered and saved *)
(* is never forgotten, and a turn is closed only when every call of it has *)
(* its one answer.  A turn may also be given up, with the session.         *)
(***************************************************************************)
EXTENDS Naturals, Sequences

CONSTANT Calls

VARIABLES
    closed,     \* the turns closed so far, each the sequence of its answered calls
    open,       \* the calls of the open turn, <<>> between turns
    saved,      \* those answered and saved
    givenUp

contract == <<closed, open, saved, givenUp>>

Init == closed = <<>> /\ open = <<>> /\ saved = <<>> /\ givenUp = FALSE

Ask ==
    /\ ~givenUp /\ open = <<>>
    /\ open' \in Seq(Calls) /\ open' # <<>>
    /\ UNCHANGED <<closed, saved, givenUp>>

Prefix(p, q) == Len(p) <= Len(q) /\ p = SubSeq(q, 1, Len(p))

\* A checkpoint or a pause saves more answers, never all of them.
Save ==
    /\ ~givenUp /\ open # <<>>
    /\ Len(saved') > Len(saved) /\ Len(saved') < Len(open)
    /\ Prefix(saved', open)
    /\ UNCHANGED <<closed, open, givenUp>>

Close ==
    /\ ~givenUp /\ open # <<>>
    /\ closed' = Append(closed, open)
    /\ open' = <<>> /\ saved' = <<>>
    /\ givenUp' \in BOOLEAN        \* temper.done closes the turn and the session

GiveUp ==
    /\ ~givenUp /\ givenUp' = TRUE
    /\ UNCHANGED <<closed, open, saved>>

Next == Ask \/ Save \/ Close \/ GiveUp
Spec == Init /\ [][Next]_contract
=============================================================================
