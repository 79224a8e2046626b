------------------------------ MODULE AgentInput ------------------------------
(***************************************************************************)
(* What an agent promises of the messages it is given, whatever is         *)
(* cancelled, vetoed or replayed around them (packages/core/agent,         *)
(* runtime-types.ts): each meets one fate; a follow-up has a turn of its   *)
(* own, in the order they were queued; a turn takes all that was steered   *)
(* at it.  AgentLoop implements it.                                        *)
(***************************************************************************)
EXTENDS Naturals, Sequences

VARIABLES
    mail,      \* each message: its list, its fate, the turn that claimed it
    turn       \* the turn that is open, or the last one

Pending == {m \in DOMAIN mail : mail[m].fate = "pending"}
Listed(list) == {m \in Pending : mail[m].list = list}

Outcome(messages, fate, by) ==
    mail' = [m \in DOMAIN mail |->
                IF m \in messages THEN [mail[m] EXCEPT !.fate = fate, !.turn = by]
                ELSE mail[m]]

Init == mail = <<>> /\ turn = 0

Accept ==
    /\ \E list \in {"next-turn", "next-step"} :
          mail' = Append(mail, [list |-> list, fate |-> "pending", turn |-> 0])
    /\ UNCHANGED turn

\* One message removed, or all of them.
Discard ==
    /\ \E messages \in SUBSET Pending : Outcome(messages, "discarded", 0)
    /\ UNCHANGED turn

OpenTurn == turn' = turn + 1 /\ UNCHANGED mail

\* A step takes all that was steered; the first one of a turn also takes the
\* oldest follow-up.
Oldest(messages) == {m \in messages : \A n \in messages : m <= n}
HasFollowup ==
    \E m \in DOMAIN mail :
        mail[m].list = "next-turn" /\ mail[m].fate = "claimed" /\ mail[m].turn = turn

Claim(followups) ==
    /\ followups # {} => ~HasFollowup
    /\ Outcome(Listed("next-step") \union followups, "claimed", turn)
    /\ UNCHANGED turn

Next ==
    \/ Accept \/ Discard \/ OpenTurn
    \/ Claim({}) \/ Claim(Oldest(Listed("next-turn")))

Spec == Init /\ [][Next]_<<mail, turn>>
===============================================================================
