------------------------------ MODULE Commands ------------------------------
(***************************************************************************)
(* What the VBuddy driver promises the program that calls it: the board    *)
(* executes the calls one at a time, each exactly once, in the order they  *)
(* were made, and a call has been executed when it returns.  Every fault   *)
(* of the line or of the calling process costs the program at most one     *)
(* command of that synchrony: it may run that many commands ahead.         *)
(***************************************************************************)
EXTENDS Naturals, Sequences

CONSTANT Command

VARIABLES
    queue,    \* issued and not yet executed
    busy,     \* a call is in progress
    slack     \* faults so far

cmdVars == <<queue, busy, slack>>

Init ==
    /\ queue = <<>>
    /\ busy = FALSE
    /\ slack = 0

Issue(c) ==
    /\ ~busy
    /\ busy' = TRUE
    /\ queue' = Append(queue, c)
    /\ UNCHANGED slack

Execute ==
    /\ queue # <<>>
    /\ queue' = Tail(queue)
    /\ UNCHANGED <<busy, slack>>

Return ==
    /\ busy
    /\ Len(queue) <= slack
    /\ busy' = FALSE
    /\ UNCHANGED <<queue, slack>>

\* A failing read is taken for an answer.
AnswerFault ==
    /\ slack' = slack + 1
    /\ UNCHANGED <<queue, busy>>

\* The process dies, or the command it issues is lost.
CallFault ==
    /\ slack' = slack + 1
    /\ busy' = ~busy
    /\ UNCHANGED queue

\* The answer of the command that is executed is lost.
LineFault ==
    /\ slack' = slack + 1
    /\ queue # <<>>
    /\ queue' = Tail(queue)
    /\ UNCHANGED busy

Next ==
    \/ \E c \in Command : Issue(c)
    \/ Execute \/ Return
    \/ AnswerFault \/ CallFault \/ LineFault

Spec == Init /\ [][Next]_cmdVars
=============================================================================
