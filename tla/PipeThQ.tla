------------------------------- MODULE PipeThQ -------------------------------
(***************************************************************************)
(* The thread pipeline of Vath_pth/vath_pth/include/PipeThQ.h: the stages   *)
(* of ranks BEG to END are connected by the queues ThQ[BEG] .. ThQ[END-1];  *)
(* stage n gets from ThQ[n-1] and posts to ThQ[n].                          *)
(*                                                                          *)
(* The repository has the class and no program that uses it.  The client    *)
(* here is the one its comments describe: one thread for each rank, that    *)
(* gets and posts in a loop; the first stage posts numItems values and      *)
(* returns; and a thread that closes the pipeline, at any time at all.      *)
(***************************************************************************)
EXTENDS Integers, Sequences

CONSTANTS BEG, END, size, numItems, NoItem

ASSUME PipelineAssumption ==
    BEG \in Nat /\ END \in Nat /\ BEG < END /\ numItems \in Nat

\* What ThQueue assumes of a queue.
ASSUME QueueAssumption == size \in Nat \ {0} /\ NoItem \notin 1 .. numItems

first == BEG
last == END - 1

Stage == {<<"stage", rank>> : rank \in BEG .. END}
Closer == <<"closer", END>>
Item == 1 .. numItems

VARIABLES c, active, not_empty, not_full, call, result, tried,
          at,     \* at[s]: "work", "got" (GetPrevious has called Remove),
                  \* "closing" or "exited"
          sent,   \* how many values the first stage has posted
          out     \* what the last stage got, in order

ThQ == INSTANCE ThQueue WITH
    Thread <- Stage \cup {Closer}, Queue <- first .. last, capacity <- size,
    Operations <- {"Add", "Remove", "CloseQueue"}

queueVars == <<c, active, not_empty, not_full, call, result, tried>>
vars == <<queueVars, at, sent, out>>

Init ==
    /\ ThQ!Init
    /\ at = [s \in Stage \cup {Closer} |-> "work"]
    /\ sent = 0
    /\ out = << >>

Goto(s, place) == at' = [at EXCEPT ![s] = place]

Returned(s) == call[s] = ThQ!Idle
-----------------------------------------------------------------------------
\* PostNext of every stage but the last, for which it does nothing.
PostNext(s, elem) ==
    ThQ!Invoke(s, [op |-> "Add", q |-> s[2], elem |-> elem])

\* The first stage: GetPrevious would return at once, so it only posts.
Feed(s) ==
    /\ s[2] = first
    /\ at[s] = "work" /\ Returned(s)
    /\ IF sent < numItems
       THEN /\ PostNext(s, sent + 1)
            /\ sent' = sent + 1
            /\ UNCHANGED at
       ELSE /\ Goto(s, "exited")
            /\ UNCHANGED <<queueVars, sent>>
    /\ UNCHANGED out

\* GetPrevious of any other stage: Remove, and then what its flag asks for.
GetPrevious(s) ==
    /\ s[2] # first
    /\ at[s] = "work" /\ Returned(s)
    /\ ThQ!Invoke(s, [op |-> "Remove", q |-> s[2] - 1])
    /\ Goto(s, "got")
    /\ UNCHANGED <<sent, out>>

\* The flag is true: the stage works on the value and posts it.
PassOn(s) ==
    /\ at[s] = "got" /\ Returned(s)
    /\ result[s].what = "elem"
    /\ IF s[2] > last
       THEN out' = Append(out, result[s].elem) /\ UNCHANGED queueVars
       ELSE PostNext(s, result[s].elem) /\ UNCHANGED out
    /\ Goto(s, "work")
    /\ UNCHANGED sent

\* The flag is false: close the next queue and exit the thread.
PassClose(s) ==
    /\ at[s] = "got" /\ Returned(s)
    /\ result[s].what = "end"
    /\ IF s[2] > last
       THEN Goto(s, "exited") /\ UNCHANGED queueVars
       ELSE /\ ThQ!Invoke(s, [op |-> "CloseQueue", q |-> s[2]])
            /\ Goto(s, "closing")
    /\ UNCHANGED <<sent, out>>

Exit(s) ==
    /\ at[s] = "closing" /\ Returned(s)
    /\ Goto(s, "exited")
    /\ UNCHANGED <<queueVars, sent, out>>

InQueue(s) == ThQ!Step(s) /\ UNCHANGED <<at, sent, out>>

RunStage(s) ==
    \/ Feed(s) \/ GetPrevious(s) \/ PassOn(s) \/ PassClose(s) \/ Exit(s)
    \/ InQueue(s)

\* Mutant of ToClose: the other end of the pipeline.
ToCloseLast == last

\* The queue ClosePipeline closes; the others are to follow.
ToClose == first

ClosePipeline ==
    \/ /\ at[Closer] = "work"
       /\ ThQ!Invoke(Closer, [op |-> "CloseQueue", q |-> ToClose])
       /\ Goto(Closer, "closing")
       /\ UNCHANGED <<sent, out>>
    \/ InQueue(Closer)
    \/ Exit(Closer)

Wakeup(s) == ThQ!SpuriousWakeup(s) /\ UNCHANGED <<at, sent, out>>

Done == \A s \in Stage \cup {Closer} : at[s] = "exited"

Next ==
    \/ \E s \in Stage : RunStage(s) \/ Wakeup(s)
    \/ ClosePipeline
    \/ Done /\ UNCHANGED vars

\* Every thread keeps getting the processor and an unheld mutex is granted;
\* nothing makes a spurious wakeup happen.
Fairness == WF_vars(ClosePipeline) /\ \A s \in Stage : WF_vars(RunStage(s))

Spec == Init /\ [][Next]_vars /\ Fairness
-----------------------------------------------------------------------------
\* The type of every variable; the queues' part is ThQueue's.
TypeOK ==
    /\ ThQ!TypeOK
    /\ at \in [Stage \cup {Closer} -> {"work", "got", "closing", "exited"}]
    /\ sent \in 0 .. numItems
    /\ out \in Seq(Item)

\* The value that stage s has in hand, between removing and adding it.
Holding(s) ==
    CASE at[s] = "got" /\ Returned(s) /\ result[s].what = "elem" -> <<result[s].elem>>
      [] s[2] # first /\ call[s].op = "Add" -> <<call[s].elem>>
      [] OTHER -> << >>

\* Everything the pipeline has accepted from rank n on, oldest first.
Flow[n \in BEG .. END] ==
    IF n = END THEN out \o Holding(<<"stage", n>>)
               ELSE Flow[n + 1] \o c[n] \o Holding(<<"stage", n>>)

\* The values come out of the last stage in the order they were posted in,
\* and at no moment is one missing, repeated or overtaken anywhere between.
InOrder == Flow[BEG] = [i \in 1 .. Len(Flow[BEG]) |-> i]

\* What the first queue accepted is never dropped further down: no stage finds
\* the queue it posts to closed.
NothingDropped == [][Len(Flow[BEG]') >= Len(Flow[BEG])]_vars

\* The close travels with the flow: a queue is closed only when everything
\* before it is closed and empty, and a stage that has exited has left
\* nothing behind.
ClosedBehind ==
    /\ \A n \in first + 1 .. last :
          ~active[n] => ~active[n - 1] /\ c[n - 1] = << >>
    /\ \A s \in Stage : at[s] = "exited" /\ s[2] # first =>
          /\ ~active[s[2] - 1] /\ c[s[2] - 1] = << >>
          /\ Holding(s) = << >>

\* However early or late the pipeline is closed, every thread exits: none is
\* left asleep on a queue that nobody adds to, or nobody empties, any more.
AllExit == <>Done
=============================================================================
