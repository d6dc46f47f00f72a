--------------------------- MODULE ProducerConsumer ---------------------------
(***************************************************************************)
(* pthreads/08.sharedQueue/producerConsumer.c: the main thread creates a    *)
(* TS_Queue, starts the consumers and then the producers, joins them in the *)
(* same order, asserts that the queue is empty and destroys it.  Each       *)
(* producer appends numItems items, each consumer removes numItems.         *)
(***************************************************************************)
EXTENDS Integers, FiniteSets, Sequences

CONSTANTS numProducers, numConsumers, numItems,
          QueueCapacity,   \* the program creates its queue with capacity 8
          NoItem

ASSUME CountsAssumption ==
    /\ numProducers \in Nat /\ numConsumers \in Nat
    /\ numItems \in 1 .. 10     \* so that the items 10*id+i are distinct
    /\ QueueCapacity \in Nat \ {0}

Producer == {<<"producer", id>> : id \in 1 .. numProducers}
Consumer == {<<"consumer", id>> : id \in 1 .. numConsumers}
Main == <<"main", 0>>
Thread == Producer \cup Consumer \cup {Main}

ItemOf(p, i) == 10 * p[2] + i
Item == {ItemOf(p, i) : p \in Producer, i \in 0 .. numItems - 1}

VARIABLES myArray, myCapacity, mySize, myFirstIndex, myLastIndex, lockLeaked,
          notEmpty, notFull, call, result,
          mainAt,   \* where main is: create, join, assert, destroy, done, aborted
          started,  \* how many threads main has created
          joined,   \* how many threads main has joined
          sent,     \* sent[p]: the loop counter i of producer p
          got       \* got[c]: what consumer c has removed and printed, in order

Queue == INSTANCE TSQueue WITH
    Capacities <- {QueueCapacity}, ResizeAlone <- TRUE,
    Operations <- {"append", "removeFirst", "getSize"}

queueVars == <<myArray, myCapacity, mySize, myFirstIndex, myLastIndex,
               lockLeaked, notEmpty, notFull, call, result>>
vars == <<queueVars, mainAt, started, joined, sent, got>>
-----------------------------------------------------------------------------
\* The order in which main creates, and later joins, its threads.
ThreadAt(i) == IF i <= numConsumers THEN <<"consumer", i>>
                                    ELSE <<"producer", i - numConsumers>>

Started(t) == \E i \in 1 .. started : ThreadAt(i) = t

\* The thread function of t has returned.
Finished(t) ==
    /\ Started(t)
    /\ call[t] = Queue!Idle
    /\ IF t \in Producer THEN sent[t] = numItems ELSE Len(got[t]) = numItems

\* Mutant of Joinable: pthread_join does not wait for the thread.
JoinableAtOnce(t) == Started(t)

\* pthread_join(t) can return.
Joinable(t) == Finished(t)

Init ==
    /\ Queue!Init
    /\ mainAt = IF numConsumers + numProducers = 0 THEN "assert" ELSE "create"
    /\ started = 0
    /\ joined = 0
    /\ sent = [p \in Producer |-> 0]
    /\ got = [c \in Consumer |-> << >>]

\* The thread function of a producer.
Produce(p) ==
    \/ /\ Started(p) /\ sent[p] < numItems
       /\ Queue!Invoke(p, [op |-> "append", item |-> ItemOf(p, sent[p])])
       /\ sent' = [sent EXCEPT ![p] = @ + 1]
       /\ UNCHANGED <<mainAt, started, joined, got>>
    \/ /\ Queue!AppendWait(p) \/ Queue!AppendItem(p)
       /\ UNCHANGED <<mainAt, started, joined, sent, got>>

\* The thread function of a consumer.
Consume(c) ==
    \/ /\ Started(c) /\ Len(got[c]) < numItems
       /\ Queue!Invoke(c, [op |-> "removeFirst"])
       /\ UNCHANGED <<mainAt, started, joined, sent, got>>
    \/ /\ Queue!RemoveFirstWait(c)
       /\ UNCHANGED <<mainAt, started, joined, sent, got>>
    \/ /\ Queue!RemoveFirst(c)
       /\ got' = [got EXCEPT ![c] = Append(@, result'[c])]
       /\ UNCHANGED <<mainAt, started, joined, sent>>

CreateThread ==
    /\ mainAt = "create"
    /\ started' = started + 1
    /\ mainAt' = IF started' = numConsumers + numProducers THEN "join" ELSE "create"
    /\ UNCHANGED <<queueVars, joined, sent, got>>

JoinThread ==
    /\ mainAt = "join"
    /\ Joinable(ThreadAt(joined + 1))
    /\ joined' = joined + 1
    /\ mainAt' = IF joined' = numConsumers + numProducers THEN "assert" ELSE "join"
    /\ UNCHANGED <<queueVars, started, sent, got>>

\* assert( getSize(tsQueue) == 0 ): the call, and the test of what it returns.
AssertEmpty ==
    /\ mainAt = "assert"
    /\ \/ /\ Queue!Invoke(Main, [op |-> "getSize"])
          /\ UNCHANGED mainAt
       \/ /\ Queue!GetSize(Main)
          /\ mainAt' = IF mySize = 0 THEN "destroy" ELSE "aborted"
    /\ UNCHANGED <<started, joined, sent, got>>

Destroy ==
    /\ mainAt = "destroy"
    /\ mainAt' = "done"
    /\ UNCHANGED <<queueVars, started, joined, sent, got>>

MainThread == CreateThread \/ JoinThread \/ AssertEmpty \/ Destroy

\* main has returned, or the assertion failed: the process is gone.
Exited == mainAt \in {"done", "aborted"}

Wakeup(t) ==
    /\ Queue!SpuriousWakeup(t)
    /\ UNCHANGED <<mainAt, started, joined, sent, got>>

Next ==
    \/ /\ ~Exited
       /\ \/ MainThread
          \/ \E p \in Producer : Produce(p) \/ Wakeup(p)
          \/ \E c \in Consumer : Consume(c) \/ Wakeup(c)
    \/ Exited /\ UNCHANGED vars

\* Every thread keeps getting the processor, and an unheld mutex is granted;
\* nothing makes a spurious wakeup happen.
Fairness ==
    /\ WF_vars(MainThread)
    /\ \A p \in Producer : WF_vars(~Exited /\ Produce(p))
    /\ \A c \in Consumer : WF_vars(~Exited /\ Consume(c))

Spec == Init /\ [][Next]_vars /\ Fairness
-----------------------------------------------------------------------------
\* The type of every variable; the queue's part is TSQueue's.
TypeOK ==
    /\ Queue!TypeOK
    /\ mainAt \in {"create", "join", "assert", "destroy", "done", "aborted"}
    /\ started \in 0 .. numConsumers + numProducers
    /\ joined \in 0 .. numConsumers + numProducers
    /\ sent \in [Producer -> 0 .. numItems]
    /\ got \in [Consumer -> Seq(Item)]

\* Appends and removals in progress whose thread is awake.
AwakeAppends == {p \in Producer : call[p].op = "append" /\ p \notin notFull}
AwakeRemovals == {c \in Consumer : call[c].op = "removeFirst" /\ c \notin notEmpty}

\* One signal per append and per removal is enough: while a consumer sleeps
\* on myNotEmptyCondition there are at least as many consumers awake inside
\* removeFirst as items to be had, and likewise for sleeping producers and
\* free slots.  So nobody sleeps beside work that only it could do.
NoLostWakeup ==
    /\ notEmpty # {} => mySize <= Cardinality(AwakeRemovals)
    /\ notFull # {} => myCapacity - mySize <= Cardinality(AwakeAppends)

\* The items producer p has put in the queue so far.
Appended(p) ==
    {ItemOf(p, i) : i \in 0 .. sent[p] - (IF call[p].op = "append" THEN 2 ELSE 1)}

\* No item is lost, duplicated or made up between append and the consumers'
\* output: removed and queued items are together the appended ones, each once.
ItemsConserved ==
    LET items == Queue!Contents
        queued == {items[k] : k \in 1 .. mySize}
        removedBy(c) == {got[c][i] : i \in DOMAIN got[c]}
    IN /\ (UNION {removedBy(c) : c \in Consumer}) \cup queued
            = UNION {Appended(p) : p \in Producer}
       /\ Cardinality(queued) = mySize
       /\ \A c \in Consumer :
             /\ Cardinality(removedBy(c)) = Len(got[c])
             /\ removedBy(c) \cap queued = {}
             /\ \A d \in Consumer \ {c} : removedBy(c) \cap removedBy(d) = {}

\* Every consumer prints the items of one producer in the order in which that
\* producer appended them, and whatever is still queued comes later.
ProducerOrder ==
    LET before(x, y) == x \div 10 = y \div 10 => x < y
        items == Queue!Contents
    IN \A c \in Consumer :
          /\ \A i, j \in DOMAIN got[c] : i < j => before(got[c][i], got[c][j])
          /\ \A i \in DOMAIN got[c], k \in 1 .. mySize :
                before(got[c][i], items[k])

\* When main destroys the queue no thread is inside one of its operations and
\* none will start one; and with as many consumers as producers the program's
\* assertion that the queue is then empty has held.
CleanShutdown ==
    /\ mainAt # "aborted"
    /\ mainAt \in {"destroy", "done"} =>
          \A t \in Producer \cup Consumer : Finished(t)

\* With as many consumers as producers no thread is left hanging: main
\* reaches its last line.
Terminates == <>(mainAt = "done")
=============================================================================
