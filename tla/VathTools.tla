--------------------------------- MODULE VathTools ---------------------------------
(***************************************************************************)
(* The tools of the vath library, one after the other: a behaviour chooses *)
(* a tool and runs the threads of its module, while the state of the       *)
(* others stays as it was constructed.                                     *)
(***************************************************************************)
EXTENDS Integers, Sequences, FiniteSets

CONSTANTS Thread, Item, NoItem, Size             \* RingBuffer
CONSTANTS Reader, Writer, Rounds                 \* SynchP and OSynchP
CONSTANTS Beg, End, Passes                       \* PipeBL
CONSTANTS Adder, Amount, Updates, Address        \* TbbReduction
CONSTANTS Worker, Job, Tasks, Children           \* JobMgr
CONSTANTS Client, Elements, CloseAfter           \* ThDeque

ASSUME RingAssumption  == Size \in Nat \ {0} /\ NoItem \notin Item
ASSUME SynchAssumption == /\ IsFiniteSet(Reader) /\ Reader # {}
                          /\ Writer \notin Reader /\ Rounds \in Nat
ASSUME PipeAssumption  == Beg \in Nat /\ End \in Nat /\ Beg <= End /\ Passes \in Nat
ASSUME SumAssumption   == /\ IsFiniteSet(Adder) /\ Updates \in Nat /\ Address # {}
                          /\ Amount \in [Adder -> Int]
ASSUME JobsAssumption  == /\ IsFiniteSet(Worker) /\ IsFiniteSet(Job)
                          /\ Tasks \in Nat /\ Children \in Nat
ASSUME DequeAssumption == Elements \in Nat

VARIABLES tool
VARIABLES buffer, head, tail, C, trying, value
VARIABLES element, state, counter, scond, posts, gets, reads
VARIABLES oElement, oCounter, BL, passed, oPosts, oGets, oReads
VARIABLES connector, stage, worked
VARIABLES P, heap, allocated, update, updates, stale, confused
VARIABLES nJobs, poolIdle, submitted, n_tasks, running, queued, children, worker
VARIABLES c, active, not_empty, added, taken, stolen, told

ring   == <<buffer, head, tail, C, trying, value>>
synch  == <<element, state, counter, scond, posts, gets, reads>>
osynch == <<oElement, oCounter, BL, passed, oPosts, oGets, oReads>>
pipe   == <<connector, stage, worked>>
sum    == <<P, heap, allocated, update, updates, stale, confused>>
jobs   == <<nJobs, poolIdle, submitted, n_tasks, running, queued, children, worker>>
deque  == <<c, active, not_empty, added, taken, stolen, told>>
vars   == <<tool, ring, synch, osynch, pipe, sum, jobs, deque>>

RB == INSTANCE RingBuffer WITH ZeroedMemory <- TRUE
SP == INSTANCE SynchP
OS == INSTANCE OSynchP
PB == INSTANCE PipeBL
TR == INSTANCE TbbReduction
JM == INSTANCE JobMgr
TD == INSTANCE ThDeque

Tools == {"RingBuffer", "SynchP", "OSynchP", "PipeBL", "TbbReduction", "JobMgr", "ThDeque"}

Init ==
  /\ tool \in Tools
  /\ RB!Init /\ SP!Init /\ OS!Init /\ PB!Init /\ TR!Init /\ JM!Init /\ TD!Init

Next ==
  /\ UNCHANGED tool
  /\ \/ tool = "RingBuffer" /\ RB!Next
        /\ UNCHANGED <<synch, osynch, pipe, sum, jobs, deque>>
     \/ tool = "SynchP" /\ SP!Next
        /\ UNCHANGED <<ring, osynch, pipe, sum, jobs, deque>>
     \/ tool = "OSynchP" /\ OS!Next
        /\ UNCHANGED <<ring, synch, pipe, sum, jobs, deque>>
     \/ tool = "PipeBL" /\ PB!Next
        /\ UNCHANGED <<ring, synch, osynch, sum, jobs, deque>>
     \/ tool = "TbbReduction" /\ TR!Next
        /\ UNCHANGED <<ring, synch, osynch, pipe, jobs, deque>>
     \/ tool = "JobMgr" /\ JM!Next
        /\ UNCHANGED <<ring, synch, osynch, pipe, sum, deque>>
     \/ tool = "ThDeque" /\ TD!Next
        /\ UNCHANGED <<ring, synch, osynch, pipe, sum, jobs>>

(* The fairness the module of the tool states, where it states one.        *)
Fairness ==
  \/ tool = "SynchP" /\ SP!Fairness
  \/ tool = "PipeBL" /\ PB!Fairness
  \/ tool = "JobMgr" /\ JM!Fairness
  \/ tool = "ThDeque" /\ TD!Fairness
  \/ tool \in {"RingBuffer", "OSynchP", "TbbReduction"}

Spec == Init /\ [][Next]_vars /\ Fairness
-----------------------------------------------------------------------------
(* The types of all tools.                                                 *)
TypeOK ==
  /\ tool \in Tools
  /\ RB!TypeOK /\ SP!TypeOK /\ OS!TypeOK /\ PB!TypeOK /\ TR!TypeOK /\ JM!TypeOK /\ TD!TypeOK

(* The ring buffer is a bounded queue, although full and empty differ only *)
(* in a counter.                                                           *)
ImplementsBoundedFIFO == RB!ImplementsBoundedFIFO

(* A value that is posted is read as often as its writer asked for before  *)
(* the next one takes its place; exactly as often with SynchP, at least as *)
(* often and less than twice as often with OSynchP.                        *)
ReadsPerPost == SP!ReadsPerPost /\ OS!ReadsPerPost

(* No release of the pipeline of locks is lost or taken twice, although    *)
(* waiting for a lock and setting it are two calls.                        *)
InStep == PB!InStep

(* No accumulation is lost to a concurrent one.                            *)
SumIsExact == TR!SumIsExact

(* A job is reported as ended when nothing of it is left to do.            *)
EndOfJobMeansDone == JM!EndOfJobMeansDone

(* No client of the deque sleeps beside an element or a closed deque, and  *)
(* no element is lost or handed out twice.                                 *)
DequeKeepsElements == TD!SleepersHaveReason /\ TD!NothingLost

(* Every round of posts and gets, every pass of the pipeline, every job    *)
(* and every consumer of a closed deque comes to an end.                   *)
Finishes ==
  <>( /\ tool = "SynchP" => SP!Finished
      /\ tool = "PipeBL" => PB!Finished
      /\ tool = "JobMgr" => JM!Finished
      /\ tool = "ThDeque" => TD!Finished )
=============================================================================
