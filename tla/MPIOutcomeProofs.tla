-------------------------- MODULE MPIOutcomeProofs --------------------------
(***************************************************************************)
(* What the programs leave behind when they end, with any number of        *)
(* processes: neighbours that exchange values each other's; a ring a       *)
(* message that has passed every process; a broadcast the master's value,  *)
(* everywhere; reductions, gathers and scattered arrays what the           *)
(* contributions of all processes make; rounds of messages one line of     *)
(* each process for each of them.  And that every state they pass through  *)
(* is one they can be in.  (What the loops and the task queue leave is in  *)
(* MPIJobProofs.)                                                          *)
(***************************************************************************)
EXTENDS MPIJobProofs
-----------------------------------------------------------------------------
(* What the programs in which every process sends one message and receives *)
(* one leave behind: neighbours that exchange a value, and the ring.       *)

\* These programs, and those of them in which a message goes around a ring.
Rings == {"ring", "ringAlt"}
OnceProgs == {"deadlock", "exchange", "exchange2"} \cup Rings
OnceJob == job \in Jobs /\ job.prog \in OnceProgs

\* A job has nothing to do, or has a last process without a neighbour (the
\* programs in C that do not check the number of processes), or every process
\* sends to one and receives from one.
Alone(j) == j.lang = "C" /\ j.prog \in {"deadlock", "exchange"} /\ Odd(j.np) /\ j.np > 1
Paired(j) == j.np > 1 /\ (j.prog \in Rings \/ ~Odd(j.np))
Idle(j) == ~Alone(j) /\ ~Paired(j)

\* Whom process p sends to and receives from, which of its two instructions is
\* the send (the other is the receive), and what it sends.
Neighbour(p) == IF Odd(p) THEN p - 1 ELSE p + 1
To(j, p) == IF j.prog \in Rings THEN (IF p = j.np - 1 THEN 0 ELSE p + 1) ELSE Neighbour(p)
From(j, p) == IF j.prog \in Rings THEN (IF p = 0 THEN j.np - 1 ELSE p - 1) ELSE Neighbour(p)
SendsAt(j, p) ==
  IF j.prog # "deadlock" /\ (IF j.prog \in Rings THEN p = MASTER ELSE Odd(p)) THEN 1 ELSE 2
What(j, p) ==
  IF j.prog \in Rings THEN [k \in 1 .. p + 1 |-> k - 1]
  ELSE IF j.prog = "exchange2" /\ j.lang = "Python" THEN [k \in 1 .. 8 |-> p + k - 1]
  ELSE << p >>

\* Each process receives from the one that sends to it.
LEMMA Peers ==
    ASSUME NEW j \in Jobs, j.prog \in OnceProgs, Paired(j), NEW p \in 0 .. j.np - 1
    PROVE  /\ To(j, p) \in 0 .. j.np - 1 /\ To(j, p) # p
           /\ From(j, p) \in 0 .. j.np - 1 /\ From(j, p) # p
           /\ To(j, From(j, p)) = p /\ From(j, To(j, p)) = p
<1>1. PICK n : n = j.np /\ n \in Nat \ {0} /\ p \in 0 .. n - 1 /\ n > 1
  BY JobsAssumption DEF Paired
<1>2. CASE j.prog \in Rings
  BY <1>1, <1>2 DEF To, From
<1>3. CASE j.prog \notin Rings
  <2>1. ~Odd(n)
    BY <1>1, <1>3 DEF Paired
  <2>2. Neighbour(p) \in 0 .. n - 1 /\ Neighbour(p) # p
    BY <1>1, <2>1, NeighbourExists DEF Neighbour
  <2>3. Neighbour(Neighbour(p)) = p
    <3>1. CASE Odd(p)
      <4>1. ~Odd(p - 1)
        BY <1>1, <3>1 DEF Odd
      <4>2. QED
        BY <1>1, <3>1, <4>1 DEF Neighbour
    <3>2. CASE ~Odd(p)
      <4>1. Odd(p + 1)
        BY <1>1, <3>2 DEF Odd
      <4>2. QED
        BY <1>1, <3>2, <4>1 DEF Neighbour
    <3>3. QED
      BY <3>1, <3>2
  <2>4. QED
    BY <1>1, <1>3, <2>2, <2>3 DEF To, From
<1>4. QED
  BY <1>2, <1>3

\* The two instructions of a process, s the one that sends.
Pair(code, s, val, to, from) ==
  /\ Len(code) = 2 /\ DOMAIN code = 1 .. 2
  /\ code[s].op = "send" /\ code[s].to = to /\ code[s].val = val
  /\ code[3 - s].op = "recv" /\ code[3 - s].var = "part" /\ code[3 - s].from \in {from, AnySource}

\* Sending and receiving, in either order, is such a pair.
LEMMA PairIs ==
    ASSUME NEW val, NEW to, NEW from, NEW a, NEW b, NEW f \in {from, AnySource}
    PROVE  /\ Pair(<< Send(val, to, a), Recv("part", f, b) >>, 1, val, to, from)
           /\ Pair(<< Recv("part", f, b), Send(val, to, a) >>, 2, val, to, from)
<1>1. 3 - 1 = 2 /\ 3 - 2 = 1
  OBVIOUS
<1>2. /\ Send(val, to, a).op = "send" /\ Send(val, to, a).to = to /\ Send(val, to, a).val = val
      /\ Recv("part", f, b).op = "recv" /\ Recv("part", f, b).var = "part"
      /\ Recv("part", f, b).from = f
  BY DEF Send, Recv
<1>3. ASSUME NEW x, NEW y
      PROVE  /\ Len(<< x, y >>) = 2 /\ DOMAIN << x, y >> = 1 .. 2
             /\ << x, y >>[1] = x /\ << x, y >>[2] = y
  OBVIOUS
<1> QED
  BY <1>1, <1>2, <1>3 DEF Pair

\* The instructions of neighbours, whatever their memory.
LEMMA ExchangeCode ==
    ASSUME NEW j \in Jobs, j.prog \in OnceProgs \ Rings, Paired(j), NEW p \in 0 .. j.np - 1, NEW m
    PROVE  Pair(Text(j, p, m), SendsAt(j, p), What(j, p), To(j, p), From(j, p))
<1>1. PICK n : n = j.np /\ n \in Nat \ {0} /\ p \in 0 .. n - 1 /\ n > 1 /\ ~Odd(n) /\ ~(n <= 1)
  BY JobsAssumption DEF Paired
<1>2. /\ j.lang \in {"C", "Java", "Array", "Python"} /\ j.prog \notin Rings
      /\ j.prog \in {"deadlock", "exchange", "exchange2"}
  BY JobsAssumption DEF OnceProgs, Rings
<1>3. To(j, p) = Neighbour(p) /\ From(j, p) = Neighbour(p)
  BY <1>2 DEF To, From
<1>4. /\ Odd(p) => Neighbour(p) = p - 1
      /\ ~Odd(p) => Neighbour(p) = p + 1
  BY DEF Neighbour
<1>5. CASE j.prog = "deadlock"
  <2>1. SendsAt(j, p) = 2 /\ What(j, p) = << p >>
    BY <1>2, <1>5 DEF SendsAt, What
  <2>2. \E a, b : Text(j, p, m) = << Recv("part", Neighbour(p), b), Send(<< p >>, Neighbour(p), a) >>
    <3>1. CASE j.lang = "C"
      <4>1. Text(j, p, m) = messagePassingDeadlock(p, n)
        BY <1>1, <1>5, <3>1 DEF Text, CCode
      <4>2. QED
        BY <1>1, <1>4, <4>1 DEF messagePassingDeadlock, RecvThenSend
    <3>2. CASE j.lang = "Java" \/ j.lang = "Array"
      <4>1. Text(j, p, m) = JavaMessagePassingDeadlock(p, n)
        BY <1>1, <1>5, <3>2 DEF Text, JavaCode, ArrayCode, ArrayMessagePassingDeadlock
      <4>2. QED
        BY <1>1, <1>4, <4>1 DEF JavaMessagePassingDeadlock, RecvThenSend
    <3>3. CASE j.lang = "Python"
      <4>1. Text(j, p, m) = PyMessagePassingDeadlock(p, n)
        BY <1>1, <1>5, <3>3 DEF Text, PyCode
      <4>2. QED
        BY <1>1, <1>4, <4>1 DEF PyMessagePassingDeadlock, RecvThenSend
    <3>4. QED
      BY <1>2, <3>1, <3>2, <3>3
  <2>3. QED
    BY <1>3, <2>1, <2>2, PairIs
<1>6. CASE j.prog \in {"exchange", "exchange2"}
  <2>1. /\ Odd(p) => SendsAt(j, p) = 1
        /\ ~Odd(p) => SendsAt(j, p) = 2
    BY <1>2, <1>6 DEF SendsAt
  <2>2. \E a, b : Text(j, p, m) =
          IF Odd(p) THEN << Send(What(j, p), Neighbour(p), a), Recv("part", Neighbour(p), b) >>
                    ELSE << Recv("part", Neighbour(p), b), Send(What(j, p), Neighbour(p), a) >>
    <3>1. ~(j.lang = "Python" /\ j.prog = "exchange2") => What(j, p) = << p >>
      BY <1>2 DEF What
    <3>2. CASE j.lang = "C"
      <4>1. \/ Text(j, p, m) = messagePassing(p, n)
            \/ Text(j, p, m) = messagePassing2(p, n)
        BY <1>1, <1>6, <3>2 DEF Text, CCode
      <4>2. QED
        BY <1>1, <1>4, <3>1, <3>2, <4>1
           DEF messagePassing, messagePassing2, RecvThenSend, SendThenRecv
    <3>3. CASE j.lang = "Java" \/ j.lang = "Array"
      <4>1. \/ Text(j, p, m) = JavaMessagePassing(p, n)
            \/ Text(j, p, m) = JavaMessagePassing2(p, n)
        BY <1>1, <1>6, <3>3 DEF Text, JavaCode, ArrayCode, ArrayMessagePassing, ArrayMessagePassing2
      <4>2. QED
        BY <1>1, <1>4, <3>1, <3>3, <4>1
           DEF JavaMessagePassing, JavaMessagePassing2, RecvThenSend, SendThenRecv
    <3>4. CASE j.lang = "Python" /\ j.prog = "exchange"
      <4>1. Text(j, p, m) = PyMessagePassing(p, n)
        BY <1>1, <3>4 DEF Text, PyCode
      <4>2. QED
        BY <1>1, <1>4, <3>1, <3>4, <4>1 DEF PyMessagePassing, RecvThenSend, SendThenRecv
    <3>5. CASE j.lang = "Python" /\ j.prog = "exchange2"
      <4>1. Text(j, p, m) = PyMessagePassing2(p, n)
        BY <1>1, <3>5 DEF Text, PyCode
      <4>2. [k \in 1 .. 8 |-> p + (k - 1)] = [k \in 1 .. 8 |-> p + k - 1]
        BY <1>1
      <4>3. What(j, p) = [k \in 1 .. 8 |-> p + (k - 1)]
        BY <1>2, <3>5, <4>2 DEF What
      <4>4. QED
        BY <1>1, <1>4, <4>1, <4>3 DEF PyMessagePassing2, RecvThenSend, SendThenRecv
    <3>6. QED
      BY <1>2, <1>6, <3>2, <3>3, <3>4, <3>5
  <2>3. PICK a, b : Text(j, p, m) =
          IF Odd(p) THEN << Send(What(j, p), Neighbour(p), a), Recv("part", Neighbour(p), b) >>
                    ELSE << Recv("part", Neighbour(p), b), Send(What(j, p), Neighbour(p), a) >>
    BY <2>2
  <2>4. CASE Odd(p)
    BY <1>3, <2>1, <2>3, <2>4, PairIs
  <2>5. CASE ~Odd(p)
    BY <1>3, <2>1, <2>3, <2>5, PairIs
  <2>6. QED
    BY <2>4, <2>5
<1>7. QED
  BY <1>2, <1>5, <1>6

\* The instructions of the ring, for a process whose memory holds nothing, or
\* what its predecessor has sent.
LEMMA RingCode ==
    ASSUME NEW j \in Jobs, j.prog \in Rings, Paired(j), NEW p \in 0 .. j.np - 1, NEW m
    PROVE  \E val : /\ Pair(Text(j, p, m), SendsAt(j, p), val, To(j, p), From(j, p))
                    /\ p = MASTER \/ m.part = What(j, From(j, p)) => val = What(j, p)
<1>1. PICK n : n = j.np /\ n \in Nat \ {0} /\ p \in 0 .. n - 1 /\ n > 1 /\ ~(n <= 1)
  BY JobsAssumption DEF Paired
<1>2. /\ j.lang \in {"C", "Java", "Array", "Python"} /\ j.prog \in {"ring", "ringAlt"}
      /\ j.prog = "ringAlt" => j.lang = "Array"
  BY JobsAssumption DEF Rings, Programs
<1>3. CASE p = MASTER
  <2>1. /\ To(j, p) = p + 1 /\ From(j, p) = n - 1 /\ SendsAt(j, p) = 1
    BY <1>1, <1>2, <1>3 DEF To, From, SendsAt, MASTER
  <2>2. What(j, p) = << p >>
    <3>1. What(j, p) = [k \in 1 .. p + 1 |-> k - 1]
      BY DEF What
    <3>2. [k \in 1 .. p + 1 |-> k - 1] = << p >>
      BY <1>3 DEF MASTER
    <3>3. QED
      BY <3>1, <3>2
  <2>3. \E a, b : Text(j, p, m) = << Send(<< p >>, p + 1, a), Recv("part", n - 1, b) >>
    <3>1. CASE j.lang = "C"
      <4>1. Text(j, p, m) = messagePassing3(p, n, m)
        BY <1>1, <1>2, <3>1 DEF Text, CCode
      <4>2. QED
        BY <1>1, <1>3, <4>1 DEF messagePassing3
    <3>2. CASE j.lang \in {"Java", "Array"} /\ j.prog = "ring"
      <4>1. Text(j, p, m) = JavaMessagePassing3(p, n, m)
        BY <1>1, <3>2 DEF Text, JavaCode, ArrayCode, ArrayMessagePassing3
      <4>2. QED
        BY <1>1, <1>3, <4>1 DEF JavaMessagePassing3
    <3>3. CASE j.prog = "ringAlt"
      <4>1. Text(j, p, m) = ArrayMessagePassing3alt(p, n, m)
        BY <1>1, <1>2, <3>3 DEF Text, ArrayCode
      <4>2. QED
        BY <1>1, <1>3, <4>1 DEF ArrayMessagePassing3alt
    <3>4. CASE j.lang = "Python"
      <4>1. Text(j, p, m) = PyMessagePassing3(p, n, m)
        BY <1>1, <1>2, <3>4 DEF Text, PyCode
      <4>2. QED
        BY <1>1, <1>3, <4>1 DEF PyMessagePassing3
    <3>5. QED
      BY <1>2, <3>1, <3>2, <3>3, <3>4
  <2>4. QED
    BY <1>3, <2>1, <2>2, <2>3, PairIs, ZenonT(40)
<1>4. CASE p # MASTER
  <2>1. /\ From(j, p) = p - 1 /\ SendsAt(j, p) = 2 /\ From(j, p) \in Nat
    BY <1>1, <1>4 DEF From, SendsAt, MASTER
  <2>2. To(j, p) = (p + 1) % n
    <3>1. CASE p = n - 1
      <4>1. (p + 1) % n = 0
        BY <1>1, <3>1
      <4>2. QED
        BY <1>1, <3>1, <4>1 DEF To
    <3>2. CASE p # n - 1
      <4>1. (p + 1) % n = p + 1
        BY <1>1, <3>2
      <4>2. QED
        BY <1>1, <3>2, <4>1 DEF To
    <3>3. QED
      BY <3>1, <3>2
  <2>3. PICK x : x = What(j, p - 1)
    OBVIOUS
  <2>4. x = [k \in 1 .. p |-> k - 1] /\ x \in Seq(Int) /\ Len(x) = p
    <3>1. p - 1 + 1 = p
      BY <1>1
    <3>2. x = [k \in 1 .. p |-> k - 1]
      BY <2>3, <3>1 DEF What
    <3>3. QED
      BY <1>1, <3>2
  <2>5. Append(x, p) = What(j, p)
    <3>1. What(j, p) = [k \in 1 .. p + 1 |-> k - 1]
      BY DEF What
    <3>2. p \in Int /\ Append(x, p) \in Seq(Int) /\ Len(Append(x, p)) = p + 1
      BY <1>1, <2>4
    <3>3. ASSUME NEW k \in 1 .. p + 1
          PROVE  Append(x, p)[k] = k - 1
      <4>1. CASE k <= p
        BY <1>1, <2>4, <4>1
      <4>2. CASE k = p + 1
        BY <1>1, <2>4, <4>2
      <4>3. k <= p \/ k = p + 1
        BY <1>1
      <4>4. QED
        BY <4>1, <4>2, <4>3
    <3>4. PICK y, l : y = Append(x, p) /\ y \in Seq(Int) /\ Len(y) = l /\ l = p + 1
      BY <3>2
    <3>5. \A k \in 1 .. l : y[k] = k - 1
      BY <3>3, <3>4
    <3>6. y = [k \in 1 .. l |-> k - 1]
      <4>1. ASSUME NEW z \in Seq(Int), \A k \in 1 .. Len(z) : z[k] = k - 1
            PROVE  z = [k \in 1 .. Len(z) |-> k - 1]
        BY <4>1
      <4>2. y \in Seq(Int) /\ Len(y) = l
        BY <3>4
      <4>3. QED
        BY <3>5, <4>1, <4>2
    <3>7. QED
      BY <3>1, <3>4, <3>6
  <2>6. \E val, f, a, b : /\ Text(j, p, m) = << Recv("part", f, b), Send(val, (p + 1) % n, a) >>
                          /\ f \in {p - 1, AnySource}
                          /\ m.part = x => val = Append(x, p)
    <3>1. CASE j.lang = "C"
      <4>1. Text(j, p, m) = messagePassing3(p, n, m)
        BY <1>1, <1>2, <3>1 DEF Text, CCode
      <4>2. Text(j, p, m) = << Recv("part", AnySource, 1), Send(Append(m.part, p), (p + 1) % n, 1) >>
        BY <1>1, <1>4, <4>1 DEF messagePassing3
      <4>3. QED
        BY <4>2
    <3>2. CASE j.lang \in {"Java", "Array"} /\ j.prog = "ring"
      <4>1. Text(j, p, m) = JavaMessagePassing3(p, n, m)
        BY <1>1, <3>2 DEF Text, JavaCode, ArrayCode, ArrayMessagePassing3
      <4>2. Text(j, p, m) = << Recv("part", p - 1, 0), Send(Append(m.part, p), (p + 1) % n, 0) >>
        BY <1>1, <1>4, <4>1 DEF JavaMessagePassing3
      <4>3. QED
        BY <4>2
    <3>3. CASE j.prog = "ringAlt"
      <4> DEFINE got == [k \in 1 .. p |-> IF k <= Len(m.part) THEN m.part[k] ELSE 0]
      <4>1. Text(j, p, m) = ArrayMessagePassing3alt(p, n, m)
        BY <1>1, <1>2, <3>3 DEF Text, ArrayCode
      <4>2. Text(j, p, m) = << Recv("part", p - 1, 0), Send(Append(got, p), (p + 1) % n, 0) >>
        BY <1>1, <1>4, <4>1 DEF ArrayMessagePassing3alt
      <4>3. m.part = x => got = x
        <5>1. \A k \in 1 .. p : k <= Len(x)
          BY <2>4
        <5>2. [k \in 1 .. p |-> IF k <= Len(x) THEN x[k] ELSE 0] = x
          BY <2>4, <5>1
        <5>3. QED
          BY <5>2
      <4> HIDE DEF got
      <4>4. QED
        BY <4>2, <4>3
    <3>4. CASE j.lang = "Python"
      <4>1. Text(j, p, m) = PyMessagePassing3(p, n, m)
        BY <1>1, <1>2, <3>4 DEF Text, PyCode
      <4>2. Text(j, p, m) = << Recv("part", p - 1, AnyTag), Send(Append(m.part, p), (p + 1) % n, 0) >>
        BY <1>1, <1>4, <4>1 DEF PyMessagePassing3
      <4>3. QED
        BY <4>2
    <3>5. QED
      BY <1>2, <3>1, <3>2, <3>3, <3>4
  <2>7. PICK val, f, a, b : /\ Text(j, p, m) = << Recv("part", f, b), Send(val, (p + 1) % n, a) >>
                            /\ f \in {p - 1, AnySource}
                            /\ m.part = x => val = Append(x, p)
    BY <2>6
  <2>8. Pair(Text(j, p, m), SendsAt(j, p), val, To(j, p), From(j, p))
    BY <2>1, <2>2, <2>7, PairIs
  <2>9. m.part = What(j, From(j, p)) => val = What(j, p)
    BY <2>1, <2>3, <2>5, <2>7
  <2>10. QED
    BY <1>4, <2>8, <2>9
<1>5. QED
  BY <1>3, <1>4

\* A job that has nothing to do has no instructions.
LEMMA IdleCode ==
    ASSUME NEW j \in Jobs, j.prog \in OnceProgs, Idle(j), NEW p \in 0 .. j.np - 1, NEW m
    PROVE  Text(j, p, m) = <<>>
<1>1. PICK n : n = j.np /\ n \in Nat \ {0} /\ (n > 1 => Odd(n)) /\ (~(n <= 1) => n > 1)
              /\ (j.prog \in Rings => n <= 1)
              /\ (j.lang = "C" /\ j.prog \in {"deadlock", "exchange"} => n <= 1)
  BY JobsAssumption DEF Idle, Alone, Paired
<1>2. /\ j.lang \in {"C", "Java", "Array", "Python"}
      /\ j.prog \in {"deadlock", "exchange", "exchange2", "ring", "ringAlt"}
      /\ j.prog = "ringAlt" => j.lang = "Array"
  BY JobsAssumption DEF OnceProgs, Rings, Programs
<1>3. CASE j.lang = "C"
  BY <1>1, <1>2, <1>3 DEF Text, CCode, Rings, messagePassingDeadlock, messagePassing,
                          messagePassing2, messagePassing3
<1>4. CASE j.lang \in {"Java", "Array"}
  BY <1>1, <1>2, <1>4 DEF Text, JavaCode, ArrayCode, Rings, ArrayMessagePassingDeadlock,
                          ArrayMessagePassing, ArrayMessagePassing2, ArrayMessagePassing3,
                          JavaMessagePassingDeadlock, JavaMessagePassing, JavaMessagePassing2,
                          JavaMessagePassing3, ArrayMessagePassing3alt
<1>5. CASE j.lang = "Python"
  BY <1>1, <1>2, <1>5 DEF Text, PyCode, Rings, PyMessagePassingDeadlock, PyMessagePassing,
                          PyMessagePassing2, PyMessagePassing3
<1>6. QED
  BY <1>2, <1>3, <1>4, <1>5

\* The last of an odd number of processes waits for a neighbour that does not
\* exist.
LEMMA AloneCode ==
    ASSUME NEW j \in Jobs, Alone(j), NEW m
    PROVE  /\ j.np - 1 \in 0 .. j.np - 1
           /\ Len(Text(j, j.np - 1, m)) = 2 /\ DOMAIN Text(j, j.np - 1, m) = 1 .. 2
           /\ Text(j, j.np - 1, m)[1].op = "recv" /\ Text(j, j.np - 1, m)[1].from = j.np
<1>0. PICK n \in Nat \ {0} : n = j.np /\ n > 1 /\ Odd(n)
  BY JobsAssumption DEF Alone
<1>1. PICK p \in Nat : p = n - 1 /\ n > 1 /\ ~(n <= 1) /\ p + 1 = n /\ ~Odd(p)
  <2>1. ~Odd(n - 1)
    BY <1>0 DEF Odd
  <2>2. QED
    BY <1>0, <2>1
<1>2. \/ Text(j, p, m) = messagePassingDeadlock(p, n)
      \/ Text(j, p, m) = messagePassing(p, n)
  BY <1>0, <1>1 DEF Text, CCode, Alone
<1>3. Text(j, p, m) = << Recv("part", n, 1), Send(<< p >>, n, 2) >>
  BY <1>1, <1>2 DEF messagePassingDeadlock, messagePassing, RecvThenSend
<1>4. Recv("part", n, 1).op = "recv" /\ Recv("part", n, 1).from = n
  BY DEF Recv
<1>5. ASSUME NEW x, NEW y
      PROVE  /\ Len(<< x, y >>) = 2 /\ DOMAIN << x, y >> = 1 .. 2 /\ << x, y >>[1] = x
  OBVIOUS
<1>6. p \in 0 .. n - 1
  BY <1>0, <1>1
<1>7. /\ Len(Text(j, p, m)) = 2 /\ DOMAIN Text(j, p, m) = 1 .. 2
      /\ Text(j, p, m)[1].op = "recv" /\ Text(j, p, m)[1].from = n
  BY <1>3, <1>4, <1>5
<1>8. QED
  BY <1>0, <1>1, <1>6, <1>7

\* The instructions of a process that exchanges messages.
LEMMA OnceCode ==
    ASSUME OnceJob, Paired(job), NEW p \in Ranks
    PROVE  \E val : /\ Pair(Code(p), SendsAt(job, p), val, To(job, p), From(job, p))
                    /\ SendsAt(job, p) = 1 \/ mem[p].part = What(job, From(job, p))
                         => val = What(job, p)
<1>1. PICK j, m : j = job /\ m = mem[p] /\ j \in Jobs /\ j.prog \in OnceProgs /\ Paired(j)
                  /\ p \in 0 .. j.np - 1
  BY DEF OnceJob, Ranks
<1>2. Code(p) = Text(j, p, m)
  BY <1>1 DEF Code, Text
<1>3. CASE j.prog \in Rings
  <2>1. SendsAt(j, p) = 1 => p = MASTER
    BY <1>3 DEF SendsAt
  <2>2. PICK val : /\ Pair(Text(j, p, m), SendsAt(j, p), val, To(j, p), From(j, p))
                   /\ p = MASTER \/ m.part = What(j, From(j, p)) => val = What(j, p)
    BY <1>1, <1>3, RingCode
  <2>3. QED
    BY <1>1, <1>2, <2>1, <2>2
<1>4. CASE j.prog \notin Rings
  <2>1. Pair(Text(j, p, m), SendsAt(j, p), What(j, p), To(j, p), From(j, p))
    BY <1>1, <1>4, ExchangeCode
  <2>2. QED
    BY <1>1, <1>2, <2>1
<1>5. QED
  BY <1>3, <1>4

\* Process p has sent its message, and has received one.
HasSent(p) == pc[p] > SendsAt(job, p) \/ phase[p] = "send"
HasGot(p) == pc[p] > 3 - SendsAt(job, p)

\* The message of p is under way from when p has sent it until the one it is
\* for has it; p waits for that when its send is synchronous.
UnderWay(p) ==
  \E m : /\ chan[p][To(job, p)] = << m >>
         /\ m.val = What(job, p) /\ (m.sync <=> phase[p] = "send")
OneMessage(p) ==
  /\ \A q \in Ranks \ {To(job, p)} : chan[p][q] = <<>>
  /\ phase[p] = "send" => pc[p] = SendsAt(job, p)
  /\ IF HasSent(p) /\ ~HasGot(To(job, p)) THEN UnderWay(p)
                                    ELSE chan[p][To(job, p)] = <<>> /\ phase[p] = "run"
  /\ HasGot(To(job, p)) => HasSent(p)
  /\ mem[p].part = IF HasGot(p) THEN What(job, From(job, p)) ELSE <<>>

\* The variables have a value for each process, and the memories the part that
\* the programs receive into.
OnceTyped ==
  /\ pc \in [Ranks -> {1, 2, 3}] /\ phase \in [Ranks -> {"run", "send"}]
  /\ chan = [p \in Ranks |-> [q \in Ranks |-> chan[p][q]]]
  /\ mem = [p \in Ranks |-> mem[p]] /\ \A p \in Ranks : "part" \in DOMAIN mem[p]

\* Nobody moves in a job with nothing to do; the process without a neighbour
\* neither moves nor sends; and otherwise each process sends one message.
OnceInv ==
  OnceJob =>
    /\ Idle(job) => /\ pc = [p \in Ranks |-> 1] /\ phase = [p \in Ranks |-> "run"]
                    /\ chan = [p \in Ranks |-> [q \in Ranks |-> <<>>]]
                    /\ \A p \in Ranks : mem[p].part = <<>>
    /\ Alone(job) => /\ pc = [p \in Ranks |-> pc[p]] /\ phase = [p \in Ranks |-> phase[p]]
                     /\ chan = [p \in Ranks |-> [q \in Ranks |-> chan[p][q]]]
                     /\ pc[job.np - 1] = 1 /\ phase[job.np - 1] = "run"
                     /\ \A q \in Ranks : chan[job.np - 1][q] = <<>>
    /\ Paired(job) => OnceTyped /\ \A p \in Ranks : OneMessage(p)

\* Where a process is when it sends and when it receives.
LEMMA Halfway ==
    ASSUME NEW j, NEW p
    PROVE  /\ SendsAt(j, p) \in {1, 2} /\ 3 - SendsAt(j, p) \in {1, 2}
           /\ \A k \in {1, 2, 3} : k = SendsAt(j, p) =>
                 /\ ~(k > SendsAt(j, p)) /\ k + 1 > SendsAt(j, p)
                 /\ k + 1 \in {1, 2, 3}
                 /\ k > 3 - SendsAt(j, p) <=> k + 1 > 3 - SendsAt(j, p)
                 /\ SendsAt(j, p) = 1 \/ k > 3 - SendsAt(j, p)
           /\ \A k \in {1, 2, 3} : k = 3 - SendsAt(j, p) =>
                 /\ ~(k > 3 - SendsAt(j, p)) /\ k + 1 > 3 - SendsAt(j, p)
                 /\ k + 1 \in {1, 2, 3} /\ k # SendsAt(j, p)
                 /\ k > SendsAt(j, p) <=> k + 1 > SendsAt(j, p)
<1>1. PICK s \in {1, 2} : s = SendsAt(j, p)
  BY DEF SendsAt
<1>2. CASE s = 1
  BY <1>1, <1>2
<1>3. CASE s = 2
  BY <1>1, <1>3
<1>4. QED
  BY <1>1, <1>2, <1>3

\* A send puts the message under way.
LEMMA OnceSends ==
    ASSUME OnceJob, Paired(job), OnceTyped, \A p \in Ranks : OneMessage(p),
           NEW p \in Ranks, SendMessage(p)
    PROVE  OnceTyped' /\ \A a \in Ranks : OneMessage(a)'
<1> DEFINE s == SendsAt(job, p)
           to == To(job, p)
<1>0. /\ job' = job /\ mem' = mem /\ Ranks' = Ranks
      /\ pc \in [Ranks -> {1, 2, 3}] /\ phase \in [Ranks -> {"run", "send"}]
      /\ OneMessage(p)
  BY DEF SendMessage, Ranks, OnceTyped
<1>1. /\ to \in Ranks /\ to # p /\ \A a \in Ranks : To(job, a) = to => a = p
      /\ \A a \in Ranks : To(job, a) \in Ranks
  BY Peers DEF OnceJob, Ranks
<1>2. PICK val : /\ Pair(Code(p), s, val, to, From(job, p))
                 /\ s = 1 \/ mem[p].part = What(job, From(job, p)) => val = What(job, p)
  BY OnceCode
<1>3. PICK i \in Current(p), sync \in BOOLEAN :
        /\ i.op = "send"
        /\ chan' = [chan EXCEPT ![p][i.to] =
                      Append(@, [tag |-> i.tag, val |-> i.val, sync |-> sync])]
        /\ IF sync THEN phase' = [phase EXCEPT ![p] = "send"] /\ UNCHANGED pc
                   ELSE Step(p) /\ UNCHANGED phase
  BY DEF SendMessage
<1>4. i = Code(p)[pc[p]] /\ pc[p] \in DOMAIN Code(p) /\ phase[p] = "run"
  BY <1>3 DEF Current
<1>5. pc[p] = s /\ i.to = to /\ i.val = val
  <2>1. pc[p] \in {s, 3 - s}
    <3>1. pc[p] \in 1 .. 2 /\ s \in {1, 2}
      BY <1>2, <1>4, Halfway DEF Pair
    <3>2. QED
      BY <3>1
  <2>2. pc[p] # 3 - s
    BY <1>2, <1>3, <1>4 DEF Pair
  <2>3. QED
    BY <1>2, <1>4, <2>1, <2>2 DEF Pair
<1>6. /\ ~HasSent(p) /\ chan[p][to] = <<>> /\ ~HasGot(to) /\ (s = 1 \/ HasGot(p))
      /\ pc[p] + 1 > s /\ pc[p] + 1 \in {1, 2, 3} /\ (pc[p] + 1 > 3 - s <=> pc[p] > 3 - s)
  BY <1>0, <1>4, <1>5, Halfway DEF HasSent, HasGot, OneMessage
<1>7. val = What(job, p)
  BY <1>0, <1>2, <1>6 DEF OneMessage
<1>8. PICK m : m = [tag |-> i.tag, val |-> What(job, p), sync |-> sync]
  OBVIOUS
<1>9. m.val = What(job, p) /\ (m.sync <=> sync)
  BY <1>8
<1>10. chan' = [chan EXCEPT ![p][to] = << m >>]
  <2>1. chan' = [chan EXCEPT ![p][to] = Append(@, m)]
    BY <1>3, <1>5, <1>7, <1>8
  <2>2. chan' = [chan EXCEPT ![p][to] = Append(chan[p][to], m)]
    BY <2>1
  <2>3. Append(chan[p][to], m) = << m >>
    BY <1>6
  <2>4. QED
    BY <2>2, <2>3
<1>11. /\ chan' = [a \in Ranks |-> [b \in Ranks |-> chan'[a][b]]]
       /\ chan'[p][to] = << m >>
       /\ \A a, b \in Ranks : a # p \/ b # to => chan'[a][b] = chan[a][b]
  <2>1. PICK R, c, d, q, x : R = Ranks /\ c = chan /\ d = chan' /\ q = to /\ x = << m >>
    OBVIOUS
  <2>2. /\ c = [a \in R |-> [b \in R |-> c[a][b]]] /\ d = [c EXCEPT ![p][q] = x]
        /\ p \in R /\ q \in R
    BY <1>1, <1>10, <2>1 DEF OnceTyped
  <2>3. /\ d = [a \in R |-> [b \in R |-> d[a][b]]]
        /\ d[p][q] = x
        /\ \A a, b \in R : a # p \/ b # q => d[a][b] = c[a][b]
    BY <2>2
  <2>4. QED
    BY <2>1, <2>3
<1>12. /\ pc' \in [Ranks -> {1, 2, 3}] /\ phase' \in [Ranks -> {"run", "send"}]
       /\ \A a \in Ranks \ {p} : pc'[a] = pc[a] /\ phase'[a] = phase[a]
       /\ (phase'[p] = "send" <=> sync)
       /\ pc'[p] = IF sync THEN s ELSE pc[p] + 1
  <2>1. CASE sync
    BY <1>0, <1>3, <1>5, <2>1
  <2>2. CASE ~sync
    BY <1>0, <1>3, <1>4, <1>6, <2>2 DEF Step
  <2>3. QED
    BY <2>1, <2>2
<1>13. HasSent(p)' /\ \A a \in Ranks \ {p} : HasSent(a)' <=> HasSent(a)
  BY <1>0, <1>6, <1>12 DEF HasSent
<1>14. \A a \in Ranks : HasGot(a)' <=> HasGot(a)
  <2>1. HasGot(p)' <=> HasGot(p)
    BY <1>0, <1>5, <1>6, <1>12 DEF HasGot
  <2>2. QED
    BY <1>0, <1>12, <2>1 DEF HasGot
<1>15. OneMessage(p)'
  <2>1. /\ \A q \in Ranks \ {to} : chan'[p][q] = <<>>
        /\ mem'[p].part = IF HasGot(p)' THEN What(job, From(job, p)) ELSE <<>>
    BY <1>0, <1>11, <1>14 DEF OneMessage
  <2>2. phase'[p] = "send" => pc'[p] = s
    BY <1>12
  <2>3. UnderWay(p)'
    BY <1>0, <1>9, <1>11, <1>12 DEF UnderWay
  <2>4. HasSent(p)' /\ ~HasGot(to)'
    <3>1. PICK t \in Ranks : t = to
      BY <1>1
    <3>2. ~HasGot(t)'
      BY <1>6, <1>14, <3>1
    <3>3. QED
      BY <1>0, <1>13, <3>1, <3>2 DEF HasGot
  <2>5. QED
    BY <1>0, <2>1, <2>2, <2>3, <2>4 DEF OneMessage
<1>16. ASSUME NEW a \in Ranks \ {p} PROVE OneMessage(a)'
  <2>1. /\ OneMessage(a) /\ To(job, a) \in Ranks
        /\ pc'[a] = pc[a] /\ phase'[a] = phase[a] /\ \A q \in Ranks : chan'[a][q] = chan[a][q]
        /\ (HasSent(a)' <=> HasSent(a)) /\ (HasGot(a)' <=> HasGot(a))
        /\ (HasGot(To(job, a))' <=> HasGot(To(job, a)))
    BY <1>0, <1>1, <1>11, <1>12, <1>13, <1>14
  <2>2. UnderWay(a)' <=> UnderWay(a)
    BY <1>0, <2>1 DEF UnderWay
  <2>3. QED
    BY <1>0, <2>1, <2>2 DEF OneMessage
<1>17. QED
  BY <1>0, <1>11, <1>12, <1>15, <1>16 DEF OnceTyped

\* Nothing is left when the only message is removed.
LEMMA RemoveOnly == ASSUME NEW m PROVE RemoveAt(<< m >>, 1) = <<>>
<1>1. /\ SubSeq(<< m >>, 1, 0) = <<>> /\ SubSeq(<< m >>, 2, 1) = <<>>
      /\ Len(<< m >>) = 1 /\ 1 - 1 = 0 /\ 1 + 1 = 2
  OBVIOUS
<1>2. QED
  BY <1>1 DEF RemoveAt

\* A receive takes the message of the one process that has sent it.
LEMMA OnceReceives ==
    ASSUME OnceJob, Paired(job), OnceTyped, \A p \in Ranks : OneMessage(p),
           NEW p \in Ranks, Receive(p)
    PROVE  OnceTyped' /\ \A a \in Ranks : OneMessage(a)'
<1>0. /\ job' = job /\ Ranks' = Ranks
      /\ pc \in [Ranks -> {1, 2, 3}] /\ phase \in [Ranks -> {"run", "send"}]
  BY DEF Receive, Ranks, OnceTyped
<1>1. PICK i \in Current(p), q \in Ranks :
        /\ i.op = "recv" /\ i.from \in {q, AnySource}
        /\ \E k \in Earliest(i, q, p) :
             Takes(p, q, k) /\ Keeps(p, i.var, q, chan[q][p][k])
  BY ReceiveIs
<1>2. PICK k : /\ k \in Earliest(i, q, p)
               /\ Takes(p, q, k) /\ Keeps(p, i.var, q, chan[q][p][k])
  BY <1>1
<1>3. PICK s : s = SendsAt(job, p)
  OBVIOUS
<1>4. PICK val : Pair(Code(p), s, val, To(job, p), From(job, p))
  BY <1>3, OnceCode
<1>5. i = Code(p)[pc[p]] /\ pc[p] \in DOMAIN Code(p) /\ phase[p] = "run"
  BY <1>1 DEF Current
<1>6. pc[p] = 3 - s /\ i.var = "part"
  <2>1. pc[p] \in {s, 3 - s}
    <3>1. pc[p] \in 1 .. 2 /\ s \in {1, 2}
      BY <1>3, <1>4, <1>5, Halfway DEF Pair
    <3>2. QED
      BY <3>1
  <2>2. pc[p] # s
    BY <1>1, <1>4, <1>5 DEF Pair
  <2>3. QED
    BY <1>4, <1>5, <2>1, <2>2 DEF Pair
<1>7. /\ ~HasGot(p) /\ pc[p] + 1 \in {1, 2, 3} /\ pc[p] + 1 > 3 - s /\ pc[p] # s
      /\ (pc[p] > s <=> pc[p] + 1 > s)
  BY <1>0, <1>3, <1>6, Halfway DEF HasGot
<1>8. To(job, q) = p
  <2>1. k \in DOMAIN chan[q][p]
    BY <1>2 DEF Takes
  <2>2. chan[q][p] # <<>>
    BY <2>1
  <2>3. QED
    BY <2>2 DEF OneMessage
<1>9. /\ q = From(job, p) /\ q # p
      /\ \A a \in Ranks : To(job, a) \in Ranks /\ (To(job, a) = p => a = q)
  BY <1>8, Peers DEF OnceJob, Ranks
<1>10. /\ OneMessage(q) /\ HasSent(q) /\ UnderWay(q)
  <2>1. chan[q][p] # <<>>
    BY <1>2 DEF Takes
  <2>2. QED
    BY <1>8, <2>1 DEF OneMessage
<1>11. PICK m : chan[q][p] = << m >> /\ m.val = What(job, q) /\ (m.sync <=> phase[q] = "send")
  BY <1>8, <1>10 DEF UnderWay
<1>12. k = 1 /\ chan[q][p][k] = m
  <2>1. k \in DOMAIN << m >>
    BY <1>2, <1>11 DEF Takes
  <2>2. QED
    BY <1>11, <2>1
<1>13. /\ chan' = [a \in Ranks |-> [b \in Ranks |-> chan'[a][b]]]
       /\ chan'[q][p] = <<>>
       /\ \A a, b \in Ranks : a # q \/ b # p => chan'[a][b] = chan[a][b]
  <2>1. chan' = [chan EXCEPT ![q][p] = <<>>]
    <3>1. chan' = [chan EXCEPT ![q][p] = RemoveAt(@, k)]
      BY <1>2 DEF Takes
    <3>2. chan' = [chan EXCEPT ![q][p] = RemoveAt(chan[q][p], k)]
      BY <3>1
    <3>3. RemoveAt(chan[q][p], k) = <<>>
      BY <1>11, <1>12, RemoveOnly
    <3>4. QED
      BY <3>2, <3>3
  <2>2. PICK R, c, d : R = Ranks /\ c = chan /\ d = chan'
    OBVIOUS
  <2>3. /\ c = [a \in R |-> [b \in R |-> c[a][b]]] /\ d = [c EXCEPT ![q][p] = <<>>]
        /\ p \in R /\ q \in R
    BY <2>1, <2>2 DEF OnceTyped
  <2>4. /\ d = [a \in R |-> [b \in R |-> d[a][b]]]
        /\ d[q][p] = <<>>
        /\ \A a, b \in R : a # q \/ b # p => d[a][b] = c[a][b]
    BY <2>3
  <2>5. QED
    BY <2>2, <2>4
<1>14. /\ mem' = [a \in Ranks |-> mem'[a]] /\ mem'[p].part = What(job, q)
       /\ "part" \in DOMAIN mem'[p]
       /\ \A a \in Ranks \ {p} : mem'[a] = mem[a]
  <2>1. mem' = [mem EXCEPT ![p].part = m.val, ![p].src = q, ![p].tag = m.tag]
    BY <1>2, <1>6, <1>12 DEF Keeps
  <2>2. mem' = [mem EXCEPT ![p] = [mem[p] EXCEPT !.part = m.val, !.src = q, !.tag = m.tag]]
    <3>1. mem = [a \in Ranks |-> mem[a]]
      BY DEF OnceTyped
    <3>2. QED
      BY <2>1, <3>1
  <2>3. /\ mem' = [a \in Ranks |-> mem'[a]]
        /\ mem'[p] = [mem[p] EXCEPT !.part = m.val, !.src = q, !.tag = m.tag]
        /\ \A a \in Ranks \ {p} : mem'[a] = mem[a]
    BY <2>2 DEF OnceTyped
  <2>4. "part" \in DOMAIN mem[p]
    BY DEF OnceTyped
  <2>5. mem'[p].part = m.val /\ DOMAIN mem'[p] = DOMAIN mem[p]
    BY <2>3, <2>4
  <2>6. QED
    BY <1>11, <2>3, <2>4, <2>5
<1>15. /\ pc' \in [Ranks -> {1, 2, 3}] /\ phase' \in [Ranks -> {"run", "send"}]
       /\ pc'[p] = pc[p] + 1 /\ phase'[p] = phase[p]
       /\ pc'[q] = (IF m.sync THEN pc[q] + 1 ELSE pc[q]) /\ phase'[q] = "run"
       /\ \A a \in Ranks \ {p, q} : pc'[a] = pc[a] /\ phase'[a] = phase[a]
  <2>1. CASE m.sync
    <3>1. pc' = [pc EXCEPT ![p] = @ + 1, ![q] = @ + 1] /\ phase' = [phase EXCEPT ![q] = "run"]
      BY <1>2, <1>12, <2>1 DEF Takes
    <3>2. pc[q] = SendsAt(job, q)
      BY <1>10, <1>11, <2>1 DEF OneMessage
    <3>3. pc[q] + 1 \in {1, 2, 3}
      BY <1>0, <3>2, Halfway
    <3>4. QED
      BY <1>0, <1>7, <1>9, <2>1, <3>1, <3>3
  <2>2. CASE ~m.sync
    <3>1. pc' = [pc EXCEPT ![p] = @ + 1] /\ phase' = phase
      BY <1>2, <1>12, <2>2 DEF Takes
    <3>2. phase[q] = "run"
      BY <1>0, <1>11, <2>2
    <3>3. QED
      BY <1>0, <1>7, <1>9, <2>2, <3>1, <3>2
  <2>3. QED
    BY <2>1, <2>2
<1>16. /\ HasSent(q)' /\ (HasGot(q)' <=> HasGot(q))
  <2>1. CASE m.sync
    <3>1. pc[q] = SendsAt(job, q)
      BY <1>10, <1>11, <2>1 DEF OneMessage
    <3>2. /\ pc[q] + 1 > SendsAt(job, q)
          /\ pc[q] > 3 - SendsAt(job, q) <=> pc[q] + 1 > 3 - SendsAt(job, q)
      BY <1>0, <3>1, Halfway
    <3>3. QED
      BY <1>0, <1>15, <2>1, <3>2 DEF HasSent, HasGot
  <2>2. CASE ~m.sync
    <3>1. pc[q] > SendsAt(job, q)
      BY <1>0, <1>10, <1>11, <2>2 DEF HasSent
    <3>2. QED
      BY <1>0, <1>15, <2>2, <3>1 DEF HasSent, HasGot
  <2>3. QED
    BY <2>1, <2>2
<1>17. HasGot(p)' /\ (HasSent(p)' <=> HasSent(p))
  BY <1>0, <1>3, <1>5, <1>7, <1>15 DEF HasSent, HasGot
<1>18. \A a \in Ranks \ {p, q} : (HasSent(a)' <=> HasSent(a)) /\ (HasGot(a)' <=> HasGot(a))
  BY <1>0, <1>15 DEF HasSent, HasGot
<1>19. OneMessage(q)'
  <2>1. /\ \A b \in Ranks \ {p} : chan'[q][b] = <<>>
        /\ chan'[q][p] = <<>> /\ phase'[q] = "run"
    BY <1>8, <1>10, <1>13, <1>15 DEF OneMessage
  <2>2. mem'[q].part = IF HasGot(q)' THEN What(job, From(job, q)) ELSE <<>>
    BY <1>9, <1>10, <1>14, <1>16 DEF OneMessage
  <2>3. HasGot(To(job, q))'
    BY <1>0, <1>8, <1>17 DEF HasGot
  <2>4. QED
    BY <1>0, <1>8, <1>16, <2>1, <2>2, <2>3 DEF OneMessage
<1>20. OneMessage(p)'
  <2>1. /\ OneMessage(p) /\ \A b \in Ranks : chan'[p][b] = chan[p][b]
        /\ phase'[p] = "run" /\ phase[p] = "run" /\ To(job, p) \in Ranks
    BY <1>5, <1>9, <1>13, <1>15
  <2>2. mem'[p].part = IF HasGot(p)' THEN What(job, From(job, p)) ELSE <<>>
    BY <1>9, <1>14, <1>17
  <2>3. HasGot(To(job, p))' <=> HasGot(To(job, p))
    <3>1. PICK t \in Ranks : t = To(job, p) /\ t # p
      BY <2>1, Peers DEF OnceJob, Ranks
    <3>2. HasGot(t)' <=> HasGot(t)
      BY <1>16, <1>18, <3>1
    <3>3. QED
      BY <1>0, <3>1, <3>2 DEF HasGot
  <2>4. UnderWay(p)' <=> UnderWay(p)
    BY <1>0, <2>1 DEF UnderWay
  <2>5. QED
    BY <1>0, <1>17, <2>1, <2>2, <2>3, <2>4 DEF OneMessage
<1>21. ASSUME NEW a \in Ranks \ {p, q} PROVE OneMessage(a)'
  <2>1. /\ OneMessage(a) /\ \A b \in Ranks : chan'[a][b] = chan[a][b]
        /\ phase'[a] = phase[a] /\ pc'[a] = pc[a] /\ To(job, a) \in Ranks /\ mem'[a] = mem[a]
        /\ (HasSent(a)' <=> HasSent(a)) /\ (HasGot(a)' <=> HasGot(a))
    BY <1>9, <1>13, <1>14, <1>15, <1>18
  <2>2. HasGot(To(job, a))' <=> HasGot(To(job, a))
    <3>1. PICK t \in Ranks : t = To(job, a) /\ t # p
      BY <1>9, <2>1
    <3>2. HasGot(t)' <=> HasGot(t)
      BY <1>16, <1>18, <3>1
    <3>3. QED
      BY <1>0, <3>1, <3>2 DEF HasGot
  <2>3. UnderWay(a)' <=> UnderWay(a)
    BY <1>0, <2>1 DEF UnderWay
  <2>4. QED
    BY <1>0, <2>1, <2>2, <2>3 DEF OneMessage
<1>22. OnceTyped'
  <2>1. \A a \in Ranks : "part" \in DOMAIN mem'[a]
    BY <1>14 DEF OnceTyped
  <2>2. QED
    BY <1>0, <1>13, <1>14, <1>15, <2>1 DEF OnceTyped
<1>23. QED
  BY <1>0, <1>19, <1>20, <1>21, <1>22, SMTT(40)

\* Where there is nothing to do nobody takes a step.
LEMMA IdleStays ==
    ASSUME OnceInv, OnceJob, Idle(job), NEW p \in Ranks
    PROVE  /\ ~Local(p) /\ ~AbortJob(p) /\ ~SendMessage(p)
           /\ ~Receive(p) /\ ~EnterCollective(p) /\ ~LeaveCollective(p)
<1>1. Code(p) = <<>>
  <2>1. PICK j, m : j = job /\ m = mem[p] /\ j \in Jobs /\ j.prog \in OnceProgs /\ Idle(j)
                    /\ p \in 0 .. j.np - 1
    BY DEF OnceJob, Ranks
  <2>2. Code(p) = Text(j, p, m)
    BY <2>1 DEF Code, Text
  <2>3. QED
    BY <2>1, <2>2, IdleCode
<1>2. Current(p) = {}
  BY <1>1 DEF Current
<1>3. ~LeaveCollective(p)
  <2>1. phase[p] = "run"
    BY DEF OnceInv
  <2>2. QED
    BY <2>1 DEF LeaveCollective
<1>4. QED
  BY <1>2, <1>3 DEF Local, AbortJob, SendMessage, Receive, EnterCollective

\* The process without a neighbour is at its receive, and sends nothing,
\* whatever the others do.
LEMMA AloneStays ==
    ASSUME OnceInv, OnceJob, Alone(job), NEW p \in Ranks,
           \/ Local(p)           \/ AbortJob(p)
           \/ SendMessage(p)     \/ Receive(p)
           \/ EnterCollective(p) \/ LeaveCollective(p)
    PROVE  /\ pc' = [a \in Ranks |-> pc'[a]] /\ phase' = [a \in Ranks |-> phase'[a]]
           /\ chan' = [a \in Ranks |-> [b \in Ranks |-> chan'[a][b]]]
           /\ pc'[job.np - 1] = 1 /\ phase'[job.np - 1] = "run"
           /\ \A q \in Ranks : chan'[job.np - 1][q] = <<>>
<1>1. PICK last : /\ last = job.np - 1 /\ last \in Ranks
                  /\ job.np \notin Ranks /\ job.np # AnySource /\ AnySource \notin Ranks
  BY JobsAssumption DEF OnceJob, Ranks, AnySource
<1>2. /\ pc = [a \in Ranks |-> pc[a]] /\ phase = [a \in Ranks |-> phase[a]]
      /\ chan = [a \in Ranks |-> [b \in Ranks |-> chan[a][b]]]
      /\ pc[last] = 1 /\ phase[last] = "run" /\ \A q \in Ranks : chan[last][q] = <<>>
  BY <1>1 DEF OnceInv
<1>3. \A i \in Current(last) : i.op = "recv" /\ i.from = job.np
  <2>1. PICK j, m : j = job /\ m = mem[last] /\ j \in Jobs /\ Alone(j)
    BY DEF OnceJob
  <2>2. Code(last) = Text(j, last, m)
    BY <2>1 DEF Code, Text
  <2>3. Code(last)[1].op = "recv" /\ Code(last)[1].from = job.np
    BY <1>1, <2>1, <2>2, AloneCode
  <2>4. QED
    BY <1>2, <2>3 DEF Current
<1>4. CASE p = last
  <2>1. ~Local(p) /\ ~SendMessage(p) /\ ~EnterCollective(p) /\ ~LeaveCollective(p)
    <3>1. ~Local(p) /\ ~SendMessage(p)
      BY <1>3, <1>4 DEF Local, SendMessage
    <3>2. ~EnterCollective(p)
      BY <1>3, <1>4 DEF EnterCollective, Collectives
    <3>3. ~LeaveCollective(p)
      BY <1>2, <1>4 DEF LeaveCollective
    <3>4. QED
      BY <3>1, <3>2, <3>3
  <2>2. ~Receive(p)
    BY <1>1, <1>3, <1>4, ZenonT(40) DEF Receive
  <2>3. pc' = pc /\ phase' = phase /\ chan' = chan
    BY <2>1, <2>2 DEF AbortJob
  <2>4. QED
    BY <1>1, <1>2, <2>3
<1>5. CASE p # last
  <2>1. CASE Local(p)
    <3>1. phase' = phase /\ chan' = chan
      BY <2>1 DEF Local
    <3>2. PICK x : pc' = [pc EXCEPT ![p] = x]
      BY <2>1 DEF Local, Step
    <3>3. pc' = [a \in Ranks |-> pc'[a]] /\ pc'[last] = 1
      BY <1>1, <1>2, <1>5, <3>2
    <3>4. QED
      BY <1>1, <1>2, <3>1, <3>3
  <2>2. CASE AbortJob(p)
    <3>1. pc' = pc /\ phase' = phase /\ chan' = chan
      BY <2>2 DEF AbortJob
    <3>2. QED
      BY <1>1, <1>2, <3>1
  <2>3. CASE SendMessage(p)
    <3>1. PICK r, x : chan' = [chan EXCEPT ![p][r] = x]
      BY <2>3 DEF SendMessage
    <3>2. /\ chan' = [a \in Ranks |-> [b \in Ranks |-> chan'[a][b]]]
          /\ \A q \in Ranks : chan'[last][q] = <<>>
      BY <1>1, <1>2, <1>5, <3>1, ZenonT(60)
    <3>3. /\ pc' = [a \in Ranks |-> pc'[a]] /\ pc'[last] = 1
          /\ phase' = [a \in Ranks |-> phase'[a]] /\ phase'[last] = "run"
      <4>1. pc' = pc \/ pc' = [pc EXCEPT ![p] = @ + 1]
        BY <2>3 DEF SendMessage, Step
      <4>2. phase' = phase \/ phase' = [phase EXCEPT ![p] = "send"]
        BY <2>3 DEF SendMessage
      <4>3. pc' = [a \in Ranks |-> pc'[a]] /\ pc'[last] = 1
        BY <1>1, <1>2, <1>5, <4>1
      <4>4. phase' = [a \in Ranks |-> phase'[a]] /\ phase'[last] = "run"
        BY <1>1, <1>2, <1>5, <4>2
      <4>5. QED
        BY <4>3, <4>4
    <3>4. QED
      BY <1>1, <3>2, <3>3
  <2>4. CASE Receive(p)
    <3>1. PICK i \in Current(p), q \in Ranks : \E k : Takes(p, q, k)
      BY <2>4, ReceiveIs
    <3>2. PICK k : Takes(p, q, k)
      BY <3>1
    <3>3. q # last
      <4>1. k \in DOMAIN chan[q][p]
        BY <3>2 DEF Takes
      <4>2. chan[q][p] # <<>>
        BY <4>1
      <4>3. QED
        BY <1>2, <4>2
    <3>4. PICK x : chan' = [chan EXCEPT ![q][p] = x]
      BY <3>2 DEF Takes
    <3>5. /\ chan' = [a \in Ranks |-> [b \in Ranks |-> chan'[a][b]]]
          /\ \A r \in Ranks : chan'[last][r] = <<>>
      BY <1>1, <1>2, <3>3, <3>4, ZenonT(60)
    <3>6. /\ pc' = [pc EXCEPT ![p] = @ + 1] \/ pc' = [pc EXCEPT ![p] = @ + 1, ![q] = @ + 1]
          /\ phase' = phase \/ phase' = [phase EXCEPT ![q] = "run"]
      BY <3>2 DEF Takes
    <3>7. pc' = [a \in Ranks |-> pc'[a]] /\ pc'[last] = 1
      BY <1>1, <1>2, <1>5, <3>3, <3>6
    <3>8. phase' = [a \in Ranks |-> phase'[a]] /\ phase'[last] = "run"
      BY <1>1, <1>2, <3>3, <3>6
    <3>9. QED
      BY <1>1, <3>5, <3>7, <3>8
  <2>5. CASE EnterCollective(p)
    <3>1. pc' = pc /\ phase' = [phase EXCEPT ![p] = "coll"] /\ chan' = chan
      BY <2>5 DEF EnterCollective
    <3>2. QED
      BY <1>1, <1>2, <1>5, <3>1
  <2>6. CASE LeaveCollective(p)
    <3>1. pc' = [pc EXCEPT ![p] = @ + 1] /\ phase' = [phase EXCEPT ![p] = "run"] /\ chan' = chan
      BY <2>6 DEF LeaveCollective, Step
    <3>2. QED
      BY <1>1, <1>2, <1>5, <3>1
  <2>7. QED
    BY <2>1, <2>2, <2>3, <2>4, <2>5, <2>6
<1>6. QED
  BY <1>4, <1>5

\* Sends and receives are all that happens between pairs.
LEMMA PairedSteps ==
    ASSUME OnceJob, Paired(job), OnceTyped, \A p \in Ranks : OneMessage(p), NEW p \in Ranks
    PROVE  ~Local(p) /\ ~AbortJob(p) /\ ~EnterCollective(p) /\ ~LeaveCollective(p)
<1>1. PICK val : Pair(Code(p), SendsAt(job, p), val, To(job, p), From(job, p))
  BY OnceCode
<1>2. To(job, p) \in Ranks /\ From(job, p) \in Ranks
  BY Peers DEF OnceJob, Ranks
<1>3. ASSUME NEW i \in Current(p)
      PROVE  \/ i.op = "send" /\ i.to \in Ranks
             \/ i.op = "recv" /\ i.from \in Ranks \cup {AnySource}
  <2>1. PICK k, s : k = pc[p] /\ s = SendsAt(job, p) /\ i = Code(p)[k] /\ k \in 1 .. 2 /\ s \in {1, 2}
    BY <1>1, Halfway DEF Current, Pair
  <2>2. k = s \/ k = 3 - s
    BY <2>1
  <2>3. QED
    BY <1>1, <1>2, <2>1, <2>2 DEF Pair
<1>4. ~Local(p)
  BY <1>3 DEF Local
<1>5. ~AbortJob(p)
  BY <1>3 DEF AbortJob, InvalidRank
<1>6. ~EnterCollective(p)
  BY <1>3 DEF EnterCollective, Collectives
<1>7. ~LeaveCollective(p)
  BY DEF LeaveCollective, OnceTyped
<1>8. QED
  BY <1>4, <1>5, <1>6, <1>7

\* A job is of one of the three kinds.
LEMMA OneKind ==
    ASSUME NEW j
    PROVE  /\ Idle(j) \/ Alone(j) \/ Paired(j)
           /\ Idle(j) => ~Alone(j) /\ ~Paired(j)
           /\ Alone(j) => ~Paired(j)
  BY DEF Idle, Alone, Paired, Rings

\* Every step keeps the invariant.
LEMMA OnceSteps == OnceInv /\ [Next]_vars => OnceInv'
<1> SUFFICES ASSUME OnceInv, [Next]_vars, OnceJob PROVE OnceInv'
  <2>1. [Next]_vars /\ ~OnceJob => ~OnceJob'
    BY JobFixed DEF OnceJob
  <2>2. QED
    BY <2>1 DEF OnceInv
<1>1. job' = job /\ Ranks' = Ranks
  BY JobFixed DEF Ranks
<1>2. (Idle(job)' <=> Idle(job)) /\ (Alone(job)' <=> Alone(job)) /\ (Paired(job)' <=> Paired(job))
  BY <1>1
<1>3. CASE UNCHANGED vars
  <2>1. pc' = pc /\ phase' = phase /\ chan' = chan /\ mem' = mem
    BY <1>3 DEF vars
  <2>2. (OnceTyped' <=> OnceTyped) /\ \A a \in Ranks : OneMessage(a)' <=> OneMessage(a)
    <3>1. OnceTyped' <=> OnceTyped
      BY <1>1, <2>1 DEF OnceTyped
    <3>2. ASSUME NEW a \in Ranks PROVE OneMessage(a)' <=> OneMessage(a)
      <4>1. /\ HasSent(a)' <=> HasSent(a)
            /\ HasGot(a)' <=> HasGot(a)
            /\ HasGot(To(job, a))' <=> HasGot(To(job, a))
            /\ UnderWay(a)' <=> UnderWay(a)
        BY <1>1, <2>1 DEF HasSent, HasGot, UnderWay
      <4>2. QED
        BY <1>1, <2>1, <4>1 DEF OneMessage
    <3>3. QED
      BY <3>1, <3>2
  <2>3. QED
    BY <1>1, <1>2, <2>1, <2>2 DEF OnceInv
<1>4. CASE Next /\ Idle(job)
  BY <1>4, IdleStays DEF Next
<1>5. CASE Next /\ Alone(job)
  <2>1. /\ pc' = [a \in Ranks |-> pc'[a]] /\ phase' = [a \in Ranks |-> phase'[a]]
        /\ chan' = [a \in Ranks |-> [b \in Ranks |-> chan'[a][b]]]
        /\ pc'[job.np - 1] = 1 /\ phase'[job.np - 1] = "run"
        /\ \A q \in Ranks : chan'[job.np - 1][q] = <<>>
    BY <1>5, AloneStays DEF Next
  <2>2. ~Idle(job) /\ ~Paired(job)
    BY <1>5, OneKind
  <2>3. QED
    BY <1>1, <1>2, <2>1, <2>2 DEF OnceInv
<1>6. CASE Next /\ Paired(job)
  <2>1. OnceTyped /\ \A p \in Ranks : OneMessage(p)
    BY <1>6 DEF OnceInv
  <2>2. PICK p \in Ranks : SendMessage(p) \/ Receive(p)
    BY <1>6, <2>1, PairedSteps DEF Next
  <2>3. OnceTyped' /\ \A a \in Ranks : OneMessage(a)'
    BY <1>6, <2>1, <2>2, OnceSends, OnceReceives
  <2>4. ~Idle(job) /\ ~Alone(job)
    BY <1>6, OneKind
  <2>5. QED
    BY <1>1, <1>2, <2>3, <2>4 DEF OnceInv
<1>7. QED
  BY <1>3, <1>4, <1>5, <1>6, OneKind

\* At the start nothing was sent.
LEMMA OnceStarts == Init => OnceInv
<1> SUFFICES ASSUME Init, OnceJob PROVE OnceInv
  BY DEF OnceInv
<1>1. /\ pc = [p \in Ranks |-> 1] /\ phase = [p \in Ranks |-> "run"]
      /\ mem = [p \in Ranks |-> Blank] /\ chan = [p \in Ranks |-> [q \in Ranks |-> <<>>]]
  BY DEF Init
<1>2. Blank.part = <<>> /\ "part" \in DOMAIN Blank
  BY DEF Blank
<1>3. Idle(job) => \A p \in Ranks : mem[p].part = <<>>
  BY <1>1, <1>2
<1>4. ASSUME Alone(job)
      PROVE  /\ pc = [p \in Ranks |-> pc[p]] /\ phase = [p \in Ranks |-> phase[p]]
             /\ chan = [p \in Ranks |-> [q \in Ranks |-> chan[p][q]]]
             /\ pc[job.np - 1] = 1 /\ phase[job.np - 1] = "run"
             /\ \A q \in Ranks : chan[job.np - 1][q] = <<>>
  <2>1. job.np - 1 \in Ranks
    BY JobsAssumption DEF OnceJob, Ranks
  <2>2. QED
    BY <1>1, <2>1
<1>5. ASSUME Paired(job)
      PROVE  OnceTyped /\ \A p \in Ranks : OneMessage(p)
  <2>1. OnceTyped
    BY <1>1, <1>2 DEF OnceTyped
  <2>2. ASSUME NEW p \in Ranks PROVE OneMessage(p)
    <3>1. To(job, p) \in Ranks
      BY <1>5, Peers DEF OnceJob, Ranks
    <3>2. \A a \in Ranks : ~HasSent(a) /\ ~HasGot(a)
      <4>1. ASSUME NEW a \in Ranks PROVE ~(1 > SendsAt(job, a)) /\ ~(1 > 3 - SendsAt(job, a))
        BY DEF SendsAt
      <4>2. QED
        BY <1>1, <4>1 DEF HasSent, HasGot
    <3>3. QED
      BY <1>1, <1>2, <3>1, <3>2 DEF OneMessage
  <2>3. QED
    BY <2>1, <2>2
<1>6. QED
  BY <1>1, <1>3, <1>4, <1>5 DEF OnceInv

\* When everybody is done each has what it was sent, and nothing is left.
LEMMA OnceDone == OnceInv => (Is(OnceProgs) /\ job \in Jobs => Outcome)
<1> SUFFICES ASSUME OnceInv, OnceJob, AllDone, ~aborted PROVE Outcome
  BY DEF Outcome, OnceJob, Is
<1>1. PICK n : n = job.np /\ n \in Nat \ {0} /\ (n > 1 \/ n = 1) /\ Odd(1) /\ ~(1 > 1)
  BY JobsAssumption DEF OnceJob, Odd
<1>2. CASE Idle(job)
  <2>1. /\ \A p, q \in Ranks : chan[p][q] = <<>>
        /\ \A p \in Ranks : mem[p].part = <<>>
    BY <1>2 DEF OnceInv
  <2>2. job.prog \in Rings => ~(job.np > 1)
    BY <1>2 DEF Idle, Paired
  <2>3. job.prog \notin Rings => Odd(job.np)
    BY <1>1, <1>2 DEF Idle, Paired
  <2>4. Is({"deadlock", "exchange", "exchange2"}) => ExchangeGoal
    BY <2>1, <2>3 DEF ExchangeGoal, Is, Rings
  <2>5. Is({"ring", "ringAlt"}) => RingGoal
    BY <2>2 DEF RingGoal, Is, Rings
  <2>6. QED
    BY <2>1, <2>4, <2>5 DEF Outcome, OnceJob, OnceProgs, Rings, Is
<1>3. CASE Alone(job)
  <2>1. PICK j, m, p : j = job /\ m = mem[p] /\ p = j.np - 1 /\ j \in Jobs /\ Alone(j)
    BY <1>3 DEF OnceJob
  <2>2. p \in Ranks /\ Len(Text(j, p, m)) = 2
    BY <2>1, AloneCode DEF Ranks
  <2>3. Len(Code(p)) = 2 /\ pc[p] = 1
    BY <1>3, <2>1, <2>2 DEF Code, Text, OnceInv
  <2>4. QED
    BY <2>2, <2>3 DEF AllDone, Done
<1>4. CASE Paired(job)
  <2>1. ASSUME NEW p \in Ranks
        PROVE  OneMessage(p) /\ HasSent(p) /\ HasGot(p) /\ phase[p] = "run"
    <3>1. Len(Code(p)) = 2
      <4>1. PICK val : Pair(Code(p), SendsAt(job, p), val, To(job, p), From(job, p))
        BY <1>4, OnceCode
      <4>2. QED
        BY <4>1 DEF Pair
    <3>2. pc[p] = 3 /\ phase[p] = "run"
      <4>1. OnceTyped
        BY <1>4 DEF OnceInv
      <4>2. pc[p] \in {1, 2, 3}
        BY <4>1 DEF OnceTyped
      <4>3. pc[p] > 2 /\ phase[p] = "run"
        BY <3>1 DEF AllDone, Done
      <4>4. QED
        BY <4>2, <4>3
    <3>3. 3 > SendsAt(job, p) /\ 3 > 3 - SendsAt(job, p)
      BY DEF SendsAt
    <3>4. QED
      BY <1>4, <3>2, <3>3 DEF OnceInv, HasSent, HasGot
  <2>2. ASSUME NEW p \in Ranks
        PROVE  /\ \A q \in Ranks : chan[p][q] = <<>>
               /\ mem[p].part = What(job, From(job, p))
    <3>1. To(job, p) \in Ranks
      BY <1>4, Peers DEF OnceJob, Ranks
    <3>2. QED
      BY <2>1, <3>1 DEF OneMessage
  <2>3. Is({"deadlock", "exchange", "exchange2"}) => ExchangeGoal
    <3> SUFFICES ASSUME Is({"deadlock", "exchange", "exchange2"}) PROVE ExchangeGoal
      OBVIOUS
    <3>1. job.prog \notin Rings /\ ~Odd(job.np)
      BY <1>4 DEF Is, Rings, Paired
    <3>2. ASSUME NEW p \in Ranks
          PROVE  mem[p].part = What(job, IF Odd(p) THEN p - 1 ELSE p + 1)
      BY <2>2, <3>1 DEF From, Neighbour
    <3>3. QED
      BY <3>1, <3>2 DEF ExchangeGoal, What
  <2>4. Is({"ring", "ringAlt"}) => RingGoal
    <3> SUFFICES ASSUME Is({"ring", "ringAlt"}), NEW p \in Ranks
                 PROVE  mem[p].part = [k \in 1 .. (IF p = MASTER THEN job.np ELSE p) |-> k - 1]
      BY DEF RingGoal
    <3>1. job.prog \in Rings
      BY DEF Is, Rings
    <3>2. mem[p].part = [k \in 1 .. From(job, p) + 1 |-> k - 1]
      BY <2>2, <3>1 DEF What
    <3>3. From(job, p) + 1 = IF p = MASTER THEN job.np ELSE p
      BY <1>1, <3>1 DEF From, Ranks, MASTER
    <3>4. QED
      BY <3>2, <3>3
  <2>5. QED
    BY <2>2, <2>3, <2>4 DEF Outcome, OnceJob, OnceProgs, Rings, Is
<1>5. QED
  BY <1>2, <1>3, <1>4, OneKind

\* Neighbours that exchange values have each other's value, and a message that
\* goes around the ring has passed every process in turn, when a job ends: in
\* every language, with any number of processes and however messages are
\* buffered; and no message is left behind (MPI/04 to 07, the messagePassing
\* programs, and their Java and Python versions).
THEOREM ExchangeOutcome == Spec => [](Is(OnceProgs) => Outcome)
<1>1. Init => OnceInv /\ job \in Jobs
  BY OnceStarts DEF Init
<1>2. OnceInv /\ job \in Jobs /\ [Next]_vars => (OnceInv /\ job \in Jobs)'
  BY OnceSteps, JobFixed
<1>3. OnceInv /\ job \in Jobs => (Is(OnceProgs) => Outcome)
  BY OnceDone
<1>4. QED
  BY <1>1, <1>2, <1>3, PTL DEF Spec
-----------------------------------------------------------------------------
(* What the broadcasts leave behind: the master's value, everywhere.       *)

\* The programs that broadcast by the collective, and the value they are for.
BcastProgs == {"broadcast", "broadcastInput", "broadcast2"}
BcastJob == job \in Jobs /\ job.prog \in BcastProgs
ValueOf(j) ==
  IF j.prog = "broadcast2" THEN IF j.lang = "Python" THEN [k \in 1 .. j.np |-> k - 1] ELSE Fill(ARRAY_SIZE)
  ELSE IF j.prog = "broadcast" THEN IF j.lang = "Python" THEN << 1, 2, 3 >> ELSE << ANSWER >>
  ELSE << IF j.given \/ j.lang = "Python" THEN ANSWER ELSE 0 >>

\* The processes that finish without a broadcast: in Python when there is only
\* one, or no argument, and in Java the master that finds no file.
Skips(j, p) ==
  \/ j.lang = "Python" /\ (j.np <= 1 \/ (j.prog = "broadcastInput" /\ ~j.given))
  \/ j.lang \in {"Java", "Array"} /\ j.prog = "broadcast" /\ p = MASTER /\ ~j.given

\* What the programs consist of: lines, and collectives, in which the master
\* contributes the value and the others anything.
Lines == {Abort, Line(0), Line(1), SeparatorLine(1)}
Calls(j, p) ==
  {Barrier} \cup { Bcast("buf", v) : v \in IF p = MASTER THEN {ValueOf(j)} ELSE Seq(Int) }
Broadcasts(x) == \E k \in 1 .. Len(x) : x[k].op = "bcast"

\* A program broadcasts when a part of it does.
LEMMA BroadcastsPart ==
    ASSUME NEW U, NEW x \in Seq(U), NEW y \in Seq(U), Broadcasts(x) \/ Broadcasts(y)
    PROVE  x \o y \in Seq(U) /\ Broadcasts(x \o y)
<1>1. x \o y \in Seq(U) /\ Len(x \o y) = Len(x) + Len(y) /\ Len(x) \in Nat /\ Len(y) \in Nat
  OBVIOUS
<1>2. CASE Broadcasts(x)
  <2>1. PICK k \in 1 .. Len(x) : x[k].op = "bcast"
    BY <1>2 DEF Broadcasts
  <2>2. (x \o y)[k] = x[k] /\ k \in 1 .. Len(x \o y)
    BY <1>1
  <2>3. QED
    BY <1>1, <2>1, <2>2 DEF Broadcasts
<1>3. CASE Broadcasts(y)
  <2>1. PICK k \in 1 .. Len(y) : y[k].op = "bcast"
    BY <1>3 DEF Broadcasts
  <2>2. (x \o y)[Len(x) + k] = y[k] /\ Len(x) + k \in 1 .. Len(x \o y)
    BY <1>1
  <2>3. QED
    BY <1>1, <2>1, <2>2 DEF Broadcasts
<1>4. QED
  BY <1>2, <1>3

\* The instructions of a broadcast, whatever the memory.
LEMMA BcastCode ==
    ASSUME NEW j \in Jobs, j.prog \in BcastProgs, NEW p \in 0 .. j.np - 1, NEW m
    PROVE  /\ Text(j, p, m) \in Seq(Lines \cup Calls(j, p))
           /\ Skips(j, p) => Text(j, p, m) = <<>>
           /\ ~Skips(j, p) => Broadcasts(Text(j, p, m))
<1> DEFINE U == Lines \cup Calls(j, p)
           x == Text(j, p, m)
<1>1. PICK n : n = j.np /\ n \in Nat \ {0} /\ p \in 0 .. n - 1
  BY JobsAssumption
<1>2. /\ j.lang \in {"C", "Java", "Array", "Python"} /\ j.given \in BOOLEAN
      /\ j.prog \in {"broadcast", "broadcastInput", "broadcast2"}
      /\ j.prog = "broadcastInput" => j.lang # "Array"
  BY JobsAssumption DEF BcastProgs, Programs
<1>3. /\ Abort \in U /\ Line(0) \in U /\ Line(1) \in U /\ SeparatorLine(1) \in U /\ Barrier \in U
      /\ \A v : (v = ValueOf(j) \/ p # MASTER) /\ v \in Seq(Int) => Bcast("buf", v) \in U
  BY DEF Lines, Calls
<1>4. \A v : Bcast("buf", v).op = "bcast"
  BY DEF Bcast
<1>5. /\ ValueOf(j) \in Seq(Int) /\ Fill(ARRAY_SIZE) \in Seq(Int) /\ Zeros(ARRAY_SIZE) \in Seq(Int)
      /\ << ANSWER >> \in Seq(Int) /\ << 0 >> \in Seq(Int) /\ << 1, 2, 3 >> \in Seq(Int)
      /\ <<>> \in Seq(Int)
  <2>1. [k \in 1 .. n |-> k - 1] \in Seq(Int)
    BY <1>1
  <2>2. Fill(ARRAY_SIZE) \in Seq(Int) /\ Zeros(ARRAY_SIZE) \in Seq(Int)
    BY DEF Fill, Zeros, ARRAY_SIZE
  <2>3. /\ << ANSWER >> \in Seq(Int) /\ << 0 >> \in Seq(Int) /\ << 1, 2, 3 >> \in Seq(Int)
        /\ <<>> \in Seq(Int)
    BY DEF ANSWER
  <2>4. QED
    BY <1>1, <2>1, <2>2, <2>3 DEF ValueOf
<1> HIDE DEF U
<1>6. PrintSeparator(p, 1) \in Seq(U)
  BY <1>3 DEF PrintSeparator
<1>7. ASSUME NEW i \in U, i.op = "bcast"
      PROVE  /\ << i >> \in Seq(U) /\ Broadcasts(<< i >>)
             /\ << i, Line(1) >> \in Seq(U) /\ Broadcasts(<< i, Line(1) >>)
             /\ << Line(0), i >> \in Seq(U) /\ Broadcasts(<< Line(0), i >>)
             /\ Broadcasts(<< Line(0) >> \o PrintSeparator(p, 1) \o << i, Line(1) >>)
             /\ << Line(0) >> \o PrintSeparator(p, 1) \o << i, Line(1) >> \in Seq(U)
             /\ Broadcasts(<< Line(0), i >> \o PrintSeparator(p, 1) \o << Line(1) >>)
             /\ << Line(0), i >> \o PrintSeparator(p, 1) \o << Line(1) >> \in Seq(U)
  <2>1. /\ << i >> \in Seq(U) /\ << i, Line(1) >> \in Seq(U) /\ << Line(0), i >> \in Seq(U)
        /\ << Line(0) >> \in Seq(U) /\ << Line(1) >> \in Seq(U)
    BY <1>3
  <2>2. /\ 1 \in 1 .. Len(<< i >>) /\ << i >>[1] = i
        /\ 1 \in 1 .. Len(<< i, Line(1) >>) /\ << i, Line(1) >>[1] = i
        /\ 2 \in 1 .. Len(<< Line(0), i >>) /\ << Line(0), i >>[2] = i
    OBVIOUS
  <2>3. Broadcasts(<< i >>) /\ Broadcasts(<< i, Line(1) >>) /\ Broadcasts(<< Line(0), i >>)
    BY <1>7, <2>2 DEF Broadcasts
  <2>4. << Line(0) >> \o PrintSeparator(p, 1) \in Seq(U)
    BY <1>6, <2>1
  <2>5. /\ << Line(0), i >> \o PrintSeparator(p, 1) \in Seq(U)
        /\ Broadcasts(<< Line(0), i >> \o PrintSeparator(p, 1))
    BY <1>6, <2>1, <2>3, BroadcastsPart
  <2>6. QED
    BY <2>1, <2>3, <2>4, <2>5, BroadcastsPart
<1>8. CASE j.lang = "C"
  <2>1. CASE j.prog = "broadcast"
    <3>1. x = broadcast(p, j.given)
      BY <1>8, <2>1 DEF Text, CCode
    <3>2. PICK i \in U, a \in Seq(U) : i.op = "bcast" /\ x = a \o << i >>
      <4>1. Bcast("buf", << IF p = MASTER THEN ANSWER ELSE 0 >>) \in U
        BY <1>3, <1>5, <1>8, <2>1 DEF ValueOf
      <4>2. (IF p = MASTER /\ ~j.given THEN << Abort >> ELSE <<>>) \in Seq(U)
        BY <1>3
      <4>3. PICK i : i = Bcast("buf", << IF p = MASTER THEN ANSWER ELSE 0 >>)
        OBVIOUS
      <4>4. PICK a : a = IF p = MASTER /\ ~j.given THEN << Abort >> ELSE <<>>
        OBVIOUS
      <4>5. i \in U /\ i.op = "bcast" /\ a \in Seq(U)
        BY <1>4, <4>1, <4>2, <4>3, <4>4
      <4>6. x = a \o << i >>
        BY <3>1, <4>3, <4>4 DEF broadcast
      <4>7. QED
        BY <4>5, <4>6
    <3>3. x \in Seq(U) /\ Broadcasts(x)
      BY <1>7, <3>2, BroadcastsPart
    <3>4. QED
      BY <1>8, <3>3 DEF U, Skips
  <2>2. CASE j.prog # "broadcast"
    <3>1. x = broadcastUserInput(p, j.given) \/ x = broadcast2(p)
      BY <1>2, <1>8, <2>2 DEF Text, CCode
    <3>2. PICK i \in U : i.op = "bcast" /\ x = << i >>
      <4>1. CASE j.prog = "broadcastInput"
        <5>1. x = broadcastUserInput(p, j.given)
          BY <1>8, <4>1 DEF Text, CCode
        <5>2. Bcast("buf", << IF p = MASTER /\ j.given THEN ANSWER ELSE 0 >>) \in U
          BY <1>2, <1>3, <1>5, <1>8, <4>1 DEF ValueOf
        <5>3. QED
          BY <1>4, <5>1, <5>2 DEF broadcastUserInput
      <4>2. CASE j.prog = "broadcast2"
        <5>1. x = broadcast2(p)
          BY <1>8, <4>2 DEF Text, CCode
        <5>2. Bcast("buf", IF p = MASTER THEN Fill(ARRAY_SIZE) ELSE Zeros(ARRAY_SIZE)) \in U
          BY <1>3, <1>5, <1>8, <4>2 DEF ValueOf
        <5>3. QED
          BY <1>4, <5>1, <5>2 DEF broadcast2
      <4>3. QED
        BY <1>2, <2>2, <4>1, <4>2
    <3>3. x \in Seq(U) /\ Broadcasts(x)
      BY <1>7, <3>2
    <3>4. QED
      BY <1>8, <3>3 DEF U, Skips
  <2>3. QED
    BY <2>1, <2>2
<1>9. CASE j.lang = "Java" \/ (j.lang = "Array" /\ j.prog = "broadcast2")
  <2>1. CASE j.prog = "broadcast"
    <3>1. x = JavaBroadcast(p, j.given)
      BY <1>9, <2>1 DEF Text, JavaCode
    <3>2. CASE p = MASTER /\ ~j.given
      <4>1. x = <<>>
        BY <3>1, <3>2 DEF JavaBroadcast
      <4>2. QED
        BY <1>9, <2>1, <3>2, <4>1 DEF U, Skips
    <3>3. CASE ~(p = MASTER /\ ~j.given)
      <4>1. Bcast("buf", << IF p = MASTER THEN ANSWER ELSE 0 >>) \in U
        BY <1>3, <1>5, <1>9, <2>1 DEF ValueOf
      <4>2. PICK i : i = Bcast("buf", << IF p = MASTER THEN ANSWER ELSE 0 >>)
        OBVIOUS
      <4>3. i \in U /\ i.op = "bcast"
        BY <1>4, <4>1, <4>2
      <4>4. x = << Line(0) >> \o PrintSeparator(p, 1) \o << i, Line(1) >>
        BY <3>1, <3>3, <4>2 DEF JavaBroadcast
      <4>5. x \in Seq(U) /\ Broadcasts(x)
        BY <1>7, <4>3, <4>4
      <4>6. QED
        BY <1>9, <3>3, <4>5 DEF U, Skips
    <3>4. QED
      BY <3>2, <3>3
  <2>2. CASE j.prog = "broadcastInput"
    <3>1. x = JavaBroadcastUserInput(p, j.given)
      BY <1>9, <2>2 DEF Text, JavaCode
    <3>2. Bcast("buf", << IF p = MASTER /\ j.given THEN ANSWER ELSE 0 >>) \in U
      BY <1>2, <1>3, <1>5, <1>9, <2>2 DEF ValueOf
    <3>3. PICK i : i = Bcast("buf", << IF p = MASTER /\ j.given THEN ANSWER ELSE 0 >>)
      OBVIOUS
    <3>4. i \in U /\ i.op = "bcast"
      BY <1>4, <3>2, <3>3
    <3>5. x = << Line(0), i >> \o PrintSeparator(p, 1) \o << Line(1) >>
      BY <3>1, <3>3 DEF JavaBroadcastUserInput
    <3>6. x \in Seq(U) /\ Broadcasts(x)
      BY <1>7, <3>4, <3>5
    <3>7. QED
      BY <1>9, <2>2, <3>6 DEF U, Skips
  <2>3. CASE j.prog = "broadcast2"
    <3>1. x = JavaBroadcast2(p)
      BY <1>9, <2>3 DEF Text, JavaCode, ArrayCode, ArrayBroadcast2
    <3>2. Bcast("buf", IF p = MASTER THEN Fill(ARRAY_SIZE) ELSE Zeros(ARRAY_SIZE)) \in U
      BY <1>3, <1>5, <1>9, <2>3 DEF ValueOf
    <3>3. PICK i : i = Bcast("buf", IF p = MASTER THEN Fill(ARRAY_SIZE) ELSE Zeros(ARRAY_SIZE))
      OBVIOUS
    <3>4. i \in U /\ i.op = "bcast"
      BY <1>4, <3>2, <3>3
    <3>5. x = << Line(0) >> \o PrintSeparator(p, 1) \o << i, Line(1) >>
      BY <3>1, <3>3 DEF JavaBroadcast2
    <3>6. x \in Seq(U) /\ Broadcasts(x)
      BY <1>7, <3>4, <3>5
    <3>7. QED
      BY <1>9, <2>3, <3>6 DEF U, Skips
  <2>4. QED
    BY <1>2, <2>1, <2>2, <2>3
<1>10. CASE j.lang = "Array" /\ j.prog = "broadcast"
  <2>1. x = ArrayBroadcast(p, j.given)
    BY <1>10 DEF Text, ArrayCode
  <2>2. CASE p = MASTER /\ ~j.given
    <3>1. x = <<>>
      BY <2>1, <2>2 DEF ArrayBroadcast
    <3>2. QED
      BY <1>10, <2>2, <3>1 DEF U, Skips
  <2>3. CASE ~(p = MASTER /\ ~j.given)
    <3>1. Bcast("buf", << IF p = MASTER THEN ANSWER ELSE 0 >>) \in U
      BY <1>3, <1>5, <1>10 DEF ValueOf
    <3>2. << Line(0) >> \o OnlyMaster(p, SeparatorLine(1)) \in Seq(U)
      BY <1>3 DEF OnlyMaster
    <3>3. PICK i : i = Bcast("buf", << IF p = MASTER THEN ANSWER ELSE 0 >>)
      OBVIOUS
    <3>4. i \in U /\ i.op = "bcast"
      BY <1>4, <3>1, <3>3
    <3>5. PICK a : a = << Line(0) >> \o OnlyMaster(p, SeparatorLine(1))
      OBVIOUS
    <3>6. x = a \o << i, Line(1) >>
      BY <2>1, <2>3, <3>3, <3>5 DEF ArrayBroadcast
    <3>7. x \in Seq(U) /\ Broadcasts(x)
      BY <1>7, <3>2, <3>4, <3>5, <3>6, BroadcastsPart
    <3>8. QED
      BY <1>10, <2>3, <3>7 DEF U, Skips
  <2>4. QED
    BY <2>2, <2>3
<1>11. CASE j.lang = "Python"
  <2>1. /\ j.prog = "broadcast" => x = PyBroadcast(p, n)
        /\ j.prog = "broadcastInput" => x = PyBroadcastUserInput(p, n, j.given)
        /\ j.prog = "broadcast2" => x = PyBroadcastList(p, n)
    BY <1>1, <1>11 DEF Text, PyCode
  <2>2. CASE Skips(j, p)
    <3>1. n <= 1 \/ (j.prog = "broadcastInput" /\ ~j.given)
      BY <1>1, <1>11, <2>2 DEF Skips
    <3>2. x = <<>>
      BY <1>2, <2>1, <3>1 DEF PyBroadcast, PyBroadcastUserInput, PyBroadcastList
    <3>3. QED
      BY <2>2, <3>2 DEF U
  <2>3. CASE ~Skips(j, p)
    <3>1. ~(n <= 1) /\ (j.prog = "broadcastInput" => j.given)
      BY <1>1, <1>2, <1>11, <2>3 DEF Skips
    <3>2. \E i \in U : i.op = "bcast" /\ x = << i >>
      <4>1. CASE j.prog = "broadcast"
        <5>1. Bcast("buf", IF p = MASTER THEN << 1, 2, 3 >> ELSE <<>>) \in U
          BY <1>3, <1>5, <1>11, <4>1 DEF ValueOf
        <5>2. QED
          BY <1>4, <2>1, <3>1, <4>1, <5>1 DEF PyBroadcast
      <4>2. CASE j.prog = "broadcastInput"
        <5>1. Bcast("buf", << IF p = MASTER THEN ANSWER ELSE 0 >>) \in U
          BY <1>3, <1>5, <1>11, <4>2 DEF ValueOf
        <5>2. QED
          BY <1>4, <2>1, <3>1, <4>2, <5>1 DEF PyBroadcastUserInput
      <4>3. CASE j.prog = "broadcast2"
        <5>1. ValueOf(j) = [k \in 1 .. n |-> k - 1]
          BY <1>1, <1>11, <4>3 DEF ValueOf
        <5>2. Bcast("buf", IF p = MASTER THEN [k \in 1 .. n |-> k - 1] ELSE <<>>) \in U
          BY <1>3, <1>5, <5>1
        <5>3. QED
          BY <1>4, <2>1, <3>1, <4>3, <5>2 DEF PyBroadcastList
      <4>4. QED
        BY <1>2, <4>1, <4>2, <4>3
    <3>3. x \in Seq(U) /\ Broadcasts(x)
      BY <1>7, <3>2
    <3>4. QED
      BY <2>3, <3>3 DEF U
  <2>4. QED
    BY <2>2, <2>3
<1>12. QED
  BY <1>2, <1>8, <1>9, <1>10, <1>11

\* Process p has left a broadcast.
HasCopy(p) ==
  \E k \in 1 .. Len(entered[p]) : entered[p][k].op = "bcast" /\ (phase[p] = "coll" => k < Len(entered[p]))

\* What the programs leave alone, and what a process has entered.
BcastTyped ==
  /\ phase \in [Ranks -> {"run", "coll"}]
  /\ mem = [p \in Ranks |-> mem[p]] /\ \A p \in Ranks : "buf" \in DOMAIN mem[p]
  /\ entered = [p \in Ranks |-> entered[p]]
  /\ \A p \in Ranks : entered[p] \in Seq(Calls(job, p))
  /\ \A p, q \in Ranks : chan[p][q] = <<>>

\* A process has the value once it has left a broadcast, which it cannot before
\* the master has entered it.
BcastKnown(p) ==
  /\ phase[p] = "coll" => entered[p] # <<>>
  /\ Skips(job, p) => entered[p] = <<>>
  /\ mem[p].buf = IF HasCopy(p) THEN ValueOf(job) ELSE Blank.buf
  /\ HasCopy(p) => entered[MASTER] # <<>>
BcastInv == BcastJob => BcastTyped /\ \A p \in Ranks : BcastKnown(p)

\* The programs only print and call collectives.
LEMMA BcastInstruction ==
    ASSUME BcastJob, NEW p \in Ranks, NEW i \in Current(p)
    PROVE  /\ i \in Lines \cup Calls(job, p)
           /\ i.op \in {"abort", "print", "barrier", "bcast"}
           /\ i.op \in Collectives => i \in Calls(job, p)
           /\ phase[p] = "run" /\ ~Skips(job, p)
<1>1. PICK j, m : /\ j = job /\ m = mem[p] /\ j \in Jobs /\ j.prog \in BcastProgs
                  /\ p \in 0 .. j.np - 1
  BY DEF BcastJob, Ranks
<1>2. Code(p) = Text(j, p, m)
  BY <1>1 DEF Code, Text
<1>3. phase[p] = "run" /\ pc[p] \in DOMAIN Code(p) /\ i = Code(p)[pc[p]]
  BY DEF Current
<1>4. Code(p) \in Seq(Lines \cup Calls(j, p)) /\ (Skips(j, p) => Code(p) = <<>>)
  BY <1>1, <1>2, BcastCode
<1>5. i \in Lines \cup Calls(j, p)
  BY <1>3, <1>4
<1>6. Code(p) # <<>>
  BY <1>3
<1>7. /\ \A x \in Lines : x.op \in {"abort", "print"}
      /\ \A x \in Calls(j, p) : x.op \in {"barrier", "bcast"}
  BY DEF Lines, Calls, Abort, Line, SeparatorLine, Barrier, Bcast
<1>8. i.op \in {"abort", "print", "barrier", "bcast"} /\ (i.op \in Collectives => i \in Calls(j, p))
  BY <1>5, <1>7 DEF Collectives
<1>9. QED
  BY <1>1, <1>3, <1>4, <1>5, <1>6, <1>8

\* The calls of a process.
LEMMA CallsAre ==
    ASSUME NEW j, NEW p
    PROVE  \A x \in Calls(j, p) : /\ x.op \in {"barrier", "bcast"}
                                  /\ x.op = "bcast" => x.var = "buf"
                                  /\ x.op = "bcast" /\ p = MASTER => x.val = ValueOf(j)
  BY DEF Calls, Barrier, Bcast

\* What a process knows depends on its own memory and calls, and on the first
\* call of the master.
LEMMA KnownSame ==
    ASSUME job' = job, NEW a, BcastKnown(a), phase'[a] = phase[a],
           mem'[a].buf = mem[a].buf, entered'[a] = entered[a],
           entered[MASTER] # <<>> => entered'[MASTER] # <<>>
    PROVE  BcastKnown(a)'
<1>1. HasCopy(a)' <=> HasCopy(a)
  BY DEF HasCopy
<1>2. QED
  BY <1>1 DEF BcastKnown

\* A process enters a collective.
LEMMA BcastEnters ==
    ASSUME BcastJob, BcastTyped, \A a \in Ranks : BcastKnown(a), NEW p \in Ranks, EnterCollective(p)
    PROVE  BcastTyped' /\ \A a \in Ranks : BcastKnown(a)'
<1>0. job' = job /\ mem' = mem /\ chan' = chan /\ Ranks' = Ranks /\ ValueOf(job)' = ValueOf(job)
  BY DEF EnterCollective, Ranks
<1>1. PICK i \in Current(p) : /\ i.op \in Collectives
                              /\ entered' = [entered EXCEPT ![p] = Append(@, i)]
                              /\ phase' = [phase EXCEPT ![p] = "coll"]
  BY DEF EnterCollective
<1>2. i \in Calls(job, p) /\ phase[p] = "run" /\ ~Skips(job, p)
  BY <1>1, BcastInstruction
<1>3. PICK e \in Seq(Calls(job, p)) : e = entered[p]
  BY DEF BcastTyped
<1>4. /\ Append(e, i) \in Seq(Calls(job, p)) /\ Append(e, i) # <<>>
      /\ Len(Append(e, i)) = Len(e) + 1 /\ Len(e) \in Nat
      /\ \A k \in 1 .. Len(e) : Append(e, i)[k] = e[k]
  BY <1>2, <1>3
<1>5. /\ entered' = [a \in Ranks |-> entered'[a]] /\ entered'[p] = Append(e, i)
      /\ \A a \in Ranks \ {p} : entered'[a] = entered[a]
      /\ phase' \in [Ranks -> {"run", "coll"}] /\ phase'[p] = "coll"
      /\ \A a \in Ranks \ {p} : phase'[a] = phase[a]
  BY <1>1, <1>3 DEF BcastTyped
<1>6. entered[MASTER] # <<>> => entered'[MASTER] # <<>>
  <2>1. MASTER \in Ranks
    BY JobsAssumption DEF MASTER, Ranks, BcastJob
  <2>2. QED
    BY <1>4, <1>5, <2>1
<1>7. HasCopy(p)' <=> HasCopy(p)
  <2>1. HasCopy(p)' <=> \E k \in 1 .. Len(e) + 1 : Append(e, i)[k].op = "bcast" /\ k < Len(e) + 1
    BY <1>4, <1>5 DEF HasCopy
  <2>2. HasCopy(p) <=> \E k \in 1 .. Len(e) : e[k].op = "bcast"
    BY <1>2, <1>3 DEF HasCopy
  <2>3. ASSUME NEW k \in 1 .. Len(e) PROVE k \in 1 .. Len(e) + 1 /\ k < Len(e) + 1
    BY <1>4
  <2>4. ASSUME NEW k \in 1 .. Len(e) + 1, k < Len(e) + 1 PROVE k \in 1 .. Len(e)
    BY <1>4, <2>4
  <2>5. QED
    BY <1>4, <2>1, <2>2, <2>3, <2>4
<1>8. BcastKnown(p)'
  BY <1>0, <1>2, <1>4, <1>5, <1>6, <1>7 DEF BcastKnown
<1>9. ASSUME NEW a \in Ranks \ {p} PROVE BcastKnown(a)'
  <2>1. /\ BcastKnown(a) /\ phase'[a] = phase[a] /\ mem'[a].buf = mem[a].buf
        /\ entered'[a] = entered[a]
    BY <1>0, <1>5
  <2>2. QED
    BY <1>0, <1>6, <2>1, KnownSame
<1>10. BcastTyped'
  <2>1. ASSUME NEW a \in Ranks PROVE entered'[a] \in Seq(Calls(job, a))
    <3>1. CASE a = p
      BY <1>4, <1>5, <3>1
    <3>2. CASE a # p
      BY <1>5, <3>2 DEF BcastTyped
    <3>3. QED
      BY <3>1, <3>2
  <2>2. QED
    BY <1>0, <1>5, <2>1 DEF BcastTyped
<1>11. QED
  BY <1>0, <1>8, <1>9, <1>10

\* A process leaves a collective: a broadcast with the value of the master.
LEMMA BcastLeaves ==
    ASSUME BcastJob, BcastTyped, \A a \in Ranks : BcastKnown(a), CollectivesAgree,
           NEW p \in Ranks, LeaveCollective(p)
    PROVE  BcastTyped' /\ \A a \in Ranks : BcastKnown(a)'
<1>0. /\ job' = job /\ entered' = entered /\ chan' = chan /\ Ranks' = Ranks
      /\ ValueOf(job)' = ValueOf(job) /\ phase[p] = "coll"
  BY DEF LeaveCollective, Ranks
<1>1. PICK e \in Seq(Calls(job, p)) : e = entered[p] /\ e # <<>>
  BY <1>0 DEF BcastTyped, BcastKnown
<1>2. PICK k \in 1 .. Len(e) : k = Len(e)
  BY <1>1
<1>3. PICK i \in Calls(job, p) : i = e[k]
  BY <1>1, <1>2
<1>4. /\ i.op \in {"barrier", "bcast"}
      /\ i.op = "bcast" => i.var = "buf"
  BY <1>3, CallsAre
<1>5. PICK awaited : awaited = Awaited(i, p, job.np)
  OBVIOUS
<1>6. /\ \A q \in awaited : Len(entered[q]) >= k
      /\ mem' = [mem EXCEPT ![p] = Received(i, p, job.np, @, [q \in awaited |-> entered[q][k].val])]
      /\ phase' = [phase EXCEPT ![p] = "run"]
  BY <1>1, <1>2, <1>3, <1>5 DEF LeaveCollective
<1>7. MASTER \in Ranks
  BY JobsAssumption DEF MASTER, Ranks, BcastJob
<1>8. /\ phase' \in [Ranks -> {"run", "coll"}] /\ phase'[p] = "run"
      /\ \A a \in Ranks \ {p} : phase'[a] = phase[a]
  BY <1>6 DEF BcastTyped
<1>9. PICK got : got = Received(i, p, job.np, mem[p], [q \in awaited |-> entered[q][k].val])
  OBVIOUS
<1>10. /\ mem' = [a \in Ranks |-> mem'[a]] /\ mem'[p] = got
       /\ \A a \in Ranks \ {p} : mem'[a] = mem[a]
  BY <1>6, <1>9 DEF BcastTyped
<1>11. CASE i.op = "barrier"
  <2>1. got = mem[p]
    BY <1>9, <1>11 DEF Received
  <2>2. HasCopy(p)' <=> HasCopy(p)
    <3>1. HasCopy(p)' <=> \E l \in 1 .. Len(e) : e[l].op = "bcast"
      BY <1>0, <1>1, <1>8 DEF HasCopy
    <3>2. HasCopy(p) <=> \E l \in 1 .. Len(e) : e[l].op = "bcast" /\ l < Len(e)
      BY <1>0, <1>1 DEF HasCopy
    <3>3. ASSUME NEW l \in 1 .. Len(e), e[l].op = "bcast" PROVE l < Len(e)
      <4>1. l # k
        BY <1>3, <1>11, <3>3
      <4>2. QED
        BY <1>1, <1>2, <4>1
    <3>4. QED
      BY <3>1, <3>2, <3>3
  <2>3. BcastKnown(p)'
    BY <1>0, <1>8, <1>10, <2>1, <2>2 DEF BcastKnown
  <2>4. "buf" \in DOMAIN mem'[p]
    BY <1>10, <2>1 DEF BcastTyped
  <2>5. ASSUME NEW a \in Ranks \ {p} PROVE BcastKnown(a)'
    BY <1>0, <1>8, <1>10, KnownSame
  <2>6. BcastTyped'
    BY <1>0, <1>8, <1>10, <2>4 DEF BcastTyped
  <2>7. QED
    BY <1>0, <2>3, <2>5, <2>6
<1>12. CASE i.op = "bcast"
  <2>1. awaited = {MASTER}
    BY <1>5, <1>12 DEF Awaited
  <2>2. PICK f \in Seq(Calls(job, MASTER)) : f = entered[MASTER]
    BY <1>7 DEF BcastTyped
  <2>3. Len(f) >= k /\ Len(f) \in Nat /\ Len(e) \in Nat
    BY <1>6, <2>1, <2>2
  <2>4. k \in DOMAIN e /\ k \in DOMAIN f /\ k \in 1 .. Len(f)
    BY <1>2, <2>2, <2>3
  <2>5. f[k].op = "bcast"
    BY <1>1, <1>3, <1>7, <1>12, <2>2, <2>4 DEF CollectivesAgree
  <2>6. f[k].val = ValueOf(job) /\ f # <<>>
    <3>1. f[k] \in Calls(job, MASTER)
      BY <2>4
    <3>2. QED
      BY <2>4, <2>5, <3>1, CallsAre
  <2>7. got = [mem[p] EXCEPT !.buf = ValueOf(job)]
    <3>1. got = [mem[p] EXCEPT ![i.var] = [q \in awaited |-> entered[q][k].val][MASTER]]
      BY <1>9, <1>12 DEF Received
    <3>2. [q \in awaited |-> entered[q][k].val][MASTER] = ValueOf(job)
      BY <2>1, <2>2, <2>6
    <3>3. QED
      BY <1>4, <1>12, <3>1, <3>2
  <2>8. "buf" \in DOMAIN mem'[p] /\ mem'[p].buf = ValueOf(job)
    BY <1>10, <2>7 DEF BcastTyped
  <2>9. HasCopy(p)'
    BY <1>0, <1>1, <1>2, <1>3, <1>8, <1>12 DEF HasCopy
  <2>10. ~Skips(job, p)
    BY <1>1 DEF BcastKnown
  <2>11. BcastKnown(p)'
    BY <1>0, <1>8, <2>2, <2>6, <2>8, <2>9, <2>10 DEF BcastKnown
  <2>12. ASSUME NEW a \in Ranks \ {p} PROVE BcastKnown(a)'
    BY <1>0, <1>8, <1>10, KnownSame
  <2>13. BcastTyped'
    BY <1>0, <1>8, <1>10, <2>8 DEF BcastTyped
  <2>14. QED
    BY <1>0, <2>11, <2>12, <2>13
<1>13. QED
  BY <1>4, <1>11, <1>12

\* Every step of these jobs.
LEMMA BcastSteps == BcastInv /\ StageInv /\ [Next]_vars => BcastInv'
<1> SUFFICES ASSUME BcastInv, StageInv, [Next]_vars, BcastJob'
             PROVE  BcastTyped' /\ \A a \in Ranks' : BcastKnown(a)'
  BY DEF BcastInv
<1>0. job' = job /\ Ranks' = Ranks
  BY JobFixed DEF Ranks
<1>1. BcastJob /\ BcastTyped /\ (\A a \in Ranks : BcastKnown(a)) /\ CollectivesAgree
  BY <1>0, StagesAgree DEF BcastInv, BcastJob
<1>2. ASSUME mem' = mem, phase' = phase, chan' = chan, entered' = entered
      PROVE  BcastTyped' /\ \A a \in Ranks' : BcastKnown(a)'
  <2>1. BcastTyped'
    BY <1>0, <1>1, <1>2 DEF BcastTyped
  <2>2. ASSUME NEW a \in Ranks PROVE BcastKnown(a)'
    BY <1>0, <1>1, <1>2, KnownSame
  <2>3. QED
    BY <1>0, <2>1, <2>2
<1>3. CASE UNCHANGED vars
  BY <1>2, <1>3 DEF vars
<1>4. ASSUME NEW p \in Ranks,
             \/ Local(p)           \/ AbortJob(p)
             \/ SendMessage(p)     \/ Receive(p)
             \/ EnterCollective(p) \/ LeaveCollective(p)
      PROVE  BcastTyped' /\ \A a \in Ranks' : BcastKnown(a)'
  <2>1. \A i \in Current(p) : i.op \in {"abort", "print", "barrier", "bcast"}
    BY <1>1, BcastInstruction
  <2>2. CASE Local(p)
    <3>1. mem' = mem /\ phase' = phase /\ chan' = chan /\ entered' = entered
      BY <2>1, <2>2 DEF Local
    <3>2. QED
      BY <1>2, <3>1
  <2>3. CASE AbortJob(p)
    BY <1>2, <2>3 DEF AbortJob
  <2>4. ~SendMessage(p) /\ ~Receive(p)
    BY <2>1 DEF SendMessage, Receive
  <2>5. CASE EnterCollective(p)
    BY <1>0, <1>1, <2>5, BcastEnters
  <2>6. CASE LeaveCollective(p)
    BY <1>0, <1>1, <2>6, BcastLeaves
  <2>7. QED
    BY <1>4, <2>2, <2>3, <2>4, <2>5, <2>6
<1>5. QED
  BY <1>3, <1>4 DEF Next

\* At the start nobody has entered anything.
LEMMA BcastStarts == Init => BcastInv
<1> SUFFICES ASSUME Init PROVE BcastTyped /\ \A p \in Ranks : BcastKnown(p)
  BY DEF BcastInv
<1>1. /\ phase = [p \in Ranks |-> "run"] /\ mem = [p \in Ranks |-> Blank]
      /\ chan = [p \in Ranks |-> [q \in Ranks |-> <<>>]]
      /\ entered = [p \in Ranks |-> <<>>]
  BY DEF Init
<1>2. "buf" \in DOMAIN Blank
  BY DEF Blank
<1>3. BcastTyped
  BY <1>1, <1>2 DEF BcastTyped
<1>4. ASSUME NEW p \in Ranks PROVE BcastKnown(p)
  <2>1. phase[p] = "run" /\ mem[p] = Blank /\ entered[p] = <<>>
    BY <1>1
  <2>2. Len(<<>>) = 0 /\ 1 .. 0 = {}
    OBVIOUS
  <2>3. ~HasCopy(p)
    BY <2>1, <2>2 DEF HasCopy
  <2>4. QED
    BY <2>1, <2>3 DEF BcastKnown
<1>5. QED
  BY <1>3, <1>4

\* A process that is done, and does not skip, has left a broadcast: it has
\* entered every collective of its program.
LEMMA BcastLast ==
    ASSUME BcastInv, StageInv, BcastJob, NEW p \in Ranks, Done(p), ~Skips(job, p)
    PROVE  HasCopy(p)
<1>1. CollectiveJob /\ job.prog \in CollectiveProgs
  BY DEF BcastJob, BcastProgs, CollectiveJob, CollectiveProgs
<1>2. PICK S, c : Plan(S, c) /\ Positions(S, c)
  BY <1>1 DEF StageInv
<1>3. PICK x, d, e, f : x = Script(p) /\ d = c[p] /\ e = entered[p] /\ f = pc[p]
  OBVIOUS
<1>4. /\ Charted(S, x, d) /\ Position(S, x, d, f, "run", e) /\ phase[p] = "run"
      /\ Len(Code(p)) = Len(x) /\ f > Len(Code(p)) /\ Len(x) \in Nat
  <2>1. phase[p] = "run" /\ pc[p] > Len(Code(p))
    BY DEF Done
  <2>2. SameShape(x, Code(p))
    BY <1>1, <1>3, CodeShape
  <2>3. Charted(S, x, d) /\ Position(S, x, d, f, phase[p], e)
    BY <1>2, <1>3 DEF Plan, Positions
  <2>4. Len(Code(p)) = Len(x)
    BY <2>2 DEF SameShape
  <2>5. Len(x) \in Nat
    BY <2>3 DEF Charted, Sequence
  <2>6. QED
    BY <1>3, <2>1, <2>3, <2>4, <2>5
<1>5. f = Len(x) + 1 /\ f - 1 = Len(x)
  BY <1>4 DEF Position
<1>6. PICK k \in 1 .. Len(x) : x[k].op = "bcast"
  <2>1. PICK j, m : /\ j = job /\ m = Blank /\ j \in Jobs /\ j.prog \in BcastProgs
                    /\ p \in 0 .. j.np - 1 /\ ~Skips(j, p)
    BY DEF BcastJob, Ranks
  <2>2. Broadcasts(Text(j, p, m))
    BY <2>1, BcastCode
  <2>3. QED
    BY <1>3, <2>1, <2>2 DEF Broadcasts, Script
<1>7. PICK r : /\ r = d[k] /\ r \in 1 .. Len(S) /\ d[k - 1] \in 1 .. Len(S) /\ r = d[k - 1] + 1
               /\ S[r].op = "bcast"
  <2>1. x[k].op \in Collectives
    BY <1>6 DEF Collectives
  <2>2. QED
    BY <1>4, <1>6, <2>1, StageNext, SMTT(30)
<1>8. Len(S) \in Nat
  BY <1>4 DEF Charted
<1>9. PICK t : t = d[Len(x)] /\ r <= t /\ t \in 1 .. Len(S)
  <2>1. k \in 0 .. Len(x) /\ Len(x) \in 0 .. Len(x) /\ k <= Len(x)
    BY <1>4, <1>6
  <2>2. d[k] <= d[Len(x)] /\ d[Len(x)] \in 1 .. Len(S)
    BY <1>4, <2>1 DEF Charted, Course
  <2>3. QED
    BY <1>7, <2>2
<1>10. Len(e) = t - 1
  BY <1>4, <1>5, <1>9 DEF Position
<1>11. r - 1 \in 1 .. Len(e) /\ (r - 1) + 1 = r
  BY <1>7, <1>8, <1>9, <1>10, SMTT(30)
<1>12. e[r - 1].op = "bcast"
  BY <1>4, <1>7, <1>11 DEF Position
<1>13. QED
  BY <1>3, <1>4, <1>11, <1>12 DEF HasCopy

\* When they are done everyone has the value.
LEMMA BcastDone == BcastInv /\ StageInv /\ Is(BcastProgs) => Outcome
<1> SUFFICES ASSUME BcastInv, StageInv, BcastJob, AllDone PROVE Outcome
  BY DEF Outcome, Is, BcastJob, StageInv
<1>1. /\ BcastTyped /\ \A p \in Ranks : BcastKnown(p)
      /\ \A p \in Ranks : Done(p)
  BY DEF BcastInv, AllDone
<1>2. PICK n \in Nat \ {0} : n = job.np /\ Ranks = 0 .. n - 1
  BY JobsAssumption DEF BcastJob, Ranks
<1>3. /\ job.lang \in {"C", "Java", "Array", "Python"} /\ job.given \in BOOLEAN
      /\ job.prog \in {"broadcast", "broadcastInput", "broadcast2"} /\ MASTER \in Ranks
      /\ job.prog = "broadcastInput" => job.lang # "Array"
  BY <1>2, JobsAssumption DEF BcastJob, BcastProgs, MASTER, Programs
<1>4. \A p \in Ranks : HasCopy(p) <=> ~Skips(job, p)
  <2>1. ASSUME NEW p \in Ranks, Skips(job, p) PROVE ~HasCopy(p)
    <3>1. entered[p] = <<>>
      BY <1>1, <2>1 DEF BcastKnown
    <3>2. Len(<<>>) = 0 /\ 1 .. 0 = {}
      OBVIOUS
    <3>3. QED
      BY <3>1, <3>2 DEF HasCopy
  <2>2. QED
    BY <1>1, <2>1, BcastLast
<1>5. \A p \in Ranks : mem[p].buf = IF Skips(job, p) THEN Blank.buf ELSE ValueOf(job)
  BY <1>1, <1>4 DEF BcastKnown
<1>6. (\E p \in Ranks : ~Skips(job, p)) => ~Skips(job, MASTER)
  <2>1. ASSUME NEW p \in Ranks, ~Skips(job, p) PROVE entered[MASTER] # <<>>
    BY <1>1, <1>4, <2>1 DEF BcastKnown
  <2>2. Skips(job, MASTER) => entered[MASTER] = <<>>
    BY <1>1, <1>3 DEF BcastKnown
  <2>3. QED
    BY <2>1, <2>2
<1>7. ASSUME n > 1 PROVE BroadcastGoal
  <2>1. CASE Skips(job, MASTER)
    <3>1. \A p \in Ranks : mem[p].buf = Blank.buf
      BY <1>5, <1>6, <2>1
    <3>2. job.lang = "Python"
      <4>1. 1 \in Ranks /\ 1 # MASTER
        BY <1>2, <1>7 DEF MASTER
      <4>2. Skips(job, 1)
        BY <1>6, <2>1, <4>1
      <4>3. QED
        BY <4>1, <4>2 DEF Skips
    <3>3. QED
      BY <1>3, <3>1, <3>2 DEF BroadcastGoal
  <2>2. CASE ~Skips(job, MASTER)
    <3>1. ASSUME NEW p \in Ranks PROVE ~Skips(job, p)
      BY <1>3, <2>2, <3>1 DEF Skips
    <3>2. \A p \in Ranks : mem[p].buf = ValueOf(job)
      BY <1>5, <3>1
    <3>3. /\ job.given /\ Is({"broadcast", "broadcastInput"}) /\ job.lang # "Python"
               => ValueOf(job) = << ANSWER >>
      BY DEF ValueOf, Is
    <3>4. Is({"broadcastSend", "broadcast2"}) /\ job.lang # "Python"
               => ValueOf(job) = [k \in 1 .. 8 |-> k + 10]
      BY <1>3 DEF ValueOf, Is, Fill, ARRAY_SIZE
    <3>5. QED
      BY <1>3, <3>2, <3>3, <3>4 DEF BroadcastGoal
  <2>3. QED
    BY <2>1, <2>2
<1>8. \A p, q \in Ranks : chan[p][q] = <<>>
  BY <1>1 DEF BcastTyped
<1>9. BroadcastGoal
  <2>1. CASE n > 1
    BY <1>7, <2>1
  <2>2. CASE ~(n > 1)
    BY <1>2, <2>2 DEF BroadcastGoal
  <2>3. QED
    BY <2>1, <2>2
<1>10. QED
  BY <1>3, <1>8, <1>9 DEF Outcome, Is
-----------------------------------------------------------------------------
(* The broadcast by messages: the master sends the value to each worker.   *)

\* The job, the value, where the worker receives (the master sends to worker w
\* w instructions later), and the instructions that are not only lines and
\* barriers.
SendJob == job \in Jobs /\ job.prog = "broadcastSend"
Content(j) == IF j.lang = "Python" THEN << 1, 2, 3 >> ELSE Fill(ARRAY_SIZE)
Lead(j) == IF j.lang = "Java" THEN 2 ELSE 1
SendsTo(j, k) == k - Lead(j) \in 1 .. j.np - 1
Busy(j, p, k) == IF p = MASTER THEN k = 1 \/ SendsTo(j, k) ELSE k = Lead(j)
Plain == {Barrier, Line(0), Line(1), SeparatorLine(1)}

\* What an instruction does.
Order(j, p, k, i) ==
  IF ~Busy(j, p, k) THEN i \in Plain
  ELSE IF p # MASTER THEN i.op = "recv" /\ i.var = "buf" /\ i.from = MASTER
  ELSE IF k = 1 THEN i.op = "compute" /\ i.var = "buf" /\ i.val = Content(j)
  ELSE i.op = "send" /\ i.to = k - Lead(j) /\ i.val = Content(j)
Orders(j, p, x) ==
  /\ DOMAIN x = 1 .. Len(x) /\ Len(x) \in Nat
  /\ \A k \in 1 .. Len(x) : Order(j, p, k, x[k])
  /\ j.np > 1 => Len(x) >= IF p = MASTER THEN 1 ELSE Lead(j)

\* Lines and barriers at the end of a program.
LEMMA PlainTail ==
    ASSUME NEW U, Plain \subseteq U, NEW x \in Seq(U), NEW y \in Seq(Plain),
           NEW j, NEW p, Orders(j, p, x), \A k \in Nat : Busy(j, p, k) => k <= Len(x)
    PROVE  /\ x \o y \in Seq(U) /\ Orders(j, p, x \o y)
           /\ \A k \in Nat : Busy(j, p, k) => k <= Len(x \o y)
<1>1. y \in Seq(U)
  OBVIOUS
<1>2. /\ x \o y \in Seq(U) /\ Len(x \o y) = Len(x) + Len(y) /\ Len(x) \in Nat /\ Len(y) \in Nat
      /\ DOMAIN (x \o y) = 1 .. Len(x) + Len(y)
      /\ \A k \in 1 .. Len(x) : (x \o y)[k] = x[k]
      /\ \A k \in 1 .. Len(y) : (x \o y)[Len(x) + k] = y[k]
  BY <1>1
<1>3. PICK z, a, b : z = x \o y /\ a = Len(x) /\ b = Len(y)
  OBVIOUS
<1>4. /\ Len(z) = a + b /\ a \in Nat /\ b \in Nat /\ DOMAIN z = 1 .. a + b
      /\ \A k \in 1 .. a : z[k] = x[k]
      /\ \A k \in 1 .. b : z[a + k] \in Plain
  BY <1>2, <1>3
<1>5. \A k \in Nat : Busy(j, p, k) => k <= a
  BY <1>3
<1>6. ASSUME NEW k \in 1 .. a + b PROVE Order(j, p, k, z[k])
  <2>1. CASE k <= a
    <3>1. k \in 1 .. a
      BY <1>4, <1>6, <2>1
    <3>2. Order(j, p, k, x[k])
      BY <1>3, <3>1 DEF Orders
    <3>3. QED
      BY <1>4, <3>1, <3>2
  <2>2. CASE ~(k <= a)
    <3>1. k - a \in 1 .. b /\ a + (k - a) = k /\ k \in Nat
      BY <1>4, <1>6, <2>2
    <3>2. z[k] \in Plain
      BY <1>4, <3>1
    <3>3. ~Busy(j, p, k)
      BY <1>5, <2>2, <3>1
    <3>4. QED
      BY <3>2, <3>3 DEF Order
  <2>3. QED
    BY <2>1, <2>2
<1>7. j.np > 1 => a + b >= IF p = MASTER THEN 1 ELSE Lead(j)
  <2>1. j.np > 1 => a >= IF p = MASTER THEN 1 ELSE Lead(j)
    BY <1>3 DEF Orders
  <2>2. PICK f \in {1, 2} : f = Lead(j)
    BY DEF Lead
  <2>3. QED
    BY <1>4, <2>1, <2>2
<1>8. Orders(j, p, z)
  BY <1>4, <1>6, <1>7 DEF Orders
<1>9. \A k \in Nat : Busy(j, p, k) => k <= Len(z)
  BY <1>4, <1>5
<1>10. QED
  BY <1>2, <1>3, <1>8, <1>9

\* The master's messages, after the lines it prints and the value it computes.
LEMMA PostsAll ==
    ASSUME NEW j, NEW n \in Nat \ {0}, n = j.np, NEW t, NEW U,
           \A r \in 1 .. n - 1 : Send(Content(j), r, t) \in U,
           NEW h \in Seq(U), Len(h) = Lead(j), h[1] = Compute("buf", Content(j)),
           j.lang = "Java" => h[2] = Line(0),
           NEW x, x = h \o [r \in 1 .. n - 1 |-> Send(Content(j), r, t)]
    PROVE  /\ x \in Seq(U) /\ Orders(j, MASTER, x)
           /\ \A k \in Nat : Busy(j, MASTER, k) => k <= Len(x)
<1>1. PICK s : s = [r \in 1 .. n - 1 |-> Send(Content(j), r, t)]
  OBVIOUS
<1>2. s \in Seq(U) /\ Len(s) = n - 1 /\ \A r \in 1 .. n - 1 : s[r] = Send(Content(j), r, t)
  <2>1. \A r \in 1 .. n - 1 : s[r] = Send(Content(j), r, t)
    BY <1>1, Zenon
  <2>2. s = [r \in 1 .. n - 1 |-> s[r]]
    BY <1>1, Zenon
  <2>3. \A r \in 1 .. n - 1 : s[r] \in U
    BY <2>1
  <2>4. PICK l \in Nat : l = n - 1
    OBVIOUS
  <2>5. s \in [1 .. l -> U]
    BY <2>2, <2>3, <2>4, Zenon
  <2>6. s \in Seq(U) /\ Len(s) = n - 1
    <3>1. s \in Seq(U)
      BY <2>5
    <3>2. Len(s) = l
      BY <2>5
    <3>3. QED
      BY <2>4, <3>1, <3>2
  <2>7. QED
    BY <2>1, <2>6
<1>3. PICK f \in {1, 2} : f = Lead(j) /\ (j.lang = "Java" <=> f = 2)
  BY DEF Lead
<1>4. /\ x = h \o s /\ x \in Seq(U) /\ Len(x) = f + n - 1 /\ DOMAIN x = 1 .. f + n - 1
      /\ \A k \in 1 .. f : x[k] = h[k]
      /\ \A r \in 1 .. n - 1 : x[f + r] = s[r]
  <2>1. x = h \o s
    BY <1>1
  <2>2. PICK l \in Nat : l = n - 1
    OBVIOUS
  <2>3. Len(s) = l /\ s \in Seq(U) /\ h \in Seq(U) /\ Len(h) = f /\ f \in Nat
    BY <1>2, <1>3, <2>2
  <2>4. /\ h \o s \in Seq(U) /\ Len(h \o s) = f + l
        /\ \A i \in 1 .. f + l : (h \o s)[i] = IF i <= f THEN h[i] ELSE s[i - f]
    BY <2>3, ConcatProperties
  <2>5. /\ x \in Seq(U) /\ Len(x) = f + l
        /\ \A i \in 1 .. f + l : x[i] = IF i <= f THEN h[i] ELSE s[i - f]
    BY <2>1, <2>4
  <2>6. DOMAIN x = 1 .. f + l
    BY <2>5
  <2>7. \A k \in 1 .. f : x[k] = h[k]
    BY <2>3, <2>5
  <2>8. ASSUME NEW r \in 1 .. l PROVE x[f + r] = s[r]
    <3>1. f + r \in 1 .. f + l /\ ~(f + r <= f) /\ (f + r) - f = r
      BY <2>3
    <3>2. QED
      BY <2>5, <3>1
  <2>9. f + n - 1 = f + l
    BY <2>2, <2>3
  <2>10. QED
    BY <2>1, <2>2, <2>5, <2>6, <2>7, <2>8, <2>9
<1>5. ASSUME NEW k \in 1 .. f + n - 1 PROVE Order(j, MASTER, k, x[k])
  <2>1. CASE k = 1
    <3>1. x[1] = Compute("buf", Content(j))
      BY <1>3, <1>4
    <3>2. x[k].op = "compute" /\ x[k].var = "buf" /\ x[k].val = Content(j)
      <4>1. \A v : /\ Compute("buf", v).op = "compute" /\ Compute("buf", v).var = "buf"
                  /\ Compute("buf", v).val = v
        BY DEF Compute
      <4>2. QED
        BY <2>1, <3>1, <4>1
    <3>3. Busy(j, MASTER, k)
      BY <2>1 DEF Busy
    <3>4. QED
      BY <2>1, <3>2, <3>3 DEF Order
  <2>2. CASE k # 1 /\ k <= f
    <3>1. f = 2 /\ k = 2 /\ ~(k - f \in 1 .. n - 1)
      BY <1>3, <1>5, <2>2
    <3>2. x[k] = Line(0)
      BY <1>3, <1>4, <3>1
    <3>3. ~Busy(j, MASTER, k)
      BY <1>3, <2>2, <3>1 DEF Busy, SendsTo
    <3>4. QED
      BY <3>2, <3>3 DEF Order, Plain
  <2>3. CASE k > f
    <3>1. k - f \in 1 .. n - 1 /\ f + (k - f) = k /\ k # 1
      BY <1>3, <1>5, <2>3
    <3>2. x[k] = Send(Content(j), k - f, t)
      BY <1>2, <1>4, <3>1
    <3>3. Busy(j, MASTER, k)
      BY <1>3, <3>1 DEF Busy, SendsTo
    <3>4. x[k].op = "send" /\ x[k].to = k - f /\ x[k].val = Content(j)
      <4>1. PICK i, v, l : i = x[k] /\ v = Content(j) /\ l = k - f
        OBVIOUS
      <4>2. i = [op |-> "send", val |-> v, to |-> l, tag |-> t]
        BY <3>2, <4>1, Zenon DEF Send
      <4>3. i.op = "send" /\ i.to = l /\ i.val = v
        BY <4>2
      <4>4. QED
        BY <4>1, <4>3
    <3>5. QED
      BY <1>3, <3>1, <3>3, <3>4 DEF Order
  <2>4. QED
    BY <1>3, <1>5, <2>1, <2>2, <2>3
<1>6. ASSUME NEW k \in Nat, Busy(j, MASTER, k) PROVE k <= Len(x)
  <2>1. k = 1 \/ k - f \in 1 .. n - 1
    BY <1>3, <1>6 DEF Busy, SendsTo
  <2>2. QED
    BY <1>3, <1>4, <2>1, SMTT(30)
<1>7. Len(x) \in Nat /\ Len(x) >= 1
  BY <1>3, <1>4, SMTT(30)
<1>8. QED
  BY <1>4, <1>5, <1>6, <1>7 DEF Orders

\* A worker receives the value.
LEMMA GetsOne ==
    ASSUME NEW j, NEW p, p # MASTER, NEW t, NEW U, Recv("buf", MASTER, t) \in U, Line(0) \in U,
           NEW x, x = IF j.lang = "Java" THEN << Line(0), Recv("buf", MASTER, t) >>
                                         ELSE << Recv("buf", MASTER, t) >>
    PROVE  /\ x \in Seq(U) /\ Orders(j, p, x)
           /\ \A k \in Nat : Busy(j, p, k) => k <= Len(x)
<1>1. PICK f \in {1, 2} : f = Lead(j) /\ (j.lang = "Java" <=> f = 2)
  BY DEF Lead
<1>2. /\ x \in Seq(U) /\ Len(x) = f /\ DOMAIN x = 1 .. f /\ x[f] = Recv("buf", MASTER, t)
      /\ f = 2 => x[1] = Line(0)
  <2>1. PICK i \in U, l \in U : i = Recv("buf", MASTER, t) /\ l = Line(0)
    OBVIOUS
  <2>2. CASE f = 1
    <3>1. x = << i >>
      BY <1>1, <2>1, <2>2
    <3>2. x \in Seq(U) /\ Len(x) = 1 /\ DOMAIN x = 1 .. 1 /\ x[1] = i
      BY <3>1
    <3>3. QED
      BY <2>1, <2>2, <3>2
  <2>3. CASE f = 2
    <3>1. x = << l, i >>
      BY <1>1, <2>1, <2>3
    <3>2. x \in Seq(U) /\ Len(x) = 2 /\ DOMAIN x = 1 .. 2 /\ x[1] = l /\ x[2] = i
      BY <3>1
    <3>3. QED
      BY <2>1, <2>3, <3>2
  <2>4. QED
    BY <2>2, <2>3
<1>3. ASSUME NEW k \in 1 .. f PROVE Order(j, p, k, x[k])
  <2>1. CASE k = f
    <3>1. Busy(j, p, k)
      BY <1>1, <2>1 DEF Busy
    <3>2. QED
      BY <1>2, <2>1, <3>1 DEF Order, Recv
  <2>2. CASE k # f
    <3>1. k = 1 /\ f = 2
      BY <1>1, <1>3, <2>2
    <3>2. ~Busy(j, p, k) /\ x[k] = Line(0)
      BY <1>1, <1>2, <2>2, <3>1 DEF Busy
    <3>3. QED
      BY <3>2 DEF Order, Plain
  <2>3. QED
    BY <2>1, <2>2
<1>4. \A k \in Nat : Busy(j, p, k) => k <= Len(x)
  BY <1>1, <1>2 DEF Busy
<1>5. Len(x) \in Nat /\ Len(x) >= f
  BY <1>1, <1>2
<1>6. QED
  BY <1>1, <1>2, <1>3, <1>4, <1>5 DEF Orders

\* The instructions of the broadcast by messages, whatever the memory.
LEMMA SendCode ==
    ASSUME NEW j \in Jobs, j.prog = "broadcastSend", NEW p \in 0 .. j.np - 1, NEW m
    PROVE  Orders(j, p, Text(j, p, m))
<1>1. PICK n \in Nat \ {0} : n = j.np /\ (n <= 1 <=> ~(n > 1))
  BY JobsAssumption
<1>2. j.lang \in {"C", "Java", "Python"}
  BY JobsAssumption DEF Programs
<1> DEFINE U(t) == Plain \cup {Compute("buf", Content(j)), Recv("buf", MASTER, t)}
                         \cup { Send(Content(j), r, t) : r \in 1 .. n - 1 }
<1>3. /\ \A t : /\ Compute("buf", Content(j)) \in U(t) /\ Recv("buf", MASTER, t) \in U(t)
                /\ Line(0) \in U(t) /\ Plain \subseteq U(t)
                /\ \A r \in 1 .. n - 1 : Send(Content(j), r, t) \in U(t)
  BY DEF Plain
<1> HIDE DEF U
<1>4. /\ Lead(j) = IF j.lang = "Java" THEN 2 ELSE 1
      /\ Content(j) = IF j.lang = "Python" THEN << 1, 2, 3 >> ELSE Fill(ARRAY_SIZE)
  BY DEF Lead, Content
<1>5. ASSUME NEW t, j.lang # "Java"
      PROVE  /\ Orders(j, MASTER, << Compute("buf", Content(j)) >>
                                  \o [r \in 1 .. n - 1 |-> Send(Content(j), r, t)])
             /\ p # MASTER => Orders(j, p, << Recv("buf", MASTER, t) >>)
  <2>1. PICK h : h = << Compute("buf", Content(j)) >>
    OBVIOUS
  <2>2. h \in Seq(U(t)) /\ Len(h) = Lead(j) /\ h[1] = Compute("buf", Content(j))
    BY <1>3, <1>4, <1>5, <2>1
  <2>3. Orders(j, MASTER, h \o [r \in 1 .. n - 1 |-> Send(Content(j), r, t)])
    BY <1>1, <1>3, <1>5, <2>2, PostsAll
  <2>4. p # MASTER => Orders(j, p, << Recv("buf", MASTER, t) >>)
    BY <1>3, <1>5, GetsOne
  <2>5. QED
    BY <2>1, <2>3, <2>4
<1>6. CASE j.lang = "C"
  <2>1. Text(j, p, m) = broadcastSendReceive(p, n)
    BY <1>1, <1>6 DEF Text, CCode
  <2>2. QED
    BY <1>4, <1>5, <1>6, <2>1 DEF broadcastSendReceive
<1>7. CASE j.lang = "Python"
  <2>1. Text(j, p, m) = PyBroadcastSendReceive(p, n)
    BY <1>1, <1>7 DEF Text, PyCode
  <2>2. CASE n > 1
    BY <1>1, <1>4, <1>5, <1>7, <2>1, <2>2 DEF PyBroadcastSendReceive
  <2>3. CASE n <= 1
    <3>1. Text(j, p, m) = <<>>
      BY <2>1, <2>3 DEF PyBroadcastSendReceive
    <3>2. Len(<<>>) = 0 /\ DOMAIN <<>> = 1 .. 0 /\ 1 .. 0 = {}
      OBVIOUS
    <3>3. QED
      BY <1>1, <2>3, <3>1, <3>2 DEF Orders
  <2>4. QED
    BY <1>1, <2>2, <2>3
<1>8. CASE j.lang = "Java"
  <2>1. Text(j, p, m) = JavaSendReceivePseudoBroadcast(p, n)
    BY <1>1, <1>8 DEF Text, JavaCode
  <2>2. PICK x : /\ Text(j, p, m) = x \o PrintSeparator(p, 1) \o << Line(1) >>
                 /\ x \in Seq(U(0)) /\ Orders(j, p, x)
                 /\ \A k \in Nat : Busy(j, p, k) => k <= Len(x)
    <3>1. CASE p = MASTER
      <4>1. PICK h : h = << Compute("buf", Content(j)), Line(0) >>
        OBVIOUS
      <4>2. /\ h \in Seq(U(0)) /\ Len(h) = Lead(j) /\ h[1] = Compute("buf", Content(j))
            /\ h[2] = Line(0)
        BY <1>3, <1>4, <1>8, <4>1
      <4>3. PICK x : x = h \o [r \in 1 .. n - 1 |-> Send(Content(j), r, 0)]
        OBVIOUS
      <4>4. x \in Seq(U(0)) /\ Orders(j, p, x) /\ \A k \in Nat : Busy(j, p, k) => k <= Len(x)
        BY <1>1, <1>3, <3>1, <4>2, <4>3, PostsAll, ZenonT(40)
      <4>5. Text(j, p, m) = x \o PrintSeparator(p, 1) \o << Line(1) >>
        BY <1>4, <1>8, <2>1, <3>1, <4>1, <4>3 DEF JavaSendReceivePseudoBroadcast
      <4>6. QED
        BY <4>4, <4>5
    <3>2. CASE p # MASTER
      <4>1. PICK x : x = << Line(0), Recv("buf", MASTER, 0) >>
        OBVIOUS
      <4>2. x \in Seq(U(0)) /\ Orders(j, p, x) /\ \A k \in Nat : Busy(j, p, k) => k <= Len(x)
        BY <1>3, <1>8, <3>2, <4>1, GetsOne
      <4>3. Text(j, p, m) = x \o PrintSeparator(p, 1) \o << Line(1) >>
        BY <2>1, <3>2, <4>1 DEF JavaSendReceivePseudoBroadcast
      <4>4. QED
        BY <4>2, <4>3
    <3>3. QED
      BY <3>1, <3>2
  <2>3. PrintSeparator(p, 1) \in Seq(Plain) /\ << Line(1) >> \in Seq(Plain)
    <3>1. Barrier \in Plain /\ Line(1) \in Plain /\ SeparatorLine(1) \in Plain
      BY DEF Plain
    <3>2. QED
      BY <3>1 DEF PrintSeparator
  <2>4. PICK y : y = x \o PrintSeparator(p, 1)
    OBVIOUS
  <2>5. y \in Seq(U(0)) /\ Orders(j, p, y) /\ \A k \in Nat : Busy(j, p, k) => k <= Len(y)
    BY <1>3, <2>2, <2>3, <2>4, PlainTail
  <2>6. Orders(j, p, y \o << Line(1) >>)
    BY <1>3, <2>3, <2>5, PlainTail
  <2>7. QED
    BY <2>2, <2>4, <2>6
<1>9. QED
  BY <1>2, <1>6, <1>7, <1>8

\* The master waits in its send to worker w, has sent to w, and w has received.
Waiting(w) == phase[MASTER] = "send" /\ pc[MASTER] = Lead(job) + w
Gone(w) == pc[MASTER] > Lead(job) + w \/ Waiting(w)
Has(w) == pc[w] > Lead(job)

\* The message to worker w is under way from when it was sent until w has it.
InTransit(w) ==
  \E m : chan[MASTER][w] = << m >> /\ m.val = Content(job) /\ (m.sync <=> Waiting(w))
Delivered(w) ==
  /\ IF Gone(w) /\ ~Has(w) THEN InTransit(w) ELSE chan[MASTER][w] = <<>> /\ ~Waiting(w)
  /\ Has(w) => Gone(w) /\ mem[w].buf = Content(job)

\* Where a process waits, and that the master has computed the value.
Rests(p) ==
  /\ phase[p] = "coll" => entered[p] # <<>> /\ ~Busy(job, p, pc[p])
  /\ phase[p] = "send" => p = MASTER /\ SendsTo(job, pc[p])
  /\ p = MASTER /\ pc[p] > 1 => mem[p].buf = Content(job)

\* The variables have a value for each process; only the master sends, and only
\* barriers are entered.
SendTyped ==
  /\ pc \in [Ranks -> Nat \ {0}] /\ phase \in [Ranks -> {"run", "send", "coll"}]
  /\ chan = [p \in Ranks |-> [q \in Ranks |-> chan[p][q]]]
  /\ mem = [p \in Ranks |-> mem[p]] /\ \A p \in Ranks : "buf" \in DOMAIN mem[p]
  /\ entered = [p \in Ranks |-> entered[p]] /\ \A p \in Ranks : entered[p] \in Seq({Barrier})
  /\ \A p, q \in Ranks : p # MASTER \/ q = MASTER => chan[p][q] = <<>>

SendInv ==
  SendJob => /\ SendTyped
             /\ \A p \in Ranks : Rests(p)
             /\ \A w \in Ranks \ {MASTER} : Delivered(w)

\* The instruction a process is about to execute.
LEMMA SendInstruction ==
    ASSUME SendJob, SendTyped, NEW p \in Ranks, NEW i \in Current(p)
    PROVE  Order(job, p, pc[p], i) /\ phase[p] = "run"
<1>1. PICK j, m : /\ j = job /\ m = mem[p] /\ j \in Jobs /\ j.prog = "broadcastSend"
                  /\ p \in 0 .. j.np - 1
  BY DEF SendJob, Ranks
<1>2. Code(p) = Text(j, p, m)
  BY <1>1 DEF Code, Text
<1>3. phase[p] = "run" /\ pc[p] \in DOMAIN Code(p) /\ i = Code(p)[pc[p]]
  BY DEF Current
<1>4. Orders(j, p, Code(p))
  BY <1>1, <1>2, SendCode
<1>5. QED
  BY <1>1, <1>3, <1>4 DEF Orders

\* What the instructions are by what they do.
LEMMA SendKinds ==
    ASSUME NEW j, NEW p, NEW k, NEW i, Order(j, p, k, i)
    PROVE  /\ i.op \in {"print", "barrier", "compute", "send", "recv"}
           /\ i.op \in {"print", "barrier"} => ~Busy(j, p, k)
           /\ i.op = "barrier" => i = Barrier
           /\ i.op = "compute" => p = MASTER /\ k = 1 /\ i.var = "buf" /\ i.val = Content(j)
           /\ i.op = "send" => /\ p = MASTER /\ SendsTo(j, k)
                               /\ i.to = k - Lead(j) /\ i.val = Content(j)
           /\ i.op = "recv" => p # MASTER /\ k = Lead(j) /\ i.var = "buf" /\ i.from = MASTER
<1>1. \A x \in Plain : x.op \in {"print", "barrier"} /\ (x.op = "barrier" => x = Barrier)
  BY DEF Plain, Barrier, Line, SeparatorLine
<1>2. CASE ~Busy(j, p, k)
  BY <1>1, <1>2 DEF Order
<1>3. CASE Busy(j, p, k) /\ p # MASTER
  BY <1>3 DEF Order, Busy
<1>4. CASE Busy(j, p, k) /\ p = MASTER /\ k = 1
  BY <1>4 DEF Order
<1>5. CASE Busy(j, p, k) /\ p = MASTER /\ k # 1
  BY <1>5 DEF Order, Busy
<1>6. QED
  BY <1>2, <1>3, <1>4, <1>5

\* The ranks, and where the instructions start.
LEMMA SendRanks ==
    ASSUME SendJob
    PROVE  /\ MASTER \in Ranks /\ job.np \in Nat \ {0} /\ Lead(job) \in {1, 2}
           /\ \A w \in Ranks \ {MASTER} : w \in 1 .. job.np - 1
           /\ \A w \in 1 .. job.np - 1 : w \in Ranks \ {MASTER}
<1>1. PICK n \in Nat \ {0} : n = job.np /\ Ranks = 0 .. n - 1
  BY JobsAssumption DEF SendJob, Ranks
<1>2. QED
  BY <1>1 DEF MASTER, Lead

\* A message stays where it is when nothing about it changes.
LEMMA DeliveredSame ==
    ASSUME job' = job, NEW w, Delivered(w), Gone(w)' <=> Gone(w), Waiting(w)' <=> Waiting(w),
           Has(w)' <=> Has(w), chan'[MASTER][w] = chan[MASTER][w], mem'[w].buf = mem[w].buf
    PROVE  Delivered(w)'
<1>1. InTransit(w)' <=> InTransit(w)
  BY DEF InTransit
<1>2. QED
  BY <1>1 DEF Delivered

\* A process that does not move rests where it did.
LEMMA RestsSame ==
    ASSUME job' = job, NEW p, Rests(p), pc'[p] = pc[p], phase'[p] = phase[p] \/ phase'[p] = "run",
           entered'[p] = entered[p], mem'[p].buf = mem[p].buf
    PROVE  Rests(p)'
  BY DEF Rests

\* A process goes on from an instruction that neither sends nor receives.
LEMMA PlainMoves ==
    ASSUME SendJob, SendTyped, \A w \in Ranks \ {MASTER} : Delivered(w), job' = job,
           NEW p \in Ranks, phase[p] # "send",
           ~Busy(job, p, pc[p]) \/ (p = MASTER /\ pc[p] = 1),
           pc' = [pc EXCEPT ![p] = @ + 1],
           phase' = [phase EXCEPT ![p] = "run"], chan' = chan,
           \A w \in Ranks \ {MASTER} : mem'[w].buf = mem[w].buf
    PROVE  \A w \in Ranks \ {MASTER} : Delivered(w)'
<1>1. PICK R : R = Lead(job) /\ R \in {1, 2}
  BY SendRanks
<1>2. /\ pc'[p] = pc[p] + 1 /\ phase'[p] = "run"
      /\ \A a \in Ranks \ {p} : pc'[a] = pc[a] /\ phase'[a] = phase[a]
      /\ \A a \in Ranks : pc[a] \in Nat /\ pc'[a] \in Nat
  BY DEF SendTyped
<1>3. MASTER \in Ranks /\ \A w \in Ranks \ {MASTER} : w \in Nat \ {0}
  <2>1. \A w \in 1 .. job.np - 1 : w \in Nat \ {0}
    BY SendRanks
  <2>2. QED
    BY <2>1, SendRanks
<1>4. ASSUME NEW w \in Ranks \ {MASTER}
      PROVE  /\ Gone(w)' <=> Gone(w)
             /\ Waiting(w)' <=> Waiting(w)
  <2>1. CASE p = MASTER
    <3>1. pc[p] # R + w
      <4>1. CASE pc[p] = 1
        BY <1>1, <1>3, <4>1
      <4>2. CASE ~Busy(job, p, pc[p])
        <5>1. ~(pc[p] - R \in 1 .. job.np - 1)
          BY <1>1, <2>1, <4>2 DEF Busy, SendsTo
        <5>2. w \in 1 .. job.np - 1
          BY SendRanks
        <5>3. pc[p] = R + w => pc[p] - R = w
          BY <1>1, <1>3
        <5>4. QED
          BY <5>1, <5>2, <5>3
      <4>3. QED
        BY <4>1, <4>2
    <3>2. pc[p] > R + w <=> pc[p] + 1 > R + w
      BY <1>1, <1>2, <1>3, <3>1
    <3>3. ~Waiting(w) /\ ~Waiting(w)'
      BY <1>2, <2>1 DEF Waiting
    <3>4. QED
      BY <1>1, <1>2, <2>1, <3>2, <3>3 DEF Gone
  <2>2. CASE p # MASTER
    <3>1. pc'[MASTER] = pc[MASTER] /\ phase'[MASTER] = phase[MASTER]
      BY <1>2, <1>3, <2>2
    <3>2. Waiting(w)' <=> Waiting(w)
      BY <3>1 DEF Waiting
    <3>3. QED
      BY <3>1, <3>2 DEF Gone
  <2>3. QED
    BY <2>1, <2>2
<1>5. ASSUME NEW w \in Ranks \ {MASTER} PROVE Has(w)' <=> Has(w)
  <2>1. CASE p = w
    <3>1. pc[p] # R
      BY <1>1, <2>1 DEF Busy
    <3>2. pc[p] > R <=> pc[p] + 1 > R
      BY <1>1, <1>2, <3>1
    <3>3. QED
      BY <1>1, <1>2, <2>1, <3>2 DEF Has
  <2>2. CASE p # w
    BY <1>2, <2>2 DEF Has
  <2>3. QED
    BY <2>1, <2>2
<1>6. QED
  BY <1>4, <1>5, DeliveredSame

\* Lines and the computation of the value.
LEMMA SendLocal ==
    ASSUME SendJob, SendTyped, \A a \in Ranks : Rests(a),
           \A w \in Ranks \ {MASTER} : Delivered(w), NEW p \in Ranks, Local(p)
    PROVE  SendTyped' /\ (\A a \in Ranks : Rests(a)') /\ \A w \in Ranks \ {MASTER} : Delivered(w)'
<1>0. /\ job' = job /\ Ranks' = Ranks
      /\ phase' = phase /\ chan' = chan /\ entered' = entered
  BY DEF Local, Ranks
<1>1. PICK i \in Current(p) :
        \/ i.op = "compute" /\ mem' = [mem EXCEPT ![p][i.var] = i.val] /\ Step(p)
        \/ i.op = "print" /\ Step(p) /\ mem' = mem
        \/ i.op = "goto"
  BY DEF Local
<1>2. Order(job, p, pc[p], i) /\ phase[p] = "run"
  BY SendInstruction
<1>3. pc' = [pc EXCEPT ![p] = @ + 1]
  BY <1>1, <1>2, SendKinds DEF Step
<1>4. ~Busy(job, p, pc[p]) \/ (p = MASTER /\ pc[p] = 1)
  BY <1>1, <1>2, SendKinds
<1>5. /\ mem' = [a \in Ranks |-> mem'[a]]
      /\ \A a \in Ranks : "buf" \in DOMAIN mem'[a]
      /\ \A a \in Ranks \ {p} : mem'[a] = mem[a]
      /\ IF p = MASTER /\ pc[p] = 1 THEN mem'[p].buf = Content(job) ELSE mem'[p] = mem[p]
  <2>1. CASE i.op = "compute"
    <3>1. /\ p = MASTER /\ pc[p] = 1 /\ mem' = [mem EXCEPT ![p].buf = Content(job)]
      BY <1>1, <1>2, <2>1, SendKinds
    <3>2. mem' = [mem EXCEPT ![p] = [mem[p] EXCEPT !.buf = Content(job)]]
      BY <3>1
    <3>3. QED
      BY <3>1, <3>2 DEF SendTyped
  <2>2. CASE i.op = "print"
    <3>1. ~Busy(job, p, pc[p]) /\ mem' = mem
      BY <1>1, <1>2, <2>2, SendKinds
    <3>2. ~(p = MASTER /\ pc[p] = 1)
      BY <3>1 DEF Busy
    <3>3. QED
      BY <3>1, <3>2 DEF SendTyped
  <2>3. QED
    BY <1>1, <1>2, <2>1, <2>2, SendKinds
<1>6. \A w \in Ranks \ {MASTER} : mem'[w].buf = mem[w].buf
  BY <1>5
<1>7. phase' = [phase EXCEPT ![p] = "run"]
  BY <1>0, <1>2 DEF SendTyped
<1>8. \A w \in Ranks \ {MASTER} : Delivered(w)'
  BY <1>0, <1>2, <1>3, <1>4, <1>6, <1>7, PlainMoves
<1>9. ASSUME NEW a \in Ranks PROVE Rests(a)'
  <2>1. CASE a = p
    <3>1. phase'[a] = "run"
      BY <1>0, <1>2, <2>1
    <3>2. ASSUME a = MASTER PROVE mem'[a].buf = Content(job)
      <4>1. pc[a] \in Nat \ {0}
        BY DEF SendTyped
      <4>2. pc[a] = 1 \/ pc[a] > 1
        BY <4>1
      <4>3. QED
        BY <1>5, <2>1, <3>2, <4>2 DEF Rests
    <3>3. QED
      BY <1>0, <3>1, <3>2 DEF Rests
  <2>2. CASE a # p
    <3>1. pc'[a] = pc[a] /\ phase'[a] = phase[a] /\ mem'[a] = mem[a]
      BY <1>0, <1>3, <1>5, <2>2 DEF SendTyped
    <3>2. QED
      BY <1>0, <3>1, RestsSame
  <2>3. QED
    BY <2>1, <2>2
<1>10. pc' \in [Ranks -> Nat \ {0}]
  BY <1>3 DEF SendTyped
<1>11. SendTyped'
  BY <1>0, <1>5, <1>10 DEF SendTyped
<1>12. QED
  BY <1>8, <1>9, <1>11

\* The master sends to the next worker.
LEMMA SendPosts ==
    ASSUME SendJob, SendTyped, \A a \in Ranks : Rests(a),
           \A w \in Ranks \ {MASTER} : Delivered(w), NEW p \in Ranks, SendMessage(p)
    PROVE  SendTyped' /\ (\A a \in Ranks : Rests(a)') /\ \A w \in Ranks \ {MASTER} : Delivered(w)'
<1>0. /\ job' = job /\ Ranks' = Ranks /\ mem' = mem /\ entered' = entered
  BY DEF SendMessage, Ranks
<1>1. PICK i \in Current(p), sync \in BOOLEAN :
        /\ i.op = "send"
        /\ chan' = [chan EXCEPT ![p][i.to] =
                      Append(@, [tag |-> i.tag, val |-> i.val, sync |-> sync])]
        /\ IF sync THEN phase' = [phase EXCEPT ![p] = "send"] /\ UNCHANGED pc
                   ELSE Step(p) /\ UNCHANGED phase
  BY DEF SendMessage
<1>2. Order(job, p, pc[p], i) /\ phase[p] = "run"
  BY SendInstruction
<1>3. /\ p = MASTER /\ SendsTo(job, pc[p]) /\ i.to = pc[p] - Lead(job) /\ i.val = Content(job)
  BY <1>1, <1>2, SendKinds
<1>4. PICK R, n, v : R = Lead(job) /\ R \in {1, 2} /\ n = job.np /\ n \in Nat \ {0} /\ v = i.to
  BY SendRanks
<1>5. /\ v \in 1 .. n - 1 /\ v \in Ranks \ {MASTER} /\ MASTER \in Ranks
      /\ \A w \in Ranks \ {MASTER} : w \in 1 .. n - 1
  BY <1>3, <1>4, SendRanks DEF SendsTo
<1>6. PICK k \in Nat \ {0} : k = pc[p] /\ k = R + v
  BY <1>3, <1>4, <1>5 DEF SendTyped
<1>7. ~Gone(v) /\ ~Has(v) /\ chan[MASTER][v] = <<>>
  <2>1. ~Waiting(v)
    BY <1>2, <1>3 DEF Waiting
  <2>2. ~(k > R + v)
    BY <1>4, <1>5, <1>6
  <2>3. ~Gone(v)
    BY <1>3, <1>4, <1>6, <2>1, <2>2 DEF Gone
  <2>4. Delivered(v)
    BY <1>5
  <2>5. QED
    BY <2>3, <2>4 DEF Delivered
<1>8. PICK m : m = [tag |-> i.tag, val |-> Content(job), sync |-> sync]
  OBVIOUS
<1>9. m.val = Content(job) /\ (m.sync <=> sync)
  BY <1>8
<1>10. chan' = [chan EXCEPT ![MASTER][v] = << m >>]
  <2>1. chan' = [chan EXCEPT ![MASTER][v] = Append(@, m)]
    BY <1>1, <1>3, <1>4, <1>8
  <2>2. chan' = [chan EXCEPT ![MASTER][v] = Append(chan[MASTER][v], m)]
    BY <2>1
  <2>3. Append(chan[MASTER][v], m) = << m >>
    BY <1>7
  <2>4. QED
    BY <2>2, <2>3
<1>11. /\ chan' = [a \in Ranks |-> [b \in Ranks |-> chan'[a][b]]]
       /\ chan'[MASTER][v] = << m >>
       /\ \A a, b \in Ranks : a # MASTER \/ b # v => chan'[a][b] = chan[a][b]
  <2>1. PICK P, c, d, q, x, z : P = Ranks /\ c = chan /\ d = chan' /\ q = v /\ x = << m >> /\ z = MASTER
    OBVIOUS
  <2>2. /\ c = [a \in P |-> [b \in P |-> c[a][b]]] /\ d = [c EXCEPT ![z][q] = x]
        /\ z \in P /\ q \in P
    BY <1>5, <1>10, <2>1 DEF SendTyped
  <2>3. /\ d = [a \in P |-> [b \in P |-> d[a][b]]]
        /\ d[z][q] = x
        /\ \A a, b \in P : a # z \/ b # q => d[a][b] = c[a][b]
    BY <2>2
  <2>4. QED
    BY <2>1, <2>3
<1>12. /\ pc' \in [Ranks -> Nat \ {0}] /\ phase' \in [Ranks -> {"run", "send", "coll"}]
       /\ \A a \in Ranks \ {MASTER} : pc'[a] = pc[a] /\ phase'[a] = phase[a]
       /\ pc'[MASTER] = (IF sync THEN k ELSE k + 1)
       /\ phase'[MASTER] = (IF sync THEN "send" ELSE "run")
  <2>1. pc \in [Ranks -> Nat \ {0}] /\ phase \in [Ranks -> {"run", "send", "coll"}] /\ k + 1 \in Nat \ {0}
    BY <1>6 DEF SendTyped
  <2>2. CASE sync
    BY <1>1, <1>3, <1>5, <1>6, <2>1, <2>2
  <2>3. CASE ~sync
    BY <1>1, <1>2, <1>3, <1>5, <1>6, <2>1, <2>3 DEF Step
  <2>4. QED
    BY <2>2, <2>3
<1>13. ASSUME NEW w \in Ranks \ {MASTER}
       PROVE  /\ Waiting(w)' <=> (sync /\ w = v)
              /\ Gone(w)' <=> Gone(w) \/ w = v
              /\ ~Waiting(w)
  <2>1. w \in Nat /\ v \in Nat
    BY <1>5
  <2>2. /\ k = R + w <=> w = v
        /\ k > R + w <=> v > w
        /\ k + 1 > R + w <=> v > w \/ w = v
        /\ ~(k + 1 = R + w /\ w = v)
    BY <1>4, <1>6, <2>1
  <2>3. ~Waiting(w) /\ (Gone(w) <=> v > w)
    BY <1>2, <1>3, <1>4, <1>6, <2>2 DEF Waiting, Gone
  <2>4. Waiting(w)' <=> (sync /\ w = v)
    BY <1>0, <1>4, <1>12, <2>2 DEF Waiting
  <2>5. Gone(w)' <=> v > w \/ w = v
    BY <1>0, <1>4, <1>12, <2>2, <2>4 DEF Gone
  <2>6. QED
    BY <2>3, <2>4, <2>5
<1>14. \A w \in Ranks \ {MASTER} : Has(w)' <=> Has(w)
  BY <1>0, <1>12 DEF Has
<1>15. ASSUME NEW w \in Ranks \ {MASTER} PROVE Delivered(w)'
  <2>1. CASE w = v
    <3>1. Gone(w)' /\ ~Has(w)' /\ (Waiting(w)' <=> sync)
      BY <1>5, <1>7, <1>13, <1>14, <2>1
    <3>2. InTransit(w)'
      BY <1>0, <1>9, <1>11, <2>1, <3>1 DEF InTransit
    <3>3. QED
      BY <3>1, <3>2 DEF Delivered
  <2>2. CASE w # v
    <3>1. /\ Delivered(w) /\ (Gone(w)' <=> Gone(w)) /\ (Waiting(w)' <=> Waiting(w))
          /\ (Has(w)' <=> Has(w)) /\ chan'[MASTER][w] = chan[MASTER][w] /\ mem'[w].buf = mem[w].buf
      BY <1>0, <1>5, <1>11, <1>13, <1>14, <2>2
    <3>2. QED
      BY <1>0, <3>1, DeliveredSame
  <2>3. QED
    BY <2>1, <2>2
<1>16. ASSUME NEW a \in Ranks PROVE Rests(a)'
  <2>1. CASE a = MASTER
    <3>1. mem'[a].buf = Content(job)
      <4>1. k > 1
        BY <1>4, <1>5, <1>6
      <4>2. QED
        BY <1>0, <1>3, <1>6, <2>1, <4>1 DEF Rests
    <3>2. phase'[a] = "send" => SendsTo(job, pc'[a])
      BY <1>3, <1>6, <1>12, <2>1
    <3>3. phase'[a] # "coll"
      BY <1>12, <2>1
    <3>4. QED
      BY <1>0, <2>1, <3>1, <3>2, <3>3 DEF Rests, SendsTo
  <2>2. CASE a # MASTER
    BY <1>0, <1>12, <2>2, RestsSame
  <2>3. QED
    BY <2>1, <2>2
<1>17. SendTyped'
  <2>1. ASSUME NEW a \in Ranks, NEW b \in Ranks, a # MASTER \/ b = MASTER PROVE chan'[a][b] = <<>>
    <3>1. chan'[a][b] = chan[a][b]
      BY <1>5, <1>11, <2>1
    <3>2. QED
      BY <2>1, <3>1 DEF SendTyped
  <2>2. QED
    BY <1>0, <1>11, <1>12, <2>1 DEF SendTyped
<1>18. QED
  BY <1>15, <1>16, <1>17

\* A worker receives the value.
LEMMA SendGets ==
    ASSUME SendJob, SendTyped, \A a \in Ranks : Rests(a),
           \A w \in Ranks \ {MASTER} : Delivered(w), NEW p \in Ranks, Receive(p)
    PROVE  SendTyped' /\ (\A a \in Ranks : Rests(a)') /\ \A w \in Ranks \ {MASTER} : Delivered(w)'
<1>0. job' = job /\ Ranks' = Ranks /\ entered' = entered
  <2>1. job' = job /\ entered' = entered
    BY DEF Receive
  <2>2. QED
    BY <2>1 DEF Ranks
<1>1. PICK i \in Current(p), q \in Ranks :
        /\ i.op = "recv" /\ i.from \in {q, AnySource}
        /\ \E k \in Earliest(i, q, p) :
             Takes(p, q, k) /\ Keeps(p, i.var, q, chan[q][p][k])
  BY ReceiveIs
<1>2. PICK k : Takes(p, q, k) /\ Keeps(p, i.var, q, chan[q][p][k])
  BY <1>1
<1>3. Order(job, p, pc[p], i) /\ phase[p] = "run"
  BY SendInstruction
<1>4. p # MASTER /\ pc[p] = Lead(job) /\ i.var = "buf" /\ i.from = MASTER
  BY <1>1, <1>3, SendKinds
<1>5. q = MASTER
  BY <1>1, <1>4 DEF MASTER, AnySource
<1>6. PICK R, n : R = Lead(job) /\ R \in {1, 2} /\ n = job.np /\ n \in Nat \ {0}
  BY SendRanks
<1>7. MASTER \in Ranks /\ p \in 1 .. n - 1 /\ \A w \in Ranks \ {MASTER} : w \in 1 .. n - 1
  BY <1>4, <1>6, SendRanks
<1>8. Gone(p) /\ ~Has(p) /\ InTransit(p)
  <2>1. k \in DOMAIN chan[MASTER][p]
    BY <1>2, <1>5 DEF Takes
  <2>2. chan[MASTER][p] # <<>>
    BY <2>1
  <2>3. Delivered(p)
    BY <1>4
  <2>4. QED
    BY <2>2, <2>3 DEF Delivered
<1>9. PICK m : chan[MASTER][p] = << m >> /\ m.val = Content(job) /\ (m.sync <=> Waiting(p))
  BY <1>8 DEF InTransit
<1>10. k = 1 /\ chan[q][p][k] = m
  <2>1. k \in DOMAIN << m >>
    BY <1>2, <1>5, <1>9 DEF Takes
  <2>2. QED
    BY <1>5, <1>9, <2>1
<1>11. /\ chan' = [a \in Ranks |-> [b \in Ranks |-> chan'[a][b]]]
       /\ chan'[MASTER][p] = <<>>
       /\ \A a, b \in Ranks : a # MASTER \/ b # p => chan'[a][b] = chan[a][b]
  <2>1. chan' = [chan EXCEPT ![MASTER][p] = <<>>]
    <3>1. chan' = [chan EXCEPT ![MASTER][p] = RemoveAt(@, k)]
      BY <1>2, <1>5 DEF Takes
    <3>2. chan' = [chan EXCEPT ![MASTER][p] = RemoveAt(chan[MASTER][p], k)]
      BY <3>1
    <3>3. RemoveAt(chan[MASTER][p], k) = <<>>
      BY <1>9, <1>10, RemoveOnly
    <3>4. QED
      BY <3>2, <3>3
  <2>2. PICK P, c, d, z : P = Ranks /\ c = chan /\ d = chan' /\ z = MASTER
    OBVIOUS
  <2>3. /\ c = [a \in P |-> [b \in P |-> c[a][b]]] /\ d = [c EXCEPT ![z][p] = <<>>]
        /\ p \in P /\ z \in P
    BY <1>7, <2>1, <2>2 DEF SendTyped
  <2>4. /\ d = [a \in P |-> [b \in P |-> d[a][b]]]
        /\ d[z][p] = <<>>
        /\ \A a, b \in P : a # z \/ b # p => d[a][b] = c[a][b]
    BY <2>3
  <2>5. QED
    BY <2>2, <2>4
<1>12. /\ mem' = [a \in Ranks |-> mem'[a]] /\ mem'[p].buf = Content(job)
       /\ "buf" \in DOMAIN mem'[p]
       /\ \A a \in Ranks \ {p} : mem'[a] = mem[a]
  <2>1. mem' = [mem EXCEPT ![p].buf = m.val, ![p].src = q, ![p].tag = m.tag]
    BY <1>2, <1>4, <1>10 DEF Keeps
  <2>2. mem' = [mem EXCEPT ![p] = [mem[p] EXCEPT !.buf = m.val, !.src = q, !.tag = m.tag]]
    <3>1. mem = [a \in Ranks |-> mem[a]]
      BY DEF SendTyped
    <3>2. QED
      BY <2>1, <3>1
  <2>3. /\ mem' = [a \in Ranks |-> mem'[a]]
        /\ mem'[p] = [mem[p] EXCEPT !.buf = m.val, !.src = q, !.tag = m.tag]
        /\ \A a \in Ranks \ {p} : mem'[a] = mem[a]
    BY <2>2 DEF SendTyped
  <2>4. "buf" \in DOMAIN mem[p]
    BY DEF SendTyped
  <2>5. mem'[p].buf = m.val /\ DOMAIN mem'[p] = DOMAIN mem[p]
    BY <2>3, <2>4
  <2>6. QED
    BY <1>9, <2>3, <2>4, <2>5
<1>13. PICK l \in Nat \ {0} : l = pc[MASTER]
  BY <1>7 DEF SendTyped
<1>14. m.sync => l = R + p /\ phase[MASTER] = "send"
  BY <1>6, <1>9, <1>13 DEF Waiting
<1>15. /\ pc' \in [Ranks -> Nat \ {0}] /\ phase' \in [Ranks -> {"run", "send", "coll"}]
       /\ pc'[p] = R + 1 /\ phase'[p] = "run"
       /\ pc'[MASTER] = (IF m.sync THEN l + 1 ELSE l)
       /\ phase'[MASTER] = (IF m.sync THEN "run" ELSE phase[MASTER])
       /\ \A a \in Ranks \ {p, MASTER} : pc'[a] = pc[a] /\ phase'[a] = phase[a]
  <2>1. pc \in [Ranks -> Nat \ {0}] /\ phase \in [Ranks -> {"run", "send", "coll"}]
        /\ R + 1 \in Nat \ {0} /\ l + 1 \in Nat \ {0}
    BY <1>6 DEF SendTyped
  <2>2. CASE m.sync
    <3>1. pc' = [pc EXCEPT ![p] = @ + 1, ![MASTER] = @ + 1] /\ phase' = [phase EXCEPT ![MASTER] = "run"]
      BY <1>2, <1>5, <1>10, <2>2 DEF Takes
    <3>2. QED
      BY <1>3, <1>4, <1>6, <1>7, <1>13, <2>1, <2>2, <3>1
  <2>3. CASE ~m.sync
    <3>1. pc' = [pc EXCEPT ![p] = @ + 1] /\ phase' = phase
      BY <1>2, <1>5, <1>10, <2>3 DEF Takes
    <3>2. QED
      BY <1>3, <1>4, <1>6, <1>7, <1>13, <2>1, <2>3, <3>1
  <2>4. QED
    BY <2>2, <2>3
<1>16. ASSUME NEW w \in Ranks \ {MASTER}
       PROVE  /\ Waiting(w)' <=> Waiting(w) /\ w # p
              /\ Gone(w)' <=> Gone(w)
  <2>1. w \in Nat /\ p \in Nat
    BY <1>7
  <2>2. CASE m.sync
    <3>1. /\ Waiting(w) <=> w = p
          /\ ~Waiting(w)'
      BY <1>6, <1>13, <1>14, <1>15, <2>1, <2>2 DEF Waiting
    <3>2. /\ l > R + w <=> p > w
          /\ l + 1 > R + w <=> p > w \/ w = p
      BY <1>6, <1>14, <2>1, <2>2
    <3>3. QED
      BY <1>0, <1>6, <1>13, <1>15, <2>2, <3>1, <3>2 DEF Gone
  <2>3. CASE ~m.sync
    <3>1. pc'[MASTER] = pc[MASTER] /\ phase'[MASTER] = phase[MASTER]
      BY <1>13, <1>15, <2>3
    <3>2. (Waiting(w)' <=> Waiting(w)) /\ ~Waiting(p)
      BY <1>0, <1>9, <2>3, <3>1 DEF Waiting
    <3>3. QED
      BY <1>0, <3>1, <3>2 DEF Gone
  <2>4. QED
    BY <2>2, <2>3
<1>17. Has(p)' /\ \A w \in Ranks \ {MASTER, p} : Has(w)' <=> Has(w)
  BY <1>0, <1>6, <1>15 DEF Has
<1>18. ASSUME NEW w \in Ranks \ {MASTER} PROVE Delivered(w)'
  <2>1. CASE w = p
    <3>1. /\ chan'[MASTER][w] = <<>> /\ ~Waiting(w)' /\ Gone(w)' /\ Has(w)'
          /\ mem'[w].buf = Content(job)
      BY <1>8, <1>11, <1>12, <1>16, <1>17, <2>1
    <3>2. QED
      BY <1>0, <3>1 DEF Delivered
  <2>2. CASE w # p
    <3>1. /\ Delivered(w) /\ (Gone(w)' <=> Gone(w)) /\ (Waiting(w)' <=> Waiting(w))
          /\ (Has(w)' <=> Has(w)) /\ chan'[MASTER][w] = chan[MASTER][w] /\ mem'[w].buf = mem[w].buf
      BY <1>7, <1>11, <1>12, <1>16, <1>17, <2>2
    <3>2. QED
      BY <1>0, <3>1, DeliveredSame
  <2>3. QED
    BY <2>1, <2>2
<1>19. ASSUME NEW a \in Ranks PROVE Rests(a)'
  <2>1. CASE a = p
    BY <1>4, <1>15, <2>1 DEF Rests
  <2>2. CASE a = MASTER
    <3>1. mem'[a] = mem[a] /\ Rests(a)
      BY <1>4, <1>12, <2>2
    <3>2. CASE m.sync
      <4>1. phase'[a] = "run" /\ pc[a] > 1
        <5>1. l > 1
          BY <1>6, <1>7, <1>14, <3>2
        <5>2. QED
          BY <1>13, <1>15, <2>2, <3>2, <5>1
      <4>2. QED
        BY <1>0, <3>1, <4>1 DEF Rests
    <3>3. CASE ~m.sync
      <4>1. pc'[a] = pc[a] /\ phase'[a] = phase[a]
        BY <1>13, <1>15, <2>2, <3>3
      <4>2. QED
        BY <1>0, <3>1, <4>1, RestsSame
    <3>4. QED
      BY <3>2, <3>3
  <2>3. CASE a # p /\ a # MASTER
    BY <1>0, <1>12, <1>15, <2>3, RestsSame
  <2>4. QED
    BY <2>1, <2>2, <2>3
<1>20. SendTyped'
  <2>1. ASSUME NEW a \in Ranks, NEW b \in Ranks, a # MASTER \/ b = MASTER PROVE chan'[a][b] = <<>>
    <3>1. chan'[a][b] = chan[a][b]
      BY <1>4, <1>11, <2>1
    <3>2. QED
      BY <2>1, <3>1 DEF SendTyped
  <2>2. \A a \in Ranks : "buf" \in DOMAIN mem'[a]
    BY <1>12 DEF SendTyped
  <2>3. QED
    BY <1>0, <1>11, <1>12, <1>15, <2>1, <2>2 DEF SendTyped
<1>21. QED
  BY <1>18, <1>19, <1>20

\* A process enters a barrier.
LEMMA SendEnters ==
    ASSUME SendJob, SendTyped, \A a \in Ranks : Rests(a),
           \A w \in Ranks \ {MASTER} : Delivered(w), NEW p \in Ranks, EnterCollective(p)
    PROVE  SendTyped' /\ (\A a \in Ranks : Rests(a)') /\ \A w \in Ranks \ {MASTER} : Delivered(w)'
<1>0. /\ job' = job /\ Ranks' = Ranks /\ mem' = mem /\ chan' = chan /\ pc' = pc
  BY DEF EnterCollective, Ranks
<1>1. PICK i \in Current(p) : /\ i.op \in Collectives
                              /\ entered' = [entered EXCEPT ![p] = Append(@, i)]
                              /\ phase' = [phase EXCEPT ![p] = "coll"]
  BY DEF EnterCollective
<1>2. Order(job, p, pc[p], i) /\ phase[p] = "run"
  BY SendInstruction
<1>3. i = Barrier /\ ~Busy(job, p, pc[p])
  <2>1. i.op = "barrier"
    BY <1>1, <1>2, SendKinds DEF Collectives
  <2>2. QED
    BY <1>2, <2>1, SendKinds
<1>4. PICK e \in Seq({Barrier}) : e = entered[p]
  BY DEF SendTyped
<1>5. Append(e, i) \in Seq({Barrier}) /\ Append(e, i) # <<>>
  <2>1. PICK B : B = {Barrier}
    OBVIOUS
  <2>2. e \in Seq(B) /\ i \in B
    BY <1>3, <1>4, <2>1
  <2>3. Append(e, i) \in Seq(B) /\ Append(e, i) # <<>>
    BY <2>2
  <2>4. QED
    BY <2>1, <2>3
<1>6. /\ entered' = [a \in Ranks |-> entered'[a]] /\ entered'[p] = Append(e, i)
      /\ \A a \in Ranks \ {p} : entered'[a] = entered[a]
      /\ phase' \in [Ranks -> {"run", "send", "coll"}] /\ phase'[p] = "coll"
      /\ \A a \in Ranks \ {p} : phase'[a] = phase[a]
  BY <1>1, <1>4 DEF SendTyped
<1>7. ASSUME NEW w \in Ranks \ {MASTER} PROVE Delivered(w)'
  <2>1. Waiting(w)' <=> Waiting(w)
    <3>1. CASE p = MASTER
      BY <1>2, <1>6, <3>1 DEF Waiting
    <3>2. CASE p # MASTER
      <4>1. phase'[MASTER] = phase[MASTER]
        BY <1>6, <3>2, SendRanks
      <4>2. QED
        BY <1>0, <4>1 DEF Waiting
    <3>3. QED
      BY <3>1, <3>2
  <2>2. Gone(w)' <=> Gone(w)
    BY <1>0, <2>1 DEF Gone
  <2>3. Has(w)' <=> Has(w)
    BY <1>0 DEF Has
  <2>4. QED
    BY <1>0, <2>1, <2>2, <2>3, DeliveredSame
<1>8. ASSUME NEW a \in Ranks PROVE Rests(a)'
  <2>1. CASE a = p
    <3>1. entered'[a] # <<>> /\ phase'[a] = "coll"
      BY <1>5, <1>6, <2>1
    <3>2. QED
      BY <1>0, <1>3, <2>1, <3>1 DEF Rests, Busy, SendsTo
  <2>2. CASE a # p
    BY <1>0, <1>6, <2>2, RestsSame
  <2>3. QED
    BY <2>1, <2>2
<1>9. SendTyped'
  <2>1. \A a \in Ranks : entered'[a] \in Seq({Barrier})
    BY <1>5, <1>6 DEF SendTyped
  <2>2. QED
    BY <1>0, <1>6, <2>1 DEF SendTyped
<1>10. QED
  BY <1>7, <1>8, <1>9

\* A process leaves a barrier.
LEMMA SendLeaves ==
    ASSUME SendJob, SendTyped, \A a \in Ranks : Rests(a),
           \A w \in Ranks \ {MASTER} : Delivered(w), NEW p \in Ranks, LeaveCollective(p)
    PROVE  SendTyped' /\ (\A a \in Ranks : Rests(a)') /\ \A w \in Ranks \ {MASTER} : Delivered(w)'
<1>0. /\ job' = job /\ Ranks' = Ranks /\ entered' = entered /\ chan' = chan /\ phase[p] = "coll"
      /\ pc' = [pc EXCEPT ![p] = @ + 1] /\ phase' = [phase EXCEPT ![p] = "run"]
  BY DEF LeaveCollective, Ranks, Step
<1>1. PICK e \in Seq({Barrier}) : e = entered[p] /\ e # <<>>
  BY <1>0 DEF SendTyped, Rests
<1>2. PICK i : i = e[Len(e)] /\ i = Barrier
  BY <1>1
<1>3. PICK awaited : awaited = Awaited(i, p, job.np)
  OBVIOUS
<1>4. mem' = [mem EXCEPT ![p] = Received(i, p, job.np, @,
                                         [q \in awaited |-> entered[q][Len(e)].val])]
  BY <1>1, <1>2, <1>3 DEF LeaveCollective
<1>5. mem' = mem
  <2>1. i.op = "barrier"
    BY <1>2 DEF Barrier
  <2>2. \A m, val : Received(i, p, job.np, m, val) = m
    BY <2>1 DEF Received
  <2>3. mem' = [mem EXCEPT ![p] = mem[p]]
    BY <1>4, <2>2
  <2>4. mem = [a \in Ranks |-> mem[a]]
    BY DEF SendTyped
  <2>5. QED
    BY <2>3, <2>4
<1>6. ~Busy(job, p, pc[p])
  BY <1>0 DEF Rests
<1>7. \A w \in Ranks \ {MASTER} : Delivered(w)'
  <2>1. phase[p] # "send"
    BY <1>0
  <2>2. \A w \in Ranks \ {MASTER} : mem'[w].buf = mem[w].buf
    BY <1>5
  <2>3. QED
    BY <1>0, <1>6, <2>1, <2>2, PlainMoves
<1>8. ASSUME NEW a \in Ranks PROVE Rests(a)'
  <2>1. CASE a = p
    <3>1. phase'[a] = "run"
      BY <1>0, <2>1 DEF SendTyped
    <3>2. a = MASTER => pc[a] > 1
      <4>1. pc[a] \in Nat \ {0}
        BY DEF SendTyped
      <4>2. a = MASTER => pc[a] # 1
        BY <1>6, <2>1 DEF Busy
      <4>3. QED
        BY <4>1, <4>2
    <3>3. QED
      BY <1>0, <1>5, <3>1, <3>2 DEF Rests
  <2>2. CASE a # p
    <3>1. pc'[a] = pc[a] /\ phase'[a] = phase[a]
      BY <1>0, <2>2 DEF SendTyped
    <3>2. QED
      BY <1>0, <1>5, <3>1, RestsSame
  <2>3. QED
    BY <2>1, <2>2
<1>9. SendTyped'
  <2>1. pc' \in [Ranks -> Nat \ {0}] /\ phase' \in [Ranks -> {"run", "send", "coll"}]
    BY <1>0 DEF SendTyped
  <2>2. QED
    BY <1>0, <1>5, <2>1 DEF SendTyped
<1>10. QED
  BY <1>7, <1>8, <1>9

\* Every step of such a job.
LEMMA SendSteps == SendInv /\ [Next]_vars => SendInv'
<1> SUFFICES ASSUME SendInv, [Next]_vars, SendJob'
             PROVE  /\ SendTyped' /\ \A a \in Ranks' : Rests(a)'
                    /\ \A w \in (Ranks \ {MASTER})' : Delivered(w)'
  BY DEF SendInv
<1>0. job' = job /\ Ranks' = Ranks
  BY JobFixed DEF Ranks
<1>1. /\ SendJob /\ SendTyped /\ \A a \in Ranks : Rests(a)
      /\ \A w \in Ranks \ {MASTER} : Delivered(w)
  BY <1>0 DEF SendInv, SendJob
<1>2. ASSUME mem' = mem, phase' = phase, chan' = chan, entered' = entered, pc' = pc
      PROVE  SendTyped' /\ (\A a \in Ranks : Rests(a)') /\ \A w \in Ranks \ {MASTER} : Delivered(w)'
  <2>1. SendTyped'
    BY <1>0, <1>1, <1>2 DEF SendTyped
  <2>2. ASSUME NEW a \in Ranks PROVE Rests(a)'
    BY <1>0, <1>1, <1>2, RestsSame
  <2>3. ASSUME NEW w \in Ranks \ {MASTER} PROVE Delivered(w)'
    <3>1. Waiting(w)' <=> Waiting(w)
      BY <1>0, <1>2 DEF Waiting
    <3>2. (Gone(w)' <=> Gone(w)) /\ (Has(w)' <=> Has(w))
      BY <1>0, <1>2, <3>1 DEF Gone, Has
    <3>3. QED
      BY <1>0, <1>1, <1>2, <3>1, <3>2, DeliveredSame
  <2>4. QED
    BY <2>1, <2>2, <2>3
<1>3. CASE UNCHANGED vars
  BY <1>0, <1>2, <1>3 DEF vars
<1>4. ASSUME NEW p \in Ranks,
             \/ Local(p)           \/ AbortJob(p)
             \/ SendMessage(p)     \/ Receive(p)
             \/ EnterCollective(p) \/ LeaveCollective(p)
      PROVE  SendTyped' /\ (\A a \in Ranks : Rests(a)') /\ \A w \in Ranks \ {MASTER} : Delivered(w)'
  <2>1. CASE Local(p)
    BY <1>1, <2>1, SendLocal
  <2>2. CASE AbortJob(p)
    BY <1>2, <2>2 DEF AbortJob
  <2>3. CASE SendMessage(p)
    BY <1>1, <2>3, SendPosts
  <2>4. CASE Receive(p)
    BY <1>1, <2>4, SendGets
  <2>5. CASE EnterCollective(p)
    BY <1>1, <2>5, SendEnters
  <2>6. CASE LeaveCollective(p)
    BY <1>1, <2>6, SendLeaves
  <2>7. QED
    BY <1>4, <2>1, <2>2, <2>3, <2>4, <2>5, <2>6
<1>5. QED
  BY <1>0, <1>3, <1>4 DEF Next

\* At the start nothing was sent.
LEMMA SendStarts == Init => SendInv
<1> SUFFICES ASSUME Init, SendJob
             PROVE  SendTyped /\ (\A p \in Ranks : Rests(p)) /\ \A w \in Ranks \ {MASTER} : Delivered(w)
  BY DEF SendInv
<1>1. /\ pc = [p \in Ranks |-> 1] /\ phase = [p \in Ranks |-> "run"] /\ mem = [p \in Ranks |-> Blank]
      /\ chan = [p \in Ranks |-> [q \in Ranks |-> <<>>]]
      /\ entered = [p \in Ranks |-> <<>>]
  BY DEF Init
<1>2. "buf" \in DOMAIN Blank
  BY DEF Blank
<1>3. SendTyped
  BY <1>1, <1>2 DEF SendTyped
<1>4. \A p \in Ranks : Rests(p)
  BY <1>1 DEF Rests
<1>5. ASSUME NEW w \in Ranks \ {MASTER} PROVE Delivered(w)
  <2>1. PICK R, n : R = Lead(job) /\ R \in {1, 2} /\ n = job.np /\ w \in 1 .. n - 1 /\ n \in Nat
    BY SendRanks
  <2>2. /\ pc[MASTER] = 1 /\ pc[w] = 1 /\ phase[MASTER] = "run" /\ chan[MASTER][w] = <<>>
    BY <1>1, SendRanks
  <2>3. ~(1 > R + w) /\ ~(1 > R)
    BY <2>1
  <2>4. ~Waiting(w) /\ ~Gone(w) /\ ~Has(w)
    BY <2>1, <2>2, <2>3 DEF Waiting, Gone, Has
  <2>5. QED
    BY <2>2, <2>4 DEF Delivered
<1>6. QED
  BY <1>3, <1>4, <1>5

\* When they are done everyone has the value.
LEMMA SendDone == SendInv /\ SendJob => Outcome
<1> SUFFICES ASSUME SendInv, SendJob, AllDone PROVE Outcome
  BY DEF Outcome
<1>1. /\ SendTyped /\ \A p \in Ranks : Rests(p)
      /\ \A w \in Ranks \ {MASTER} : Delivered(w)
  BY DEF SendInv
<1>2. PICK n \in Nat \ {0}, R \in {1, 2} : n = job.np /\ R = Lead(job)
  BY SendRanks
<1>3. ASSUME NEW p \in Ranks
      PROVE  /\ phase[p] = "run" /\ pc[p] \in Nat
             /\ n > 1 => pc[p] > IF p = MASTER THEN 1 ELSE R
  <2>1. phase[p] = "run" /\ pc[p] > Len(Code(p)) /\ pc[p] \in Nat
    BY <1>1 DEF AllDone, Done, SendTyped
  <2>2. Orders(job, p, Code(p))
    <3>1. PICK j, m : /\ j = job /\ m = mem[p] /\ j \in Jobs /\ j.prog = "broadcastSend"
                      /\ p \in 0 .. j.np - 1
      BY DEF SendJob, Ranks
    <3>2. Code(p) = Text(j, p, m)
      BY <3>1 DEF Code, Text
    <3>3. QED
      BY <3>1, <3>2, SendCode
  <2>3. PICK l : l = Len(Code(p)) /\ l \in Nat /\ (n > 1 => l >= IF p = MASTER THEN 1 ELSE R)
    BY <1>2, <2>2 DEF Orders
  <2>4. QED
    BY <1>2, <2>1, <2>3
<1>4. ASSUME NEW w \in Ranks \ {MASTER} PROVE n > 1 /\ Has(w)
  <2>1. w \in 1 .. n - 1
    BY <1>2, SendRanks
  <2>2. n > 1
    BY <2>1
  <2>3. QED
    BY <1>2, <1>3, <2>2 DEF Has
<1>5. \A w \in Ranks \ {MASTER} : chan[MASTER][w] = <<>> /\ mem[w].buf = Content(job)
  BY <1>1, <1>4 DEF Delivered
<1>6. \A p, q \in Ranks : chan[p][q] = <<>>
  BY <1>1, <1>5 DEF SendTyped
<1>7. n > 1 => \A p \in Ranks : mem[p].buf = Content(job)
  <2>1. n > 1 => mem[MASTER].buf = Content(job)
    BY <1>1, <1>3, SendRanks DEF Rests
  <2>2. QED
    BY <1>5, <2>1
<1>8. BroadcastGoal
  <2> SUFFICES ASSUME n > 1 PROVE BroadcastGoal
    BY <1>2 DEF BroadcastGoal
  <2>1. job.lang # "Python" => Content(job) = [k \in 1 .. 8 |-> k + 10]
    BY DEF Content, Fill, ARRAY_SIZE
  <2>2. MASTER \in Ranks
    BY SendRanks
  <2>3. QED
    BY <1>7, <2>1, <2>2 DEF BroadcastGoal, SendJob, Is
<1>9. QED
  BY <1>6, <1>8 DEF Outcome, SendJob, Is

\* When a broadcast ends every process has the value of the master, and the
\* master the one it was given, in every language, with any number of processes:
\* by the collective, whether or not it synchronises (MPI/08, 09 and 11), and by
\* one message to each worker, whether or not sends are buffered (MPI/10).
THEOREM BroadcastOutcome ==
    Spec => [](Is({"broadcast", "broadcastInput", "broadcastSend", "broadcast2"}) => Outcome)
<1>1. Init => BcastInv /\ StageInv /\ SendInv
  BY BcastStarts, StageStarts, SendStarts
<1>2. BcastInv /\ StageInv /\ SendInv /\ [Next]_vars => (BcastInv /\ StageInv /\ SendInv)'
  BY BcastSteps, StageSteps, SendSteps
<1>3. BcastInv /\ StageInv /\ SendInv
        => (Is({"broadcast", "broadcastInput", "broadcastSend", "broadcast2"}) => Outcome)
  <2> SUFFICES ASSUME BcastInv, StageInv, SendInv,
                      Is({"broadcast", "broadcastInput", "broadcastSend", "broadcast2"})
               PROVE  Outcome
    OBVIOUS
  <2>1. Is(BcastProgs) \/ SendJob
    BY DEF Is, BcastProgs, SendJob, StageInv
  <2>2. QED
    BY <2>1, BcastDone, SendDone
<1>4. QED
  BY <1>1, <1>2, <1>3, PTL DEF Spec
-----------------------------------------------------------------------------
(* The programs whose result is made by collectives other than a broadcast *)
(* alone.  Among lines and barriers each has its key instructions, and what*)
(* a process has in memory depends only on how many of them it has passed. *)

KeyProgs == {"reduction", "reduction2", "reduceTiming", "scatter", "gather",
             "broadcastLoop", "scatterLoop", "scatterV", "scatterGather"}
KeyJob(j) == j \in Jobs /\ j.prog \in KeyProgs

\* The programs that double an array in pieces, and the piece of process p.
Doublers == {"broadcastLoop", "scatterLoop", "scatterV"}
Refused(j) == IF j.prog = "scatterV" THEN j.np > ARRAY_SIZE ELSE ~Divides(j.np, ARRAY_SIZE)
SizeOf(j, p)  == IF j.prog = "scatterV" THEN ChunkSize(p, j.np, ARRAY_SIZE) ELSE ARRAY_SIZE \div j.np
StartOf(j, p) == IF j.prog = "scatterV" THEN ChunkStart(p, j.np, ARRAY_SIZE)
                                        ELSE p * (ARRAY_SIZE \div j.np)
PieceOf(j, p) == Piece(Fill(ARRAY_SIZE), SizeOf(j, p), StartOf(j, p))
Pieces(j)  == [r \in 1 .. j.np |-> PieceOf(j, r - 1)]
Offsets(j) == [r \in 1 .. j.np |-> StartOf(j, r - 1)]

\* The array of scatter, and what process p has of the other programs' data.
Elevens == [i \in 1 .. 8 |-> i * 11]
Square(p) == << (p + 1) * (p + 1) >>
Multiples(p) == [i \in 1 .. 5 |-> p * (i - 1)]
PyMultiples(p) == [k \in 1 .. 5 |-> k * p]
Tens(p) == [i \in 1 .. 3 |-> p * 10 + (i - 1)]
PyTens(p) == [j \in 1 .. 3 |-> (p * 10) * j]
Rows(n) == [r \in 1 .. n |-> [j \in 1 .. 3 |-> r * j]]
Numbers(n) == [k \in 1 .. 3 * n |-> k]
TenTimes(s) == [k \in 1 .. Len(s) |-> 10 * s[k]]

\* For each program: what kind of instructions the key ones are; those of
\* process p, whose memory is m; and its memory before and after each of them.
Store(buf, part, all) ==
  [buf |-> buf, part |-> part, all |-> all, out |-> <<>>, src |-> AnySource, tag |-> AnyTag]
Empty == Zeros(ARRAY_SIZE)
AtMaster(p, x, y) == IF p = MASTER THEN x ELSE y

By1(j) == j.lang = "Python" /\ j.np <= 1
SumOfSquares(n) == (n * (n + 1) * (2 * n + 1)) \div 6
ReductionOps(j) == IF By1(j) THEN << "compute", "compute" >> ELSE << "sum", "max" >>
ReductionKeys(j, p) ==
  IF By1(j) THEN << Compute("buf", Square(p)), Compute("all", Square(p)) >>
            ELSE << ReduceSum(Square(p), "buf"), ReduceMax(Square(p), "all") >>
ReductionStores(j, p) ==
  << Store(Empty, <<>>, <<>>),
     Store(AtMaster(p, << SumOfSquares(j.np) >>, Empty), <<>>, <<>>),
     Store(AtMaster(p, << SumOfSquares(j.np) >>, Empty), <<>>,
           AtMaster(p, << j.np * j.np >>, <<>>)) >>

SumOfRanks(n) == (n * (n - 1)) \div 2
ArraysOps(j) == IF j.lang = "Python" THEN << "max", "gather" >> ELSE << "sum" >>
ArraysKeys(j, p) ==
  IF j.lang = "Python"
    THEN << ReduceMax(PyMultiples(p), "all"),
            Gather(PyMultiples(p), EqualOffsets(5, j.np), "buf") >>
    ELSE << ReduceSum(Multiples(p), "all") >>
RankSums(n) == [i \in 1 .. 5 |-> (i - 1) * SumOfRanks(n)]
PyLargest(n) == [i \in 1 .. 5 |-> i * (n - 1)]
PyAllMultiples(n) == [k \in 1 .. 5 * n |-> ((k - 1) \div 5) * (((k - 1) % 5) + 1)]
ArraysStores(j, p) ==
  IF j.lang = "Python"
    THEN << Store(Empty, <<>>, <<>>), Store(Empty, <<>>, AtMaster(p, PyLargest(j.np), <<>>)),
            Store(AtMaster(p, PyAllMultiples(j.np), Empty), <<>>,
                  AtMaster(p, PyLargest(j.np), <<>>)) >>
    ELSE << Store(Empty, <<>>, <<>>), Store(Empty, <<>>, AtMaster(p, RankSums(j.np), <<>>)) >>

TimingOps(j) == IF j.lang = "C" THEN << "max" >> ELSE << "sum" >>
TimingKeys(j, p) ==
  IF j.lang = "C" THEN << ReduceMax(<< (p + 1) \div j.np >>, "all") >>
                  ELSE << ReduceSum(<< 1000 >>, "all") >>
TimingStores(j, p) ==
  << Store(Empty, <<>>, <<>>),
     Store(Empty, <<>>, AtMaster(p, << IF j.lang = "C" THEN 1 ELSE 1000 * j.np >>, <<>>)) >>

TooMany(j) == j.lang = "Java" /\ j.np > 8
ScatterOps(j) == IF TooMany(j) THEN <<>> ELSE << "scatter" >>
ScatterKeys(j) ==
  IF TooMany(j) THEN <<>>
  ELSE << Scatter(IF j.lang = "Python" THEN Rows(j.np)
                  ELSE EqualPieces(Elevens, 8 \div j.np, j.np), "part") >>
Part(j, p) == IF j.lang = "Python" THEN [k \in 1 .. 3 |-> (p + 1) * k]
                                   ELSE Piece(Elevens, 8 \div j.np, p * (8 \div j.np))
ScatterStores(j, p) == << Store(Empty, <<>>, <<>>), Store(Empty, Part(j, p), <<>>) >>

Held(j, p) == IF j.lang = "Python" THEN PyTens(p) ELSE Tens(p)
Collection(j) ==
  IF j.lang = "Python" THEN [k \in 1 .. 3 * j.np |-> ((k - 1) \div 3) * 10 * (((k - 1) % 3) + 1)]
                       ELSE [k \in 1 .. 3 * j.np |-> ((k - 1) \div 3) * 10 + ((k - 1) % 3)]
GatherOps == << "gather" >>
GatherKeys(j, p) == << Gather(Held(j, p), EqualOffsets(3, j.np), "all") >>
GatherStores(j, p) ==
  << Store(Empty, <<>>, <<>>), Store(Empty, <<>>, AtMaster(p, Collection(j), <<>>)) >>

Triple(p) == [k \in 1 .. 3 |-> 3 * p + k]
BothOps == << "scatter", "gather" >>
BothKeys(j, m) ==
  << Scatter(EqualPieces(Numbers(j.np), 3, j.np), "part"),
     Gather(TenTimes(m.part), EqualOffsets(3, j.np), "all") >>
AllTens(n) == [k \in 1 .. 3 * n |-> 10 * k]
BothStores(j, p) ==
  << Store(Empty, <<>>, <<>>), Store(Empty, Triple(p), <<>>),
     Store(Empty, Triple(p), AtMaster(p, AllTens(j.np), <<>>)) >>

Loop(j) == j.prog = "broadcastLoop"
DoublerOps(j) ==
  IF Refused(j) THEN <<>> ELSE << IF Loop(j) THEN "bcast" ELSE "scatter", "compute", "gather" >>
DoublerKeys(j, p, m) ==
  IF Refused(j) THEN <<>>
  ELSE << IF Loop(j) THEN Bcast("buf", AtMaster(p, Fill(ARRAY_SIZE), Zeros(ARRAY_SIZE)))
                     ELSE Scatter(Pieces(j), "part"),
          Compute("part", Doubled(IF Loop(j) THEN Piece(m.buf, SizeOf(j, p), StartOf(j, p))
                                             ELSE m.part)),
          Gather(m.part, Offsets(j), "all") >>
Twice == [k \in 1 .. 8 |-> 2 * (k + 10)]
DoublerStores(j, p) ==
  LET buf == IF Loop(j) THEN Fill(ARRAY_SIZE) ELSE Empty
      doubled == Doubled(PieceOf(j, p))
  IN  << Store(Empty, <<>>, <<>>), Store(buf, IF Loop(j) THEN <<>> ELSE PieceOf(j, p), <<>>),
         Store(buf, doubled, <<>>), Store(buf, doubled, AtMaster(p, Twice, <<>>)) >>

Ops(j) == CASE j.prog = "reduction"     -> ReductionOps(j)
            [] j.prog = "reduction2"    -> ArraysOps(j)
            [] j.prog = "reduceTiming"  -> TimingOps(j)
            [] j.prog = "scatter"       -> ScatterOps(j)
            [] j.prog = "gather"        -> GatherOps
            [] j.prog = "scatterGather" -> BothOps
            [] j.prog \in Doublers      -> DoublerOps(j)
Keys(j, p, m) ==
          CASE j.prog = "reduction"     -> ReductionKeys(j, p)
            [] j.prog = "reduction2"    -> ArraysKeys(j, p)
            [] j.prog = "reduceTiming"  -> TimingKeys(j, p)
            [] j.prog = "scatter"       -> ScatterKeys(j)
            [] j.prog = "gather"        -> GatherKeys(j, p)
            [] j.prog = "scatterGather" -> BothKeys(j, m)
            [] j.prog \in Doublers      -> DoublerKeys(j, p, m)
Stores(j, p) ==
          CASE j.prog = "reduction"     -> ReductionStores(j, p)
            [] j.prog = "reduction2"    -> ArraysStores(j, p)
            [] j.prog = "reduceTiming"  -> TimingStores(j, p)
            [] j.prog = "scatter"       -> ScatterStores(j, p)
            [] j.prog = "gather"        -> GatherStores(j, p)
            [] j.prog = "scatterGather" -> BothStores(j, p)
            [] j.prog \in Doublers      -> DoublerStores(j, p)
Count(j) == Len(Ops(j))
After(j, p, i) == Stores(j, p)[i + 1]
Key(j, p, i) == Keys(j, p, After(j, p, i - 1))[i]

\* Each by its program.
LEMMA KeysAre ==
    ASSUME NEW j
    PROVE  /\ j.prog = "reduction" => /\ Ops(j) = ReductionOps(j)
                                      /\ \A p : Stores(j, p) = ReductionStores(j, p)
                                      /\ \A p, m : Keys(j, p, m) = ReductionKeys(j, p)
           /\ j.prog = "reduction2" => /\ Ops(j) = ArraysOps(j)
                                       /\ \A p : Stores(j, p) = ArraysStores(j, p)
                                       /\ \A p, m : Keys(j, p, m) = ArraysKeys(j, p)
           /\ j.prog = "reduceTiming" => /\ Ops(j) = TimingOps(j)
                                         /\ \A p : Stores(j, p) = TimingStores(j, p)
                                         /\ \A p, m : Keys(j, p, m) = TimingKeys(j, p)
           /\ j.prog = "scatter" => /\ Ops(j) = ScatterOps(j)
                                    /\ \A p : Stores(j, p) = ScatterStores(j, p)
                                    /\ \A p, m : Keys(j, p, m) = ScatterKeys(j)
           /\ j.prog = "gather" => /\ Ops(j) = GatherOps
                                   /\ \A p : Stores(j, p) = GatherStores(j, p)
                                   /\ \A p, m : Keys(j, p, m) = GatherKeys(j, p)
           /\ j.prog = "scatterGather" => /\ Ops(j) = BothOps
                                          /\ \A p : Stores(j, p) = BothStores(j, p)
                                          /\ \A p, m : Keys(j, p, m) = BothKeys(j, m)
           /\ j.prog \in Doublers => /\ Ops(j) = DoublerOps(j)
                                     /\ \A p : Stores(j, p) = DoublerStores(j, p)
                                     /\ \A p, m : Keys(j, p, m) = DoublerKeys(j, p, m)
<1>1. /\ j.prog = "reduction" => Ops(j) = ReductionOps(j)
      /\ j.prog = "reduction2" => Ops(j) = ArraysOps(j)
      /\ j.prog = "reduceTiming" => Ops(j) = TimingOps(j)
      /\ j.prog = "scatter" => Ops(j) = ScatterOps(j)
      /\ j.prog = "gather" => Ops(j) = GatherOps
      /\ j.prog = "scatterGather" => Ops(j) = BothOps
      /\ j.prog \in Doublers => Ops(j) = DoublerOps(j)
  BY DEF Ops, Doublers
<1>2. ASSUME NEW p
      PROVE  /\ j.prog = "reduction" => Stores(j, p) = ReductionStores(j, p)
             /\ j.prog = "reduction2" => Stores(j, p) = ArraysStores(j, p)
             /\ j.prog = "reduceTiming" => Stores(j, p) = TimingStores(j, p)
             /\ j.prog = "scatter" => Stores(j, p) = ScatterStores(j, p)
             /\ j.prog = "gather" => Stores(j, p) = GatherStores(j, p)
             /\ j.prog = "scatterGather" => Stores(j, p) = BothStores(j, p)
             /\ j.prog \in Doublers => Stores(j, p) = DoublerStores(j, p)
  BY DEF Stores, Doublers
<1>3. ASSUME NEW p, NEW m
      PROVE  /\ j.prog = "reduction" => Keys(j, p, m) = ReductionKeys(j, p)
             /\ j.prog = "reduction2" => Keys(j, p, m) = ArraysKeys(j, p)
             /\ j.prog = "reduceTiming" => Keys(j, p, m) = TimingKeys(j, p)
             /\ j.prog = "scatter" => Keys(j, p, m) = ScatterKeys(j)
             /\ j.prog = "gather" => Keys(j, p, m) = GatherKeys(j, p)
             /\ j.prog = "scatterGather" => Keys(j, p, m) = BothKeys(j, m)
             /\ j.prog \in Doublers => Keys(j, p, m) = DoublerKeys(j, p, m)
  BY DEF Keys, Doublers
<1>4. QED
  BY <1>1, <1>2, <1>3

\* Key instruction i takes process p from one memory to the next, given what the
\* others contribute to it.
Fits(j, p, i) ==
  LET k == Key(j, p, i)
  IN  /\ k.op = Ops(j)[i]
      /\ k.op # "compute" => k.op \in Collectives
      /\ After(j, p, i) =
           IF k.op = "compute" THEN [After(j, p, i - 1) EXCEPT ![k.var] = k.val]
           ELSE Received(k, p, j.np, After(j, p, i - 1),
                         [q \in Awaited(k, p, j.np) |-> Key(j, q, i).val])

\* Storing a result.
LEMMA StoreSet ==
    ASSUME NEW b, NEW p, NEW a, NEW v
    PROVE  /\ [Store(b, p, a) EXCEPT !["buf"] = v] = Store(v, p, a)
           /\ [Store(b, p, a) EXCEPT !["part"] = v] = Store(b, v, a)
           /\ [Store(b, p, a) EXCEPT !["all"] = v] = Store(b, p, v)
           /\ Store(b, p, a).buf = b /\ Store(b, p, a).part = p /\ Store(b, p, a).all = a
<1>1. [Store(b, p, a) EXCEPT !["buf"] = v] = Store(v, p, a)
  BY DEF Store
<1>2. [Store(b, p, a) EXCEPT !["part"] = v] = Store(b, v, a)
  BY DEF Store
<1>3. [Store(b, p, a) EXCEPT !["all"] = v] = Store(b, p, v)
  BY DEF Store
<1>4. Store(b, p, a).buf = b /\ Store(b, p, a).part = p /\ Store(b, p, a).all = a
  BY DEF Store
<1>5. QED
  BY <1>1, <1>2, <1>3, <1>4

\* The memory at the start.
LEMMA StoreBlank == Blank = Store(Empty, <<>>, <<>>)
  BY DEF Blank, Store, Empty

\* The contributions V to a sum or maximum, and the results of the first r.
Reduces(V, R, n, L, op) ==
  /\ n \in Nat \ {0} /\ L \in Nat /\ op \in {"sum", "max"}
  /\ V \in [0 .. n - 1 -> [1 .. L -> Int]] /\ R \in [1 .. n -> [1 .. L -> Int]] /\ R[1] = V[0]
  /\ \A h \in 1 .. n - 1 : \A l \in 1 .. L :
       R[h + 1][l] = IF op = "sum" THEN R[h][l] + V[h][l] ELSE Larger(R[h][l], V[h][l])

\* The master stores v.
Rooted(m, k, p, v) == IF p = MASTER THEN [m EXCEPT ![k.var] = v] ELSE m

\* What process p awaits of the contributions V.
Gets(W, V, k, p, n) == W = [q \in Awaited(k, p, n) |-> V[q]]

\* The contributions V to the instruction k of n processes become R, and v is what
\* process p with memory m has of W.
Reducing(V, R, n, L, k) == Reduces(V, R, n, L, k.op)
StoresOf(k, p, n, m, W, v) == Received(k, p, n, m, W) = Rooted(m, k, p, v)

\* The master receives the result of all, the others nothing.
LEMMA ReducedIs ==
    ASSUME NEW V, NEW R, NEW n, NEW L, NEW k, Reducing(V, R, n, L, k), NEW m, NEW p,
           NEW W, Gets(W, V, k, p, n)
    PROVE  StoresOf(k, p, n, m, W, R[n])
<1>1. /\ n \in Nat \ {0} /\ L \in Nat /\ k.op \in {"sum", "max"}
      /\ V \in [0 .. n - 1 -> [1 .. L -> Int]] /\ R \in [1 .. n -> [1 .. L -> Int]] /\ R[1] = V[0]
      /\ \A h \in 1 .. n - 1 : \A l \in 1 .. L :
           R[h + 1][l] = IF k.op = "sum" THEN R[h][l] + V[h][l] ELSE Larger(R[h][l], V[h][l])
  BY DEF Reducing, Reduces
<1>2. CASE p # MASTER
  BY <1>1, <1>2 DEF StoresOf, Received, Rooted
<1>3. CASE p = MASTER
  <2> DEFINE vals == [r \in 1 .. n |-> V[r - 1]]
  <2>1. vals \in [1 .. n -> [1 .. L -> Int]]
    BY <1>1, SMT
  <2>2. R[1] = vals[1] /\ \A r \in 1 .. n : vals[r] = V[r - 1]
    BY <1>1
  <2>3. W = V
    <3>1. Awaited(k, p, n) = 0 .. n - 1
      BY <1>1, <1>3 DEF Awaited
    <3>2. QED
      BY <1>1, <3>1 DEF Gets
  <2>4. k.op = "sum" => Received(k, p, n, m, W) = [m EXCEPT ![k.var] = PlusAll(vals)]
    BY <1>3, <2>3 DEF Received
  <2>5. k.op = "max" => Received(k, p, n, m, W) = [m EXCEPT ![k.var] = MaxOfAll(vals)]
    BY <1>3, <2>3 DEF Received
  <2> HIDE DEF vals
  <2>6. ASSUME NEW r \in 2 .. n, NEW l \in 1 .. L
        PROVE  R[r][l] = IF k.op = "sum" THEN R[r - 1][l] + vals[r][l] ELSE Larger(R[r - 1][l], vals[r][l])
    <3>1. PICK h \in 1 .. n - 1 : h = r - 1 /\ r = h + 1 /\ r \in 1 .. n
      BY <1>1
    <3>2. QED
      BY <1>1, <2>2, <3>1
  <2>7. CASE k.op = "sum"
    <3>1. \A r \in 2 .. n : \A l \in 1 .. L : R[r][l] = R[r - 1][l] + vals[r][l]
      BY <2>6, <2>7
    <3>2. PlusAll(vals) = R[n]
      BY <1>1, <2>1, <2>2, <3>1, PlusAllIs
    <3>3. QED
      BY <1>3, <2>4, <2>7, <3>2 DEF StoresOf, Rooted
  <2>8. CASE k.op = "max"
    <3>1. \A r \in 2 .. n : \A l \in 1 .. L : R[r][l] = Larger(R[r - 1][l], vals[r][l])
      BY <2>6, <2>8
    <3>2. MaxOfAll(vals) = R[n]
      BY <1>1, <2>1, <2>2, <3>1, MaxOfAllIs
    <3>3. QED
      BY <1>3, <2>5, <2>8, <3>2 DEF StoresOf, Rooted
  <2>9. QED
    BY <1>1, <2>7, <2>8
<1>4. QED
  BY <1>2, <1>3

\* Likewise for the gathering of pieces.
Gathers(k, o, n) ==
  /\ k.op = "gather" /\ k.offsets \in [1 .. n -> Int]
  /\ \A r \in 1 .. n : k.offsets[r] = o[r - 1]

\* The master has the pieces put together.
LEMMA GatheredIs ==
    ASSUME NEW A, NEW V, NEW o, NEW n \in Nat \ {0}, Cut(A, V, o, n), NEW k, Gathers(k, o, n), NEW m, NEW p,
           NEW W, Gets(W, V, k, p, n)
    PROVE  Received(k, p, n, m, W) = Rooted(m, k, p, A)
<1>1. CASE p # MASTER
  BY <1>1 DEF Received, Gathers, Rooted
<1>2. CASE p = MASTER
  <2>1. Awaited(k, p, n) = 0 .. n - 1
    BY <1>2 DEF Awaited, Gathers
  <2>2. W = V
    BY <2>1 DEF Cut, Gets
  <2>3. k.op = "gather" /\ k.offsets \in [1 .. n -> Int] /\ \A r \in 1 .. n : k.offsets[r] = o[r - 1]
    BY DEF Gathers
  <2>5. Received(k, MASTER, n, m, V) = [m EXCEPT ![k.var] = A]
    BY <2>3, GatherIs
  <2>4. QED
    BY <1>2, <2>2, <2>5 DEF Rooted
<1>3. QED
  BY <1>1, <1>2

\* An array cut into n pieces of l.
Rowed(A, val, n, l) ==
  /\ n \in Nat \ {0} /\ l \in Nat /\ A \in [1 .. n * l -> Int]
  /\ val \in [0 .. n - 1 -> Seq(Int)]
  /\ \A q \in 0 .. n - 1 : Len(val[q]) = l
  /\ \A q \in 0 .. n - 1 : \A k \in 1 .. l : val[q][k] = A[q * l + k]

\* Rows are equal pieces.
LEMMA EqualCut ==
    ASSUME NEW n, NEW l, NEW A, NEW val, Rowed(A, val, n, l)
    PROVE  Cut(A, val, [r \in 0 .. n |-> r * l], n)
<1>0. /\ n \in Nat \ {0} /\ l \in Nat /\ A \in [1 .. n * l -> Int]
      /\ val \in [0 .. n - 1 -> Seq(Int)]
      /\ \A q \in 0 .. n - 1 : Len(val[q]) = l
      /\ \A q \in 0 .. n - 1 : \A k \in 1 .. l : val[q][k] = A[q * l + k]
  BY DEF Rowed
<1>p. PICK o : o = [r \in 0 .. n |-> r * l]
  OBVIOUS
<1>1. \A r \in 0 .. n : o[r] = r * l /\ r * l \in Nat
  BY <1>0, <1>p, SMT
<1>2. o \in [0 .. n -> Nat] /\ o[0] = 0 /\ o[n] = n * l
  <2>1. 0 * l = 0 /\ 0 \in 0 .. n /\ n \in 0 .. n
    BY <1>0
  <2>2. QED
    BY <1>p, <1>1, <2>1
<1>3. ASSUME NEW r \in 1 .. n
      PROVE  /\ o[r] = o[r - 1] + Len(val[r - 1])
             /\ \A k \in 1 .. Len(val[r - 1]) : val[r - 1][k] = A[o[r - 1] + k]
  <2>1. PICK q \in 0 .. n - 1 : q = r - 1 /\ q \in 0 .. n /\ r \in 0 .. n
    BY <1>0
  <2>2. r * l = q * l + l
    BY <1>0, <2>1
  <2>3. o[q] = q * l /\ o[r] = r * l /\ Len(val[q]) = l
    BY <1>0, <1>1, <2>1
  <2>4. o[r] = o[q] + Len(val[q])
    BY <2>2, <2>3
  <2>5. \A k \in 1 .. Len(val[q]) : val[q][k] = A[o[q] + k]
    BY <1>0, <2>3
  <2>6. QED
    BY <2>1, <2>4, <2>5
<1>4. A \in [1 .. o[n] -> Int]
  BY <1>0, <1>2
<1>5. Cut(A, val, o, n)
  BY <1>0, <1>2, <1>3, <1>4 DEF Cut
<1>6. QED
  BY <1>p, <1>5

\* How the closed form of the sum of squares grows, in polynomials.
LEMMA SquaresStep ==
    ASSUME NEW k \in Nat
    PROVE  (k + 1) * ((k + 1) + 1) * (2 * (k + 1) + 1) = k * (k + 1) * (2 * k + 1) + 6 * ((k + 1) * (k + 1))
<1>1. PICK x \in Nat : x = k * k
  OBVIOUS
<1>2. PICK y \in Nat : y = x * k
  BY <1>1
<1>3. k * (k + 1) = x + k
  BY <1>1
<1>4. (x + k) * (2 * k + 1) = 2 * y + 3 * x + k
  BY <1>1, <1>2
<1>5. (k + 1) * (k + 1) = x + 2 * k + 1
  BY <1>1
<1>6. (k + 1) * ((k + 1) + 1) = x + 3 * k + 2
  BY <1>1
<1>7. (x + 3 * k + 2) * (2 * (k + 1) + 1) = 2 * y + 9 * x + 13 * k + 6
  BY <1>1, <1>2
<1>8. QED
  BY <1>1, <1>2, <1>3, <1>4, <1>5, <1>6, <1>7

\* A sixth of six times a number.
LEMMA SixthOf == ASSUME NEW s \in Nat PROVE (6 * s) \div 6 = s
  OBVIOUS

\* The closed form is a natural number.
LEMMA SumOfSquaresIs ==
    \A k \in Nat : SumOfSquares(k) \in Nat /\ 6 * SumOfSquares(k) = k * (k + 1) * (2 * k + 1)
<1> SUFFICES ASSUME NEW m \in Nat
             PROVE  SumOfSquares(m) \in Nat /\ 6 * SumOfSquares(m) = m * (m + 1) * (2 * m + 1)
  OBVIOUS
<1> DEFINE T == { k \in 0 .. m : \E s \in Nat : 6 * s = k * (k + 1) * (2 * k + 1) }
<1>1. 0 \in T
  <2>1. 6 * 0 = 0 * (0 + 1) * (2 * 0 + 1)
    OBVIOUS
  <2>2. QED
    BY <2>1
<1>2. ASSUME NEW k \in 1 .. m, k - 1 \in T PROVE k \in T
  <2>1. PICK h \in Nat : h = k - 1 /\ k = h + 1
    OBVIOUS
  <2>2. PICK s \in Nat : 6 * s = h * (h + 1) * (2 * h + 1)
    BY <1>2, <2>1
  <2>3. (h + 1) * ((h + 1) + 1) * (2 * (h + 1) + 1) = 6 * s + 6 * ((h + 1) * (h + 1))
    BY <2>2, SquaresStep
  <2>4. PICK r \in Nat : r = (h + 1) * (h + 1)
    OBVIOUS
  <2>5. 6 * s + 6 * r = 6 * (s + r) /\ s + r \in Nat
    OBVIOUS
  <2>6. 6 * (s + r) = k * (k + 1) * (2 * k + 1)
    BY <2>1, <2>3, <2>4, <2>5
  <2>7. QED
    BY <2>5, <2>6
<1>3. m \in T
  <2> HIDE DEF T
  <2>1. QED
    BY <1>1, <1>2, Upwards
<1>4. PICK s \in Nat : 6 * s = m * (m + 1) * (2 * m + 1)
  BY <1>3
<1>5. SumOfSquares(m) = s
  <2>1. SumOfSquares(m) = (6 * s) \div 6
    BY <1>4 DEF SumOfSquares
  <2>2. QED
    BY <2>1, SixthOf
<1>6. QED
  BY <1>4, <1>5

\* It grows by the next square, so it is the sum of the squares up to k.
LEMMA SumOfSquaresNext ==
    /\ SumOfSquares(1) = 1
    /\ \A k \in Nat : SumOfSquares(k + 1) = SumOfSquares(k) + (k + 1) * (k + 1)
<1>1. SumOfSquares(1) = 1
  BY DEF SumOfSquares
<1>2. ASSUME NEW k \in Nat PROVE SumOfSquares(k + 1) = SumOfSquares(k) + (k + 1) * (k + 1)
  <2>1. PICK s \in Nat, t \in Nat, r \in Nat :
          s = SumOfSquares(k) /\ t = SumOfSquares(k + 1) /\ r = (k + 1) * (k + 1)
    <3>1. k + 1 \in Nat /\ (k + 1) * (k + 1) \in Nat
      OBVIOUS
    <3>2. SumOfSquares(k) \in Nat /\ SumOfSquares(k + 1) \in Nat
      BY <3>1, SumOfSquaresIs
    <3>3. QED
      BY <3>1, <3>2
  <2>2. 6 * s = k * (k + 1) * (2 * k + 1)
    BY <2>1, SumOfSquaresIs
  <2>3. 6 * t = (k + 1) * ((k + 1) + 1) * (2 * (k + 1) + 1)
    BY <2>1, SumOfSquaresIs
  <2>4. 6 * t = 6 * s + 6 * r
    BY <2>1, <2>2, <2>3, SquaresStep
  <2>5. t = s + r
    BY <2>4
  <2>6. QED
    BY <2>1, <2>5
<1>3. QED
  BY <1>1, <1>2

\* Likewise the sum of the ranks below k.
LEMMA SumOfRanksNext ==
    /\ SumOfRanks(1) = 0
    /\ \A k \in Nat : SumOfRanks(k) \in Nat /\ SumOfRanks(k + 1) = SumOfRanks(k) + k
<1>1. SumOfRanks(1) = 0
  BY DEF SumOfRanks
<1>2. ASSUME NEW m \in Nat PROVE \E s \in Nat : 2 * s = m * (m - 1)
  <2>1. PICK q \in Nat : m = 2 * q \/ m = 2 * q + 1
    <3>1. m = 2 * (m \div 2) \/ m = 2 * (m \div 2) + 1
      OBVIOUS
    <3>2. m \div 2 \in Nat
      OBVIOUS
    <3>3. QED
      BY <3>1, <3>2
  <2>2. PICK x \in Nat : x = q * q
    OBVIOUS
  <2>3. CASE m = 2 * q
    <3>1. m * (m - 1) = 4 * x - 2 * q
      BY <2>2, <2>3
    <3>2. 2 * (2 * x - q) = m * (m - 1) /\ 2 * x - q \in Int
      BY <3>1
    <3>3. x >= q
      BY <2>2
    <3>4. 2 * x - q \in Nat
      BY <3>3
    <3>5. QED
      BY <3>2, <3>4
  <2>4. CASE m = 2 * q + 1
    <3>1. m * (m - 1) = 4 * x + 2 * q
      BY <2>2, <2>4
    <3>2. 2 * (2 * x + q) = m * (m - 1) /\ 2 * x + q \in Nat
      BY <3>1
    <3>3. QED
      BY <3>2
  <2>5. QED
    BY <2>1, <2>3, <2>4
<1>3. ASSUME NEW s \in Nat PROVE (2 * s) \div 2 = s
  OBVIOUS
<1>4. ASSUME NEW m \in Nat PROVE SumOfRanks(m) \in Nat /\ 2 * SumOfRanks(m) = m * (m - 1)
  <2>1. PICK s \in Nat : 2 * s = m * (m - 1)
    BY <1>2
  <2>2. SumOfRanks(m) = (2 * s) \div 2
    BY <2>1 DEF SumOfRanks
  <2>3. QED
    BY <1>3, <2>1, <2>2
<1>5. ASSUME NEW k \in Nat PROVE SumOfRanks(k + 1) = SumOfRanks(k) + k
  <2>1. PICK s \in Nat, t \in Nat, x \in Nat :
          s = SumOfRanks(k) /\ t = SumOfRanks(k + 1) /\ x = k * k
    BY <1>4, SMTT(30)
  <2>2. 2 * s = x - k /\ 2 * t = x + k
    <3>1. 2 * s = k * (k - 1) /\ 2 * t = (k + 1) * ((k + 1) - 1)
      BY <1>4, <2>1
    <3>2. k * (k - 1) = x - k /\ (k + 1) * ((k + 1) - 1) = x + k
      BY <2>1
    <3>3. QED
      BY <3>1, <3>2
  <2>3. t = s + k
    BY <2>2
  <2>4. QED
    BY <2>1, <2>3
<1>6. QED
  BY <1>1, <1>4, <1>5

\* The sum of the squares, and the largest of them.
LEMMA SquaresReduce ==
    ASSUME NEW n \in Nat \ {0}, NEW V, V = [q \in 0 .. n - 1 |-> Square(q)]
    PROVE  /\ Reduces(V, [r \in 1 .. n |-> << SumOfSquares(r) >>], n, 1, "sum")
           /\ Reduces(V, [r \in 1 .. n |-> << r * r >>], n, 1, "max")
<1>1. \A q \in 0 .. n - 1 : V[q] \in [1 .. 1 -> Int] /\ V[q][1] = (q + 1) * (q + 1)
  BY DEF Square
<1>2. V \in [0 .. n - 1 -> [1 .. 1 -> Int]]
  BY <1>1
<1>3. V[0] = << 1 >>
  BY DEF Square
<1>4. ASSUME NEW R, R = [r \in 1 .. n |-> << SumOfSquares(r) >>] PROVE Reduces(V, R, n, 1, "sum")
  <2>1. \A r \in 1 .. n : << SumOfSquares(r) >> \in [1 .. 1 -> Int]
    BY SumOfSquaresIs
  <2>2. R \in [1 .. n -> [1 .. 1 -> Int]]
    BY <1>4, <2>1
  <2>3. R[1] = V[0]
    <3>1. R[1] = << SumOfSquares(1) >>
      BY <1>4
    <3>2. QED
      BY <1>3, <3>1, SumOfSquaresNext
  <2>4. ASSUME NEW h \in 1 .. n - 1 PROVE R[h + 1][1] = R[h][1] + V[h][1]
    <3>1. h \in 1 .. n /\ h + 1 \in 1 .. n /\ h \in 0 .. n - 1 /\ h \in Nat
      OBVIOUS
    <3>2. R[h + 1][1] = SumOfSquares(h + 1) /\ R[h][1] = SumOfSquares(h)
      BY <1>4, <3>1
    <3>3. QED
      BY <1>1, <3>1, <3>2, SumOfSquaresNext
  <2>5. \A h \in 1 .. n - 1 : \A l \in 1 .. 1 : R[h + 1][l] = R[h][l] + V[h][l]
    BY <2>4, SMTT(30)
  <2>6. QED
    BY <1>2, <2>2, <2>3, <2>5 DEF Reduces
<1>5. ASSUME NEW R, R = [r \in 1 .. n |-> << r * r >>] PROVE Reduces(V, R, n, 1, "max")
  <2>1. R \in [1 .. n -> [1 .. 1 -> Int]]
    BY <1>5
  <2>2. R[1] = V[0]
    <3>1. R[1] = << 1 * 1 >>
      BY <1>5
    <3>2. QED
      BY <1>3, <3>1
  <2>3. ASSUME NEW h \in 1 .. n - 1 PROVE R[h + 1][1] = Larger(R[h][1], V[h][1])
    <3>1. h \in 1 .. n /\ h + 1 \in 1 .. n /\ h \in 0 .. n - 1 /\ h \in Nat
      OBVIOUS
    <3>2. R[h + 1][1] = (h + 1) * (h + 1) /\ R[h][1] = h * h
      BY <1>5, <3>1
    <3>3. PICK x \in Nat : x = h * h
      BY <3>1
    <3>4. (h + 1) * (h + 1) = x + 2 * h + 1
      BY <3>3
    <3>5. ~(x >= x + 2 * h + 1)
      BY <3>1
    <3>6. QED
      BY <1>1, <3>1, <3>2, <3>3, <3>4, <3>5 DEF Larger
  <2>4. \A h \in 1 .. n - 1 : \A l \in 1 .. 1 : R[h + 1][l] = Larger(R[h][l], V[h][l])
    BY <2>3, SMTT(30)
  <2>5. QED
    BY <1>2, <2>1, <2>2, <2>4 DEF Reduces
<1>6. QED
  BY <1>4, <1>5

\* The sums of the arrays of multiples of the ranks, and their largest.
LEMMA MultiplesReduce ==
    ASSUME NEW n \in Nat \ {0}
    PROVE  /\ Reduces([q \in 0 .. n - 1 |-> Multiples(q)], [r \in 1 .. n |-> RankSums(r)], n, 5, "sum")
           /\ Reduces([q \in 0 .. n - 1 |-> PyMultiples(q)], [r \in 1 .. n |-> PyLargest(r)], n, 5, "max")
<1>1. ASSUME NEW V, V = [q \in 0 .. n - 1 |-> Multiples(q)],
             NEW R, R = [r \in 1 .. n |-> RankSums(r)]
      PROVE  Reduces(V, R, n, 5, "sum")
  <2>1. \A q \in 0 .. n - 1 : Multiples(q) \in [1 .. 5 -> Int]
    BY DEF Multiples
  <2>2. V \in [0 .. n - 1 -> [1 .. 5 -> Int]]
    BY <1>1, <2>1
  <2>3. \A r \in 1 .. n : RankSums(r) \in [1 .. 5 -> Int]
    BY SumOfRanksNext DEF RankSums
  <2>4. R \in [1 .. n -> [1 .. 5 -> Int]]
    BY <1>1, <2>3
  <2>5. R[1] = V[0]
    <3>1. RankSums(1) = [i \in 1 .. 5 |-> 0]
      BY SumOfRanksNext DEF RankSums
    <3>2. Multiples(0) = [i \in 1 .. 5 |-> 0]
      BY DEF Multiples
    <3>3. QED
      BY <1>1, <3>1, <3>2
  <2>6. ASSUME NEW h \in 1 .. n - 1, NEW l \in 1 .. 5 PROVE R[h + 1][l] = R[h][l] + V[h][l]
    <3>1. h \in 1 .. n /\ h + 1 \in 1 .. n /\ h \in 0 .. n - 1 /\ h \in Nat
      OBVIOUS
    <3>2. PICK s \in Nat : s = SumOfRanks(h) /\ SumOfRanks(h + 1) = s + h
      BY <3>1, SumOfRanksNext
    <3>3. R[h + 1][l] = (l - 1) * (s + h) /\ R[h][l] = (l - 1) * s
      BY <1>1, <3>1, <3>2 DEF RankSums
    <3>4. V[h][l] = h * (l - 1)
      BY <1>1, <3>1 DEF Multiples
    <3>5. (l - 1) * (s + h) = (l - 1) * s + h * (l - 1)
      BY <3>1
    <3>6. QED
      BY <3>3, <3>4, <3>5
  <2>7. QED
    BY <2>2, <2>4, <2>5, <2>6 DEF Reduces
<1>2. ASSUME NEW V, V = [q \in 0 .. n - 1 |-> PyMultiples(q)],
             NEW R, R = [r \in 1 .. n |-> PyLargest(r)]
      PROVE  Reduces(V, R, n, 5, "max")
  <2>1. \A q \in 0 .. n - 1 : PyMultiples(q) \in [1 .. 5 -> Int]
    BY DEF PyMultiples
  <2>2. V \in [0 .. n - 1 -> [1 .. 5 -> Int]]
    BY <1>2, <2>1
  <2>3. \A r \in 1 .. n : PyLargest(r) \in [1 .. 5 -> Int]
    BY DEF PyLargest
  <2>4. R \in [1 .. n -> [1 .. 5 -> Int]]
    BY <1>2, <2>3
  <2>5. R[1] = V[0]
    BY <1>2 DEF PyLargest, PyMultiples
  <2>6. ASSUME NEW h \in 1 .. n - 1, NEW l \in 1 .. 5 PROVE R[h + 1][l] = Larger(R[h][l], V[h][l])
    <3>1. h \in 1 .. n /\ h + 1 \in 1 .. n /\ h \in 0 .. n - 1 /\ h \in Nat
      OBVIOUS
    <3>2. R[h + 1][l] = l * h /\ R[h][l] = l * (h - 1) /\ V[h][l] = l * h
      <4>1. R[h + 1] = PyLargest(h + 1) /\ R[h] = PyLargest(h) /\ V[h] = PyMultiples(h)
        BY <1>2, <3>1
      <4>2. (h + 1) - 1 = h
        BY <3>1
      <4>3. QED
        BY <4>1, <4>2 DEF PyLargest, PyMultiples
    <3>3. PICK x \in Int : x = l * h
      BY <3>1
    <3>4. l * (h - 1) = x - l
      BY <3>1, <3>3
    <3>5. QED
      BY <3>2, <3>3, <3>4 DEF Larger
  <2>7. QED
    BY <2>2, <2>4, <2>5, <2>6 DEF Reduces
<1>3. QED
  BY <1>1, <1>2

\* The longest of the times to sleep, and the sum of equal ones.
LEMMA TimesReduce ==
    ASSUME NEW n \in Nat \ {0}
    PROVE  /\ Reduces([q \in 0 .. n - 1 |-> << (q + 1) \div n >>], [r \in 1 .. n |-> << r \div n >>],
                      n, 1, "max")
           /\ Reduces([q \in 0 .. n - 1 |-> << 1000 >>], [r \in 1 .. n |-> << 1000 * r >>], n, 1, "sum")
<1>1. ASSUME NEW V, V = [q \in 0 .. n - 1 |-> << (q + 1) \div n >>],
             NEW R, R = [r \in 1 .. n |-> << r \div n >>]
      PROVE  Reduces(V, R, n, 1, "max")
  <2>1. \A r \in 1 .. n : r \div n = (IF r = n THEN 1 ELSE 0)
    OBVIOUS
  <2>2. \A q \in 0 .. n - 1 : q + 1 \in 1 .. n
    OBVIOUS
  <2>3. V \in [0 .. n - 1 -> [1 .. 1 -> Int]]
    <3>1. \A q \in 0 .. n - 1 : << (q + 1) \div n >> \in [1 .. 1 -> Int]
      BY <2>1, <2>2
    <3>2. QED
      BY <1>1, <3>1
  <2>4. R \in [1 .. n -> [1 .. 1 -> Int]]
    <3>1. \A r \in 1 .. n : << r \div n >> \in [1 .. 1 -> Int]
      BY <2>1
    <3>2. QED
      BY <1>1, <3>1
  <2>5. R[1] = V[0]
    BY <1>1
  <2>6. ASSUME NEW h \in 1 .. n - 1 PROVE R[h + 1][1] = Larger(R[h][1], V[h][1])
    <3>1. h \in 1 .. n /\ h + 1 \in 1 .. n /\ h \in 0 .. n - 1 /\ h # n
      OBVIOUS
    <3>2. R[h][1] = 0
      BY <1>1, <2>1, <3>1
    <3>3. R[h + 1][1] = (h + 1) \div n /\ V[h][1] = (h + 1) \div n
      BY <1>1, <3>1
    <3>4. (h + 1) \div n \in {0, 1}
      BY <2>1, <3>1
    <3>5. QED
      BY <3>2, <3>3, <3>4 DEF Larger
  <2>7. QED
    BY <2>3, <2>4, <2>5, <2>6 DEF Reduces
<1>2. ASSUME NEW V, V = [q \in 0 .. n - 1 |-> << 1000 >>],
             NEW R, R = [r \in 1 .. n |-> << 1000 * r >>]
      PROVE  Reduces(V, R, n, 1, "sum")
  <2>1. V \in [0 .. n - 1 -> [1 .. 1 -> Int]] /\ R \in [1 .. n -> [1 .. 1 -> Int]] /\ R[1] = V[0]
    BY <1>2
  <2>2. ASSUME NEW h \in 1 .. n - 1 PROVE R[h + 1][1] = R[h][1] + V[h][1]
    <3>1. h \in 1 .. n /\ h + 1 \in 1 .. n /\ h \in 0 .. n - 1
      OBVIOUS
    <3>2. QED
      BY <1>2, <3>1
  <2>3. QED
    BY <2>1, <2>2 DEF Reduces
<1>3. QED
  BY <1>1, <1>2

\* Where row q of an array with rows of three, or of five, is.
LEMMA InRow ==
    ASSUME NEW n \in Nat \ {0}, NEW q \in 0 .. n - 1
    PROVE  /\ \A k \in 1 .. 3 : /\ q * 3 + k \in 1 .. 3 * n /\ q * 3 + k \in 1 .. n * 3
                                /\ ((q * 3 + k) - 1) \div 3 = q /\ ((q * 3 + k) - 1) % 3 = k - 1
           /\ \A k \in 1 .. 5 : /\ q * 5 + k \in 1 .. 5 * n /\ q * 5 + k \in 1 .. n * 5
                                /\ ((q * 5 + k) - 1) \div 5 = q /\ ((q * 5 + k) - 1) % 5 = k - 1
  OBVIOUS

\* The arrays of the programs, cut into what each process holds.
LEMMA CollectionCut ==
    ASSUME NEW j, KeyJob(j), NEW n \in Nat \ {0}, n = j.np
    PROVE  /\ Cut(Collection(j), [q \in 0 .. n - 1 |-> Held(j, q)], [r \in 0 .. n |-> r * 3], n)
           /\ Cut(PyAllMultiples(n), [q \in 0 .. n - 1 |-> PyMultiples(q)], [r \in 0 .. n |-> r * 5], n)
           /\ Cut(AllTens(n), [q \in 0 .. n - 1 |-> TenTimes(Triple(q))], [r \in 0 .. n |-> r * 3], n)
<1>0. 3 * n = n * 3 /\ 5 * n = n * 5 /\ 3 \in Nat /\ 5 \in Nat
  OBVIOUS
<1>1. ASSUME NEW A, A = Collection(j), NEW V, V = [q \in 0 .. n - 1 |-> Held(j, q)],
             NEW o, o = [r \in 0 .. n |-> r * 3]
      PROVE  Cut(A, V, o, n)
  <2>1. \A q \in 0 .. n - 1 : Held(j, q) \in Seq(Int) /\ Len(Held(j, q)) = 3
    BY DEF Held, Tens, PyTens
  <2>2. V \in [0 .. n - 1 -> Seq(Int)] /\ \A q \in 0 .. n - 1 : Len(V[q]) = 3
    BY <1>1, <2>1
  <2>3. A \in [1 .. n * 3 -> Int]
    <3>1. \A k \in 1 .. 3 * n : (k - 1) \div 3 \in Int /\ (k - 1) % 3 \in Int
      OBVIOUS
    <3>2. \A k \in 1 .. 3 * n : /\ ((k - 1) \div 3) * 10 * (((k - 1) % 3) + 1) \in Int
                                /\ ((k - 1) \div 3) * 10 + ((k - 1) % 3) \in Int
      BY <3>1
    <3>3. QED
      BY <1>0, <1>1, <3>2 DEF Collection
  <2>4. ASSUME NEW q \in 0 .. n - 1, NEW k \in 1 .. 3 PROVE V[q][k] = A[q * 3 + k]
    <3>1. V[q][k] = IF j.lang = "Python" THEN (q * 10) * k ELSE q * 10 + (k - 1)
      BY <1>1 DEF Held, Tens, PyTens
    <3>2. PICK x : x = q * 3 + k /\ x \in 1 .. 3 * n /\ (x - 1) \div 3 = q /\ (x - 1) % 3 = k - 1
      BY InRow
    <3>3. A[x] = IF j.lang = "Python" THEN ((x - 1) \div 3) * 10 * (((x - 1) % 3) + 1)
                                      ELSE ((x - 1) \div 3) * 10 + ((x - 1) % 3)
      BY <1>1, <3>2 DEF Collection
    <3>4. A[x] = IF j.lang = "Python" THEN q * 10 * ((k - 1) + 1) ELSE q * 10 + (k - 1)
      BY <3>2, <3>3
    <3>5. (k - 1) + 1 = k
      OBVIOUS
    <3>6. QED
      BY <3>1, <3>2, <3>4, <3>5
  <2>5. Rowed(A, V, n, 3)
    BY <1>0, <2>2, <2>3, <2>4 DEF Rowed
  <2>6. QED
    BY <1>1, <2>5, EqualCut
<1>2. ASSUME NEW A, A = PyAllMultiples(n), NEW V, V = [q \in 0 .. n - 1 |-> PyMultiples(q)],
             NEW o, o = [r \in 0 .. n |-> r * 5]
      PROVE  Cut(A, V, o, n)
  <2>1. \A q \in 0 .. n - 1 : PyMultiples(q) \in Seq(Int) /\ Len(PyMultiples(q)) = 5
    BY DEF PyMultiples
  <2>2. V \in [0 .. n - 1 -> Seq(Int)] /\ \A q \in 0 .. n - 1 : Len(V[q]) = 5
    BY <1>2, <2>1
  <2>3. A \in [1 .. n * 5 -> Int]
    <3>1. \A k \in 1 .. 5 * n : (k - 1) \div 5 \in Int /\ (k - 1) % 5 \in Int
      OBVIOUS
    <3>2. \A k \in 1 .. 5 * n : ((k - 1) \div 5) * (((k - 1) % 5) + 1) \in Int
      BY <3>1
    <3>3. QED
      BY <1>0, <1>2, <3>2 DEF PyAllMultiples
  <2>4. ASSUME NEW q \in 0 .. n - 1, NEW k \in 1 .. 5 PROVE V[q][k] = A[q * 5 + k]
    <3>1. V[q][k] = k * q
      BY <1>2 DEF PyMultiples
    <3>2. PICK x : x = q * 5 + k /\ x \in 1 .. 5 * n /\ (x - 1) \div 5 = q /\ (x - 1) % 5 = k - 1
      BY InRow
    <3>3. A[x] = ((x - 1) \div 5) * (((x - 1) % 5) + 1)
      BY <1>2, <3>2 DEF PyAllMultiples
    <3>4. A[x] = q * ((k - 1) + 1)
      BY <3>2, <3>3
    <3>5. q * ((k - 1) + 1) = k * q
      OBVIOUS
    <3>6. QED
      BY <3>1, <3>2, <3>4, <3>5
  <2>5. Rowed(A, V, n, 5)
    BY <1>0, <2>2, <2>3, <2>4 DEF Rowed
  <2>6. QED
    BY <1>2, <2>5, EqualCut
<1>3. ASSUME NEW A, A = AllTens(n), NEW V, V = [q \in 0 .. n - 1 |-> TenTimes(Triple(q))],
             NEW o, o = [r \in 0 .. n |-> r * 3]
      PROVE  Cut(A, V, o, n)
  <2>1. \A q \in 0 .. n - 1 : TenTimes(Triple(q)) = [k \in 1 .. 3 |-> 10 * (3 * q + k)]
    <3>1. ASSUME NEW q \in 0 .. n - 1
          PROVE  TenTimes(Triple(q)) = [k \in 1 .. 3 |-> 10 * (3 * q + k)]
      <4>1. PICK t : t = Triple(q)
        OBVIOUS
      <4>2. t = [k \in 1 .. 3 |-> 3 * q + k]
        BY <4>1 DEF Triple
      <4>3. Len(t) = 3 /\ \A k \in 1 .. 3 : t[k] = 3 * q + k
        BY <4>2
      <4>4. TenTimes(t) = [k \in 1 .. Len(t) |-> 10 * t[k]]
        BY DEF TenTimes
      <4>5. QED
        BY <4>1, <4>3, <4>4
    <3>2. QED
      BY <3>1
  <2>2. \A q \in 0 .. n - 1 : TenTimes(Triple(q)) \in Seq(Int) /\ Len(TenTimes(Triple(q))) = 3
    <3>1. ASSUME NEW q \in 0 .. n - 1
          PROVE  TenTimes(Triple(q)) \in Seq(Int) /\ Len(TenTimes(Triple(q))) = 3
      <4>1. PICK t : t = [k \in 1 .. 3 |-> 10 * (3 * q + k)]
        OBVIOUS
      <4>2. t \in Seq(Int) /\ Len(t) = 3
        BY <4>1
      <4>3. QED
        BY <2>1, <4>1, <4>2
    <3>2. QED
      BY <3>1
  <2>3. V \in [0 .. n - 1 -> Seq(Int)] /\ \A q \in 0 .. n - 1 : Len(V[q]) = 3
    BY <1>3, <2>2
  <2>4. A \in [1 .. n * 3 -> Int]
    BY <1>0, <1>3 DEF AllTens
  <2>5. ASSUME NEW q \in 0 .. n - 1, NEW k \in 1 .. 3 PROVE V[q][k] = A[q * 3 + k]
    <3>1. V[q][k] = 10 * (3 * q + k)
      BY <1>3, <2>1
    <3>2. PICK x \in 1 .. 3 * n : x = q * 3 + k
      BY InRow
    <3>3. A[x] = 10 * x
      BY <1>3 DEF AllTens
    <3>4. QED
      BY <3>1, <3>2, <3>3
  <2>6. Rowed(A, V, n, 3)
    BY <1>0, <2>3, <2>4, <2>5 DEF Rowed
  <2>7. QED
    BY <1>3, <2>6, EqualCut
<1>4. QED
  BY <1>1, <1>2, <1>3

\* What is scattered in equal pieces.
LEMMA PartsCut ==
    ASSUME NEW j, KeyJob(j), NEW n \in Nat \ {0}, n = j.np
    PROVE  LET l == IF j.lang = "Python" THEN 3 ELSE 8 \div n
               A == IF j.lang = "Python"
                      THEN [k \in 1 .. 3 * n |-> (((k - 1) \div 3) + 1) * (((k - 1) % 3) + 1)]
                      ELSE [k \in 1 .. 8 - (8 % n) |-> 11 * k]
           IN  Cut(A, [q \in 0 .. n - 1 |-> Part(j, q)], [r \in 0 .. n |-> r * l], n)
<1>1. CASE j.lang = "Python"
  <2>1. ASSUME NEW A, A = [k \in 1 .. 3 * n |-> (((k - 1) \div 3) + 1) * (((k - 1) % 3) + 1)],
               NEW V, V = [q \in 0 .. n - 1 |-> Part(j, q)], NEW o, o = [r \in 0 .. n |-> r * 3]
        PROVE  Cut(A, V, o, n)
    <3>1. \A q \in 0 .. n - 1 : Part(j, q) \in Seq(Int) /\ Len(Part(j, q)) = 3
      BY <1>1 DEF Part
    <3>2. V \in [0 .. n - 1 -> Seq(Int)] /\ \A q \in 0 .. n - 1 : Len(V[q]) = 3
      BY <2>1, <3>1
    <3>3. A \in [1 .. n * 3 -> Int]
      <4>1. \A k \in 1 .. 3 * n : (k - 1) \div 3 \in Int /\ (k - 1) % 3 \in Int
        OBVIOUS
      <4>2. \A k \in 1 .. 3 * n : (((k - 1) \div 3) + 1) * (((k - 1) % 3) + 1) \in Int
        BY <4>1
      <4>3. 3 * n = n * 3
        OBVIOUS
      <4>4. QED
        BY <2>1, <4>2, <4>3
    <3>4. ASSUME NEW q \in 0 .. n - 1, NEW k \in 1 .. 3 PROVE V[q][k] = A[q * 3 + k]
      <4>1. V[q][k] = (q + 1) * k
        BY <1>1, <2>1 DEF Part
      <4>2. PICK x : x = q * 3 + k /\ x \in 1 .. 3 * n /\ (x - 1) \div 3 = q /\ (x - 1) % 3 = k - 1
        BY InRow
      <4>3. A[x] = (((x - 1) \div 3) + 1) * (((x - 1) % 3) + 1)
        BY <2>1, <4>2
      <4>4. A[x] = (q + 1) * ((k - 1) + 1)
        BY <4>2, <4>3
      <4>5. (k - 1) + 1 = k
        OBVIOUS
      <4>6. QED
        BY <4>1, <4>2, <4>4, <4>5
    <3>5. Rowed(A, V, n, 3)
      BY <3>2, <3>3, <3>4 DEF Rowed
    <3>6. QED
      BY <2>1, <3>5, EqualCut
  <2>2. QED
    BY <1>1, <2>1
<1>2. CASE j.lang # "Python"
  <2>1. ASSUME NEW A, A = [k \in 1 .. 8 - (8 % n) |-> 11 * k], NEW l, l = 8 \div n,
               NEW V, V = [q \in 0 .. n - 1 |-> Part(j, q)], NEW o, o = [r \in 0 .. n |-> r * l]
        PROVE  Cut(A, V, o, n)
    <3>0. PICK N \in Nat : N = 8
      OBVIOUS
    <3>q. N \div n \in Nat /\ N % n \in 0 .. n - 1 /\ N = n * (N \div n) + (N % n)
      BY DivMod
    <3>1. l \in Nat /\ 8 % n \in Nat /\ 8 = n * l + (8 % n)
      BY <2>1, <3>0, <3>q
    <3>2. n * l = 8 - (8 % n) /\ n * l \in Nat /\ n * l <= 8
      BY <3>1
    <3>3. A \in [1 .. n * l -> Int]
      BY <2>1, <3>2
    <3>4. ASSUME NEW q \in 0 .. n - 1, NEW k \in 1 .. l PROVE q * l + k \in 1 .. n * l
      <4>1. (q + 1) * l <= n * l
        <5>1. q + 1 \in Nat /\ n \in Nat /\ q + 1 <= n
          OBVIOUS
        <5>2. QED
          BY <3>1, <5>1, ProductMonotone
      <4>2. (q + 1) * l = q * l + l /\ q * l \in Nat
        BY <3>1
      <4>3. PICK a \in Nat, b \in Nat : a = q * l /\ b = n * l
        BY <3>2, <4>2
      <4>4. a + l <= b
        BY <4>1, <4>2, <4>3
      <4>5. a + k \in 1 .. b
        BY <3>1, <4>4
      <4>6. QED
        BY <4>3, <4>5
    <3>5. ASSUME NEW q \in 0 .. n - 1
          PROVE  Part(j, q) = [k \in 1 .. l |-> 11 * (q * l + k)]
      <4>1. Part(j, q) = [k \in 1 .. l |-> Elevens[q * l + k]]
        BY <1>2, <2>1 DEF Part, Piece
      <4>2. ASSUME NEW k \in 1 .. l PROVE Elevens[q * l + k] = 11 * (q * l + k)
        <5>1. PICK x \in 1 .. 8 : x = q * l + k
          <6>1. PICK x : x = q * l + k
            OBVIOUS
          <6>b. PICK b \in Nat : b = n * l
            BY <3>2
          <6>2. x \in 1 .. b /\ b <= 8
            BY <3>2, <3>4, <6>1, <6>b
          <6>3. x \in 1 .. 8
            BY <6>2
          <6>4. QED
            BY <6>1, <6>3
        <5>2. Elevens[x] = x * 11
          BY DEF Elevens
        <5>3. QED
          BY <5>1, <5>2
      <4>3. QED
        BY <4>1, <4>2
    <3>6. \A q \in 0 .. n - 1 : Part(j, q) \in Seq(Int) /\ Len(Part(j, q)) = l
      <4>1. ASSUME NEW q \in 0 .. n - 1 PROVE Part(j, q) \in Seq(Int) /\ Len(Part(j, q)) = l
        <5>1. \A k \in 1 .. l : 11 * (q * l + k) \in Int
          BY <3>1
        <5>2. QED
          BY <3>1, <3>5, <5>1, SMTT(30)
      <4>2. QED
        BY <4>1
    <3>7. V \in [0 .. n - 1 -> Seq(Int)] /\ \A q \in 0 .. n - 1 : Len(V[q]) = l
      BY <2>1, <3>6
    <3>8. ASSUME NEW q \in 0 .. n - 1, NEW k \in 1 .. l PROVE V[q][k] = A[q * l + k]
      <4>1. PICK x \in 1 .. n * l : x = q * l + k
        BY <3>4
      <4>2. A[x] = 11 * x
        BY <2>1, <3>2
      <4>3. V[q][k] = 11 * (q * l + k)
        BY <2>1, <3>5
      <4>4. QED
        BY <4>1, <4>2, <4>3
    <3>9. Rowed(A, V, n, l)
      BY <3>1, <3>3, <3>7, <3>8 DEF Rowed
    <3>10. QED
      BY <2>1, <3>9, EqualCut
  <2>2. QED
    BY <1>2, <2>1
<1>3. QED
  BY <1>1, <1>2

\* The pieces that are doubled: piece q lies between the beginnings of q and q + 1.
LEMMA PiecesAre ==
    ASSUME NEW j, j.prog \in Doublers, ~Refused(j), NEW n \in Nat \ {0}, n = j.np
    PROVE  \E o \in [0 .. n -> Nat] :
             /\ o[0] = 0 /\ o[n] = 8
             /\ \A q \in 0 .. n - 1 : /\ StartOf(j, q) = o[q] /\ SizeOf(j, q) \in Nat
                                      /\ o[q + 1] = o[q] + SizeOf(j, q) /\ o[q + 1] <= 8
<1>0. PICK N \in Nat : N = 8
  OBVIOUS
<1>q. N \div n \in Nat /\ N % n \in 0 .. n - 1 /\ N = n * (N \div n) + (N % n)
  BY DivMod
<1>1. PICK D \in Nat, R \in 0 .. n - 1 : D = 8 \div n /\ R = 8 % n /\ 8 = n * D + R
  BY <1>0, <1>q
<1>2. \A q \in 0 .. n : Begin(q, D, R) \in Nat
  <2>1. ASSUME NEW q \in 0 .. n PROVE Begin(q, D, R) \in Nat
    <3>1. q * D \in Nat
      OBVIOUS
    <3>2. QED
      BY <3>1 DEF Begin
  <2>2. QED
    BY <2>1
<1>3. PICK o \in [0 .. n -> Nat] : o = [q \in 0 .. n |-> Begin(q, D, R)]
  BY <1>2
<1>4. \A q \in 0 .. n : o[q] = Begin(q, D, R)
  BY <1>3
<1>5. o[0] = 0 /\ o[n] = 8
  <2>1. Begin(0, D, R) = 0
    BY DEF Begin
  <2>2. Begin(n, D, R) = n * D + R
    BY DEF Begin
  <2>3. 0 \in 0 .. n /\ n \in 0 .. n
    OBVIOUS
  <2>4. o[0] = 0
    BY <1>4, <2>1, <2>3
  <2>5. o[n] = n * D + R
    BY <1>4, <2>2, <2>3
  <2>6. QED
    BY <1>1, <2>4, <2>5
<1>6. ASSUME NEW q \in 0 .. n - 1
      PROVE  /\ StartOf(j, q) = o[q] /\ SizeOf(j, q) \in Nat
             /\ o[q + 1] = o[q] + SizeOf(j, q) /\ o[q + 1] <= 8
  <2>1. /\ SizeOf(j, q) = IF q < R THEN D + 1 ELSE D
        /\ StartOf(j, q) = Begin(q, D, R)
    <3>1. CASE j.prog = "scatterV"
      BY <1>1, <3>1, ChunkClosedForm, ZenonT(60) DEF SizeOf, StartOf, ARRAY_SIZE
    <3>2. CASE j.prog # "scatterV"
      <4>1. R = 0
        BY <1>1, <3>2 DEF Refused, Divides, ARRAY_SIZE
      <4>2. SizeOf(j, q) = D /\ StartOf(j, q) = q * D
        BY <1>1, <3>2 DEF SizeOf, StartOf, ARRAY_SIZE
      <4>3. Begin(q, D, R) = q * D
        BY <4>1 DEF Begin
      <4>4. QED
        BY <4>1, <4>2, <4>3
    <3>3. QED
      BY <3>1, <3>2
  <2>2. q \in 0 .. n /\ q + 1 \in 0 .. n /\ q \in Nat /\ q + 1 \in Nat /\ R \in Nat /\ q + 1 <= n
    OBVIOUS
  <2>3. o[q + 1] = o[q] + SizeOf(j, q)
    <3>1. Begin(q + 1, D, R) = Begin(q, D, R) + (IF q < R THEN D + 1 ELSE D)
      BY <2>2, BeginNext
    <3>2. o[q + 1] = Begin(q + 1, D, R) /\ o[q] = Begin(q, D, R)
      BY <1>4, <2>2
    <3>3. QED
      BY <2>1, <3>1, <3>2
  <2>4. o[q + 1] <= 8
    BY <1>4, <1>5, <2>2, BeginMonotone
  <2>5. QED
    BY <1>4, <2>1, <2>2, <2>3, <2>4
<1>7. QED
  BY <1>5, <1>6

\* The doubled pieces make up the doubled array.
LEMMA TwiceCut ==
    ASSUME NEW j, j.prog \in Doublers, ~Refused(j), NEW n \in Nat \ {0}, n = j.np
    PROVE  \E o : /\ Cut(Twice, [q \in 0 .. n - 1 |-> Doubled(PieceOf(j, q))], o, n)
                  /\ \A r \in 1 .. n : Offsets(j)[r] = o[r - 1]
                  /\ Offsets(j) \in [1 .. n -> Int]
<1>1. PICK o \in [0 .. n -> Nat] :
             /\ o[0] = 0 /\ o[n] = 8
             /\ \A q \in 0 .. n - 1 : /\ StartOf(j, q) = o[q] /\ SizeOf(j, q) \in Nat
                                      /\ o[q + 1] = o[q] + SizeOf(j, q) /\ o[q + 1] <= 8
  BY PiecesAre
<1>2. PICK V : V = [q \in 0 .. n - 1 |-> Doubled(PieceOf(j, q))]
  OBVIOUS
<1>3. ASSUME NEW q \in 0 .. n - 1
      PROVE  /\ V[q] \in Seq(Int) /\ Len(V[q]) = SizeOf(j, q)
             /\ \A k \in 1 .. SizeOf(j, q) : V[q][k] = 2 * ((o[q] + k) + 10) /\ o[q] + k \in 1 .. 8
  <2>1. PICK a \in Nat, l \in Nat : a = o[q] /\ l = SizeOf(j, q) /\ a = StartOf(j, q) /\ a + l <= 8
    <3>1. q \in 0 .. n
      OBVIOUS
    <3>2. o[q] \in Nat
      BY <3>1
    <3>3. QED
      BY <1>1, <3>2
  <2>2. \A k \in 1 .. l : a + k \in 1 .. 8
    <3>1. ASSUME NEW k \in 1 .. l PROVE a + k \in 1 .. 8
      <4>1. k \in Nat /\ 1 <= k /\ k <= l /\ a + l <= 8
        BY <2>1
      <4>2. a + k \in Nat /\ 1 <= a + k /\ a + k <= 8
        BY <4>1
      <4>3. QED
        BY <4>2
    <3>2. QED
      BY <3>1
  <2>3. PieceOf(j, q) = [k \in 1 .. l |-> Fill(ARRAY_SIZE)[a + k]]
    BY <2>1 DEF PieceOf, Piece
  <2>4. \A x \in 1 .. 8 : Fill(ARRAY_SIZE)[x] = x + 10
    BY DEF Fill, ARRAY_SIZE
  <2>5. PieceOf(j, q) = [k \in 1 .. l |-> (a + k) + 10]
    BY <2>2, <2>3, <2>4
  <2>6. V[q] = [k \in 1 .. l |-> 2 * ((a + k) + 10)]
    <3>1. Len(PieceOf(j, q)) = l
      BY <2>5
    <3>2. V[q] = [k \in 1 .. l |-> 2 * PieceOf(j, q)[k]]
      BY <1>2, <3>1 DEF Doubled
    <3>3. QED
      BY <2>5, <3>2
  <2>7. V[q] \in Seq(Int) /\ Len(V[q]) = l
    BY <2>6
  <2>8. QED
    BY <2>1, <2>2, <2>6, <2>7
<1>4. V \in [0 .. n - 1 -> Seq(Int)]
  BY <1>2, <1>3
<1>5. Twice \in [1 .. o[n] -> Int]
  BY <1>1 DEF Twice
<1>6. ASSUME NEW r \in 1 .. n
      PROVE  /\ o[r] = o[r - 1] + Len(V[r - 1])
             /\ \A k \in 1 .. Len(V[r - 1]) : V[r - 1][k] = Twice[o[r - 1] + k]
  <2>1. PICK q \in 0 .. n - 1 : q = r - 1 /\ r = q + 1
    OBVIOUS
  <2>2. o[q + 1] = o[q] + Len(V[q])
    BY <1>1, <1>3
  <2>3. \A x \in 1 .. 8 : Twice[x] = 2 * (x + 10)
    BY DEF Twice
  <2>4. \A k \in 1 .. Len(V[q]) : V[q][k] = Twice[o[q] + k]
    BY <1>3, <2>3
  <2>5. QED
    BY <2>1, <2>2, <2>4
<1>7. Cut(Twice, V, o, n)
  BY <1>1, <1>4, <1>5, <1>6 DEF Cut
<1>8. ASSUME NEW r \in 1 .. n PROVE Offsets(j)[r] = o[r - 1] /\ Offsets(j)[r] \in Int
  <2>1. PICK q \in 0 .. n - 1 : q = r - 1
    OBVIOUS
  <2>2. Offsets(j)[r] = StartOf(j, q)
    BY <2>1 DEF Offsets
  <2>3. o[q] \in Nat
    OBVIOUS
  <2>4. QED
    BY <1>1, <2>1, <2>2, <2>3
<1>9. Offsets(j) \in [1 .. n -> Int]
  <2>1. Offsets(j) = [r \in 1 .. n |-> Offsets(j)[r]]
    BY DEF Offsets
  <2>2. QED
    BY <1>8, <2>1
<1>10. QED
  BY <1>2, <1>7, <1>8, <1>9

\* What the processes contribute to key instruction i.
Contribute(j, i, V) == \A q \in 0 .. j.np - 1 : Key(j, q, i).val = V[q]

\* What process p awaits.
LEMMA AwaitedOnes ==
    ASSUME NEW j, NEW i, NEW V, Contribute(j, i, V), NEW p \in 0 .. j.np - 1, NEW k, k.op \in Collectives,
           j.np \in Nat \ {0}
    PROVE  [q \in Awaited(k, p, j.np) |-> Key(j, q, i).val] = [q \in Awaited(k, p, j.np) |-> V[q]]
<1>1. 0 \in 0 .. j.np - 1
  OBVIOUS
<1>2. Awaited(k, p, j.np) \subseteq 0 .. j.np - 1
  BY <1>1 DEF Awaited, MASTER, Collectives
<1>3. QED
  BY <1>2 DEF Contribute

\* A computation fits when it stores its value.
LEMMA FitsCompute ==
    ASSUME NEW j, NEW p, NEW i, NEW k, k = Key(j, p, i), k.op = "compute", Ops(j)[i] = "compute",
           After(j, p, i) = [After(j, p, i - 1) EXCEPT ![k.var] = k.val]
    PROVE  Fits(j, p, i)
  BY DEF Fits

\* The master gets v, the others nothing.
Collects(j, p, i, v) == After(j, p, i) = Rooted(After(j, p, i - 1), Key(j, p, i), p, v)

\* A sum or maximum fits when the master gets the result.
LEMMA FitsReduce ==
    ASSUME NEW j, j.np \in Nat \ {0}, NEW p \in 0 .. j.np - 1, NEW i, NEW V, Contribute(j, i, V),
           NEW R, NEW L, NEW k, k = Key(j, p, i), Reduces(V, R, j.np, L, k.op), Ops(j)[i] = k.op,
           Collects(j, p, i, R[j.np])
    PROVE  Fits(j, p, i)
<1>1. k.op \in {"sum", "max"}
  BY DEF Reduces
<1>2. k.op \in Collectives /\ k.op # "compute"
  BY <1>1 DEF Collectives
<1>3. PICK W : W = [q \in Awaited(k, p, j.np) |-> V[q]]
  OBVIOUS
<1>4. [q \in Awaited(k, p, j.np) |-> Key(j, q, i).val] = W
  BY <1>2, <1>3, AwaitedOnes
<1>5. PICK n, m : n = j.np /\ m = After(j, p, i - 1)
  OBVIOUS
<1>6. Reducing(V, R, n, L, k) /\ Gets(W, V, k, p, n)
  BY <1>3, <1>5 DEF Gets, Reducing
<1>7. StoresOf(k, p, n, m, W, R[n])
  BY <1>6, ReducedIs, Zenon
<1>8. After(j, p, i) = Received(k, p, n, m, W)
  BY <1>5, <1>7 DEF Collects, StoresOf
<1>9. QED
  BY <1>2, <1>4, <1>5, <1>8 DEF Fits

\* A gathering fits when the master gets the whole.
LEMMA FitsGather ==
    ASSUME NEW j, j.np \in Nat \ {0}, NEW p \in 0 .. j.np - 1, NEW i, NEW V, Contribute(j, i, V),
           NEW A, NEW o, Cut(A, V, o, j.np), NEW k, k = Key(j, p, i), Gathers(k, o, j.np),
           Ops(j)[i] = "gather", Collects(j, p, i, A)
    PROVE  Fits(j, p, i)
<1>2. k.op \in Collectives /\ k.op # "compute" /\ k.op = "gather"
  BY DEF Collectives, Gathers
<1>3. PICK W : W = [q \in Awaited(k, p, j.np) |-> V[q]]
  OBVIOUS
<1>4. [q \in Awaited(k, p, j.np) |-> Key(j, q, i).val] = W
  BY <1>2, <1>3, AwaitedOnes
<1>5. PICK n, m : n = j.np /\ m = After(j, p, i - 1)
  OBVIOUS
<1>6. /\ n \in Nat \ {0} /\ Cut(A, V, o, n) /\ Gets(W, V, k, p, n) /\ Gathers(k, o, n)
  BY <1>3, <1>5 DEF Gets
<1>7. Received(k, p, n, m, W) = Rooted(m, k, p, A)
  BY <1>6, GatheredIs
<1>8. After(j, p, i) = Received(k, p, n, m, W)
  BY <1>5, <1>7 DEF Collects
<1>9. QED
  BY <1>2, <1>4, <1>5, <1>8 DEF Fits

\* A scattering fits when everyone gets its part, a broadcast when everyone gets it.
LEMMA FitsFromMaster ==
    ASSUME NEW j, j.np \in Nat \ {0}, NEW p \in 0 .. j.np - 1, NEW i, NEW k, k = Key(j, p, i),
           k.op \in {"scatter", "bcast"}, Ops(j)[i] = k.op, NEW v, v = Key(j, MASTER, i).val,
           After(j, p, i) = [After(j, p, i - 1) EXCEPT ![k.var] = IF k.op = "bcast" THEN v ELSE v[p + 1]]
    PROVE  Fits(j, p, i)
<1>1. k.op \in Collectives /\ k.op # "compute"
  BY DEF Collectives
<1>2. PICK n, m, W : /\ n = j.np /\ m = After(j, p, i - 1)
                     /\ W = [q \in Awaited(k, p, j.np) |-> Key(j, q, i).val]
  OBVIOUS
<1>3. Awaited(k, p, j.np) = {MASTER}
  BY DEF Awaited
<1>4. W[MASTER] = v
  BY <1>2, <1>3
<1>5. Received(k, p, n, m, W) = [m EXCEPT ![k.var] = IF k.op = "bcast" THEN v ELSE v[p + 1]]
  BY <1>4 DEF Received
<1>6. After(j, p, i) = Received(k, p, n, m, W)
  BY <1>2, <1>5
<1>7. QED
  BY <1>1, <1>2, <1>6 DEF Fits

\* The jobs have processes.
LEMMA KeyRanks == \A j : KeyJob(j) => j.np \in Nat \ {0} /\ MASTER \in 0 .. j.np - 1
  BY JobsAssumption DEF KeyJob, MASTER

\* The program reduction.
LEMMA ReductionFits ==
    ASSUME NEW j, KeyJob(j), j.prog = "reduction", NEW p \in 0 .. j.np - 1
    PROVE  \A i \in 1 .. Count(j) : Fits(j, p, i)
<1>1. j.np \in Nat \ {0}
  BY KeyRanks
<1>2. \A q : /\ After(j, q, 0) = Store(Empty, <<>>, <<>>)
             /\ After(j, q, 1) = Store(AtMaster(q, << SumOfSquares(j.np) >>, Empty), <<>>, <<>>)
             /\ After(j, q, 2) = Store(AtMaster(q, << SumOfSquares(j.np) >>, Empty), <<>>,
                                       AtMaster(q, << j.np * j.np >>, <<>>))
  BY KeysAre DEF After, ReductionStores
<1>3. Count(j) = 2
  BY KeysAre DEF Count, ReductionOps
<1>4. Fits(j, p, 1) /\ Fits(j, p, 2)
  <2>1. CASE By1(j)
    <3>1. j.np = 1 /\ p = 0 /\ p = MASTER
      BY <1>1, <2>1 DEF By1, MASTER
    <3>2. Key(j, p, 1) = Compute("buf", Square(p)) /\ Key(j, p, 2) = Compute("all", Square(p))
      BY <2>1, KeysAre DEF Key, ReductionKeys
    <3>3. Square(p) = << 1 >>
      BY <3>1 DEF Square
    <3>4. SumOfSquares(j.np) = 1 /\ j.np * j.np = 1
      BY <3>1, SumOfSquaresNext
    <3>5. \A x, y : AtMaster(p, x, y) = x
      BY <3>1 DEF AtMaster
    <3>6. /\ After(j, p, 1) = [After(j, p, 0) EXCEPT !["buf"] = << 1 >>]
          /\ After(j, p, 2) = [After(j, p, 1) EXCEPT !["all"] = << 1 >>]
      BY <1>2, <3>4, <3>5, StoreSet
    <3>7. Ops(j)[1] = "compute" /\ Ops(j)[2] = "compute"
      BY <2>1, KeysAre DEF ReductionOps
    <3>8. \A var, v : Compute(var, v).op = "compute" /\ Compute(var, v).var = var /\ Compute(var, v).val = v
      BY DEF Compute
    <3>9. Fits(j, p, 1)
      <4>1. PICK k : k = Key(j, p, 1) /\ k.op = "compute" /\ k.var = "buf" /\ k.val = << 1 >>
        BY <3>2, <3>3, <3>8
      <4>2. After(j, p, 1) = [After(j, p, 1 - 1) EXCEPT ![k.var] = k.val]
        BY <3>6, <4>1
      <4>3. QED
        BY <3>7, <4>1, <4>2, FitsCompute
    <3>10. Fits(j, p, 2)
      <4>1. PICK k : k = Key(j, p, 2) /\ k.op = "compute" /\ k.var = "all" /\ k.val = << 1 >>
        BY <3>2, <3>3, <3>8
      <4>2. After(j, p, 2) = [After(j, p, 2 - 1) EXCEPT ![k.var] = k.val]
        BY <3>6, <4>1
      <4>3. QED
        BY <3>7, <4>1, <4>2, FitsCompute
    <3>11. QED
      BY <3>9, <3>10
  <2>2. CASE ~By1(j)
    <3>1. \A q : Key(j, q, 1) = ReduceSum(Square(q), "buf") /\ Key(j, q, 2) = ReduceMax(Square(q), "all")
      BY <2>2, KeysAre DEF Key, ReductionKeys
    <3>2. Ops(j)[1] = "sum" /\ Ops(j)[2] = "max"
      BY <2>2, KeysAre DEF ReductionOps
    <3>3. PICK V : V = [q \in 0 .. j.np - 1 |-> Square(q)]
      OBVIOUS
    <3>4. PICK R, T : R = [r \in 1 .. j.np |-> << SumOfSquares(r) >>] /\ T = [r \in 1 .. j.np |-> << r * r >>]
      OBVIOUS
    <3>5. Reduces(V, R, j.np, 1, "sum") /\ Reduces(V, T, j.np, 1, "max")
      BY <1>1, <3>3, <3>4, SquaresReduce
    <3>6. R[j.np] = << SumOfSquares(j.np) >> /\ T[j.np] = << j.np * j.np >>
      BY <1>1, <3>4
    <3>7. Contribute(j, 1, V) /\ Contribute(j, 2, V)
      BY <3>1, <3>3 DEF Contribute, ReduceSum, ReduceMax
    <3>8. Fits(j, p, 1)
      <4>1. PICK k : k = Key(j, p, 1) /\ k.op = "sum" /\ k.var = "buf"
        BY <3>1 DEF ReduceSum
      <4>2. Collects(j, p, 1, R[j.np])
        BY <1>2, <3>6, <4>1, StoreSet DEF AtMaster, Collects, Rooted
      <4>3. QED
        BY <1>1, <3>2, <3>5, <3>7, <4>1, <4>2, FitsReduce
    <3>9. Fits(j, p, 2)
      <4>1. PICK k : k = Key(j, p, 2) /\ k.op = "max" /\ k.var = "all"
        BY <3>1 DEF ReduceMax
      <4>2. Collects(j, p, 2, T[j.np])
        BY <1>2, <3>6, <4>1, StoreSet DEF AtMaster, Collects, Rooted
      <4>3. QED
        BY <1>1, <3>2, <3>5, <3>7, <4>1, <4>2, FitsReduce
    <3>10. QED
      BY <3>8, <3>9
  <2>3. QED
    BY <2>1, <2>2
<1>5. \A i \in 1 .. 2 : i = 1 \/ i = 2
  OBVIOUS
<1>6. QED
  BY <1>3, <1>4, <1>5

\* Equal offsets are where equal pieces begin.
LEMMA EqualGathers ==
    ASSUME NEW n \in Nat \ {0}, NEW l \in Nat, NEW k, k.op = "gather", k.offsets = EqualOffsets(l, n)
    PROVE  Gathers(k, [r \in 0 .. n |-> r * l], n)
<1>1. PICK o : o = [r \in 0 .. n |-> r * l]
  OBVIOUS
<1>2. ASSUME NEW r \in 1 .. n
      PROVE  k.offsets[r] = o[r - 1] /\ k.offsets[r] \in Int
  <2>1. PICK q \in 0 .. n : q = r - 1
    OBVIOUS
  <2>2. k.offsets[r] = q * l
    BY <2>1 DEF EqualOffsets
  <2>3. o[q] = q * l /\ q * l \in Int
    BY <1>1
  <2>4. QED
    BY <2>1, <2>2, <2>3
<1>3. k.offsets \in [1 .. n -> Int]
  <2>1. k.offsets = [r \in 1 .. n |-> k.offsets[r]]
    BY DEF EqualOffsets
  <2>2. QED
    BY <1>2, <2>1
<1>4. QED
  BY <1>1, <1>2, <1>3 DEF Gathers

\* The program reduction with arrays.
LEMMA ArraysFits ==
    ASSUME NEW j, KeyJob(j), j.prog = "reduction2", NEW p \in 0 .. j.np - 1
    PROVE  \A i \in 1 .. Count(j) : Fits(j, p, i)
<1>0. PICK n \in Nat \ {0} : n = j.np
  BY KeyRanks
<1>1. CASE j.lang = "Python"
  <2>1. \A q : /\ After(j, q, 0) = Store(Empty, <<>>, <<>>)
               /\ After(j, q, 1) = Store(Empty, <<>>, AtMaster(q, PyLargest(n), <<>>))
               /\ After(j, q, 2) = Store(AtMaster(q, PyAllMultiples(n), Empty), <<>>,
                                         AtMaster(q, PyLargest(n), <<>>))
    BY <1>0, <1>1, KeysAre DEF After, ArraysStores
  <2>2. Count(j) = 2 /\ Ops(j)[1] = "max" /\ Ops(j)[2] = "gather"
    BY <1>1, KeysAre DEF Count, ArraysOps
  <2>3. \A q : /\ Key(j, q, 1) = ReduceMax(PyMultiples(q), "all")
               /\ Key(j, q, 2) = Gather(PyMultiples(q), EqualOffsets(5, n), "buf")
    BY <1>0, <1>1, KeysAre DEF Key, ArraysKeys
  <2>4. PICK V, R, o : /\ V = [q \in 0 .. n - 1 |-> PyMultiples(q)] /\ R = [r \in 1 .. n |-> PyLargest(r)]
                       /\ o = [r \in 0 .. n |-> r * 5]
    OBVIOUS
  <2>5. Contribute(j, 1, V) /\ Contribute(j, 2, V)
    BY <1>0, <2>3, <2>4 DEF Contribute, ReduceMax, Gather
  <2>6. Fits(j, p, 1)
    <3>1. PICK k : k = Key(j, p, 1) /\ k.op = "max" /\ k.var = "all"
      BY <2>3 DEF ReduceMax
    <3>2. R[n] = PyLargest(n)
      BY <2>4
    <3>3. Collects(j, p, 1, R[j.np])
      BY <1>0, <2>1, <3>1, <3>2, StoreSet DEF AtMaster, Collects, Rooted
    <3>4. Reduces(V, R, j.np, 5, k.op)
      BY <1>0, <2>4, <3>1, MultiplesReduce
    <3>5. QED
      BY <1>0, <2>2, <2>5, <3>1, <3>3, <3>4, FitsReduce
  <2>7. Fits(j, p, 2)
    <3>1. PICK k : k = Key(j, p, 2) /\ k.op = "gather" /\ k.var = "buf" /\ k.offsets = EqualOffsets(5, n)
      BY <2>3 DEF Gather
    <3>2. Collects(j, p, 2, PyAllMultiples(n))
      BY <1>0, <2>1, <3>1, StoreSet DEF AtMaster, Collects, Rooted
    <3>3. Cut(PyAllMultiples(n), V, o, j.np)
      BY <1>0, <2>4, CollectionCut
    <3>4. Gathers(k, o, j.np)
      BY <1>0, <2>4, <3>1, EqualGathers
    <3>5. QED
      BY <1>0, <2>2, <2>5, <3>1, <3>2, <3>3, <3>4, FitsGather
  <2>8. \A i \in 1 .. 2 : i = 1 \/ i = 2
    OBVIOUS
  <2>9. QED
    BY <2>2, <2>6, <2>7, <2>8
<1>2. CASE j.lang # "Python"
  <2>1. \A q : /\ After(j, q, 0) = Store(Empty, <<>>, <<>>)
               /\ After(j, q, 1) = Store(Empty, <<>>, AtMaster(q, RankSums(n), <<>>))
    BY <1>0, <1>2, KeysAre DEF After, ArraysStores
  <2>2. Count(j) = 1 /\ Ops(j)[1] = "sum"
    BY <1>2, KeysAre DEF Count, ArraysOps
  <2>3. \A q : Key(j, q, 1) = ReduceSum(Multiples(q), "all")
    BY <1>0, <1>2, KeysAre DEF Key, ArraysKeys
  <2>4. PICK V, R : V = [q \in 0 .. n - 1 |-> Multiples(q)] /\ R = [r \in 1 .. n |-> RankSums(r)]
    OBVIOUS
  <2>5. Contribute(j, 1, V)
    BY <1>0, <2>3, <2>4 DEF Contribute, ReduceSum
  <2>6. Fits(j, p, 1)
    <3>1. PICK k : k = Key(j, p, 1) /\ k.op = "sum" /\ k.var = "all"
      BY <2>3 DEF ReduceSum
    <3>2. R[n] = RankSums(n)
      BY <2>4
    <3>3. Collects(j, p, 1, R[j.np])
      BY <1>0, <2>1, <3>1, <3>2, StoreSet DEF AtMaster, Collects, Rooted
    <3>4. Reduces(V, R, j.np, 5, k.op)
      BY <1>0, <2>4, <3>1, MultiplesReduce
    <3>5. QED
      BY <1>0, <2>2, <2>5, <3>1, <3>3, <3>4, FitsReduce
  <2>8. \A i \in 1 .. 1 : i = 1
    OBVIOUS
  <2>9. QED
    BY <2>2, <2>6, <2>8
<1>3. QED
  BY <1>1, <1>2

\* The timing of the slowest.
LEMMA TimingFits ==
    ASSUME NEW j, KeyJob(j), j.prog = "reduceTiming", NEW p \in 0 .. j.np - 1
    PROVE  \A i \in 1 .. Count(j) : Fits(j, p, i)
<1>0. PICK n \in Nat \ {0} : n = j.np
  BY KeyRanks
<1>1. \A q : /\ After(j, q, 0) = Store(Empty, <<>>, <<>>)
             /\ After(j, q, 1) = Store(Empty, <<>>, AtMaster(q, << IF j.lang = "C" THEN 1 ELSE 1000 * n >>, <<>>))
  BY <1>0, KeysAre DEF After, TimingStores
<1>2. Count(j) = 1 /\ Ops(j)[1] = IF j.lang = "C" THEN "max" ELSE "sum"
  BY KeysAre DEF Count, TimingOps
<1>3. \A q : Key(j, q, 1) = IF j.lang = "C" THEN ReduceMax(<< (q + 1) \div n >>, "all")
                                            ELSE ReduceSum(<< 1000 >>, "all")
  BY <1>0, KeysAre DEF Key, TimingKeys
<1>4. Fits(j, p, 1)
  <2>1. CASE j.lang = "C"
    <3>1. PICK V, R : V = [q \in 0 .. n - 1 |-> << (q + 1) \div n >>] /\ R = [r \in 1 .. n |-> << r \div n >>]
      OBVIOUS
    <3>2. Contribute(j, 1, V)
      BY <1>0, <1>3, <2>1, <3>1 DEF Contribute, ReduceMax
    <3>3. PICK k : k = Key(j, p, 1) /\ k.op = "max" /\ k.var = "all"
      BY <1>3, <2>1 DEF ReduceMax
    <3>4. R[n] = << 1 >>
      <4>1. n \div n = 1
        OBVIOUS
      <4>2. R[n] = << n \div n >>
        BY <3>1
      <4>3. QED
        BY <4>1, <4>2
    <3>5. Collects(j, p, 1, R[j.np])
      BY <1>0, <1>1, <2>1, <3>3, <3>4, StoreSet DEF AtMaster, Collects, Rooted
    <3>6. Reduces(V, R, j.np, 1, k.op)
      BY <1>0, <3>1, <3>3, TimesReduce
    <3>7. QED
      BY <1>0, <1>2, <2>1, <3>2, <3>3, <3>5, <3>6, FitsReduce
  <2>2. CASE j.lang # "C"
    <3>1. PICK V, R : V = [q \in 0 .. n - 1 |-> << 1000 >>] /\ R = [r \in 1 .. n |-> << 1000 * r >>]
      OBVIOUS
    <3>2. Contribute(j, 1, V)
      BY <1>0, <1>3, <2>2, <3>1 DEF Contribute, ReduceSum
    <3>3. PICK k : k = Key(j, p, 1) /\ k.op = "sum" /\ k.var = "all"
      BY <1>3, <2>2 DEF ReduceSum
    <3>4. R[n] = << 1000 * n >>
      BY <3>1
    <3>5. Collects(j, p, 1, R[j.np])
      BY <1>0, <1>1, <2>2, <3>3, <3>4, StoreSet DEF AtMaster, Collects, Rooted
    <3>6. Reduces(V, R, j.np, 1, k.op)
      BY <1>0, <3>1, <3>3, TimesReduce
    <3>7. QED
      BY <1>0, <1>2, <2>2, <3>2, <3>3, <3>5, <3>6, FitsReduce
  <2>3. QED
    BY <2>1, <2>2
<1>5. \A i \in 1 .. 1 : i = 1
  OBVIOUS
<1>6. QED
  BY <1>2, <1>4, <1>5

\* The gathering of everyone's values.
LEMMA GatherFits ==
    ASSUME NEW j, KeyJob(j), j.prog = "gather", NEW p \in 0 .. j.np - 1
    PROVE  \A i \in 1 .. Count(j) : Fits(j, p, i)
<1>0. PICK n \in Nat \ {0} : n = j.np
  BY KeyRanks
<1>1. \A q : /\ After(j, q, 0) = Store(Empty, <<>>, <<>>)
             /\ After(j, q, 1) = Store(Empty, <<>>, AtMaster(q, Collection(j), <<>>))
  BY KeysAre DEF After, GatherStores
<1>2. Count(j) = 1 /\ Ops(j)[1] = "gather"
  BY KeysAre DEF Count, GatherOps
<1>3. \A q : Key(j, q, 1) = Gather(Held(j, q), EqualOffsets(3, n), "all")
  BY <1>0, KeysAre DEF Key, GatherKeys
<1>4. PICK V, o : V = [q \in 0 .. n - 1 |-> Held(j, q)] /\ o = [r \in 0 .. n |-> r * 3]
  OBVIOUS
<1>5. Contribute(j, 1, V)
  BY <1>0, <1>3, <1>4 DEF Contribute, Gather
<1>6. PICK k : k = Key(j, p, 1) /\ k.op = "gather" /\ k.var = "all" /\ k.offsets = EqualOffsets(3, n)
  BY <1>3 DEF Gather
<1>7. Collects(j, p, 1, Collection(j))
  BY <1>0, <1>1, <1>6, StoreSet DEF AtMaster, Collects, Rooted
<1>8. Cut(Collection(j), V, o, j.np)
  BY <1>0, <1>4, CollectionCut
<1>9. Gathers(k, o, j.np)
  BY <1>0, <1>4, <1>6, EqualGathers
<1>10. Fits(j, p, 1)
  BY <1>0, <1>2, <1>5, <1>6, <1>7, <1>8, <1>9, FitsGather
<1>11. \A i \in 1 .. 1 : i = 1
  OBVIOUS
<1>12. QED
  BY <1>2, <1>10, <1>11

\* The scattering of an array.
LEMMA ScatterFits ==
    ASSUME NEW j, KeyJob(j), j.prog = "scatter", NEW p \in 0 .. j.np - 1
    PROVE  \A i \in 1 .. Count(j) : Fits(j, p, i)
<1>0. PICK n \in Nat \ {0} : n = j.np
  BY KeyRanks
<1>1. CASE TooMany(j)
  <2>1. Count(j) = 0
    BY <1>1, KeysAre DEF Count, ScatterOps
  <2>2. QED
    BY <2>1
<1>2. CASE ~TooMany(j)
  <2>1. \A q : After(j, q, 0) = Store(Empty, <<>>, <<>>) /\ After(j, q, 1) = Store(Empty, Part(j, q), <<>>)
    BY KeysAre DEF After, ScatterStores
  <2>2. Count(j) = 1 /\ Ops(j)[1] = "scatter"
    BY <1>2, KeysAre DEF Count, ScatterOps
  <2>3. PICK v : v = IF j.lang = "Python" THEN Rows(n) ELSE EqualPieces(Elevens, 8 \div n, n)
    OBVIOUS
  <2>4. \A q : Key(j, q, 1) = Scatter(v, "part")
    BY <1>0, <1>2, <2>3, KeysAre DEF Key, ScatterKeys
  <2>5. PICK k : k = Key(j, p, 1) /\ k.op = "scatter" /\ k.var = "part"
    BY <2>4 DEF Scatter
  <2>6. v = Key(j, MASTER, 1).val
    BY <2>4 DEF Scatter
  <2>7. v[p + 1] = Part(j, p)
    <3>1. PICK r \in 1 .. n : r = p + 1 /\ r - 1 = p
      BY <1>0
    <3>2. QED
      BY <2>3, <3>1, <1>0 DEF Part, Rows, EqualPieces
  <2>8. After(j, p, 1) = [After(j, p, 1 - 1) EXCEPT ![k.var] = v[p + 1]]
    BY <2>1, <2>5, <2>7, StoreSet
  <2>9. Fits(j, p, 1)
    BY <1>0, <2>2, <2>5, <2>6, <2>8, FitsFromMaster
  <2>10. \A i \in 1 .. 1 : i = 1
    OBVIOUS
  <2>11. QED
    BY <2>2, <2>9, <2>10
<1>3. QED
  BY <1>1, <1>2

\* The scattering and gathering of a list.
LEMMA BothFits ==
    ASSUME NEW j, KeyJob(j), j.prog = "scatterGather", NEW p \in 0 .. j.np - 1
    PROVE  \A i \in 1 .. Count(j) : Fits(j, p, i)
<1>0. PICK n \in Nat \ {0} : n = j.np
  BY KeyRanks
<1>1. \A q : /\ After(j, q, 0) = Store(Empty, <<>>, <<>>)
             /\ After(j, q, 1) = Store(Empty, Triple(q), <<>>)
             /\ After(j, q, 2) = Store(Empty, Triple(q), AtMaster(q, AllTens(n), <<>>))
  BY <1>0, KeysAre DEF After, BothStores
<1>2. Count(j) = 2 /\ Ops(j)[1] = "scatter" /\ Ops(j)[2] = "gather"
  BY KeysAre DEF Count, BothOps
<1>3. PICK v : v = EqualPieces(Numbers(n), 3, n)
  OBVIOUS
<1>4. \A q : /\ Key(j, q, 1) = Scatter(v, "part")
             /\ Key(j, q, 2) = Gather(TenTimes(Triple(q)), EqualOffsets(3, n), "all")
  <2>1. \A q : Key(j, q, 1) = Scatter(v, "part")
    BY <1>0, <1>3, KeysAre DEF Key, BothKeys
  <2>2. ASSUME NEW q
        PROVE  Key(j, q, 2) = Gather(TenTimes(Triple(q)), EqualOffsets(3, n), "all")
    <3>1. PICK m : m = After(j, q, 1) /\ m.part = Triple(q)
      BY <1>1, StoreSet
    <3>2. Key(j, q, 2) = Keys(j, q, m)[2]
      BY <3>1 DEF Key
    <3>3. Keys(j, q, m) = BothKeys(j, m)
      BY KeysAre
    <3>4. QED
      BY <1>0, <3>1, <3>2, <3>3 DEF BothKeys
  <2>3. QED
    BY <2>1, <2>2
<1>5. Fits(j, p, 1)
  <2>5. PICK k : k = Key(j, p, 1) /\ k.op = "scatter" /\ k.var = "part"
    BY <1>4 DEF Scatter
  <2>6. v = Key(j, MASTER, 1).val
    BY <1>4 DEF Scatter
  <2>7. v[p + 1] = Triple(p)
    <3>1. PICK r \in 1 .. n, q \in 0 .. n - 1 : r = p + 1 /\ r - 1 = q /\ q = p
      BY <1>0
    <3>2. v[r] = [h \in 1 .. 3 |-> Numbers(n)[q * 3 + h]]
      BY <1>3, <3>1 DEF EqualPieces, Piece
    <3>3. \A h \in 1 .. 3 : Numbers(n)[q * 3 + h] = 3 * q + h
      <4>1. \A h \in 1 .. 3 : q * 3 + h \in 1 .. 3 * n
        BY InRow
      <4>2. \A h \in 1 .. 3 : q * 3 + h = 3 * q + h
        OBVIOUS
      <4>3. QED
        BY <4>1, <4>2 DEF Numbers
    <3>4. QED
      BY <3>1, <3>2, <3>3 DEF Triple
  <2>8. After(j, p, 1) = [After(j, p, 1 - 1) EXCEPT ![k.var] = v[p + 1]]
    BY <1>1, <2>5, <2>7, StoreSet
  <2>9. QED
    BY <1>0, <1>2, <2>5, <2>6, <2>8, FitsFromMaster
<1>6. Fits(j, p, 2)
  <2>4. PICK V, o : V = [q \in 0 .. n - 1 |-> TenTimes(Triple(q))] /\ o = [r \in 0 .. n |-> r * 3]
    OBVIOUS
  <2>5. Contribute(j, 2, V)
    BY <1>0, <1>4, <2>4 DEF Contribute, Gather
  <2>6. PICK k : k = Key(j, p, 2) /\ k.op = "gather" /\ k.var = "all" /\ k.offsets = EqualOffsets(3, n)
    BY <1>4 DEF Gather
  <2>7. Collects(j, p, 2, AllTens(n))
    BY <1>0, <1>1, <2>6, StoreSet DEF AtMaster, Collects, Rooted
  <2>8. Cut(AllTens(n), V, o, j.np)
    BY <1>0, <2>4, CollectionCut
  <2>9. Gathers(k, o, j.np)
    BY <1>0, <2>4, <2>6, EqualGathers
  <2>10. QED
    BY <1>0, <1>2, <2>5, <2>6, <2>7, <2>8, <2>9, FitsGather
<1>7. \A i \in 1 .. 2 : i = 1 \/ i = 2
  OBVIOUS
<1>8. QED
  BY <1>2, <1>5, <1>6, <1>7

\* The doubling of an array in pieces.
LEMMA DoublerFits ==
    ASSUME NEW j, KeyJob(j), j.prog \in Doublers, NEW p \in 0 .. j.np - 1
    PROVE  \A i \in 1 .. Count(j) : Fits(j, p, i)
<1>0. PICK n \in Nat \ {0} : n = j.np
  BY KeyRanks
<1>1. CASE Refused(j)
  <2>1. Count(j) = 0
    BY <1>1, KeysAre DEF Count, DoublerOps
  <2>2. QED
    BY <2>1
<1>2. CASE ~Refused(j)
  <2>0. PICK buf : buf = IF Loop(j) THEN Fill(ARRAY_SIZE) ELSE Empty
    OBVIOUS
  <2>1. \A q : /\ After(j, q, 0) = Store(Empty, <<>>, <<>>)
               /\ After(j, q, 1) = Store(buf, IF Loop(j) THEN <<>> ELSE PieceOf(j, q), <<>>)
               /\ After(j, q, 2) = Store(buf, Doubled(PieceOf(j, q)), <<>>)
               /\ After(j, q, 3) = Store(buf, Doubled(PieceOf(j, q)), AtMaster(q, Twice, <<>>))
    BY <2>0, KeysAre DEF After, DoublerStores
  <2>2. /\ Count(j) = 3 /\ Ops(j)[1] = IF Loop(j) THEN "bcast" ELSE "scatter"
        /\ Ops(j)[2] = "compute" /\ Ops(j)[3] = "gather"
    BY <1>2, KeysAre DEF Count, DoublerOps
  <2>3. \A q : Key(j, q, 1) = IF Loop(j) THEN Bcast("buf", AtMaster(q, Fill(ARRAY_SIZE), Zeros(ARRAY_SIZE)))
                                         ELSE Scatter(Pieces(j), "part")
    BY <1>2, KeysAre DEF Key, DoublerKeys
  <2>4. \A q : Key(j, q, 2) = Compute("part", Doubled(PieceOf(j, q)))
    <3>1. ASSUME NEW q PROVE Key(j, q, 2) = Compute("part", Doubled(PieceOf(j, q)))
      <4>1. PICK m : m = After(j, q, 1) /\ m.buf = buf /\ m.part = IF Loop(j) THEN <<>> ELSE PieceOf(j, q)
        BY <2>1, StoreSet
      <4>2. Key(j, q, 2) = Keys(j, q, m)[2]
        BY <4>1 DEF Key
      <4>3. Keys(j, q, m) = DoublerKeys(j, q, m)
        BY KeysAre
      <4>4. Key(j, q, 2) = Compute("part", Doubled(IF Loop(j) THEN Piece(m.buf, SizeOf(j, q), StartOf(j, q))
                                                               ELSE m.part))
        BY <1>2, <4>2, <4>3 DEF DoublerKeys
      <4>5. (IF Loop(j) THEN Piece(m.buf, SizeOf(j, q), StartOf(j, q)) ELSE m.part) = PieceOf(j, q)
        BY <2>0, <4>1 DEF PieceOf
      <4>6. QED
        BY <4>4, <4>5
    <3>2. QED
      BY <3>1
  <2>5. \A q : Key(j, q, 3) = Gather(Doubled(PieceOf(j, q)), Offsets(j), "all")
    <3>1. ASSUME NEW q PROVE Key(j, q, 3) = Gather(Doubled(PieceOf(j, q)), Offsets(j), "all")
      <4>1. PICK m : m = After(j, q, 2) /\ m.part = Doubled(PieceOf(j, q))
        BY <2>1, StoreSet
      <4>2. Key(j, q, 3) = Keys(j, q, m)[3]
        BY <4>1 DEF Key
      <4>3. Keys(j, q, m) = DoublerKeys(j, q, m)
        BY KeysAre
      <4>4. Key(j, q, 3) = Gather(m.part, Offsets(j), "all")
        BY <1>2, <4>2, <4>3 DEF DoublerKeys
      <4>5. QED
        BY <4>1, <4>4
    <3>2. QED
      BY <3>1
  <2>6. Fits(j, p, 1)
    <3>1. CASE Loop(j)
      <4>1. PICK k : k = Key(j, p, 1) /\ k.op = "bcast" /\ k.var = "buf"
        BY <2>3, <3>1 DEF Bcast
      <4>2. PICK v : v = Key(j, MASTER, 1).val /\ v = Fill(ARRAY_SIZE)
        BY <2>3, <3>1 DEF Bcast, AtMaster
      <4>3. After(j, p, 1) = [After(j, p, 1 - 1) EXCEPT ![k.var] = v]
        BY <2>0, <2>1, <3>1, <4>1, <4>2, StoreSet
      <4>4. QED
        BY <1>0, <2>2, <3>1, <4>1, <4>2, <4>3, FitsFromMaster
    <3>2. CASE ~Loop(j)
      <4>1. PICK k : k = Key(j, p, 1) /\ k.op = "scatter" /\ k.var = "part"
        BY <2>3, <3>2 DEF Scatter
      <4>2. PICK v : v = Key(j, MASTER, 1).val /\ v = Pieces(j)
        BY <2>3, <3>2 DEF Scatter
      <4>3. v[p + 1] = PieceOf(j, p)
        <5>1. PICK r \in 1 .. n : r = p + 1 /\ r - 1 = p
          BY <1>0
        <5>2. QED
          BY <1>0, <4>2, <5>1 DEF Pieces
      <4>4. After(j, p, 1) = [After(j, p, 1 - 1) EXCEPT ![k.var] = v[p + 1]]
        BY <2>0, <2>1, <3>2, <4>1, <4>3, StoreSet
      <4>5. QED
        BY <1>0, <2>2, <3>2, <4>1, <4>2, <4>4, FitsFromMaster
    <3>3. QED
      BY <3>1, <3>2
  <2>7. Fits(j, p, 2)
    <3>1. PICK k : k = Key(j, p, 2) /\ k.op = "compute" /\ k.var = "part" /\ k.val = Doubled(PieceOf(j, p))
      BY <2>4 DEF Compute
    <3>2. After(j, p, 2) = [After(j, p, 2 - 1) EXCEPT ![k.var] = k.val]
      BY <2>1, <3>1, StoreSet
    <3>3. QED
      BY <2>2, <3>1, <3>2, FitsCompute
  <2>8. Fits(j, p, 3)
    <3>1. PICK V : V = [q \in 0 .. n - 1 |-> Doubled(PieceOf(j, q))]
      OBVIOUS
    <3>2. PICK o : /\ Cut(Twice, V, o, n) /\ \A r \in 1 .. n : Offsets(j)[r] = o[r - 1]
                   /\ Offsets(j) \in [1 .. n -> Int]
      BY <1>0, <1>2, <3>1, TwiceCut
    <3>3. Contribute(j, 3, V)
      BY <1>0, <2>5, <3>1 DEF Contribute, Gather
    <3>4. PICK k : k = Key(j, p, 3) /\ k.op = "gather" /\ k.var = "all" /\ k.offsets = Offsets(j)
      BY <2>5 DEF Gather
    <3>5. Collects(j, p, 3, Twice)
      BY <1>0, <2>1, <3>4, StoreSet DEF AtMaster, Collects, Rooted
    <3>6. Gathers(k, o, j.np)
      BY <1>0, <3>2, <3>4 DEF Gathers
    <3>7. QED
      BY <1>0, <2>2, <3>2, <3>3, <3>4, <3>5, <3>6, FitsGather
  <2>9. \A i \in 1 .. 3 : i = 1 \/ i = 2 \/ i = 3
    OBVIOUS
  <2>10. QED
    BY <2>2, <2>6, <2>7, <2>8, <2>9
<1>3. QED
  BY <1>1, <1>2

\* All of them.
LEMMA KeysFit ==
    ASSUME NEW j, KeyJob(j), NEW p \in 0 .. j.np - 1
    PROVE  \A i \in 1 .. Count(j) : Fits(j, p, i)
<1>1. j.prog \in Doublers \/ j.prog \in KeyProgs \ Doublers
  BY DEF KeyJob
<1>2. QED
  BY <1>1, ReductionFits, ArraysFits, TimingFits, GatherFits, ScatterFits, BothFits, DoublerFits
     DEF KeyProgs, Doublers

\* No collective operation occurs twice.
LEMMA OpsDiffer ==
    ASSUME NEW j, KeyJob(j)
    PROVE  /\ Count(j) \in Nat
           /\ \A i, l \in 1 .. Count(j) : Ops(j)[i] = Ops(j)[l] /\ Ops(j)[i] # "compute" => i = l
<1>1. PICK x, y, z : \/ Ops(j) = <<>>
                     \/ Ops(j) = << x >>
                     \/ Ops(j) = << x, y >> /\ (x = y => x = "compute")
                     \/ Ops(j) = << x, y, z >> /\ x # y /\ y # z /\ x # z
  <2>1. CASE j.prog = "reduction"
    BY <2>1, KeysAre DEF ReductionOps
  <2>2. CASE j.prog = "reduction2"
    BY <2>2, KeysAre DEF ArraysOps
  <2>3. CASE j.prog = "reduceTiming"
    BY <2>3, KeysAre DEF TimingOps
  <2>4. CASE j.prog = "scatter"
    BY <2>4, KeysAre DEF ScatterOps
  <2>5. CASE j.prog = "gather"
    BY <2>5, KeysAre DEF GatherOps
  <2>6. CASE j.prog = "scatterGather"
    BY <2>6, KeysAre DEF BothOps
  <2>7. CASE j.prog \in Doublers
    BY <2>7, KeysAre DEF DoublerOps
  <2>8. QED
    BY <2>1, <2>2, <2>3, <2>4, <2>5, <2>6, <2>7 DEF KeyJob, KeyProgs, Doublers
<1>2. CASE Ops(j) = <<>>
  BY <1>2 DEF Count
<1>3. CASE Ops(j) = << x >>
  <2>1. Count(j) = 1 /\ \A i \in 1 .. 1 : i = 1
    BY <1>3 DEF Count
  <2>2. QED
    BY <2>1
<1>4. CASE Ops(j) = << x, y >> /\ (x = y => x = "compute")
  <2>1. /\ Count(j) = 2 /\ Ops(j)[1] = x /\ Ops(j)[2] = y
        /\ \A i \in 1 .. 2 : i = 1 \/ i = 2
    BY <1>4 DEF Count
  <2>2. QED
    BY <1>4, <2>1
<1>5. CASE Ops(j) = << x, y, z >> /\ x # y /\ y # z /\ x # z
  <2>1. /\ Count(j) = 3 /\ Ops(j)[1] = x /\ Ops(j)[2] = y /\ Ops(j)[3] = z
        /\ \A i \in 1 .. 3 : i = 1 \/ i = 2 \/ i = 3
    BY <1>5 DEF Count
  <2>2. QED
    BY <1>5, <2>1
<1>6. QED
  BY <1>1, <1>2, <1>3, <1>4, <1>5
-----------------------------------------------------------------------------
(* Which instructions of a program are the key ones.                       *)

Quiet(i) == i.op \in {"barrier", "print"}

\* Instruction i in a process that has passed r of the key instructions K.
Counts(i, K, r, t) ==
  /\ r \in Nat /\ t \in Nat
  /\ IF Quiet(i) THEN t = r ELSE t = r + 1 /\ t \in DOMAIN K /\ i = K[t]

\* c[k] is the number of key instructions among the first k.
Keyed(x, K, c) ==
  /\ c \in [0 .. Len(x) -> Nat]
  /\ \A k \in 1 .. Len(x) : Counts(x[k], K, c[k - 1], c[k])
Runs(x, K, a, b) == Sequence(x) /\ \E c : Keyed(x, K, c) /\ c[0] = a /\ c[Len(x)] = b

\* The empty program.
LEMMA RunsNothing ==
    ASSUME NEW K, NEW a \in Nat
    PROVE  Runs(<<>>, K, a, a)
<1> DEFINE c == [k \in 0 .. 0 |-> a]
<1>1. c \in [0 .. Len(<<>>) -> Nat] /\ c[0] = a
  OBVIOUS
<1>2. Keyed(<<>>, K, c)
  BY <1>1 DEF Keyed
<1>3. Sequence(<<>>)
  BY DEF Sequence
<1>4. QED
  BY <1>1, <1>2, <1>3 DEF Runs

\* One instruction.
LEMMA RunsOne ==
    ASSUME NEW K, NEW i, NEW a, NEW b, Counts(i, K, a, b)
    PROVE  Runs(<< i >>, K, a, b)
<1>0. a \in Nat /\ b \in Nat
  BY DEF Counts
<1> DEFINE c == [k \in 0 .. 1 |-> IF k = 0 THEN a ELSE b]
<1>1. Len(<< i >>) = 1 /\ << i >>[1] = i
  OBVIOUS
<1>2. c \in [0 .. 1 -> Nat] /\ c[0] = a /\ c[1] = b
  BY <1>0
<1>3. \A k \in 1 .. 1 : k = 1
  OBVIOUS
<1>4. Keyed(<< i >>, K, c)
  <2> HIDE DEF c
  <2>1. QED
    BY <1>1, <1>2, <1>3 DEF Keyed
<1>5. Sequence(<< i >>)
  <2>1. << i >> \in Seq({i})
    OBVIOUS
  <2>2. QED
    BY <2>1 DEF Sequence
<1>6. QED
  BY <1>1, <1>2, <1>4, <1>5 DEF Runs

\* Two programs one after the other.
LEMMA RunsBoth ==
    ASSUME NEW K, NEW x, NEW y, NEW a, NEW b, NEW d, Runs(x, K, a, b), Runs(y, K, b, d)
    PROVE  Runs(x \o y, K, a, d)
<1>1. PICK U, V : x \in Seq(U) /\ y \in Seq(V)
  BY DEF Runs, Sequence
<1>2. PICK c, e : /\ Keyed(x, K, c) /\ c[0] = a /\ c[Len(x)] = b
                  /\ Keyed(y, K, e) /\ e[0] = b /\ e[Len(y)] = d
  BY DEF Runs
<1> DEFINE W == U \cup V
           z == x \o y
           f == [k \in 0 .. Len(z) |-> IF k <= Len(x) THEN c[k] ELSE e[k - Len(x)]]
<1>3. x \in Seq(W) /\ y \in Seq(W) /\ Len(x) \in Nat /\ Len(y) \in Nat
  BY <1>1
<1>4. /\ z \in Seq(W) /\ Len(z) = Len(x) + Len(y)
      /\ \A k \in 1 .. Len(z) : z[k] = IF k <= Len(x) THEN x[k] ELSE y[k - Len(x)]
  <2> HIDE DEF W
  <2>1. QED
    BY <1>3, ConcatProperties, Zenon
<1>5. /\ c \in [0 .. Len(x) -> Nat] /\ e \in [0 .. Len(y) -> Nat]
      /\ \A k \in 1 .. Len(x) : Counts(x[k], K, c[k - 1], c[k])
      /\ \A k \in 1 .. Len(y) : Counts(y[k], K, e[k - 1], e[k])
  BY <1>2 DEF Keyed
<1> HIDE DEF z, W
<1>6. f \in [0 .. Len(z) -> Nat]
  <2>1. ASSUME NEW k \in 0 .. Len(z)
        PROVE  (IF k <= Len(x) THEN c[k] ELSE e[k - Len(x)]) \in Nat
    <3>1. CASE k <= Len(x)
      <4>1. k \in 0 .. Len(x)
        BY <1>3, <1>4, <3>1
      <4>2. QED
        BY <1>5, <3>1, <4>1
    <3>2. CASE ~(k <= Len(x))
      <4>1. k - Len(x) \in 0 .. Len(y)
        BY <1>3, <1>4, <3>2
      <4>2. QED
        BY <1>5, <3>2, <4>1
    <3>3. QED
      BY <3>1, <3>2
  <2>2. QED
    BY <2>1
<1>7. f[0] = a /\ f[Len(z)] = d
  <2>1. 0 \in 0 .. Len(z) /\ Len(z) \in 0 .. Len(z) /\ 0 <= Len(x)
    BY <1>3, <1>4
  <2>2. f[0] = c[0]
    BY <2>1
  <2>3. CASE Len(y) = 0
    <3>1. Len(z) = Len(x)
      BY <1>3, <1>4, <2>3
    <3>2. f[Len(z)] = c[Len(x)]
      BY <1>3, <2>1, <3>1
    <3>3. QED
      BY <1>2, <2>2, <2>3, <3>2
  <2>4. CASE Len(y) # 0
    <3>1. ~(Len(z) <= Len(x)) /\ Len(z) - Len(x) = Len(y)
      BY <1>3, <1>4, <2>4
    <3>2. f[Len(z)] = e[Len(y)]
      BY <2>1, <3>1
    <3>3. QED
      BY <1>2, <2>2, <3>2
  <2>5. QED
    BY <2>3, <2>4
<1>9. ASSUME NEW k \in 1 .. Len(z)
      PROVE  Counts(z[k], K, f[k - 1], f[k])
  <2>0. k \in 0 .. Len(z) /\ k - 1 \in 0 .. Len(z)
    BY <1>3, <1>4
  <2>1. CASE k <= Len(x)
    <3>1. k \in 1 .. Len(x) /\ k - 1 <= Len(x)
      BY <1>3, <1>4, <2>1
    <3>2. f[k - 1] = c[k - 1] /\ f[k] = c[k] /\ z[k] = x[k]
      BY <1>4, <2>0, <2>1, <3>1
    <3>3. QED
      BY <1>5, <3>1, <3>2
  <2>2. CASE ~(k <= Len(x))
    <3>1. k - Len(x) \in 1 .. Len(y) /\ k - 1 - Len(x) = k - Len(x) - 1
      BY <1>3, <1>4, <2>2
    <3>2. f[k] = e[k - Len(x)] /\ z[k] = y[k - Len(x)]
      BY <1>4, <2>0, <2>2
    <3>3. f[k - 1] = e[k - Len(x) - 1]
      <4>1. CASE k - 1 <= Len(x)
        <5>1. k - 1 = Len(x) /\ k - Len(x) - 1 = 0
          BY <1>3, <2>2, <4>1
        <5>2. f[k - 1] = c[Len(x)]
          BY <2>0, <4>1, <5>1
        <5>3. QED
          BY <1>2, <5>1, <5>2
      <4>2. CASE ~(k - 1 <= Len(x))
        BY <2>0, <3>1, <4>2
      <4>3. QED
        BY <4>1, <4>2
    <3>4. QED
      BY <1>5, <3>1, <3>2, <3>3
  <2>3. QED
    BY <2>1, <2>2
<1>10. Keyed(z, K, f)
  <2> HIDE DEF f
  <2>1. QED
    BY <1>6, <1>9 DEF Keyed
<1>11. Sequence(z)
  BY <1>4 DEF Sequence
<1>12. QED
  BY <1>7, <1>10, <1>11 DEF Runs, z

\* Instructions that are not key ones.
LEMMA QuietOnes ==
    \A K : \A a \in Nat :
      /\ Counts(Barrier, K, a, a)
      /\ \A f : Counts(Line(f), K, a, a) /\ Counts(SeparatorLine(f), K, a, a)
  BY DEF Counts, Quiet, Barrier, Line, SeparatorLine

\* Several instructions.
LEMMA RunsTwo ==
    ASSUME NEW K, NEW i, NEW j, NEW a, NEW b, NEW d, Counts(i, K, a, b), Counts(j, K, b, d)
    PROVE  Runs(<< i, j >>, K, a, d)
<1>0. << i, j >> = << i >> \o << j >>
  BY Tuples
<1>1. Runs(<< i >> \o << j >>, K, a, d)
  BY RunsOne, RunsBoth, Zenon
<1>2. QED
  BY <1>0, <1>1, Zenon

\* Three instructions.
LEMMA RunsThree ==
    ASSUME NEW K, NEW i, NEW j, NEW k, NEW a, NEW b, NEW d, NEW e,
           Counts(i, K, a, b), Counts(j, K, b, d), Counts(k, K, d, e)
    PROVE  Runs(<< i, j, k >>, K, a, e)
<1>0. << i, j, k >> = << i >> \o << j, k >>
  BY Tuples
<1>1. Runs(<< i >> \o << j, k >>, K, a, e)
  BY RunsOne, RunsTwo, RunsBoth, Zenon
<1>2. QED
  BY <1>0, <1>1, Zenon

\* Four instructions.
LEMMA RunsFour ==
    ASSUME NEW K, NEW i, NEW j, NEW k, NEW l, NEW a, NEW b, NEW d, NEW e, NEW f,
           Counts(i, K, a, b), Counts(j, K, b, d), Counts(k, K, d, e), Counts(l, K, e, f)
    PROVE  Runs(<< i, j, k, l >>, K, a, f)
<1>0. << i, j, k, l >> = << i >> \o << j, k, l >>
  BY Tuples
<1>1. Runs(<< i >> \o << j, k, l >>, K, a, f)
  BY RunsOne, RunsThree, RunsBoth, Zenon
<1>2. QED
  BY <1>0, <1>1, Zenon

\* Five instructions.
LEMMA RunsFive ==
    ASSUME NEW K, NEW i, NEW j, NEW k, NEW l, NEW m, NEW a, NEW b, NEW d, NEW e, NEW f, NEW g,
           Counts(i, K, a, b), Counts(j, K, b, d), Counts(k, K, d, e), Counts(l, K, e, f),
           Counts(m, K, f, g)
    PROVE  Runs(<< i, j, k, l, m >>, K, a, g)
<1>0. << i, j, k, l, m >> = << i >> \o << j, k, l, m >>
  BY Tuples
<1>1. Runs(<< i >> \o << j, k, l, m >>, K, a, g)
  BY RunsOne, RunsFour, RunsBoth, Zenon
<1>2. QED
  BY <1>0, <1>1, Zenon

\* Lines of the master only, and separators.
LEMMA RunsQuietly ==
    ASSUME NEW K, NEW a \in Nat, NEW f
    PROVE  \A id : /\ Runs(IF id = MASTER THEN << Line(f) >> ELSE <<>>, K, a, a)
                   /\ Runs(OnlyMaster(id, Line(f)), K, a, a)
                   /\ Runs(PrintSeparator(id, f), K, a, a)
<1> TAKE id
<1>1. Runs(<< Line(f) >>, K, a, a) /\ Runs(<< SeparatorLine(f) >>, K, a, a) /\ Runs(<< Barrier >>, K, a, a)
  BY QuietOnes, RunsOne
<1>2. Runs(<<>>, K, a, a)
  BY RunsNothing
<1> DEFINE x == << Barrier >>
           y == IF id = MASTER THEN << SeparatorLine(f) >> ELSE <<>>
<1>3. Runs(x, K, a, a) /\ Runs(y, K, a, a)
  BY <1>1, <1>2
<1> HIDE DEF x, y
<1>4. Runs(x \o y, K, a, a)
  BY <1>3, RunsBoth
<1>5. Runs((x \o y) \o x, K, a, a)
  BY <1>3, <1>4, RunsBoth
<1>6. Runs(PrintSeparator(id, f), K, a, a)
  BY <1>5 DEF PrintSeparator, x, y
<1>7. QED
  BY <1>1, <1>2, <1>6 DEF OnlyMaster

\* The number of key instructions passed does not depend on what they compute.
LEMMA SameCount ==
    ASSUME NEW x, NEW y, NEW K, NEW L, NEW c, NEW d, SameShape(x, y), Keyed(x, K, c), Keyed(y, L, d),
           c[0] = d[0]
    PROVE  Keyed(y, L, c) /\ c[Len(x)] = d[Len(y)]
<1>1. /\ Len(x) \in Nat /\ Len(y) = Len(x)
      /\ \A k \in 1 .. Len(x) : Quiet(x[k]) <=> Quiet(y[k])
  <2>1. Len(x) \in Nat /\ Len(y) = Len(x)
    BY DEF SameShape, Sequence
  <2>2. ASSUME NEW k \in 1 .. Len(x) PROVE Quiet(x[k]) <=> Quiet(y[k])
    <3>1. x[k].op = y[k].op
      BY DEF SameShape, SameKind
    <3>2. QED
      BY <3>1 DEF Quiet
  <2>3. QED
    BY <2>1, <2>2
<1>2. /\ c \in [0 .. Len(x) -> Nat] /\ d \in [0 .. Len(x) -> Nat]
      /\ \A k \in 1 .. Len(x) : Counts(x[k], K, c[k - 1], c[k]) /\ Counts(y[k], L, d[k - 1], d[k])
  BY <1>1 DEF Keyed
<1> DEFINE T == { k \in 0 .. Len(x) : c[k] = d[k] }
<1>3. 0 \in T
  BY <1>1
<1>4. ASSUME NEW k \in 1 .. Len(x), k - 1 \in T PROVE k \in T
  <2>1. Counts(x[k], K, c[k - 1], c[k]) /\ Counts(y[k], L, d[k - 1], d[k]) /\ c[k - 1] = d[k - 1]
    BY <1>2, <1>4
  <2>2. c[k] = d[k]
    BY <1>1, <2>1 DEF Counts
  <2>3. QED
    BY <1>1, <2>2
<1>5. \A k \in 0 .. Len(x) : k \in T
  <2> HIDE DEF T
  <2>1. QED
    BY <1>1, <1>3, <1>4, Upwards
<1>6. \A k \in 0 .. Len(x) : c[k] = d[k]
  BY <1>5
<1>7. c = d
  BY <1>2, <1>6
<1>8. QED
  BY <1>1, <1>7

\* A key instruction.
LEMMA CountsKey ==
    ASSUME NEW K, NEW i, NEW r \in Nat, NEW t, t = r + 1, t \in DOMAIN K, i = K[t],
           i.op \notin {"barrier", "print"}
    PROVE  Counts(i, K, r, t)
  BY DEF Counts, Quiet

\* Instructions that are key ones.
LEMMA KeyOnes ==
    /\ \A v, var : /\ Compute(var, v).op \notin {"barrier", "print"}
                   /\ Bcast(var, v).op \notin {"barrier", "print"}
                   /\ ReduceSum(v, var).op \notin {"barrier", "print"}
                   /\ ReduceMax(v, var).op \notin {"barrier", "print"}
                   /\ Scatter(v, var).op \notin {"barrier", "print"}
    /\ \A v, o, var : Gather(v, o, var).op \notin {"barrier", "print"}
  BY DEF Compute, Bcast, ReduceSum, ReduceMax, Scatter, Gather

\* Programs of key instructions only.
LEMMA KeysOnly ==
    /\ \A i : i.op \notin {"barrier", "print"} => Runs(<< i >>, << i >>, 0, 1)
    /\ \A i, k : i.op \notin {"barrier", "print"} /\ k.op \notin {"barrier", "print"}
                  => Runs(<< i, k >>, << i, k >>, 0, 2)
<1>1. ASSUME NEW i, i.op \notin {"barrier", "print"} PROVE Runs(<< i >>, << i >>, 0, 1)
  <2>1. PICK K : K = << i >>
    OBVIOUS
  <2>2. 1 \in DOMAIN K /\ K[1] = i /\ 1 = 0 + 1
    BY <2>1
  <2>3. Counts(i, K, 0, 1)
    BY <1>1, <2>2, CountsKey
  <2>4. QED
    BY <2>1, <2>3, RunsOne
<1>2. ASSUME NEW i, NEW k, i.op \notin {"barrier", "print"}, k.op \notin {"barrier", "print"}
      PROVE  Runs(<< i, k >>, << i, k >>, 0, 2)
  <2>1. PICK K : K = << i, k >>
    OBVIOUS
  <2>2. 1 \in DOMAIN K /\ 2 \in DOMAIN K /\ K[1] = i /\ K[2] = k /\ 1 = 0 + 1 /\ 2 = 1 + 1
    BY <2>1
  <2>3. Counts(i, K, 0, 1) /\ Counts(k, K, 1, 2)
    BY <1>2, <2>2, CountsKey
  <2>4. QED
    BY <2>1, <2>3, RunsTwo
<1>3. QED
  BY <1>1, <1>2

\* The doubling of an array in pieces: its key instructions.
LEMMA DoublerKeysAre ==
    ASSUME NEW j, j.prog \in Doublers, ~Refused(j), NEW p, NEW m, NEW K, K = Keys(j, p, m),
           NEW n, n = j.np
    PROVE  /\ Count(j) = 3
           /\ j.prog = "broadcastLoop" =>
                /\ Counts(Bcast("buf", IF p = MASTER THEN Fill(ARRAY_SIZE) ELSE Zeros(ARRAY_SIZE)), K, 0, 1)
                /\ Counts(Compute("part", Doubled(Piece(m.buf, ARRAY_SIZE \div n, p * (ARRAY_SIZE \div n)))),
                          K, 1, 2)
           /\ j.prog = "scatterLoop" =>
                Counts(Scatter(EqualPieces(Fill(ARRAY_SIZE), ARRAY_SIZE \div n, n), "part"), K, 0, 1)
           /\ j.prog = "scatterV" => Counts(Scatter(Chunks(Fill(ARRAY_SIZE), n), "part"), K, 0, 1)
           /\ j.prog # "broadcastLoop" => Counts(Compute("part", Doubled(m.part)), K, 1, 2)
           /\ j.prog # "scatterV" =>
                Counts(Gather(m.part, EqualOffsets(ARRAY_SIZE \div n, n), "all"), K, 2, 3)
           /\ j.prog = "scatterV" => Counts(Gather(m.part, ChunkOffsets(n), "all"), K, 2, 3)
<1>1. Count(j) = 3
  BY KeysAre DEF Count, DoublerOps
<1>2. K = DoublerKeys(j, p, m)
  BY KeysAre
<1>3. /\ DOMAIN K = 1 .. 3 /\ 1 \in 1 .. 3 /\ 2 \in 1 .. 3 /\ 3 \in 1 .. 3
      /\ 1 = 0 + 1 /\ 2 = 1 + 1 /\ 3 = 2 + 1
  BY <1>2 DEF DoublerKeys
<1>4. /\ K[1] = IF Loop(j) THEN Bcast("buf", AtMaster(p, Fill(ARRAY_SIZE), Zeros(ARRAY_SIZE)))
                           ELSE Scatter(Pieces(j), "part")
      /\ K[2] = Compute("part", Doubled(IF Loop(j) THEN Piece(m.buf, SizeOf(j, p), StartOf(j, p)) ELSE m.part))
      /\ K[3] = Gather(m.part, Offsets(j), "all")
  BY <1>2 DEF DoublerKeys
<1>5. ASSUME NEW i, i = K[1], i.op \notin {"barrier", "print"} PROVE Counts(i, K, 0, 1)
  BY <1>3, <1>5, CountsKey
<1>6. ASSUME NEW i, i = K[2], i.op \notin {"barrier", "print"} PROVE Counts(i, K, 1, 2)
  BY <1>3, <1>6, CountsKey
<1>7. ASSUME NEW i, i = K[3], i.op \notin {"barrier", "print"} PROVE Counts(i, K, 2, 3)
  BY <1>3, <1>7, CountsKey
<1>8. ASSUME j.prog = "broadcastLoop"
      PROVE  /\ Counts(Bcast("buf", IF p = MASTER THEN Fill(ARRAY_SIZE) ELSE Zeros(ARRAY_SIZE)), K, 0, 1)
             /\ Counts(Compute("part", Doubled(Piece(m.buf, ARRAY_SIZE \div n, p * (ARRAY_SIZE \div n)))), K, 1, 2)
  <2>1. Bcast("buf", IF p = MASTER THEN Fill(ARRAY_SIZE) ELSE Zeros(ARRAY_SIZE)) = K[1]
    BY <1>4, <1>8 DEF Loop, AtMaster
  <2>2. Compute("part", Doubled(Piece(m.buf, ARRAY_SIZE \div n, p * (ARRAY_SIZE \div n)))) = K[2]
    BY <1>4, <1>8 DEF Loop, SizeOf, StartOf
  <2>3. QED
    BY <1>5, <1>6, <2>1, <2>2, KeyOnes
<1>9. ASSUME j.prog = "scatterLoop"
      PROVE  Counts(Scatter(EqualPieces(Fill(ARRAY_SIZE), ARRAY_SIZE \div n, n), "part"), K, 0, 1)
  <2>1. Pieces(j) = EqualPieces(Fill(ARRAY_SIZE), ARRAY_SIZE \div n, n)
    BY <1>9 DEF Pieces, PieceOf, SizeOf, StartOf, EqualPieces
  <2>2. Scatter(EqualPieces(Fill(ARRAY_SIZE), ARRAY_SIZE \div n, n), "part") = K[1]
    BY <1>4, <1>9, <2>1 DEF Loop
  <2>3. QED
    BY <1>5, <2>2, KeyOnes
<1>10. ASSUME j.prog = "scatterV"
       PROVE  Counts(Scatter(Chunks(Fill(ARRAY_SIZE), n), "part"), K, 0, 1)
  <2>1. Pieces(j) = Chunks(Fill(ARRAY_SIZE), n)
    BY <1>10 DEF Pieces, PieceOf, SizeOf, StartOf, Chunks
  <2>2. Scatter(Chunks(Fill(ARRAY_SIZE), n), "part") = K[1]
    BY <1>4, <1>10, <2>1 DEF Loop
  <2>3. QED
    BY <1>5, <2>2, KeyOnes
<1>11. ASSUME j.prog # "broadcastLoop"
       PROVE  Counts(Compute("part", Doubled(m.part)), K, 1, 2)
  <2>1. Compute("part", Doubled(m.part)) = K[2]
    BY <1>4, <1>11 DEF Loop
  <2>2. QED
    BY <1>6, <2>1, KeyOnes
<1>12. ASSUME j.prog # "scatterV"
       PROVE  Counts(Gather(m.part, EqualOffsets(ARRAY_SIZE \div n, n), "all"), K, 2, 3)
  <2>1. Offsets(j) = EqualOffsets(ARRAY_SIZE \div n, n)
    BY <1>12 DEF Offsets, StartOf, EqualOffsets
  <2>2. Gather(m.part, EqualOffsets(ARRAY_SIZE \div n, n), "all") = K[3]
    BY <1>4, <2>1
  <2>3. QED
    BY <1>7, <2>2, KeyOnes
<1>13. ASSUME j.prog = "scatterV"
       PROVE  Counts(Gather(m.part, ChunkOffsets(n), "all"), K, 2, 3)
  <2>1. Offsets(j) = ChunkOffsets(n)
    BY <1>13 DEF Offsets, StartOf, ChunkOffsets
  <2>2. Gather(m.part, ChunkOffsets(n), "all") = K[3]
    BY <1>4, <2>1
  <2>3. QED
    BY <1>7, <2>2, KeyOnes
<1>14. QED
  BY <1>1, <1>8, <1>9, <1>10, <1>11, <1>12, <1>13


\* The programs broadcastLoopGather and JavaBroadcastLoopGather.
LEMMA LoopRuns ==
    ASSUME NEW j, j.prog = "broadcastLoop", NEW p, NEW m, NEW K, K = Keys(j, p, m), NEW n, n = j.np
    PROVE  Runs(broadcastLoopGather(p, n, m), K, 0, Count(j)) /\ Runs(JavaBroadcastLoopGather(p, n, m), K, 0, Count(j))
<1>1. CASE Refused(j)
  <2>1. Count(j) = 0
    BY <1>1, KeysAre DEF Count, DoublerOps, Doublers
  <2>2. Runs(<<>>, K, 0, 0) /\ Runs(PrintSeparator(p, 1), K, 0, 0)
    BY RunsNothing, RunsQuietly
  <2> DEFINE x == PrintSeparator(p, 1)
  <2> HIDE DEF x
  <2>3. Runs(x \o <<>>, K, 0, 0)
    BY <2>2, RunsBoth DEF x
  <2>4. JavaBroadcastLoopGather(p, n, m) = <<>>
    BY <1>1 DEF Refused, JavaBroadcastLoopGather
  <2>5. broadcastLoopGather(p, n, m) = <<>>
    BY <1>1 DEF Refused, broadcastLoopGather, x
  <2>6. QED
    BY <2>1, <2>2, <2>3, <2>4, <2>5
<1>2. CASE ~Refused(j)
  <2>1. PICK i, k, l : /\ i = Bcast("buf", IF p = MASTER THEN Fill(ARRAY_SIZE) ELSE Zeros(ARRAY_SIZE))
                       /\ k = Compute("part", Doubled(Piece(m.buf, ARRAY_SIZE \div n, p * (ARRAY_SIZE \div n))))
                       /\ l = Gather(m.part, EqualOffsets(ARRAY_SIZE \div n, n), "all")
    OBVIOUS
  <2>2. Count(j) = 3 /\ Counts(i, K, 0, 1) /\ Counts(k, K, 1, 2) /\ Counts(l, K, 2, 3)
    BY <1>2, <2>1, DoublerKeysAre DEF Doublers
  <2>3. Runs(broadcastLoopGather(p, n, m), K, 0, 3)
    <3> DEFINE x1 == << i, k, Barrier, l >>
    <3>1. Runs(x1, K, 0, 3)
      BY <2>2, QuietOnes, RunsFour
    <3> HIDE DEF x1
    <3>z. QED
      BY <1>2, <2>1, <3>1 DEF broadcastLoopGather, Refused, x1
  <2>4. Runs(JavaBroadcastLoopGather(p, n, m), K, 0, 3)
    <3> DEFINE x1 == << Line(0), i >>
               x2 == PrintSeparator(p, 1)
               x3 == << Line(1), k >>
               x4 == PrintSeparator(p, 2)
               x5 == << Line(2), l >>
               x6 == PrintSeparator(p, 3)
               x7 == << Line(3) >>
    <3>1. Runs(x1, K, 0, 1)
      BY <2>2, QuietOnes, RunsTwo
    <3>2. Runs(x2, K, 1, 1)
      BY RunsQuietly
    <3>3. Runs(x3, K, 1, 2)
      BY <2>2, QuietOnes, RunsTwo
    <3>4. Runs(x4, K, 2, 2)
      BY RunsQuietly
    <3>5. Runs(x5, K, 2, 3)
      BY <2>2, QuietOnes, RunsTwo
    <3>6. Runs(x6, K, 3, 3)
      BY RunsQuietly
    <3>7. Runs(x7, K, 3, 3)
      BY <2>2, QuietOnes, RunsOne
    <3> HIDE DEF x1, x2, x3, x4, x5, x6, x7
    <3>8. Runs(x1 \o x2, K, 0, 1)
      BY <3>1, <3>2, RunsBoth
    <3>9. Runs(x1 \o x2 \o x3, K, 0, 2)
      BY <3>8, <3>3, RunsBoth
    <3>10. Runs(x1 \o x2 \o x3 \o x4, K, 0, 2)
      BY <3>9, <3>4, RunsBoth
    <3>11. Runs(x1 \o x2 \o x3 \o x4 \o x5, K, 0, 3)
      BY <3>10, <3>5, RunsBoth
    <3>12. Runs(x1 \o x2 \o x3 \o x4 \o x5 \o x6, K, 0, 3)
      BY <3>11, <3>6, RunsBoth
    <3>13. Runs(x1 \o x2 \o x3 \o x4 \o x5 \o x6 \o x7, K, 0, 3)
      BY <3>12, <3>7, RunsBoth
    <3>z. QED
      BY <1>2, <2>1, <3>13 DEF JavaBroadcastLoopGather, Refused, x1, x2, x3, x4, x5, x6, x7
  <2>5. QED
    BY <2>2, <2>3, <2>4
<1>3. QED
  BY <1>1, <1>2

\* The programs scatterLoopGather and JavaScatterLoopGather.
LEMMA PiecesRun ==
    ASSUME NEW j, j.prog = "scatterLoop", NEW p, NEW m, NEW K, K = Keys(j, p, m), NEW n, n = j.np
    PROVE  Runs(scatterLoopGather(p, n, m), K, 0, Count(j)) /\ Runs(JavaScatterLoopGather(p, n, m), K, 0, Count(j))
<1>1. CASE Refused(j)
  <2>1. Count(j) = 0
    BY <1>1, KeysAre DEF Count, DoublerOps, Doublers
  <2>2. Runs(<<>>, K, 0, 0) /\ Runs(PrintSeparator(p, 1), K, 0, 0)
    BY RunsNothing, RunsQuietly
  <2> DEFINE x == PrintSeparator(p, 1)
  <2> HIDE DEF x
  <2>3. Runs(x \o <<>>, K, 0, 0)
    BY <2>2, RunsBoth DEF x
  <2>4. JavaScatterLoopGather(p, n, m) = <<>>
    BY <1>1 DEF Refused, JavaScatterLoopGather
  <2>5. scatterLoopGather(p, n, m) = x \o <<>>
    BY <1>1 DEF Refused, scatterLoopGather, x
  <2>6. QED
    BY <2>1, <2>2, <2>3, <2>4, <2>5
<1>2. CASE ~Refused(j)
  <2>1. PICK i, k, l : /\ i = Scatter(EqualPieces(Fill(ARRAY_SIZE), ARRAY_SIZE \div n, n), "part")
                       /\ k = Compute("part", Doubled(m.part))
                       /\ l = Gather(m.part, EqualOffsets(ARRAY_SIZE \div n, n), "all")
    OBVIOUS
  <2>2. Count(j) = 3 /\ Counts(i, K, 0, 1) /\ Counts(k, K, 1, 2) /\ Counts(l, K, 2, 3)
    BY <1>2, <2>1, DoublerKeysAre DEF Doublers
  <2>3. Runs(scatterLoopGather(p, n, m), K, 0, 3)
    <3> DEFINE x1 == PrintSeparator(p, 1)
               x2 == << Line(1), i, k, l, Line(1) >>
               x3 == PrintSeparator(p, 2)
    <3>1. Runs(x1, K, 0, 0)
      BY RunsQuietly
    <3>2. Runs(x2, K, 0, 3)
      BY <2>2, QuietOnes, RunsFive
    <3>3. Runs(x3, K, 3, 3)
      BY RunsQuietly
    <3> HIDE DEF x1, x2, x3
    <3>4. Runs(x2 \o x3, K, 0, 3)
      BY <3>3, <3>2, RunsBoth
    <3>5. Runs(x1 \o (x2 \o x3), K, 0, 3)
      BY <3>4, <3>1, RunsBoth
    <3>z. QED
      BY <1>2, <2>1, <3>5 DEF scatterLoopGather, Refused, x1, x2, x3
  <2>4. Runs(JavaScatterLoopGather(p, n, m), K, 0, 3)
    <3> DEFINE x1 == << Line(0), i >>
               x2 == PrintSeparator(p, 1)
               x3 == << Line(1), k >>
               x4 == PrintSeparator(p, 2)
               x5 == << Line(2), l >>
               x6 == PrintSeparator(p, 3)
               x7 == << Line(3) >>
    <3>1. Runs(x1, K, 0, 1)
      BY <2>2, QuietOnes, RunsTwo
    <3>2. Runs(x2, K, 1, 1)
      BY RunsQuietly
    <3>3. Runs(x3, K, 1, 2)
      BY <2>2, QuietOnes, RunsTwo
    <3>4. Runs(x4, K, 2, 2)
      BY RunsQuietly
    <3>5. Runs(x5, K, 2, 3)
      BY <2>2, QuietOnes, RunsTwo
    <3>6. Runs(x6, K, 3, 3)
      BY RunsQuietly
    <3>7. Runs(x7, K, 3, 3)
      BY <2>2, QuietOnes, RunsOne
    <3> HIDE DEF x1, x2, x3, x4, x5, x6, x7
    <3>8. Runs(x1 \o x2, K, 0, 1)
      BY <3>1, <3>2, RunsBoth
    <3>9. Runs(x1 \o x2 \o x3, K, 0, 2)
      BY <3>8, <3>3, RunsBoth
    <3>10. Runs(x1 \o x2 \o x3 \o x4, K, 0, 2)
      BY <3>9, <3>4, RunsBoth
    <3>11. Runs(x1 \o x2 \o x3 \o x4 \o x5, K, 0, 3)
      BY <3>10, <3>5, RunsBoth
    <3>12. Runs(x1 \o x2 \o x3 \o x4 \o x5 \o x6, K, 0, 3)
      BY <3>11, <3>6, RunsBoth
    <3>13. Runs(x1 \o x2 \o x3 \o x4 \o x5 \o x6 \o x7, K, 0, 3)
      BY <3>12, <3>7, RunsBoth
    <3>z. QED
      BY <1>2, <2>1, <3>13 DEF JavaScatterLoopGather, Refused, x1, x2, x3, x4, x5, x6, x7
  <2>5. QED
    BY <2>2, <2>3, <2>4
<1>3. QED
  BY <1>1, <1>2

\* The programs scatterVGatherV and JavaScatterVGatherV.
LEMMA ChunksRun ==
    ASSUME NEW j, j.prog = "scatterV", NEW p, NEW m, NEW K, K = Keys(j, p, m), NEW n, n = j.np
    PROVE  Runs(scatterVGatherV(p, n, m), K, 0, Count(j)) /\ Runs(JavaScatterVGatherV(p, n, m), K, 0, Count(j))
<1>1. CASE Refused(j)
  <2>1. Count(j) = 0
    BY <1>1, KeysAre DEF Count, DoublerOps, Doublers
  <2>2. Runs(<<>>, K, 0, 0) /\ Runs(PrintSeparator(p, 1), K, 0, 0)
    BY RunsNothing, RunsQuietly
  <2> DEFINE x == PrintSeparator(p, 1)
  <2> HIDE DEF x
  <2>3. Runs(x \o <<>>, K, 0, 0)
    BY <2>2, RunsBoth DEF x
  <2>4. JavaScatterVGatherV(p, n, m) = <<>>
    BY <1>1 DEF Refused, JavaScatterVGatherV
  <2>5. scatterVGatherV(p, n, m) = x \o <<>>
    BY <1>1 DEF Refused, scatterVGatherV, x
  <2>6. QED
    BY <2>1, <2>2, <2>3, <2>4, <2>5
<1>2. CASE ~Refused(j)
  <2>1. PICK i, k, l : /\ i = Scatter(Chunks(Fill(ARRAY_SIZE), n), "part")
                       /\ k = Compute("part", Doubled(m.part))
                       /\ l = Gather(m.part, ChunkOffsets(n), "all")
    OBVIOUS
  <2>2. Count(j) = 3 /\ Counts(i, K, 0, 1) /\ Counts(k, K, 1, 2) /\ Counts(l, K, 2, 3)
    BY <1>2, <2>1, DoublerKeysAre DEF Doublers
  <2>3. Runs(scatterVGatherV(p, n, m), K, 0, 3)
    <3> DEFINE x1 == PrintSeparator(p, 1)
               x2 == << Line(1), i, k, l, Line(1) >>
               x3 == PrintSeparator(p, 2)
    <3>1. Runs(x1, K, 0, 0)
      BY RunsQuietly
    <3>2. Runs(x2, K, 0, 3)
      BY <2>2, QuietOnes, RunsFive
    <3>3. Runs(x3, K, 3, 3)
      BY RunsQuietly
    <3> HIDE DEF x1, x2, x3
    <3>4. Runs(x2 \o x3, K, 0, 3)
      BY <3>3, <3>2, RunsBoth
    <3>5. Runs(x1 \o (x2 \o x3), K, 0, 3)
      BY <3>4, <3>1, RunsBoth
    <3>z. QED
      BY <1>2, <2>1, <3>5 DEF scatterVGatherV, Refused, x1, x2, x3
  <2>4. Runs(JavaScatterVGatherV(p, n, m), K, 0, 3)
    <3> DEFINE x1 == << Line(0), i >>
               x2 == PrintSeparator(p, 1)
               x3 == << Line(1), k >>
               x4 == PrintSeparator(p, 2)
               x5 == << Line(2), l >>
               x6 == PrintSeparator(p, 3)
               x7 == << Line(3) >>
    <3>1. Runs(x1, K, 0, 1)
      BY <2>2, QuietOnes, RunsTwo
    <3>2. Runs(x2, K, 1, 1)
      BY RunsQuietly
    <3>3. Runs(x3, K, 1, 2)
      BY <2>2, QuietOnes, RunsTwo
    <3>4. Runs(x4, K, 2, 2)
      BY RunsQuietly
    <3>5. Runs(x5, K, 2, 3)
      BY <2>2, QuietOnes, RunsTwo
    <3>6. Runs(x6, K, 3, 3)
      BY RunsQuietly
    <3>7. Runs(x7, K, 3, 3)
      BY <2>2, QuietOnes, RunsOne
    <3> HIDE DEF x1, x2, x3, x4, x5, x6, x7
    <3>8. Runs(x1 \o x2, K, 0, 1)
      BY <3>1, <3>2, RunsBoth
    <3>9. Runs(x1 \o x2 \o x3, K, 0, 2)
      BY <3>8, <3>3, RunsBoth
    <3>10. Runs(x1 \o x2 \o x3 \o x4, K, 0, 2)
      BY <3>9, <3>4, RunsBoth
    <3>11. Runs(x1 \o x2 \o x3 \o x4 \o x5, K, 0, 3)
      BY <3>10, <3>5, RunsBoth
    <3>12. Runs(x1 \o x2 \o x3 \o x4 \o x5 \o x6, K, 0, 3)
      BY <3>11, <3>6, RunsBoth
    <3>13. Runs(x1 \o x2 \o x3 \o x4 \o x5 \o x6 \o x7, K, 0, 3)
      BY <3>12, <3>7, RunsBoth
    <3>z. QED
      BY <1>2, <2>1, <3>13 DEF JavaScatterVGatherV, Refused, x1, x2, x3, x4, x5, x6, x7
  <2>5. QED
    BY <2>2, <2>3, <2>4
<1>3. QED
  BY <1>1, <1>2

\* Key instructions in a list of one or two.
LEMMA KeyCounts ==
    /\ \A i : i.op \notin {"barrier", "print"} => Counts(i, << i >>, 0, 1)
    /\ \A i, k : i.op \notin {"barrier", "print"} /\ k.op \notin {"barrier", "print"}
                  => Counts(i, << i, k >>, 0, 1) /\ Counts(k, << i, k >>, 1, 2)
<1>1. ASSUME NEW i, i.op \notin {"barrier", "print"} PROVE Counts(i, << i >>, 0, 1)
  <2>1. PICK K : K = << i >>
    OBVIOUS
  <2>2. 1 \in DOMAIN K /\ K[1] = i /\ 1 = 0 + 1
    BY <2>1
  <2>3. QED
    BY <1>1, <2>1, <2>2, CountsKey
<1>2. ASSUME NEW i, NEW k, i.op \notin {"barrier", "print"}, k.op \notin {"barrier", "print"}
      PROVE  Counts(i, << i, k >>, 0, 1) /\ Counts(k, << i, k >>, 1, 2)
  <2>1. PICK K : K = << i, k >>
    OBVIOUS
  <2>2. 1 \in DOMAIN K /\ 2 \in DOMAIN K /\ K[1] = i /\ K[2] = k /\ 1 = 0 + 1 /\ 2 = 1 + 1
    BY <2>1
  <2>3. QED
    BY <1>2, <2>1, <2>2, CountsKey
<1>3. QED
  BY <1>1, <1>2

\* The languages of these programs.
LEMMA KeyLanguages ==
    ASSUME NEW j, KeyJob(j)
    PROVE  /\ j.np \in Nat \ {0}
           /\ j.lang \in {"C", "Java", "Python"}
           /\ j.prog \in {"reduceTiming", "broadcastLoop", "scatterLoop", "scatterV"}
                => j.lang \in {"C", "Java"}
           /\ j.prog = "scatterGather" => j.lang = "Python"
  BY JobsAssumption DEF KeyJob, KeyProgs, Programs

\* The programs of every language.
LEMMA KeyTexts ==
    ASSUME NEW j, NEW p, NEW m
    PROVE  /\ j.lang = "C" => Text(j, p, m) = CCode(j.prog, p, j.np, m, j.given)
           /\ j.lang = "Java" => Text(j, p, m) = JavaCode(j.prog, p, j.np, m, j.given)
           /\ j.lang = "Python" => Text(j, p, m) = PyCode(j.prog, p, j.np, m, j.given)
  BY DEF Text

\* The reductions of single numbers.
LEMMA ReductionRuns ==
    ASSUME NEW j, KeyJob(j), j.prog = "reduction", NEW p, NEW m
    PROVE  Runs(Text(j, p, m), Keys(j, p, m), 0, Count(j))
<1>1. Keys(j, p, m) = ReductionKeys(j, p) /\ Count(j) = 2
  BY KeysAre DEF Count, ReductionOps
<1>2. PICK i, k, x, y : /\ i = ReduceSum(Square(p), "buf") /\ k = ReduceMax(Square(p), "all")
                        /\ x = Compute("buf", Square(p)) /\ y = Compute("all", Square(p))
  OBVIOUS
<1>3. Runs(<< i, k >>, << i, k >>, 0, 2) /\ Runs(<< x, y >>, << x, y >>, 0, 2)
  BY <1>2, KeysOnly, KeyOnes
<1>4. CASE By1(j)
  <2>1. Text(j, p, m) = << x, y >>
    <3>1. Text(j, p, m) = PyReduction(p, j.np)
      BY <1>4, KeyTexts DEF By1, PyCode
    <3>2. ~(j.np > 1)
      BY <1>4, KeyLanguages DEF By1
    <3>3. QED
      BY <1>2, <3>1, <3>2 DEF PyReduction, Square
  <2>2. QED
    BY <1>1, <1>2, <1>3, <1>4, <2>1 DEF ReductionKeys
<1>5. CASE ~By1(j)
  <2>1. Text(j, p, m) = << i, k >>
    <3>1. CASE j.lang = "C"
      BY <1>2, <3>1, KeyTexts, ZenonT(40) DEF CCode, reduction, Square
    <3>2. CASE j.lang = "Java"
      BY <1>2, <3>2, KeyTexts DEF JavaCode, JavaReduction, reduction, Square
    <3>3. CASE j.lang = "Python"
      <4>1. Text(j, p, m) = PyReduction(p, j.np)
        BY <3>3, KeyTexts DEF PyCode
      <4>2. j.np > 1
        BY <1>5, <3>3, KeyLanguages DEF By1
      <4>3. QED
        BY <1>2, <4>1, <4>2 DEF PyReduction, Square
    <3>4. QED
      BY <3>1, <3>2, <3>3, KeyLanguages
  <2>2. QED
    BY <1>1, <1>2, <1>3, <1>5, <2>1 DEF ReductionKeys
<1>6. QED
  BY <1>4, <1>5

\* The reduction of arrays in C.
LEMMA Reduction2Runs ==
    ASSUME NEW p, NEW n, NEW i, i.op \notin {"barrier", "print"}, i = ReduceSum([k \in 1 .. 5 |-> p * (k - 1)], "all")
    PROVE  Runs(reduction2(p), << i >>, 0, 1)
<1> DEFINE K == << i >>
<1>1. Counts(i, K, 0, 1)
  BY KeyCounts
<1> HIDE DEF K
<1> DEFINE x1 == IF p = MASTER THEN << Line(0) >> ELSE <<>>
           x2 == PrintSeparator(p, 1)
           x3 == << Line(1) >>
           x4 == PrintSeparator(p, 2)
           x5 == << i >>
           x6 == IF p = MASTER THEN << Line(2) >> ELSE <<>>
<1>11. Runs(x1, K, 0, 0)
  BY RunsQuietly
<1>12. Runs(x2, K, 0, 0)
  BY RunsQuietly
<1>13. Runs(x3, K, 0, 0)
  BY <1>1, QuietOnes, RunsOne
<1>14. Runs(x4, K, 0, 0)
  BY RunsQuietly
<1>15. Runs(x5, K, 0, 1)
  BY <1>1, QuietOnes, RunsOne
<1>16. Runs(x6, K, 1, 1)
  BY RunsQuietly
<1> HIDE DEF x1, x2, x3, x4, x5, x6
<1>17. Runs(x1 \o x2, K, 0, 0)
  BY <1>11, <1>12, RunsBoth
<1>18. Runs(x1 \o x2 \o x3, K, 0, 0)
  BY <1>17, <1>13, RunsBoth
<1>19. Runs(x1 \o x2 \o x3 \o x4, K, 0, 0)
  BY <1>18, <1>14, RunsBoth
<1>110. Runs(x1 \o x2 \o x3 \o x4 \o x5, K, 0, 1)
  BY <1>19, <1>15, RunsBoth
<1>111. Runs(x1 \o x2 \o x3 \o x4 \o x5 \o x6, K, 0, 1)
  BY <1>110, <1>16, RunsBoth
<1>z. QED
  BY <1>111 DEF K, reduction2, x1, x2, x3, x4, x5, x6

\* The scatter in Java.
LEMMA JavaScatterRuns ==
    ASSUME NEW p, NEW n, NEW i, i.op \notin {"barrier", "print"}, i = Scatter(EqualPieces([k \in 1 .. 8 |-> k * 11], 8 \div n, n), "part")
    PROVE  n > 8 \/ Runs(JavaScatter(p, n), << i >>, 0, 1)
<1> DEFINE K == << i >>
<1>1. Counts(i, K, 0, 1)
  BY KeyCounts
<1> HIDE DEF K
<1> DEFINE x1 == OnlyMaster(p, Line(0))
           x2 == << Barrier, Line(0) >>
           x3 == PrintSeparator(p, 1)
           x4 == << i >>
           x5 == OnlyMaster(p, Line(1))
           x6 == << Barrier, Line(1), Barrier >>
           x7 == OnlyMaster(p, Line(1))
<1>11. Runs(x1, K, 0, 0)
  BY RunsQuietly
<1>12. Runs(x2, K, 0, 0)
  BY <1>1, QuietOnes, RunsTwo
<1>13. Runs(x3, K, 0, 0)
  BY RunsQuietly
<1>14. Runs(x4, K, 0, 1)
  BY <1>1, QuietOnes, RunsOne
<1>15. Runs(x5, K, 1, 1)
  BY RunsQuietly
<1>16. Runs(x6, K, 1, 1)
  BY <1>1, QuietOnes, RunsThree
<1>17. Runs(x7, K, 1, 1)
  BY RunsQuietly
<1> HIDE DEF x1, x2, x3, x4, x5, x6, x7
<1>18. Runs(x1 \o x2, K, 0, 0)
  BY <1>11, <1>12, RunsBoth
<1>19. Runs(x1 \o x2 \o x3, K, 0, 0)
  BY <1>18, <1>13, RunsBoth
<1>110. Runs(x1 \o x2 \o x3 \o x4, K, 0, 1)
  BY <1>19, <1>14, RunsBoth
<1>111. Runs(x1 \o x2 \o x3 \o x4 \o x5, K, 0, 1)
  BY <1>110, <1>15, RunsBoth
<1>112. Runs(x1 \o x2 \o x3 \o x4 \o x5 \o x6, K, 0, 1)
  BY <1>111, <1>16, RunsBoth
<1>113. Runs(x1 \o x2 \o x3 \o x4 \o x5 \o x6 \o x7, K, 0, 1)
  BY <1>112, <1>17, RunsBoth
<1>z. QED
  BY <1>113 DEF K, JavaScatter, x1, x2, x3, x4, x5, x6, x7

\* The gather in Java.
LEMMA JavaGatherRuns ==
    ASSUME NEW p, NEW n, NEW i, i.op \notin {"barrier", "print"}, i = Gather([k \in 1 .. 3 |-> p * 10 + (k - 1)], EqualOffsets(3, n), "all")
    PROVE  Runs(JavaGather(p, n), << i >>, 0, 1)
<1> DEFINE K == << i >>
<1>1. Counts(i, K, 0, 1)
  BY KeyCounts
<1> HIDE DEF K
<1> DEFINE x1 == OnlyMaster(p, Line(0))
           x2 == << Barrier, Line(0), Barrier >>
           x3 == PrintSeparator(p, 1)
           x4 == << i >>
           x5 == OnlyMaster(p, Line(1))
<1>11. Runs(x1, K, 0, 0)
  BY RunsQuietly
<1>12. Runs(x2, K, 0, 0)
  BY <1>1, QuietOnes, RunsThree
<1>13. Runs(x3, K, 0, 0)
  BY RunsQuietly
<1>14. Runs(x4, K, 0, 1)
  BY <1>1, QuietOnes, RunsOne
<1>15. Runs(x5, K, 1, 1)
  BY RunsQuietly
<1> HIDE DEF x1, x2, x3, x4, x5
<1>16. Runs(x1 \o x2, K, 0, 0)
  BY <1>11, <1>12, RunsBoth
<1>17. Runs(x1 \o x2 \o x3, K, 0, 0)
  BY <1>16, <1>13, RunsBoth
<1>18. Runs(x1 \o x2 \o x3 \o x4, K, 0, 1)
  BY <1>17, <1>14, RunsBoth
<1>19. Runs(x1 \o x2 \o x3 \o x4 \o x5, K, 0, 1)
  BY <1>18, <1>15, RunsBoth
<1>z. QED
  BY <1>19 DEF K, JavaGather, x1, x2, x3, x4, x5

\* The reductions of arrays.
LEMMA ArraysRun ==
    ASSUME NEW j, KeyJob(j), j.prog = "reduction2", NEW p, NEW m
    PROVE  Runs(Text(j, p, m), Keys(j, p, m), 0, Count(j))
<1>1. Keys(j, p, m) = ArraysKeys(j, p) /\ Ops(j) = ArraysOps(j)
  BY KeysAre
<1>2. CASE j.lang = "Python"
  <2>1. PICK i, k : /\ i = ReduceMax(PyMultiples(p), "all")
                    /\ k = Gather(PyMultiples(p), EqualOffsets(5, j.np), "buf")
    OBVIOUS
  <2>2. Runs(<< i, k >>, << i, k >>, 0, 2)
    BY <2>1, KeysOnly, KeyOnes
  <2>3. Text(j, p, m) = << i, k >>
    BY <1>2, <2>1, KeyTexts DEF PyCode, PyReductionList, PyMultiples
  <2>4. Count(j) = 2 /\ Keys(j, p, m) = << i, k >>
    BY <1>1, <1>2, <2>1 DEF Count, ArraysOps, ArraysKeys
  <2>5. QED
    BY <2>2, <2>3, <2>4
<1>3. CASE j.lang # "Python"
  <2>1. PICK i : i = ReduceSum(Multiples(p), "all")
    OBVIOUS
  <2>2. i.op \notin {"barrier", "print"}
    BY <2>1, KeyOnes
  <2>3. Runs(reduction2(p), << i >>, 0, 1)
    BY <2>1, <2>2, Reduction2Runs DEF Multiples
  <2>4. Text(j, p, m) = reduction2(p)
    BY <1>3, KeyTexts, KeyLanguages DEF CCode, JavaCode, JavaReduction2
  <2>5. Count(j) = 1 /\ Keys(j, p, m) = << i >>
    BY <1>1, <1>3, <2>1 DEF Count, ArraysOps, ArraysKeys
  <2>6. QED
    BY <2>3, <2>4, <2>5
<1>4. QED
  BY <1>2, <1>3

\* The reduction of times.
LEMMA TimingRuns ==
    ASSUME NEW j, KeyJob(j), j.prog = "reduceTiming", NEW p, NEW m
    PROVE  Runs(Text(j, p, m), Keys(j, p, m), 0, Count(j))
<1>1. Keys(j, p, m) = TimingKeys(j, p) /\ Count(j) = 1
  BY KeysAre DEF Count, TimingOps
<1>2. j.lang \in {"C", "Java"}
  BY KeyLanguages
<1>3. PICK i, k : /\ i = ReduceMax(<< (p + 1) \div j.np >>, "all")
                  /\ k = ReduceSum(<< 1000 >>, "all")
  OBVIOUS
<1>4. Counts(i, << i >>, 0, 1) /\ Counts(k, << k >>, 0, 1)
  BY <1>3, KeyCounts, KeyOnes
<1>5. CASE j.lang = "C"
  <2>1. Text(j, p, m) = << Barrier, i >>
    BY <1>3, <1>5, KeyTexts, ZenonT(40) DEF CCode, reduceTiming
  <2>2. Runs(<< Barrier, i >>, << i >>, 0, 1)
    BY <1>4, QuietOnes, RunsTwo
  <2>3. QED
    BY <1>1, <1>3, <1>5, <2>1, <2>2 DEF TimingKeys
<1>6. CASE j.lang = "Java"
  <2>1. Text(j, p, m) = << Barrier, Barrier, k >>
    BY <1>3, <1>6, KeyTexts DEF JavaCode, JavaReducePlusTiming
  <2>2. Runs(<< Barrier, Barrier, k >>, << k >>, 0, 1)
    BY <1>4, QuietOnes, RunsThree
  <2>3. QED
    BY <1>1, <1>3, <1>6, <2>1, <2>2 DEF TimingKeys
<1>7. QED
  BY <1>2, <1>5, <1>6

\* The scatters.
LEMMA ScatterRuns ==
    ASSUME NEW j, KeyJob(j), j.prog = "scatter", NEW p, NEW m
    PROVE  Runs(Text(j, p, m), Keys(j, p, m), 0, Count(j))
<1>1. Keys(j, p, m) = ScatterKeys(j) /\ Ops(j) = ScatterOps(j)
  BY KeysAre
<1>2. CASE TooMany(j)
  <2>1. Text(j, p, m) = <<>>
    BY <1>2, KeyTexts DEF TooMany, JavaCode, JavaScatter
  <2>2. Count(j) = 0
    BY <1>1, <1>2 DEF ScatterOps, Count
  <2>3. QED
    BY <2>1, <2>2, RunsNothing
<1>3. CASE ~TooMany(j)
  <2>1. PICK i, k : /\ i = Scatter(Rows(j.np), "part")
                    /\ k = Scatter(EqualPieces(Elevens, 8 \div j.np, j.np), "part")
    OBVIOUS
  <2>2. Runs(<< i >>, << i >>, 0, 1) /\ Runs(<< k >>, << k >>, 0, 1)
    BY <2>1, KeysOnly, KeyOnes
  <2>3. Count(j) = 1
    BY <1>1, <1>3 DEF ScatterOps, Count
  <2>4. CASE j.lang = "C"
    <3>1. Text(j, p, m) = << k >>
      BY <2>1, <2>4, KeyTexts DEF CCode, scatter, Elevens
    <3>2. Keys(j, p, m) = << k >>
      BY <1>1, <1>3, <2>1, <2>4 DEF ScatterKeys
    <3>3. QED
      BY <2>2, <2>3, <3>1, <3>2
  <2>5. CASE j.lang = "Java"
    <3>1. Text(j, p, m) = JavaScatter(p, j.np)
      BY <2>5, KeyTexts DEF JavaCode
    <3>2. Keys(j, p, m) = << k >>
      BY <1>1, <1>3, <2>1, <2>5 DEF ScatterKeys
    <3>3. ~(j.np > 8)
      BY <1>3, <2>5 DEF TooMany
    <3>4. k = Scatter(EqualPieces([l \in 1 .. 8 |-> l * 11], 8 \div j.np, j.np), "part")
      BY <2>1 DEF Elevens
    <3>5. k.op \notin {"barrier", "print"}
      BY <2>1, KeyOnes
    <3>6. Runs(JavaScatter(p, j.np), << k >>, 0, 1)
      BY <3>3, <3>4, <3>5, JavaScatterRuns
    <3>7. QED
      BY <2>3, <3>1, <3>2, <3>6
  <2>6. CASE j.lang = "Python"
    <3>1. Text(j, p, m) = << i >>
      BY <2>1, <2>6, KeyTexts DEF PyCode, PyScatter, Rows
    <3>2. Keys(j, p, m) = << i >>
      BY <1>1, <1>3, <2>1, <2>6 DEF ScatterKeys
    <3>3. QED
      BY <2>2, <2>3, <3>1, <3>2
  <2>7. QED
    BY <2>4, <2>5, <2>6, KeyLanguages
<1>4. QED
  BY <1>2, <1>3

\* The gathers.
LEMMA GatherRuns ==
    ASSUME NEW j, KeyJob(j), j.prog = "gather", NEW p, NEW m
    PROVE  Runs(Text(j, p, m), Keys(j, p, m), 0, Count(j))
<1>1. PICK i : i = Gather(Held(j, p), EqualOffsets(3, j.np), "all")
  OBVIOUS
<1>2. Keys(j, p, m) = << i >> /\ Count(j) = 1
  BY <1>1, KeysAre DEF GatherKeys, GatherOps, Count
<1>3. i.op \notin {"barrier", "print"}
  BY <1>1, KeyOnes
<1>4. Runs(<< i >>, << i >>, 0, 1)
  BY <1>3, KeysOnly
<1>5. CASE j.lang = "C"
  <2>1. Text(j, p, m) = << i >>
    BY <1>1, <1>5, KeyTexts DEF CCode, gather, Held, Tens
  <2>2. QED
    BY <1>2, <1>4, <2>1
<1>6. CASE j.lang = "Java"
  <2>1. Text(j, p, m) = JavaGather(p, j.np)
    BY <1>6, KeyTexts DEF JavaCode
  <2>2. i = Gather([k \in 1 .. 3 |-> p * 10 + (k - 1)], EqualOffsets(3, j.np), "all")
    BY <1>1, <1>6 DEF Held, Tens
  <2>3. Runs(JavaGather(p, j.np), << i >>, 0, 1)
    BY <1>3, <2>2, JavaGatherRuns
  <2>4. QED
    BY <1>2, <2>1, <2>3
<1>7. CASE j.lang = "Python"
  <2>1. Text(j, p, m) = << i >>
    BY <1>1, <1>7, KeyTexts DEF PyCode, PyGather, Held, PyTens
  <2>2. QED
    BY <1>2, <1>4, <2>1
<1>8. QED
  BY <1>5, <1>6, <1>7, KeyLanguages

\* The scatter and gather in Python.
LEMMA BothRuns ==
    ASSUME NEW j, KeyJob(j), j.prog = "scatterGather", NEW p, NEW m
    PROVE  Runs(Text(j, p, m), Keys(j, p, m), 0, Count(j))
<1>1. PICK i, k : /\ i = Scatter(EqualPieces(Numbers(j.np), 3, j.np), "part")
                  /\ k = Gather(TenTimes(m.part), EqualOffsets(3, j.np), "all")
  OBVIOUS
<1>2. Keys(j, p, m) = << i, k >> /\ Count(j) = 2
  BY <1>1, KeysAre DEF BothKeys, BothOps, Count
<1>3. Runs(<< i, k >>, << i, k >>, 0, 2)
  BY <1>1, KeysOnly, KeyOnes
<1>4. Text(j, p, m) = << i, k >>
  BY <1>1, KeyLanguages, KeyTexts DEF PyCode, PyScatterGather, Numbers, TenTimes
<1>5. QED
  BY <1>2, <1>3, <1>4

\* Every program of KeyProgs runs through its key instructions.
LEMMA KeyTextRuns ==
    ASSUME NEW j, KeyJob(j), NEW p, NEW m
    PROVE  Runs(Text(j, p, m), Keys(j, p, m), 0, Count(j))
<1>1. CASE j.prog \in Doublers
  <2>1. j.lang \in {"C", "Java"} /\ j.prog \in {"broadcastLoop", "scatterLoop", "scatterV"}
    BY <1>1, KeyLanguages DEF Doublers
  <2>2. CASE j.prog = "broadcastLoop"
    <3>1. Text(j, p, m) = IF j.lang = "C" THEN broadcastLoopGather(p, j.np, m)
                                          ELSE JavaBroadcastLoopGather(p, j.np, m)
      BY <2>1, <2>2, KeyTexts DEF CCode, JavaCode
    <3>2. QED
      BY <2>2, <3>1, LoopRuns
  <2>3. CASE j.prog = "scatterLoop"
    <3>1. Text(j, p, m) = IF j.lang = "C" THEN scatterLoopGather(p, j.np, m)
                                          ELSE JavaScatterLoopGather(p, j.np, m)
      BY <2>1, <2>3, KeyTexts DEF CCode, JavaCode
    <3>2. QED
      BY <2>3, <3>1, PiecesRun
  <2>4. CASE j.prog = "scatterV"
    <3>1. Text(j, p, m) = IF j.lang = "C" THEN scatterVGatherV(p, j.np, m)
                                          ELSE JavaScatterVGatherV(p, j.np, m)
      BY <2>1, <2>4, KeyTexts DEF CCode, JavaCode
    <3>2. QED
      BY <2>4, <3>1, ChunksRun
  <2>5. QED
    BY <2>1, <2>2, <2>3, <2>4
<1>2. QED
  BY <1>1, ReductionRuns, ArraysRun, TimingRuns, ScatterRuns, GatherRuns, BothRuns
     DEF KeyJob, KeyProgs, Doublers

\* There are as many key instructions as operations.
LEMMA KeysLength ==
    ASSUME NEW j, KeyJob(j), NEW p, NEW m
    PROVE  DOMAIN Keys(j, p, m) = 1 .. Count(j)
<1>1. CASE j.prog = "reduction"
  BY <1>1, KeysAre DEF ReductionKeys, ReductionOps, Count
<1>2. CASE j.prog = "reduction2"
  BY <1>2, KeysAre DEF ArraysKeys, ArraysOps, Count
<1>3. CASE j.prog = "reduceTiming"
  <2>1. PICK x, y : x = ReduceMax(<< (p + 1) \div j.np >>, "all") /\ y = ReduceSum(<< 1000 >>, "all")
    OBVIOUS
  <2>2. Keys(j, p, m) = << x >> \/ Keys(j, p, m) = << y >>
    BY <1>3, <2>1, KeysAre DEF TimingKeys
  <2>3. Ops(j) = << "max" >> \/ Ops(j) = << "sum" >>
    BY <1>3, KeysAre DEF TimingOps
  <2>4. QED
    BY <2>2, <2>3 DEF Count
<1>4. CASE j.prog = "scatter"
  BY <1>4, KeysAre DEF ScatterKeys, ScatterOps, Count
<1>5. CASE j.prog = "gather"
  BY <1>5, KeysAre DEF GatherKeys, GatherOps, Count
<1>6. CASE j.prog = "scatterGather"
  BY <1>6, KeysAre DEF BothKeys, BothOps, Count
<1>7. CASE j.prog \in Doublers
  BY <1>7, KeysAre DEF DoublerKeys, DoublerOps, Count
<1>8. QED
  BY <1>1, <1>2, <1>3, <1>4, <1>5, <1>6, <1>7 DEF KeyJob, KeyProgs, Doublers

\* How many key instructions process p has passed when it has performed so many
\* instructions of its program.
KeyCourse(j, p) ==
  CHOOSE c : /\ Keyed(Text(j, p, Blank), Keys(j, p, Blank), c)
             /\ c[0] = 0 /\ c[Len(Text(j, p, Blank))] = Count(j)

\* It does not depend on what the process has in memory.
LEMMA CourseIs ==
    ASSUME NEW j, KeyJob(j), NEW p, NEW m
    PROVE  /\ Keyed(Text(j, p, m), Keys(j, p, m), KeyCourse(j, p))
           /\ KeyCourse(j, p)[0] = 0 /\ KeyCourse(j, p)[Len(Text(j, p, m))] = Count(j)
           /\ Sequence(Text(j, p, m)) /\ Len(Text(j, p, m)) = Len(Text(j, p, Blank))
           /\ Len(Text(j, p, m)) \in Nat
<1>1. PICK x, y, K, L : /\ x = Text(j, p, Blank) /\ y = Text(j, p, m)
                        /\ K = Keys(j, p, Blank) /\ L = Keys(j, p, m)
  OBVIOUS
<1>2. j \in Jobs /\ j.prog \in CollectiveProgs
  BY DEF KeyJob, KeyProgs, CollectiveProgs
<1>3. SameShape(x, y)
  BY <1>1, <1>2, TextShape
<1>4. Runs(x, K, 0, Count(j)) /\ Runs(y, L, 0, Count(j))
  BY <1>1, KeyTextRuns
<1>5. PICK c : c = KeyCourse(j, p)
  OBVIOUS
<1>6. Keyed(x, K, c) /\ c[0] = 0 /\ c[Len(x)] = Count(j)
  <2>1. \E b : Keyed(x, K, b) /\ b[0] = 0 /\ b[Len(x)] = Count(j)
    BY <1>4 DEF Runs
  <2>2. QED
    BY <1>1, <1>5, <2>1 DEF KeyCourse
<1>7. PICK d : Keyed(y, L, d) /\ d[0] = 0 /\ d[Len(y)] = Count(j)
  BY <1>4 DEF Runs
<1>8. Keyed(y, L, c)
  BY <1>3, <1>6, <1>7, SameCount
<1>9. Sequence(y) /\ Len(y) = Len(x) /\ Len(y) \in Nat
  BY <1>3 DEF SameShape, Sequence
<1>10. QED
  BY <1>1, <1>5, <1>6, <1>8, <1>9

\* A collective process p may have entered.
Called(j, p, y) == y.op = "barrier" \/ \E t \in 1 .. Count(j) : y = Key(j, p, t)

\* Process p is at instruction k, its memory is m and it has entered e: what it
\* has in memory is told by the key instructions before k.
Standing(j, p, k, f, m, e) ==
  /\ k \in 1 .. Len(Text(j, p, m)) + 1
  /\ m = After(j, p, KeyCourse(j, p)[k - 1])
  /\ Sequence(e) /\ \A l \in 1 .. Len(e) : Called(j, p, e[l])
  /\ f = "coll" => /\ k <= Len(Text(j, p, m)) /\ e # <<>>
                   /\ e[Len(e)] = Text(j, p, m)[k] /\ e[Len(e)].op \in Collectives

\* The instruction it is at.
LEMMA StandsAt ==
    ASSUME NEW j, KeyJob(j), NEW p \in 0 .. j.np - 1, NEW k, NEW f, NEW m, NEW e,
           Standing(j, p, k, f, m, e), k <= Len(Text(j, p, m)), NEW i, i = Text(j, p, m)[k],
           NEW r, r = KeyCourse(j, p)[k - 1], NEW t, t = KeyCourse(j, p)[k]
    PROVE  /\ m = After(j, p, r)
           /\ Quiet(i) => t = r
           /\ ~Quiet(i) => /\ t = r + 1 /\ t \in 1 .. Count(j) /\ r \in Nat
                           /\ i = Key(j, p, t) /\ Fits(j, p, t)
<1>1. PICK x, c, K : x = Text(j, p, m) /\ c = KeyCourse(j, p) /\ K = Keys(j, p, m)
  OBVIOUS
<1>2. Keyed(x, K, c) /\ Len(x) \in Nat
  BY <1>1, CourseIs
<1>3. m = After(j, p, r) /\ k \in 1 .. Len(x)
  <2>1. m = After(j, p, r) /\ k \in 1 .. Len(x) + 1
    BY <1>1 DEF Standing
  <2>2. QED
    BY <1>1, <1>2, <2>1
<1>4. Counts(i, K, r, t)
  BY <1>1, <1>2, <1>3 DEF Keyed
<1>5. DOMAIN K = 1 .. Count(j)
  BY <1>1, KeysLength
<1>6. ASSUME ~Quiet(i)
      PROVE  /\ t = r + 1 /\ t \in 1 .. Count(j) /\ r \in Nat
             /\ i = Key(j, p, t) /\ Fits(j, p, t)
  <2>1. t = r + 1 /\ t \in 1 .. Count(j) /\ r \in Nat /\ i = K[t]
    BY <1>4, <1>5, <1>6 DEF Counts
  <2>2. t - 1 = r
    BY <2>1
  <2>3. i = Key(j, p, t)
    BY <1>1, <1>3, <2>1, <2>2 DEF Key
  <2>4. Fits(j, p, t)
    BY <2>1, KeysFit
  <2>5. QED
    BY <2>1, <2>3, <2>4
<1>7. QED
  BY <1>3, <1>4, <1>6 DEF Counts

\* It goes on to the next instruction.
LEMMA StandsNext ==
    ASSUME NEW j, KeyJob(j), NEW p, NEW k, NEW f, NEW m, NEW e,
           Standing(j, p, k, f, m, e), k <= Len(Text(j, p, m)), NEW w,
           w = After(j, p, KeyCourse(j, p)[k])
    PROVE  Standing(j, p, k + 1, "run", w, e)
<1>1. Len(Text(j, p, m)) \in Nat /\ Len(Text(j, p, w)) = Len(Text(j, p, m))
  BY CourseIs
<1>2. k \in 1 .. Len(Text(j, p, m)) + 1
  BY DEF Standing
<1>3. k + 1 \in 1 .. Len(Text(j, p, w)) + 1 /\ (k + 1) - 1 = k
  BY <1>1, <1>2
<1>4. QED
  BY <1>3 DEF Standing

\* It enters a collective.
LEMMA StandsIn ==
    ASSUME NEW j, KeyJob(j), NEW p \in 0 .. j.np - 1, NEW k, NEW m, NEW e,
           Standing(j, p, k, "run", m, e), k <= Len(Text(j, p, m)), NEW i, i = Text(j, p, m)[k],
           i.op \in Collectives
    PROVE  Standing(j, p, k, "coll", m, Append(e, i))
<1>1. Called(j, p, i)
  <2>1. i.op # "print"
    BY DEF Collectives
  <2>2. CASE Quiet(i)
    BY <2>1, <2>2 DEF Quiet, Called
  <2>3. CASE ~Quiet(i)
    <3>1. PICK r, t : r = KeyCourse(j, p)[k - 1] /\ t = KeyCourse(j, p)[k]
      OBVIOUS
    <3>2. t \in 1 .. Count(j) /\ i = Key(j, p, t)
      BY <2>3, <3>1, StandsAt
    <3>3. QED
      BY <3>2 DEF Called
  <2>4. QED
    BY <2>2, <2>3
<1>2. PICK U : e \in Seq(U)
  BY DEF Standing, Sequence
<1>3. PICK d : d = Append(e, i)
  OBVIOUS
<1>4. /\ d \in Seq(U \cup {i}) /\ Len(d) = Len(e) + 1 /\ Len(e) \in Nat /\ d # <<>>
      /\ \A l \in 1 .. Len(e) : d[l] = e[l]
      /\ d[Len(e) + 1] = i
  <2>1. e \in Seq(U \cup {i})
    BY <1>2
  <2>2. QED
    BY <1>3, <2>1
<1>5. ASSUME NEW l \in 1 .. Len(d) PROVE Called(j, p, d[l])
  <2>1. CASE l = Len(e) + 1
    BY <1>1, <1>4, <2>1
  <2>2. CASE l # Len(e) + 1
    <3>1. l \in 1 .. Len(e)
      BY <1>4, <2>2
    <3>2. QED
      BY <1>4, <3>1 DEF Standing
  <2>3. QED
    BY <2>1, <2>2
<1>6. Sequence(d)
  BY <1>4 DEF Sequence
<1>7. QED
  BY <1>3, <1>4, <1>5, <1>6 DEF Standing

\* What another process has contributed to the same operation.
LEMMA StandsGiven ==
    ASSUME NEW j, KeyJob(j), NEW p \in 0 .. j.np - 1, NEW q \in 0 .. j.np - 1,
           NEW t \in 1 .. Count(j), Key(j, p, t).op \notin {"compute", "barrier"},
           NEW y, Called(j, q, y), y.op = Key(j, p, t).op
    PROVE  y = Key(j, q, t)
<1>1. PICK s \in 1 .. Count(j) : y = Key(j, q, s)
  BY DEF Called
<1>2. Fits(j, p, t) /\ Fits(j, q, s)
  BY KeysFit
<1>3. Ops(j)[t] = Ops(j)[s] /\ Ops(j)[t] # "compute"
  BY <1>1, <1>2 DEF Fits
<1>4. t = s
  BY <1>3, OpsDiffer
<1>5. QED
  BY <1>1, <1>4

-----------------------------------------------------------------------------
KeyTyped ==
  /\ phase \in [Ranks -> {"run", "coll"}]
  /\ pc = [p \in Ranks |-> pc[p]] /\ mem = [p \in Ranks |-> mem[p]]
  /\ entered = [p \in Ranks |-> entered[p]]
  /\ \A p, q \in Ranks : chan[p][q] = <<>>
Stands(p) == Standing(job, p, pc[p], phase[p], mem[p], entered[p])
KeyInv == KeyJob(job) => KeyTyped /\ \A p \in Ranks : Stands(p)

\* What a process has in memory first.
LEMMA FirstStore ==
    ASSUME NEW j, KeyJob(j), NEW p
    PROVE  After(j, p, 0) = Store(Empty, <<>>, <<>>)
<1>1. PICK s : s = Store(Empty, <<>>, <<>>)
  OBVIOUS
<1>2. Stores(j, p)[1] = s
  <2>1. CASE j.prog \in {"reduction", "reduction2", "reduceTiming"}
    <3>1. CASE j.prog = "reduction"
      <4>1. PICK x, y : ReductionStores(j, p) = << s, x, y >>
        BY <1>1 DEF ReductionStores
      <4>2. QED
        BY <3>1, <4>1, KeysAre
    <3>2. CASE j.prog = "reduction2"
      <4>1. ArraysStores(j, p)[1] = s
        BY <1>1 DEF ArraysStores
      <4>2. QED
        BY <3>2, <4>1, KeysAre
    <3>3. CASE j.prog = "reduceTiming"
      <4>1. PICK x : TimingStores(j, p) = << s, x >>
        BY <1>1 DEF TimingStores
      <4>2. QED
        BY <3>3, <4>1, KeysAre
    <3>4. QED
      BY <2>1, <3>1, <3>2, <3>3
  <2>2. CASE j.prog \in {"scatter", "gather", "scatterGather"}
    BY <1>1, <2>2, KeysAre DEF ScatterStores, GatherStores, BothStores
  <2>3. CASE j.prog \in Doublers
    BY <1>1, <2>3, KeysAre DEF DoublerStores
  <2>4. QED
    BY <2>1, <2>2, <2>3 DEF KeyJob, KeyProgs, Doublers
<1>3. QED
  BY <1>1, <1>2 DEF After

\* At the start.
LEMMA KeyStarts == Init => KeyInv
<1> SUFFICES ASSUME Init, KeyJob(job) PROVE KeyTyped /\ \A p \in Ranks : Stands(p)
  BY DEF KeyInv
<1>1. /\ pc = [p \in Ranks |-> 1]
      /\ phase = [p \in Ranks |-> "run"] /\ mem = [p \in Ranks |-> Blank]
      /\ chan = [p \in Ranks |-> [q \in Ranks |-> <<>>]]
      /\ entered = [p \in Ranks |-> <<>>]
  BY DEF Init
<1>2. KeyTyped
  BY <1>1 DEF KeyTyped
<1>3. ASSUME NEW p \in Ranks PROVE Stands(p)
  <2>1. PICK j, m : j = job /\ m = Blank
    OBVIOUS
  <2>2. KeyCourse(j, p)[0] = 0 /\ Len(Text(j, p, m)) \in Nat
    BY <2>1, CourseIs
  <2>3. 1 \in 1 .. Len(Text(j, p, m)) + 1 /\ 1 - 1 = 0
    BY <2>2
  <2>4. m = After(j, p, 0)
    BY <2>1, StoreBlank, FirstStore
  <2>5. Sequence(<<>>) /\ \A l \in 1 .. Len(<<>>) : Called(j, p, <<>>[l])
    BY DEF Sequence
  <2>6. Standing(j, p, 1, "run", m, <<>>)
    BY <2>2, <2>3, <2>4, <2>5 DEF Standing
  <2>7. QED
    BY <1>1, <2>1, <2>6 DEF Stands
<1>4. QED
  BY <1>2, <1>3

\* The instructions of these programs.
LEMMA KeyInstruction ==
    ASSUME KeyJob(job), NEW p \in Ranks, Stands(p), NEW i \in Current(p)
    PROVE  /\ phase[p] = "run" /\ pc[p] \in Nat /\ pc[p] <= Len(Text(job, p, mem[p]))
           /\ i = Text(job, p, mem[p])[pc[p]]
           /\ i.op \in {"compute", "print"} \cup Collectives
           /\ i.op = "compute" => [mem[p] EXCEPT ![i.var] = i.val] = After(job, p, KeyCourse(job, p)[pc[p]])
           /\ i.op = "print" => mem[p] = After(job, p, KeyCourse(job, p)[pc[p]])
<1>1. PICK j, m, k, e : j = job /\ m = mem[p] /\ k = pc[p] /\ e = entered[p]
  OBVIOUS
<1>2. p \in 0 .. j.np - 1 /\ KeyJob(j) /\ Standing(j, p, k, phase[p], m, e)
  BY <1>1 DEF Ranks, Stands
<1>3. Code(p) = Text(j, p, m)
  BY <1>1 DEF Code, Text
<1>4. phase[p] = "run" /\ k \in DOMAIN Text(j, p, m) /\ i = Text(j, p, m)[k]
  BY <1>1, <1>3 DEF Current
<1>5. DOMAIN Text(j, p, m) = 1 .. Len(Text(j, p, m)) /\ Len(Text(j, p, m)) \in Nat
  <2>1. PICK U : Text(j, p, m) \in Seq(U)
    BY <1>2, CourseIs DEF Sequence
  <2>2. QED
    BY <2>1
<1>6. k \in Nat /\ k <= Len(Text(j, p, m))
  BY <1>4, <1>5
<1>7. PICK r, t : r = KeyCourse(j, p)[k - 1] /\ t = KeyCourse(j, p)[k]
  OBVIOUS
<1>8. /\ m = After(j, p, r)
      /\ Quiet(i) => t = r
      /\ ~Quiet(i) => /\ t = r + 1 /\ t \in 1 .. Count(j) /\ r \in Nat
                      /\ i = Key(j, p, t) /\ Fits(j, p, t)
  BY <1>2, <1>4, <1>6, <1>7, StandsAt
<1>9. i.op \in {"compute", "print"} \cup Collectives
  BY <1>8 DEF Quiet, Fits, Collectives
<1>10. i.op = "compute" => [m EXCEPT ![i.var] = i.val] = After(j, p, t)
  <2>1. SUFFICES ASSUME i.op = "compute" PROVE [m EXCEPT ![i.var] = i.val] = After(j, p, t)
    OBVIOUS
  <2>2. ~Quiet(i)
    BY <2>1 DEF Quiet
  <2>3. t - 1 = r
    BY <1>8, <2>2
  <2>4. QED
    BY <1>8, <2>1, <2>2, <2>3 DEF Fits
<1>11. i.op = "print" => m = After(j, p, t)
  BY <1>8 DEF Quiet
<1>12. QED
  BY <1>1, <1>4, <1>6, <1>7, <1>9, <1>10, <1>11

\* A process that goes on, while the others stay.
LEMMA KeyGoes ==
    ASSUME KeyJob(job), KeyTyped, \A a \in Ranks : Stands(a), NEW p \in Ranks,
           pc[p] <= Len(Text(job, p, mem[p])),
           job' = job, chan' = chan, entered' = entered, Step(p),
           phase' \in [Ranks -> {"run", "coll"}], phase'[p] = "run",
           \A a \in Ranks \ {p} : phase'[a] = phase[a],
           NEW w, w = After(job, p, KeyCourse(job, p)[pc[p]]),
           mem' = [mem EXCEPT ![p] = w]
    PROVE  KeyTyped' /\ \A a \in Ranks' : Stands(a)'
<1>1. Ranks' = Ranks
  BY DEF Ranks
<1>2. /\ pc' = [a \in Ranks |-> pc'[a]] /\ pc'[p] = pc[p] + 1
      /\ \A a \in Ranks \ {p} : pc'[a] = pc[a]
  BY DEF Step, KeyTyped
<1>3. /\ mem' = [a \in Ranks |-> mem'[a]] /\ mem'[p] = w
      /\ \A a \in Ranks \ {p} : mem'[a] = mem[a]
  BY DEF KeyTyped
<1>4. KeyTyped'
  BY <1>1, <1>2, <1>3 DEF KeyTyped
<1>5. Stands(p)'
  <2>1. Standing(job, p, pc[p], phase[p], mem[p], entered[p])
    BY DEF Stands
  <2>2. Standing(job, p, pc[p] + 1, "run", w, entered[p])
    BY <2>1, StandsNext
  <2>3. QED
    BY <1>2, <1>3, <2>2 DEF Stands
<1>6. ASSUME NEW a \in Ranks \ {p} PROVE Stands(a)'
  <2>1. Standing(job, a, pc[a], phase[a], mem[a], entered[a])
    BY DEF Stands
  <2>2. QED
    BY <1>2, <1>3, <2>1 DEF Stands
<1>7. QED
  BY <1>1, <1>4, <1>5, <1>6

\* A process enters a collective.
LEMMA KeyEnters ==
    ASSUME KeyJob(job), KeyTyped, \A a \in Ranks : Stands(a), NEW p \in Ranks, EnterCollective(p)
    PROVE  KeyTyped' /\ \A a \in Ranks' : Stands(a)'
<1>1. PICK i \in Current(p) : /\ i.op \in Collectives
                              /\ entered' = [entered EXCEPT ![p] = Append(@, i)]
                              /\ phase' = [phase EXCEPT ![p] = "coll"]
  BY DEF EnterCollective
<1>2. job' = job /\ pc' = pc /\ mem' = mem /\ chan' = chan /\ Ranks' = Ranks
  BY DEF EnterCollective, Ranks
<1>3. /\ phase[p] = "run" /\ pc[p] <= Len(Text(job, p, mem[p]))
      /\ i = Text(job, p, mem[p])[pc[p]]
  BY KeyInstruction
<1>4. /\ entered' = [a \in Ranks |-> entered'[a]] /\ entered'[p] = Append(entered[p], i)
      /\ \A a \in Ranks \ {p} : entered'[a] = entered[a]
      /\ phase' \in [Ranks -> {"run", "coll"}] /\ phase'[p] = "coll"
      /\ \A a \in Ranks \ {p} : phase'[a] = phase[a]
  BY <1>1 DEF KeyTyped
<1>5. KeyTyped'
  BY <1>2, <1>4 DEF KeyTyped
<1>6. Stands(p)'
  <2>1. PICK j, k, m, e : j = job /\ k = pc[p] /\ m = mem[p] /\ e = entered[p]
    OBVIOUS
  <2>2. p \in 0 .. j.np - 1 /\ KeyJob(j) /\ Standing(j, p, k, "run", m, e)
    BY <1>3, <2>1 DEF Ranks, Stands
  <2>3. Standing(j, p, k, "coll", m, Append(e, i))
    BY <1>1, <1>3, <2>1, <2>2, StandsIn
  <2>4. QED
    BY <1>2, <1>4, <2>1, <2>3 DEF Stands
<1>7. ASSUME NEW a \in Ranks \ {p} PROVE Stands(a)'
  BY <1>2, <1>4, <1>7 DEF Stands
<1>8. QED
  BY <1>2, <1>5, <1>6, <1>7

\* A process leaves a collective, with what the others contributed to it.
LEMMA KeyLeaves ==
    ASSUME KeyJob(job), KeyTyped, \A a \in Ranks : Stands(a), CollectivesAgree,
           NEW p \in Ranks, LeaveCollective(p)
    PROVE  KeyTyped' /\ \A a \in Ranks' : Stands(a)'
<1>1. PICK j, k, m, e, h : j = job /\ k = pc[p] /\ m = mem[p] /\ e = entered[p] /\ h = Len(e)
  OBVIOUS
<1>2. PICK i, W : i = e[h] /\ W = Awaited(i, p, j.np)
  OBVIOUS
<1>3. /\ job' = job /\ entered' = entered /\ chan' = chan /\ phase[p] = "coll" /\ Step(p)
      /\ \A q \in W : Len(entered[q]) >= h
      /\ mem' = [mem EXCEPT ![p] = Received(i, p, j.np, @, [q \in W |-> entered[q][h].val])]
      /\ phase' = [phase EXCEPT ![p] = "run"]
  BY <1>1, <1>2 DEF LeaveCollective
<1>4. p \in 0 .. j.np - 1 /\ KeyJob(j) /\ Standing(j, p, k, "coll", m, e)
  BY <1>1, <1>3 DEF Ranks, Stands
<1>5. /\ k <= Len(Text(j, p, m)) /\ e # <<>> /\ i = Text(j, p, m)[k] /\ i.op \in Collectives
      /\ Sequence(e)
  BY <1>1, <1>2, <1>4 DEF Standing
<1>6. PICK r, t : r = KeyCourse(j, p)[k - 1] /\ t = KeyCourse(j, p)[k]
  OBVIOUS
<1>7. /\ m = After(j, p, r)
      /\ Quiet(i) => t = r
      /\ ~Quiet(i) => /\ t = r + 1 /\ t \in 1 .. Count(j) /\ r \in Nat
                      /\ i = Key(j, p, t) /\ Fits(j, p, t)
  BY <1>4, <1>5, <1>6, StandsAt
<1>8. h \in Nat /\ h \in 1 .. Len(e) /\ h \in DOMAIN e
  <2>1. PICK U : e \in Seq(U)
    BY <1>5 DEF Sequence
  <2>2. QED
    BY <1>1, <1>5, <2>1
<1>9. ASSUME NEW q \in W
      PROVE  /\ q \in 0 .. j.np - 1 /\ h \in 1 .. Len(entered[q])
             /\ Called(j, q, entered[q][h]) /\ entered[q][h].op = i.op
  <2>1. 0 \in 0 .. j.np - 1
    BY <1>4, KeyLanguages
  <2>2. q \in 0 .. j.np - 1
    BY <1>2, <1>4, <1>5, <2>1 DEF Awaited, MASTER, Collectives
  <2>3. q \in Ranks
    BY <1>1, <2>2 DEF Ranks
  <2>4. Standing(j, q, pc[q], phase[q], mem[q], entered[q])
    BY <1>1, <2>3 DEF Stands
  <2>5. PICK U : entered[q] \in Seq(U)
    BY <2>4 DEF Standing, Sequence
  <2>6. Len(entered[q]) >= h
    BY <1>3
  <2>7. h \in 1 .. Len(entered[q]) /\ h \in DOMAIN entered[q]
    BY <1>8, <2>5, <2>6
  <2>8. entered[q][h].op = entered[p][h].op
    BY <1>1, <1>8, <2>3, <2>7 DEF CollectivesAgree
  <2>9. QED
    BY <1>1, <1>2, <2>2, <2>4, <2>7, <2>8 DEF Standing
<1>10. PICK w : w = Received(i, p, j.np, m, [q \in W |-> entered[q][h].val])
  OBVIOUS
<1>11. w = After(j, p, t)
  <2>1. CASE Quiet(i)
    <3>1. i.op = "barrier"
      BY <1>5, <2>1 DEF Quiet, Collectives
    <3>2. w = m
      BY <1>10, <3>1 DEF Received
    <3>3. QED
      BY <1>7, <2>1, <3>2
  <2>2. CASE ~Quiet(i)
    <3>1. /\ t - 1 = r /\ i = Key(j, p, t) /\ Fits(j, p, t) /\ t \in 1 .. Count(j)
          /\ i.op \notin {"compute", "barrier"}
      BY <1>5, <1>7, <2>2 DEF Quiet, Collectives
    <3>2. ASSUME NEW q \in W PROVE entered[q][h].val = Key(j, q, t).val
      <4>1. PICK y : y = entered[q][h]
        OBVIOUS
      <4>2. q \in 0 .. j.np - 1 /\ Called(j, q, y) /\ y.op = Key(j, p, t).op
        BY <1>9, <3>1, <4>1
      <4>3. y = Key(j, q, t)
        BY <1>4, <3>1, <4>2, StandsGiven
      <4>4. QED
        BY <4>1, <4>3
    <3>3. [q \in W |-> entered[q][h].val] = [q \in W |-> Key(j, q, t).val]
      BY <3>2
    <3>4. After(j, p, t) = Received(i, p, j.np, After(j, p, r),
                                    [q \in Awaited(i, p, j.np) |-> Key(j, q, t).val])
      BY <3>1 DEF Fits
    <3>5. QED
      BY <1>2, <1>7, <1>10, <3>3, <3>4
  <2>3. QED
    BY <2>1, <2>2
<1>12. mem' = [mem EXCEPT ![p] = w]
  BY <1>1, <1>3, <1>10 DEF KeyTyped
<1>13. /\ phase' \in [Ranks -> {"run", "coll"}] /\ phase'[p] = "run"
       /\ \A a \in Ranks \ {p} : phase'[a] = phase[a]
  BY <1>3 DEF KeyTyped
<1>14. w = After(job, p, KeyCourse(job, p)[pc[p]]) /\ pc[p] <= Len(Text(job, p, mem[p]))
  BY <1>1, <1>5, <1>6, <1>11
<1>15. QED
  BY <1>3, <1>12, <1>13, <1>14, KeyGoes

\* Every step of these jobs.
LEMMA KeySteps == KeyInv /\ StageInv /\ [Next]_vars => KeyInv'
<1> SUFFICES ASSUME KeyInv, StageInv, [Next]_vars, KeyJob(job)'
             PROVE  KeyTyped' /\ \A a \in Ranks' : Stands(a)'
  BY DEF KeyInv
<1>0. job' = job /\ Ranks' = Ranks
  BY JobFixed DEF Ranks
<1>1. KeyJob(job) /\ KeyTyped /\ (\A a \in Ranks : Stands(a)) /\ CollectivesAgree
  BY <1>0, StagesAgree DEF KeyInv
<1>2. ASSUME pc' = pc, mem' = mem, phase' = phase, chan' = chan, entered' = entered
      PROVE  KeyTyped' /\ \A a \in Ranks' : Stands(a)'
  <2>1. KeyTyped'
    BY <1>0, <1>1, <1>2 DEF KeyTyped
  <2>2. ASSUME NEW a \in Ranks PROVE Stands(a)'
    <3>1. Stands(a)
      BY <1>1
    <3>2. QED
      BY <1>0, <1>2, <3>1 DEF Stands
  <2>3. QED
    BY <1>0, <2>1, <2>2
<1>3. CASE UNCHANGED vars
  BY <1>2, <1>3 DEF vars
<1>4. ASSUME NEW p \in Ranks,
             \/ Local(p)           \/ AbortJob(p)
             \/ SendMessage(p)     \/ Receive(p)
             \/ EnterCollective(p) \/ LeaveCollective(p)
      PROVE  KeyTyped' /\ \A a \in Ranks' : Stands(a)'
  <2>1. \A i \in Current(p) : i.op \in {"compute", "print"} \cup Collectives
    BY <1>1, KeyInstruction
  <2>2. CASE Local(p)
    <3>1. PICK i \in Current(p) :
            \/ i.op = "compute" /\ mem' = [mem EXCEPT ![p][i.var] = i.val] /\ Step(p)
            \/ i.op = "print" /\ Step(p) /\ UNCHANGED mem
      BY <2>1, <2>2 DEF Local, Collectives
    <3>2. phase' = phase /\ chan' = chan /\ entered' = entered
      BY <2>2 DEF Local
    <3>3. PICK w : w = After(job, p, KeyCourse(job, p)[pc[p]])
      OBVIOUS
    <3>4. /\ phase[p] = "run" /\ pc[p] <= Len(Text(job, p, mem[p]))
          /\ i.op = "compute" => [mem[p] EXCEPT ![i.var] = i.val] = w
          /\ i.op = "print" => mem[p] = w
      BY <1>1, <3>3, KeyInstruction
    <3>5. mem' = [mem EXCEPT ![p] = w] /\ Step(p)
      <4>1. CASE i.op = "compute"
        <5>1. Step(p) /\ mem' = [mem EXCEPT ![p] = [@ EXCEPT ![i.var] = i.val]]
          BY <3>1, <4>1
        <5>2. QED
          BY <1>1, <3>4, <4>1, <5>1 DEF KeyTyped
      <4>2. CASE i.op = "print"
        <5>1. Step(p) /\ mem' = mem
          BY <3>1, <4>2
        <5>2. mem = [mem EXCEPT ![p] = w]
          BY <1>1, <3>4, <4>2 DEF KeyTyped
        <5>3. QED
          BY <5>1, <5>2
      <4>3. QED
        BY <3>1, <4>1, <4>2
    <3>6. phase' \in [Ranks -> {"run", "coll"}] /\ phase'[p] = "run"
      BY <1>1, <3>2, <3>4 DEF KeyTyped
    <3>7. QED
      BY <1>0, <1>1, <3>2, <3>3, <3>4, <3>5, <3>6, KeyGoes
  <2>3. CASE AbortJob(p)
    BY <1>2, <2>3 DEF AbortJob
  <2>4. ~SendMessage(p) /\ ~Receive(p)
    BY <2>1 DEF SendMessage, Receive, Collectives
  <2>5. CASE EnterCollective(p)
    BY <1>1, <2>5, KeyEnters
  <2>6. CASE LeaveCollective(p)
    BY <1>1, <2>6, KeyLeaves
  <2>7. QED
    BY <1>4, <2>2, <2>3, <2>4, <2>5, <2>6
<1>5. QED
  BY <1>3, <1>4 DEF Next

\* A process that is done has passed every key instruction.
LEMMA KeyDone ==
    ASSUME KeyInv, KeyJob(job), NEW p \in Ranks, Done(p)
    PROVE  mem[p] = After(job, p, Count(job))
<1>1. PICK j, k, m : j = job /\ k = pc[p] /\ m = mem[p]
  OBVIOUS
<1>2. KeyJob(j) /\ k \in 1 .. Len(Text(j, p, m)) + 1 /\ m = After(j, p, KeyCourse(j, p)[k - 1])
  BY <1>1 DEF KeyInv, Stands, Standing
<1>3. Code(p) = Text(j, p, m)
  BY <1>1 DEF Code, Text
<1>4. k > Len(Text(j, p, m))
  BY <1>1, <1>3 DEF Done
<1>5. KeyCourse(j, p)[Len(Text(j, p, m))] = Count(j) /\ Len(Text(j, p, m)) \in Nat
  BY <1>2, CourseIs
<1>6. k - 1 = Len(Text(j, p, m))
  BY <1>2, <1>4, <1>5
<1>7. QED
  BY <1>1, <1>2, <1>5, <1>6

\* What the master has at the end of the reductions.
Reduced(j, m, n) ==
  /\ j.prog = "reduction" => m.buf = << (n * (n + 1) * (2 * n + 1)) \div 6 >> /\ m.all = << n * n >>
  /\ j.prog = "reduction2" /\ j.lang # "Python" =>
       m.all = [i \in 1 .. 5 |-> (i - 1) * ((n * (n - 1)) \div 2)]
  /\ j.prog = "reduction2" /\ j.lang = "Python" =>
       /\ m.all = [i \in 1 .. 5 |-> i * (n - 1)]
       /\ m.buf = [k \in 1 .. 5 * n |-> ((k - 1) \div 5) * (((k - 1) % 5) + 1)]
  /\ j.prog = "reduceTiming" => m.all = << IF j.lang = "C" THEN 1 ELSE 1000 * n >>

\* It has it.
LEMMA ReducedLast ==
    ASSUME NEW j, KeyJob(j), NEW m, m = After(j, MASTER, Count(j)), NEW n, n = j.np
    PROVE  Reduced(j, m, n)
<1>0. \A x, y : AtMaster(MASTER, x, y) = x
  BY DEF AtMaster
<1>1. ASSUME j.prog = "reduction"
      PROVE  m.buf = << (n * (n + 1) * (2 * n + 1)) \div 6 >> /\ m.all = << n * n >>
  <2>1. PICK s, x, y : /\ x = << SumOfSquares(n) >> /\ y = << n * n >> /\ s = Store(x, <<>>, y)
    OBVIOUS
  <2>2. Count(j) = 2
    BY <1>1, KeysAre DEF ReductionOps, Count
  <2>3. ReductionStores(j, MASTER)[3] = s
    BY <1>0, <2>1 DEF ReductionStores
  <2>4. m = s
    BY <1>1, <2>2, <2>3, KeysAre DEF After
  <2>5. m.buf = x /\ m.all = y
    BY <2>1, <2>4, StoreSet
  <2>6. QED
    BY <2>1, <2>5 DEF SumOfSquares
<1>2. ASSUME j.prog = "reduction2", j.lang # "Python"
      PROVE  m.all = [i \in 1 .. 5 |-> (i - 1) * ((n * (n - 1)) \div 2)]
  <2>1. PICK s, x : x = RankSums(n) /\ s = Store(Empty, <<>>, x)
    OBVIOUS
  <2>2. Count(j) = 1
    BY <1>2, KeysAre DEF ArraysOps, Count
  <2>3. ArraysStores(j, MASTER)[2] = s
    BY <1>0, <1>2, <2>1 DEF ArraysStores
  <2>4. m = s
    BY <1>2, <2>2, <2>3, KeysAre DEF After
  <2>5. m.all = x
    BY <2>1, <2>4, StoreSet
  <2>6. QED
    BY <2>1, <2>5 DEF RankSums, SumOfRanks
<1>3. ASSUME j.prog = "reduction2", j.lang = "Python"
      PROVE  /\ m.all = [i \in 1 .. 5 |-> i * (n - 1)]
             /\ m.buf = [k \in 1 .. 5 * n |-> ((k - 1) \div 5) * (((k - 1) % 5) + 1)]
  <2>1. PICK s, x, y : x = PyAllMultiples(n) /\ y = PyLargest(n) /\ s = Store(x, <<>>, y)
    OBVIOUS
  <2>2. Count(j) = 2
    BY <1>3, KeysAre DEF ArraysOps, Count
  <2>3. ArraysStores(j, MASTER)[3] = s
    BY <1>0, <1>3, <2>1 DEF ArraysStores
  <2>4. m = s
    BY <1>3, <2>2, <2>3, KeysAre DEF After
  <2>5. m.buf = x /\ m.all = y
    BY <2>1, <2>4, StoreSet
  <2>6. QED
    BY <2>1, <2>5 DEF PyAllMultiples, PyLargest
<1>4. ASSUME j.prog = "reduceTiming"
      PROVE  m.all = << IF j.lang = "C" THEN 1 ELSE 1000 * n >>
  <2>0. PICK v : v = IF j.lang = "C" THEN 1 ELSE 1000 * n
    OBVIOUS
  <2>1. PICK s, x : x = << v >> /\ s = Store(Empty, <<>>, x)
    OBVIOUS
  <2>2. Count(j) = 1
    BY <1>4, KeysAre DEF TimingOps, Count
  <2>3. TimingStores(j, MASTER)[2] = s
    BY <1>0, <2>0, <2>1 DEF TimingStores
  <2>4. m = s
    BY <1>4, <2>2, <2>3, KeysAre DEF After
  <2>5. m.all = x
    BY <2>1, <2>4, StoreSet
  <2>6. QED
    BY <2>0, <2>1, <2>5
<1>5. QED
  BY <1>1, <1>2, <1>3, <1>4 DEF Reduced

\* What it has at the end of a gathering.
LEMMA GatheredLast ==
    ASSUME NEW j, KeyJob(j), NEW m, m = After(j, MASTER, Count(j)), NEW n, n = j.np
    PROVE  /\ j.prog = "gather" => m.all = Collection(j)
           /\ j.prog = "scatterGather" => m.all = [k \in 1 .. 3 * n |-> 10 * k]
           /\ j.prog \in Doublers /\ ~Refused(j) => m.all = [k \in 1 .. 8 |-> 2 * (k + 10)]
<1>0. \A x, y : AtMaster(MASTER, x, y) = x
  BY DEF AtMaster
<1>1. ASSUME j.prog = "gather" PROVE m.all = Collection(j)
  <2>1. PICK s, x : x = Collection(j) /\ s = Store(Empty, <<>>, x)
    OBVIOUS
  <2>2. Count(j) = 1
    BY <1>1, KeysAre DEF GatherOps, Count
  <2>3. GatherStores(j, MASTER)[2] = s
    BY <1>0, <2>1 DEF GatherStores
  <2>4. m = s
    BY <1>1, <2>2, <2>3, KeysAre DEF After
  <2>5. QED
    BY <2>1, <2>4, StoreSet
<1>2. ASSUME j.prog = "scatterGather" PROVE m.all = [k \in 1 .. 3 * n |-> 10 * k]
  <2>1. PICK s, x : x = AllTens(n) /\ s = Store(Empty, Triple(MASTER), x)
    OBVIOUS
  <2>2. Count(j) = 2
    BY <1>2, KeysAre DEF BothOps, Count
  <2>3. BothStores(j, MASTER)[3] = s
    BY <1>0, <2>1 DEF BothStores
  <2>4. m = s
    BY <1>2, <2>2, <2>3, KeysAre DEF After
  <2>5. m.all = x
    BY <2>1, <2>4, StoreSet
  <2>6. QED
    BY <2>1, <2>5 DEF AllTens
<1>3. ASSUME j.prog \in Doublers, ~Refused(j) PROVE m.all = [k \in 1 .. 8 |-> 2 * (k + 10)]
  <2>1. PICK s, b, d : /\ b = IF Loop(j) THEN Fill(ARRAY_SIZE) ELSE Empty
                       /\ d = Doubled(PieceOf(j, MASTER)) /\ s = Store(b, d, Twice)
    OBVIOUS
  <2>2. Count(j) = 3
    BY <1>3, KeysAre DEF DoublerOps, Count
  <2>3. DoublerStores(j, MASTER)[4] = s
    BY <1>0, <2>1 DEF DoublerStores
  <2>4. m = s
    BY <1>3, <2>2, <2>3, KeysAre DEF After
  <2>5. m.all = Twice
    BY <2>1, <2>4, StoreSet
  <2>6. QED
    BY <2>5 DEF Twice
<1>4. QED
  BY <1>1, <1>2, <1>3

\* What a process has at the end of a scatter.
LEMMA ScatteredLast ==
    ASSUME NEW j, KeyJob(j), j.prog = "scatter", NEW p \in 0 .. j.np - 1
    PROVE  After(j, p, Count(j)).part = Part(j, p)
<1>1. Stores(j, p) = ScatterStores(j, p)
  BY KeysAre
<1>2. PICK s, t : s = Store(Empty, <<>>, <<>>) /\ t = Store(Empty, Part(j, p), <<>>)
  OBVIOUS
<1>3. ScatterStores(j, p) = << s, t >>
  BY <1>2 DEF ScatterStores
<1>4. s.part = <<>> /\ t.part = Part(j, p)
  BY <1>2, StoreSet
<1>5. CASE TooMany(j)
  <2>1. Count(j) = 0
    BY <1>5, KeysAre DEF ScatterOps, Count
  <2>2. After(j, p, Count(j)) = s
    BY <1>1, <1>3, <2>1 DEF After
  <2>3. Part(j, p) = <<>>
    <3>1. j.np \in Nat \ {0} /\ j.np > 8 /\ j.lang # "Python"
      BY <1>5, KeyLanguages DEF TooMany
    <3>2. 8 \div j.np = 0
      BY <3>1
    <3>3. Part(j, p) = [k \in 1 .. 0 |-> Elevens[p * (8 \div j.np) + k]]
      BY <3>1, <3>2 DEF Part, Piece
    <3>4. QED
      BY <3>3
  <2>4. QED
    BY <1>4, <2>2, <2>3
<1>6. CASE ~TooMany(j)
  <2>1. Count(j) = 1
    BY <1>6, KeysAre DEF ScatterOps, Count
  <2>2. After(j, p, Count(j)) = t
    BY <1>1, <1>3, <2>1 DEF After
  <2>3. QED
    BY <1>4, <2>2
<1>7. QED
  BY <1>5, <1>6

\* When they are done the job has computed what it is for.
LEMMA KeyGoals ==
    ASSUME KeyInv, KeyJob(job), AllDone
    PROVE  Outcome
<1>1. PICK j, n, m : j = job /\ n = j.np /\ m = mem[MASTER]
  OBVIOUS
<1>2. n \in Nat \ {0} /\ Ranks = 0 .. n - 1 /\ MASTER \in Ranks
  BY <1>1, KeyLanguages DEF Ranks, MASTER
<1>3. \A p \in Ranks : mem[p] = After(j, p, Count(j))
  BY <1>1, KeyDone DEF AllDone
<1>4. m = After(j, MASTER, Count(j)) /\ KeyJob(j)
  BY <1>1, <1>2, <1>3
<1>5. \A p, q \in Ranks : chan[p][q] = <<>>
  BY DEF KeyInv, KeyTyped
<1>6. j.prog \in KeyProgs
  BY <1>4 DEF KeyJob
<1>7. Is({"reduction", "reduction2", "reduceTiming"}) => ReduceGoal
  <2>1. Reduced(j, m, n)
    BY <1>1, <1>4, ReducedLast
  <2>2. ASSUME j.prog = "reduction" PROVE ReduceGoal
    <3>1. m.buf = << (n * (n + 1) * (2 * n + 1)) \div 6 >> /\ m.all = << n * n >>
      BY <2>1, <2>2 DEF Reduced
    <3>2. QED
      BY <1>1, <2>2, <3>1 DEF Is, ReduceGoal
  <2>3. ASSUME j.prog = "reduction2" PROVE ReduceGoal
    <3>1. CASE j.lang = "Python"
      <4>1. /\ m.all = [i \in 1 .. 5 |-> i * (n - 1)]
            /\ m.buf = [k \in 1 .. 5 * n |-> ((k - 1) \div 5) * (((k - 1) % 5) + 1)]
        BY <2>1, <2>3, <3>1 DEF Reduced
      <4>2. QED
        BY <1>1, <2>3, <3>1, <4>1 DEF Is, ReduceGoal
    <3>2. CASE j.lang # "Python"
      <4>1. m.all = [i \in 1 .. 5 |-> (i - 1) * ((n * (n - 1)) \div 2)]
        BY <2>1, <2>3, <3>2 DEF Reduced
      <4>2. QED
        BY <1>1, <2>3, <3>2, <4>1 DEF Is, ReduceGoal
    <3>3. QED
      BY <3>1, <3>2
  <2>4. ASSUME j.prog = "reduceTiming" PROVE ReduceGoal
    <3>1. m.all = << IF j.lang = "C" THEN 1 ELSE 1000 * n >>
      BY <2>1, <2>4 DEF Reduced
    <3>2. QED
      BY <1>1, <2>4, <3>1 DEF Is, ReduceGoal
  <2>5. QED
    BY <1>1, <2>2, <2>3, <2>4 DEF Is
<1>8. Is({"scatter"}) => ArrayGoal
  <2>1. SUFFICES ASSUME j.prog = "scatter" PROVE ArrayGoal
    BY <1>1 DEF Is
  <2>2. PICK l, A, V, o : /\ l = IF j.lang = "Python" THEN 3 ELSE 8 \div n
                          /\ A = IF j.lang = "Python"
                                   THEN [k \in 1 .. 3 * n |-> (((k - 1) \div 3) + 1) * (((k - 1) % 3) + 1)]
                                   ELSE [k \in 1 .. 8 - (8 % n) |-> 11 * k]
                          /\ V = [q \in 0 .. n - 1 |-> Part(j, q)] /\ o = [r \in 0 .. n |-> r * l]
    OBVIOUS
  <2>3. Cut(A, V, o, n)
    BY <1>1, <1>2, <1>4, <2>2, PartsCut
  <2>4. FlattenSeq([r \in 1 .. n |-> V[r - 1]]) = A
    BY <1>2, <2>3, FlattenIs
  <2>5. ASSUME NEW r \in 1 .. n PROVE V[r - 1] = mem[r - 1].part
    <3>1. r - 1 \in 0 .. n - 1
      BY <1>2
    <3>2. mem[r - 1].part = Part(j, r - 1)
      BY <1>1, <1>2, <1>3, <1>4, <2>1, <3>1, ScatteredLast
    <3>3. QED
      BY <2>2, <3>1, <3>2
  <2>6. [r \in 1 .. n |-> V[r - 1]] = [r \in 1 .. n |-> mem[r - 1].part]
    BY <2>5
  <2>7. FlattenSeq([r \in 1 .. n |-> mem[r - 1].part]) = A
    BY <2>4, <2>6
  <2>8. QED
    BY <1>1, <2>1, <2>2, <2>7 DEF ArrayGoal, Is
<1>9. Is({"gather"}) => ArrayGoal
  <2>1. SUFFICES ASSUME j.prog = "gather" PROVE ArrayGoal
    BY <1>1 DEF Is
  <2>2. m.all = Collection(j)
    BY <1>1, <1>4, <2>1, GatheredLast
  <2>3. Collection(j) =
          [k \in 1 .. 3 * n |->
              ((k - 1) \div 3) * 10 * (IF j.lang = "Python" THEN ((k - 1) % 3) + 1 ELSE 1)
              + (IF j.lang = "Python" THEN 0 ELSE (k - 1) % 3)]
    <3>1. ASSUME NEW k \in 1 .. 3 * n
          PROVE  /\ ((k - 1) \div 3) * 10 * (((k - 1) % 3) + 1) \in Int
                 /\ ((k - 1) \div 3) * 10 \in Int
      <4>1. (k - 1) \div 3 \in Int /\ (k - 1) % 3 \in Int
        BY <1>2
      <4>2. QED
        BY <4>1
    <3>2. CASE j.lang = "Python"
      <4>1. \A k \in 1 .. 3 * n : ((k - 1) \div 3) * 10 * (((k - 1) % 3) + 1)
                                    = ((k - 1) \div 3) * 10 * (((k - 1) % 3) + 1) + 0
        BY <3>1
      <4>2. QED
        BY <1>1, <3>2, <4>1 DEF Collection
    <3>3. CASE j.lang # "Python"
      <4>1. \A k \in 1 .. 3 * n : ((k - 1) \div 3) * 10 = ((k - 1) \div 3) * 10 * 1
        BY <3>1
      <4>2. QED
        BY <1>1, <3>3, <4>1 DEF Collection
    <3>4. QED
      BY <3>2, <3>3
  <2>4. QED
    BY <1>1, <2>1, <2>2, <2>3 DEF ArrayGoal, Is
<1>10. Is({"broadcastLoop", "scatterLoop", "scatterV"}) => ArrayGoal
  <2>1. SUFFICES ASSUME j.prog \in Doublers PROVE ArrayGoal
    BY <1>1 DEF Is, Doublers
  <2>2. ~Refused(j) => m.all = [k \in 1 .. 8 |-> 2 * (k + 10)]
    BY <1>1, <1>4, <2>1, GatheredLast
  <2>3. CASE j.prog = "scatterV"
    <3>1. n <= 8 => ~Refused(j)
      BY <1>1, <1>2, <2>3 DEF Refused, ARRAY_SIZE
    <3>2. QED
      BY <1>1, <2>2, <2>3, <3>1 DEF ArrayGoal, Is
  <2>4. CASE j.prog # "scatterV"
    <3>1. Divides(n, 8) => ~Refused(j)
      BY <1>1, <2>4 DEF Refused, ARRAY_SIZE
    <3>2. j.prog \in {"broadcastLoop", "scatterLoop"}
      BY <2>1, <2>4 DEF Doublers
    <3>3. QED
      BY <1>1, <2>2, <3>1, <3>2 DEF ArrayGoal, Is
  <2>5. QED
    BY <2>3, <2>4
<1>11. Is({"scatterGather"}) => ArrayGoal
  BY <1>1, <1>4, GatheredLast DEF Is, ArrayGoal
<1>12. QED
  BY <1>1, <1>5, <1>6, <1>7, <1>8, <1>9, <1>10, <1>11 DEF Outcome, Is, KeyProgs
-----------------------------------------------------------------------------
(* Two rounds of messages from every worker to the master: whatever the    *)
(* order in which they arrive, it gets both of every worker, in the order  *)
(* they were sent.                                                         *)

RoundProgs == {"barrier", "sequence"}
RoundJob == job \in Jobs /\ job.prog \in RoundProgs
RoundTag(j) == IF j.prog = "barrier" THEN 0 ELSE 1

\* In the channel c of worker p are its messages a + 1 .. b; it waits for the
\* last to be received when waits.
Holding(p, c, a, b, tag, waits) ==
  /\ a \in Nat /\ b \in Nat /\ Sequence(c) /\ Len(c) = b - a
  /\ \A k \in 1 .. Len(c) : /\ c[k].val = << p, a + k >> /\ c[k].tag = tag
                            /\ c[k].sync <=> waits /\ k = Len(c)

\* The master is at instruction k; of the messages of worker p it has output g[p].
Noted(n, out, k, g) ==
  /\ k \in 1 .. 2 * (n - 1) + 1 /\ out \in Seq(Int) /\ Len(out) = 2 * (k - 1)
  /\ \A i \in 1 .. k - 1 : out[2 * i - 1] \in 1 .. n - 1 /\ out[2 * i] \in 1 .. g[out[2 * i - 1]]
  /\ \A i, j \in 1 .. k - 1 : i < j /\ out[2 * i - 1] = out[2 * j - 1] => out[2 * i] < out[2 * j]

\* What p holds when its message m was taken.
Remaining(p, c, a, b, tag, waits, m) ==
  IF m.sync THEN Holding(p, RemoveAt(c, 1), a + 1, b, tag, FALSE)
            ELSE Holding(p, RemoveAt(c, 1), a + 1, b, tag, waits)

\* Both messages of each worker are among the outputs, and nothing else is.
AllNoted(n, out) ==
  /\ Len(out) = 4 * (n - 1)
  /\ \A p \in 1 .. n - 1 : \E i, j \in 1 .. 2 * (n - 1) :
        /\ i < j
        /\ out[2 * i - 1] = p /\ out[2 * i] = 1
        /\ out[2 * j - 1] = p /\ out[2 * j] = 2

\* The worker sends a message.
LEMMA HoldsMore ==
    ASSUME NEW p, NEW c, NEW a, NEW b, NEW tag, Holding(p, c, a, b, tag, FALSE),
           NEW m, m.val = << p, b + 1 >>, m.tag = tag, m.sync \in BOOLEAN
    PROVE  Holding(p, Append(c, m), a, b + 1, tag, m.sync)
<1>1. PICK U : c \in Seq(U)
  BY DEF Holding, Sequence
<1>2. PICK d : d = Append(c, m)
  OBVIOUS
<1>3. /\ d \in Seq(U \cup {m}) /\ Len(d) = Len(c) + 1 /\ Len(c) \in Nat
      /\ \A k \in 1 .. Len(c) : d[k] = c[k]
      /\ d[Len(c) + 1] = m
  <2>1. c \in Seq(U \cup {m})
    BY <1>1
  <2>2. QED
    BY <1>2, <2>1
<1>4. a \in Nat /\ b \in Nat /\ Len(c) = b - a
  BY DEF Holding
<1>5. ASSUME NEW k \in 1 .. Len(d)
      PROVE  /\ d[k].val = << p, a + k >> /\ d[k].tag = tag
             /\ d[k].sync <=> m.sync /\ k = Len(d)
  <2>1. CASE k = Len(d)
    <3>1. d[k] = m /\ a + k = b + 1
      BY <1>3, <1>4, <2>1
    <3>2. QED
      BY <2>1, <3>1
  <2>2. CASE k # Len(d)
    <3>1. k \in 1 .. Len(c)
      BY <1>3, <2>2
    <3>2. /\ c[k].val = << p, a + k >> /\ c[k].tag = tag /\ ~c[k].sync
      BY <3>1 DEF Holding
    <3>3. QED
      BY <1>3, <2>2, <3>1, <3>2
  <2>3. QED
    BY <2>1, <2>2
<1>6. Sequence(d) /\ b + 1 \in Nat /\ Len(d) = (b + 1) - a
  BY <1>3, <1>4 DEF Sequence
<1>7. QED
  BY <1>2, <1>4, <1>5, <1>6 DEF Holding

\* The first message of a channel is taken.
LEMMA HoldsLess ==
    ASSUME NEW p, NEW c, NEW a, NEW b, NEW tag, NEW waits \in BOOLEAN, Holding(p, c, a, b, tag, waits),
           1 \in DOMAIN c, NEW m, m = c[1]
    PROVE  /\ m.val = << p, a + 1 >> /\ m.tag = tag /\ a + 1 <= b
           /\ m.sync => waits
           /\ Remaining(p, c, a, b, tag, waits, m)
<1>1. PICK U : c \in Seq(U)
  BY DEF Holding, Sequence
<1>2. PICK d : d = RemoveAt(c, 1)
  OBVIOUS
<1>3. /\ d \in Seq(U) /\ DOMAIN d = 1 .. Len(c) - 1
      /\ \A j \in 1 .. Len(c) - 1 : d[j] = c[Prior(j, 1)]
  <2>1. Len(c) \in Nat /\ DOMAIN c = 1 .. Len(c)
    BY <1>1
  <2>2. 1 \in 1 .. Len(c)
    BY <2>1
  <2>3. /\ RemoveAt(c, 1) \in Seq(U) /\ DOMAIN RemoveAt(c, 1) = 1 .. Len(c) - 1
        /\ \A j \in 1 .. Len(c) - 1 : RemoveAt(c, 1)[j] = c[Prior(j, 1)]
    BY <1>1, <2>2, Removal
  <2>4. QED
    BY <1>2, <2>3
<1>4. Len(c) \in Nat /\ 1 <= Len(c) /\ a \in Nat /\ b \in Nat /\ Len(c) = b - a
  BY <1>1 DEF Holding
<1>5. Len(d) = Len(c) - 1 /\ \A j \in 1 .. Len(d) : d[j] = c[j + 1] /\ j + 1 \in 1 .. Len(c)
  <2>1. \A j \in 1 .. Len(c) - 1 : Prior(j, 1) = j + 1
    BY <1>4 DEF Prior
  <2>2. Len(d) = Len(c) - 1
    BY <1>3, <1>4
  <2>3. ASSUME NEW j \in 1 .. Len(d) PROVE d[j] = c[j + 1] /\ j + 1 \in 1 .. Len(c)
    <3>1. j \in 1 .. Len(c) - 1
      BY <2>2
    <3>2. QED
      BY <1>3, <1>4, <2>1, <3>1
  <2>4. QED
    BY <2>2, <2>3
<1>6. /\ m.val = << p, a + 1 >> /\ m.tag = tag
      /\ m.sync <=> waits /\ 1 = Len(c)
  <2>1. 1 \in 1 .. Len(c)
    BY <1>4
  <2>2. QED
    BY <2>1 DEF Holding
<1>7. ASSUME NEW j \in 1 .. Len(d)
      PROVE  /\ d[j].val = << p, (a + 1) + j >> /\ d[j].tag = tag
             /\ d[j].sync <=> waits /\ j = Len(d)
  <2>1. d[j] = c[j + 1] /\ j + 1 \in 1 .. Len(c) /\ a + (j + 1) = (a + 1) + j
    BY <1>4, <1>5
  <2>2. c[j + 1].val = << p, a + (j + 1) >> /\ c[j + 1].tag = tag
    BY <2>1 DEF Holding
  <2>3. c[j + 1].sync <=> waits /\ j + 1 = Len(c)
    BY <2>1 DEF Holding
  <2>4. j + 1 = Len(c) <=> j = Len(d)
    BY <1>4, <1>5
  <2>5. QED
    BY <2>1, <2>2, <2>3, <2>4
<1>8. Sequence(d) /\ a + 1 \in Nat /\ Len(d) = b - (a + 1) /\ a + 1 <= b
  BY <1>3, <1>4, <1>5 DEF Sequence
<1>9. CASE m.sync
  <2>1. 1 .. Len(d) = {}
    BY <1>4, <1>5, <1>6, <1>9
  <2>2. Holding(p, d, a + 1, b, tag, FALSE)
    BY <1>4, <1>8, <2>1 DEF Holding
  <2>3. QED
    BY <1>2, <1>6, <1>8, <1>9, <2>2 DEF Remaining
<1>10. CASE ~m.sync
  <2>1. Holding(p, d, a + 1, b, tag, waits)
    BY <1>4, <1>7, <1>8 DEF Holding
  <2>2. QED
    BY <1>2, <1>6, <1>8, <1>10, <2>1 DEF Remaining
<1>11. QED
  BY <1>9, <1>10

\* The master outputs the next message of worker q.
LEMMA NotesMore ==
    ASSUME NEW n \in Nat \ {0}, NEW out, NEW k, NEW g \in [1 .. n - 1 -> Nat], Noted(n, out, k, g),
           k <= 2 * (n - 1), NEW q \in 1 .. n - 1, NEW d, d = out \o << q, g[q] + 1 >>,
           NEW h, h = [g EXCEPT ![q] = g[q] + 1]
    PROVE  Noted(n, d, k + 1, h)
<1>1. /\ k \in 1 .. 2 * (n - 1) + 1 /\ out \in Seq(Int) /\ Len(out) = 2 * (k - 1)
      /\ \A i \in 1 .. k - 1 : out[2 * i - 1] \in 1 .. n - 1 /\ out[2 * i] \in 1 .. g[out[2 * i - 1]]
      /\ \A i, j \in 1 .. k - 1 : i < j /\ out[2 * i - 1] = out[2 * j - 1] => out[2 * i] < out[2 * j]
  BY DEF Noted
<1>2. PICK e \in Nat : e = g[q]
  OBVIOUS
<1>3. PICK s : s = << q, e + 1 >>
  OBVIOUS
<1>4. s \in Seq(Int) /\ Len(s) = 2 /\ s[1] = q /\ s[2] = e + 1
  BY <1>3
<1>5. /\ d \in Seq(Int) /\ Len(d) = Len(out) + 2
      /\ \A l \in 1 .. Len(d) : d[l] = IF l <= Len(out) THEN out[l] ELSE s[l - Len(out)]
  <2>1. d = out \o s
    BY <1>2, <1>3
  <2>2. QED
    BY <1>1, <1>4, <2>1, ConcatProperties, SMTT(40)
<1>6. k + 1 \in 1 .. 2 * (n - 1) + 1 /\ Len(d) = 2 * ((k + 1) - 1) /\ (k + 1) - 1 = k
  BY <1>1, <1>5
<1>7. ASSUME NEW i \in 1 .. k, i # k
      PROVE  i \in 1 .. k - 1 /\ d[2 * i - 1] = out[2 * i - 1] /\ d[2 * i] = out[2 * i]
  <2>1. i \in 1 .. k - 1
    BY <1>1, <1>7
  <2>2. /\ 2 * i - 1 \in 1 .. Len(d) /\ 2 * i \in 1 .. Len(d)
        /\ 2 * i - 1 <= Len(out) /\ 2 * i <= Len(out)
    BY <1>1, <1>5, <2>1, SMTT(40)
  <2>3. QED
    BY <1>5, <2>1, <2>2
<1>8. d[2 * k - 1] = q /\ d[2 * k] = e + 1
  <2>1. /\ 2 * k - 1 \in 1 .. Len(d) /\ 2 * k \in 1 .. Len(d)
        /\ ~(2 * k - 1 <= Len(out)) /\ ~(2 * k <= Len(out))
        /\ (2 * k - 1) - Len(out) = 1 /\ 2 * k - Len(out) = 2
    BY <1>1, <1>5
  <2>2. QED
    BY <1>4, <1>5, <2>1
<1>9. h[q] = e + 1 /\ \A p \in 1 .. n - 1 : p # q => h[p] = g[p]
  BY <1>2
<1>10. ASSUME NEW i \in 1 .. k
       PROVE  d[2 * i - 1] \in 1 .. n - 1 /\ d[2 * i] \in 1 .. h[d[2 * i - 1]]
  <2>1. CASE i = k
    <3>1. d[2 * i - 1] = q /\ d[2 * i] = e + 1
      BY <1>8, <2>1
    <3>2. h[q] = e + 1 /\ e + 1 \in 1 .. e + 1
      BY <1>9
    <3>3. QED
      BY <3>1, <3>2
  <2>2. CASE i # k
    <3>1. i \in 1 .. k - 1 /\ d[2 * i - 1] = out[2 * i - 1] /\ d[2 * i] = out[2 * i]
      BY <1>7, <2>2
    <3>2. PICK x, y : x = out[2 * i - 1] /\ y = out[2 * i]
      OBVIOUS
    <3>3. x \in 1 .. n - 1 /\ y \in 1 .. g[x]
      BY <1>1, <3>1, <3>2
    <3>4. y \in 1 .. h[x]
      <4>1. CASE x = q
        BY <1>2, <1>9, <3>3, <4>1
      <4>2. CASE x # q
        BY <1>9, <3>3, <4>2
      <4>3. QED
        BY <4>1, <4>2
    <3>5. QED
      BY <3>1, <3>2, <3>3, <3>4
  <2>3. QED
    BY <2>1, <2>2
<1>11. ASSUME NEW i \in 1 .. k, NEW j \in 1 .. k, i < j, d[2 * i - 1] = d[2 * j - 1]
       PROVE  d[2 * i] < d[2 * j]
  <2>0. i # k
    BY <1>1, <1>11
  <2>1. i \in 1 .. k - 1 /\ d[2 * i - 1] = out[2 * i - 1] /\ d[2 * i] = out[2 * i]
    BY <1>7, <2>0
  <2>2. CASE j = k
    <3>1. out[2 * i - 1] = q
      BY <1>8, <1>11, <2>1, <2>2
    <3>2. out[2 * i] \in 1 .. e
      BY <1>1, <1>2, <2>1, <3>1
    <3>3. PICK z : z = out[2 * i]
      OBVIOUS
    <3>4. z \in 1 .. e /\ d[2 * i] = z /\ d[2 * j] = e + 1
      BY <1>8, <2>1, <2>2, <3>2, <3>3
    <3>5. z < e + 1
      BY <1>2, <3>4
    <3>6. QED
      BY <3>4, <3>5
  <2>3. CASE j # k
    <3>1. j \in 1 .. k - 1 /\ d[2 * j - 1] = out[2 * j - 1] /\ d[2 * j] = out[2 * j]
      BY <1>7, <2>3
    <3>2. QED
      BY <1>1, <1>11, <2>1, <3>1
  <2>4. QED
    BY <2>2, <2>3
<1>12. QED
  BY <1>5, <1>6, <1>10, <1>11 DEF Noted

\* The numbering of the messages of the workers.
LEMMA MessageNumber ==
    \A x, u \in Int, y, v \in 1 .. 2 : 2 * (x - 1) + y = 2 * (u - 1) + v => x = u /\ y = v
<1>1. SUFFICES ASSUME NEW x \in Int, NEW u \in Int, NEW y \in {1, 2}, NEW v \in {1, 2},
                      2 * (x - 1) + y = 2 * (u - 1) + v
               PROVE  x = u /\ y = v
  <2>1. 1 .. 2 = {1, 2}
    OBVIOUS
  <2>2. QED
    BY <2>1
<1>2. CASE y = 1 /\ v = 1
  BY <1>1, <1>2
<1>3. CASE y = 2 /\ v = 2
  BY <1>1, <1>3
<1>4. CASE y = 1 /\ v = 2
  BY <1>1, <1>4
<1>5. CASE y = 2 /\ v = 1
  BY <1>1, <1>5
<1>6. QED
  BY <1>1, <1>2, <1>3, <1>4, <1>5

\* At the end it has output both messages of every worker, in order.
LEMMA NotesAll ==
    ASSUME NEW n \in Nat \ {0}, NEW out, NEW g \in [1 .. n - 1 -> 0 .. 2],
           Noted(n, out, 2 * (n - 1) + 1, g)
    PROVE  AllNoted(n, out)
<1>1. PICK N \in Nat : N = 2 * (n - 1)
  OBVIOUS
<1>2. N + 1 - 1 = N
  BY <1>1
<1>3. /\ Len(out) = 2 * N
      /\ \A i \in 1 .. N : out[2 * i - 1] \in 1 .. n - 1 /\ out[2 * i] \in 1 .. g[out[2 * i - 1]]
      /\ \A i, j \in 1 .. N : i < j /\ out[2 * i - 1] = out[2 * j - 1] => out[2 * i] < out[2 * j]
  BY <1>1, <1>2 DEF Noted
<1>4. \A i \in 1 .. N : out[2 * i - 1] \in 1 .. n - 1 /\ out[2 * i] \in 1 .. 2
  <2>1. ASSUME NEW i \in 1 .. N PROVE out[2 * i - 1] \in 1 .. n - 1 /\ out[2 * i] \in 1 .. 2
    <3>1. PICK x : x = out[2 * i - 1]
      OBVIOUS
    <3>2. x \in 1 .. n - 1 /\ out[2 * i] \in 1 .. g[x] /\ g[x] \in 0 .. 2
      BY <1>3, <3>1
    <3>3. QED
      BY <3>1, <3>2
  <2>2. QED
    BY <2>1
<1>5. PICK f : f = [i \in 1 .. N |-> 2 * (out[2 * i - 1] - 1) + out[2 * i]]
  OBVIOUS
<1>6. ASSUME NEW i \in 1 .. N
      PROVE  \E x \in 1 .. n - 1, y \in 1 .. 2 : /\ x = out[2 * i - 1] /\ y = out[2 * i]
                                                 /\ f[i] = 2 * (x - 1) + y /\ f[i] \in 1 .. N
  <2>1. PICK x \in 1 .. n - 1, y \in 1 .. 2 : x = out[2 * i - 1] /\ y = out[2 * i]
    BY <1>4
  <2>2. f[i] = 2 * (x - 1) + y
    BY <1>5, <2>1
  <2>3. 2 * (x - 1) + y \in 1 .. N
    BY <1>1
  <2>4. QED
    BY <2>1, <2>2, <2>3
<1>7. ASSUME NEW i \in 1 .. N, NEW j \in 1 .. N, f[i] = f[j] PROVE i = j
  <2>1. PICK x \in 1 .. n - 1, y \in 1 .. 2 : /\ x = out[2 * i - 1] /\ y = out[2 * i]
                                              /\ f[i] = 2 * (x - 1) + y
    BY <1>6
  <2>2. PICK u \in 1 .. n - 1, v \in 1 .. 2 : /\ u = out[2 * j - 1] /\ v = out[2 * j]
                                              /\ f[j] = 2 * (u - 1) + v
    BY <1>6
  <2>3. x = u /\ y = v
    <3>1. x \in Int /\ u \in Int
      OBVIOUS
    <3>2. 2 * (x - 1) + y = 2 * (u - 1) + v
      <4>1. f[i] = 2 * (x - 1) + y /\ f[j] = 2 * (u - 1) + v
        BY <2>1, <2>2
      <4>2. QED
        BY <1>7, <4>1
    <3>3. QED
      BY <3>1, <3>2, MessageNumber
  <2>4. y \in Int /\ ~(y < y)
    OBVIOUS
  <2>5. ~(i < j)
    BY <1>3, <2>1, <2>2, <2>3, <2>4
  <2>6. ~(j < i)
    BY <1>3, <2>1, <2>2, <2>3, <2>4
  <2>7. QED
    BY <2>5, <2>6
<1>8. \A t \in 1 .. N : \E i \in 1 .. N : f[i] = t
  <2>1. f \in [1 .. N -> 1 .. N]
    BY <1>5, <1>6
  <2>2. f \in Injection(1 .. N, 1 .. N)
    BY <1>7, <2>1, Zenon DEF Injection, IsInjective
  <2>3. IsFiniteSet(1 .. N)
    BY FS_Interval
  <2>4. f \in Surjection(1 .. N, 1 .. N)
    BY <2>2, <2>3, FS_Injection
  <2>5. QED
    BY <2>4 DEF Surjection
<1>9. ASSUME NEW p \in 1 .. n - 1, NEW r \in 1 .. 2
      PROVE  \E i \in 1 .. N : out[2 * i - 1] = p /\ out[2 * i] = r
  <2>1. 2 * (p - 1) + r \in 1 .. N
    BY <1>1
  <2>2. PICK i \in 1 .. N : f[i] = 2 * (p - 1) + r
    BY <1>8, <2>1
  <2>3. PICK x \in 1 .. n - 1, y \in 1 .. 2 : /\ x = out[2 * i - 1] /\ y = out[2 * i]
                                              /\ f[i] = 2 * (x - 1) + y
    BY <1>6
  <2>4. x = p /\ y = r
    <3>1. 2 * (x - 1) + y = 2 * (p - 1) + r /\ x \in Int /\ p \in Int
      BY <2>2, <2>3
    <3>2. QED
      BY <3>1, MessageNumber
  <2>5. QED
    BY <2>3, <2>4
<1>10. ASSUME NEW p \in 1 .. n - 1
       PROVE  \E i, j \in 1 .. N : /\ i < j
                                   /\ out[2 * i - 1] = p /\ out[2 * i] = 1
                                   /\ out[2 * j - 1] = p /\ out[2 * j] = 2
  <2>0. 1 \in 1 .. 2 /\ 2 \in 1 .. 2
    OBVIOUS
  <2>1. PICK i \in 1 .. N : out[2 * i - 1] = p /\ out[2 * i] = 1
    <3>1. \E i \in 1 .. N : out[2 * i - 1] = p /\ out[2 * i] = 1
      BY <1>9, <2>0
    <3>2. QED
      BY <3>1
  <2>2. PICK j \in 1 .. N : out[2 * j - 1] = p /\ out[2 * j] = 2
    <3>1. \E j \in 1 .. N : out[2 * j - 1] = p /\ out[2 * j] = 2
      BY <1>9, <2>0
    <3>2. QED
      BY <3>1
  <2>3. i # j
    BY <2>1, <2>2
  <2>4. ~(j < i)
    <3>1. SUFFICES ASSUME j < i PROVE FALSE
      OBVIOUS
    <3>2. out[2 * j] < out[2 * i]
      BY <1>3, <2>1, <2>2, <3>1
    <3>3. QED
      BY <2>1, <2>2, <3>2
  <2>5. i < j
    BY <2>3, <2>4
  <2>6. QED
    BY <2>1, <2>2, <2>5
<1>11. QED
  BY <1>1, <1>3, <1>10 DEF AllNoted

\* A worker sends two messages to the master, who receives two from each of them.
LEMMA RoundCode ==
    ASSUME RoundJob, NEW p
    PROVE  /\ job.np \in Nat \ {0}
           /\ p # MASTER => /\ Len(Code(p)) = 2 /\ DOMAIN Code(p) = 1 .. 2
                            /\ \A k \in 1 .. 2 : Code(p)[k] = Send(<< p, k >>, MASTER, RoundTag(job))
           /\ p = MASTER => /\ Len(Code(p)) = 2 * (job.np - 1) /\ DOMAIN Code(p) = 1 .. 2 * (job.np - 1)
                            /\ \A k \in 1 .. 2 * (job.np - 1) :
                                 /\ Code(p)[k].op = "recv" /\ Code(p)[k].var = "out"
                                 /\ Code(p)[k].from = AnySource
                                 /\ Code(p)[k].tag \in {AnyTag, RoundTag(job)}
<1> DEFINE n == job.np
           st == RoundTag(job)
<1>1. /\ job.lang \in {"C", "Java"} /\ job.prog \in {"barrier", "sequence"} /\ n \in Nat \ {0}
  BY JobsAssumption DEF RoundJob, RoundProgs, Programs
<1>2. PICK rt \in {AnyTag, st} :
        Code(p) = sendReceivePrint(p, n, 1, st, rt) \o sendReceivePrint(p, n, 2, st, rt)
  <2>1. CASE job.prog = "barrier"
    <3>1. Code(p) = barrier(p, n)
      BY <1>1, <2>1 DEF Code, CCode, JavaCode, JavaBarrier
    <3>2. st = 0
      BY <2>1 DEF RoundTag
    <3>3. QED
      BY <3>1, <3>2 DEF barrier
  <2>2. CASE job.prog = "sequence"
    <3>1. Code(p) = sequenceNumbers(p, n)
      BY <1>1, <2>2 DEF Code, CCode, JavaCode, JavaSequenceNumbers
    <3>2. st = 1
      BY <2>2 DEF RoundTag
    <3>3. QED
      BY <3>1, <3>2 DEF sequenceNumbers
  <2>3. QED
    BY <1>1, <2>1, <2>2
<1>3. CASE p # MASTER
  <2>1. Code(p) = << Send(<< p, 1 >>, MASTER, st) >> \o << Send(<< p, 2 >>, MASTER, st) >>
    BY <1>2, <1>3 DEF sendReceivePrint
  <2>2. PICK x, y : x = Send(<< p, 1 >>, MASTER, st) /\ y = Send(<< p, 2 >>, MASTER, st)
    OBVIOUS
  <2>3. PICK s, t : s = << x >> /\ t = << y >>
    OBVIOUS
  <2>4. /\ Len(Code(p)) = 2 /\ DOMAIN Code(p) = 1 .. 2 /\ Code(p)[1] = x /\ Code(p)[2] = y
    <3>1. PICK U : U = {x, y}
      OBVIOUS
    <3>2. s \in Seq(U) /\ t \in Seq(U) /\ Len(s) = 1 /\ Len(t) = 1 /\ s[1] = x /\ t[1] = y
      BY <2>3, <3>1
    <3>3. PICK c : c = s \o t
      OBVIOUS
    <3>4. /\ c \in Seq(U) /\ Len(c) = 2 /\ c[1] = s[1] /\ c[2] = t[1]
      <4>1. /\ s \o t \in Seq(U) /\ Len(s \o t) = Len(s) + Len(t)
            /\ \A l \in 1 .. Len(s) + Len(t) :
                  (s \o t)[l] = IF l <= Len(s) THEN s[l] ELSE t[l - Len(s)]
        BY <3>2, ConcatProperties
      <4>2. QED
        BY <3>2, <3>3, <4>1
    <3>5. Len(c) = 2 /\ DOMAIN c = 1 .. 2 /\ c[1] = x /\ c[2] = y
      BY <3>2, <3>4
    <3>6. Code(p) = c
      BY <2>1, <2>2, <2>3, <3>3
    <3>7. QED
      BY <3>5, <3>6
  <2>5. \A k \in 1 .. 2 : k = 1 \/ k = 2
    OBVIOUS
  <2>6. QED
    BY <1>1, <1>3, <2>2, <2>4, <2>5
<1>4. CASE p = MASTER
  <2>1. PICK r, f : r = Recv("out", AnySource, rt) /\ f = [k \in 1 .. n - 1 |-> r]
    OBVIOUS
  <2>2. Code(p) = f \o f
    BY <1>2, <1>4, <2>1 DEF sendReceivePrint
  <2>3. PICK N \in Nat : N = n - 1
    BY <1>1
  <2>4. f \in Seq({r}) /\ Len(f) = N
    BY <2>1, <2>3
  <2>5. PICK c : c = f \o f
    OBVIOUS
  <2>6. c \in Seq({r}) /\ Len(c) = N + N
    BY <2>4, <2>5, ConcatProperties
  <2>7. DOMAIN c = 1 .. 2 * N /\ Len(c) = 2 * N /\ \A k \in 1 .. 2 * N : c[k] = r
    <3>1. N + N = 2 * N
      OBVIOUS
    <3>2. Len(c) = 2 * N
      BY <2>6, <3>1
    <3>3. QED
      BY <2>6, <3>2
  <2>8. r.op = "recv" /\ r.var = "out" /\ r.from = AnySource /\ r.tag = rt
    BY <2>1 DEF Recv
  <2>9. QED
    BY <1>1, <1>4, <2>2, <2>3, <2>5, <2>7, <2>8
<1>5. QED
  BY <1>3, <1>4

\* How many messages worker p has sent.
SentBy(p) == IF phase[p] = "send" THEN pc[p] ELSE pc[p] - 1

\* Only the workers send, and only to the master.
RoundTyped ==
  /\ pc \in [Ranks -> Nat] /\ phase \in [Ranks -> {"run", "send"}]
  /\ chan = [p \in Ranks |-> [q \in Ranks |-> chan[p][q]]] /\ mem = [p \in Ranks |-> mem[p]]
  /\ phase[MASTER] = "run" /\ "out" \in DOMAIN mem[MASTER]
  /\ \A p \in Ranks \ {MASTER} : pc[p] \in 1 .. 3 /\ (phase[p] = "send" => pc[p] \in 1 .. 2)
  /\ \A p, q \in Ranks : q # MASTER \/ p = MASTER => chan[p][q] = <<>>

\* The master has output g[p] messages of each worker p; the others it has
\* sent are in its channel.
Collecting(g) ==
  /\ g \in [1 .. job.np - 1 -> Nat]
  /\ \A p \in 1 .. job.np - 1 :
       Holding(p, chan[p][MASTER], g[p], SentBy(p), RoundTag(job), phase[p] = "send")
  /\ Noted(job.np, mem[MASTER].out, pc[MASTER], g)

RoundInv == RoundJob => RoundTyped /\ \E g : Collecting(g)

\* The workers are the ranks but the master's.
LEMMA RoundRanks ==
    ASSUME RoundJob
    PROVE  /\ MASTER \in Ranks /\ Ranks \ {MASTER} = 1 .. job.np - 1 /\ job.np \in Nat \ {0}
<1>1. PICK n \in Nat \ {0} : n = job.np
  BY RoundCode
<1>2. QED
  BY <1>1 DEF Ranks, MASTER

\* A worker sends its next message.
LEMMA RoundSends ==
    ASSUME RoundJob, RoundTyped, NEW g, Collecting(g), NEW p \in Ranks, SendMessage(p)
    PROVE  RoundTyped' /\ Collecting(g)'
<1>0. /\ job' = job /\ mem' = mem /\ Ranks' = Ranks /\ RoundTag(job)' = RoundTag(job)
      /\ pc \in [Ranks -> Nat] /\ phase \in [Ranks -> {"run", "send"}]
  BY DEF SendMessage, Ranks, RoundTyped, RoundTag
<1>1. PICK i \in Current(p), sync \in BOOLEAN :
        /\ i.op = "send"
        /\ chan' = [chan EXCEPT ![p][i.to] =
                      Append(@, [tag |-> i.tag, val |-> i.val, sync |-> sync])]
        /\ IF sync THEN phase' = [phase EXCEPT ![p] = "send"] /\ UNCHANGED pc
                   ELSE Step(p) /\ UNCHANGED phase
  BY DEF SendMessage
<1>2. i = Code(p)[pc[p]] /\ pc[p] \in DOMAIN Code(p) /\ phase[p] = "run"
  BY <1>1 DEF Current
<1>3. p # MASTER
  BY <1>1, <1>2, RoundCode
<1>4. PICK k \in 1 .. 2 : k = pc[p] /\ i = Send(<< p, k >>, MASTER, RoundTag(job))
  BY <1>2, <1>3, RoundCode
<1>5. i.to = MASTER /\ i.val = << p, k >> /\ i.tag = RoundTag(job)
  BY <1>4 DEF Send
<1>6. PICK m : m = [tag |-> i.tag, val |-> i.val, sync |-> sync]
  OBVIOUS
<1>7. m.tag = RoundTag(job) /\ m.val = << p, k >> /\ m.sync = sync
  BY <1>5, <1>6
<1>8. MASTER \in Ranks /\ Ranks \ {MASTER} = 1 .. job.np - 1 /\ p \in 1 .. job.np - 1
  BY <1>3, RoundRanks
<1>9. /\ chan' = [a \in Ranks |-> [b \in Ranks |-> chan'[a][b]]]
      /\ chan'[p][MASTER] = Append(chan[p][MASTER], m)
      /\ \A a, b \in Ranks : a # p \/ b # MASTER => chan'[a][b] = chan[a][b]
  <2>1. chan' = [chan EXCEPT ![p][MASTER] = Append(@, m)]
    BY <1>1, <1>5, <1>6
  <2>2. PICK R, c, d, q, x : /\ R = Ranks /\ c = chan /\ d = chan' /\ q = MASTER
                             /\ x = Append(chan[p][MASTER], m)
    OBVIOUS
  <2>3. /\ c = [a \in R |-> [b \in R |-> c[a][b]]] /\ d = [c EXCEPT ![p][q] = x]
        /\ p \in R /\ q \in R
    BY <1>8, <2>1, <2>2 DEF RoundTyped
  <2>4. /\ d = [a \in R |-> [b \in R |-> d[a][b]]]
        /\ d[p][q] = x
        /\ \A a, b \in R : a # p \/ b # q => d[a][b] = c[a][b]
    BY <2>3
  <2>5. QED
    BY <2>2, <2>4
<1>10. /\ pc' \in [Ranks -> Nat] /\ phase' \in [Ranks -> {"run", "send"}]
       /\ \A a \in Ranks \ {p} : pc'[a] = pc[a] /\ phase'[a] = phase[a]
       /\ (phase'[p] = "send" <=> sync)
       /\ pc'[p] = IF sync THEN k ELSE k + 1
  <2>1. CASE sync
    BY <1>0, <1>1, <1>4, <2>1
  <2>2. CASE ~sync
    <3>1. phase' = phase /\ pc' = [pc EXCEPT ![p] = k + 1] /\ k + 1 \in Nat
      BY <1>1, <1>4, <2>2 DEF Step
    <3>2. phase' \in [Ranks -> {"run", "send"}] /\ phase'[p] = "run"
      BY <1>0, <1>2, <3>1
    <3>3. pc' \in [Ranks -> Nat] /\ pc'[p] = k + 1 /\ \A a \in Ranks \ {p} : pc'[a] = pc[a]
      BY <1>0, <3>1
    <3>4. QED
      BY <2>2, <3>1, <3>2, <3>3
  <2>3. QED
    BY <2>1, <2>2
<1>11. RoundTyped'
  <2>1. \A a \in Ranks \ {MASTER} : pc'[a] \in 1 .. 3 /\ (phase'[a] = "send" => pc'[a] \in 1 .. 2)
    <3>1. ASSUME NEW a \in Ranks \ {MASTER}
          PROVE  pc'[a] \in 1 .. 3 /\ (phase'[a] = "send" => pc'[a] \in 1 .. 2)
      <4>1. CASE a = p
        BY <1>10, <4>1
      <4>2. CASE a # p
        BY <1>10, <4>2 DEF RoundTyped
      <4>3. QED
        BY <4>1, <4>2
    <3>2. QED
      BY <3>1
  <2>2. \A a, b \in Ranks : b # MASTER \/ a = MASTER => chan'[a][b] = <<>>
    BY <1>3, <1>9 DEF RoundTyped
  <2>3. phase'[MASTER] = "run"
    BY <1>3, <1>8, <1>10 DEF RoundTyped
  <2>4. "out" \in DOMAIN mem'[MASTER] /\ mem' = [a \in Ranks |-> mem'[a]]
    BY <1>0 DEF RoundTyped
  <2>5. QED
    BY <1>0, <1>9, <1>10, <2>1, <2>2, <2>3, <2>4 DEF RoundTyped
<1>12. SentBy(p)' = k /\ SentBy(p) = k - 1
  <2>1. SentBy(p)' = k
    BY <1>10 DEF SentBy
  <2>2. QED
    BY <1>2, <1>4, <2>1 DEF SentBy
<1>13. Holding(p, chan'[p][MASTER], g[p], SentBy(p)', RoundTag(job), phase'[p] = "send")
  <2>1. Holding(p, chan[p][MASTER], g[p], k - 1, RoundTag(job), FALSE)
    <3>1. Holding(p, chan[p][MASTER], g[p], SentBy(p), RoundTag(job), phase[p] = "send")
      BY <1>8 DEF Collecting
    <3>2. phase[p] # "send"
      BY <1>2
    <3>3. QED
      BY <1>12, <3>1, <3>2 DEF Holding
  <2>2. (k - 1) + 1 = k
    OBVIOUS
  <2>3. m.val = << p, (k - 1) + 1 >>
    BY <1>7, <2>2
  <2>4. Holding(p, Append(chan[p][MASTER], m), g[p], (k - 1) + 1, RoundTag(job), m.sync)
    BY <1>7, <2>1, <2>3, HoldsMore
  <2>5. Holding(p, chan'[p][MASTER], g[p], SentBy(p)', RoundTag(job), sync)
    BY <1>7, <1>9, <1>12, <2>2, <2>4
  <2>6. QED
    BY <1>10, <2>5 DEF Holding
<1>14. ASSUME NEW a \in 1 .. job.np - 1
       PROVE  Holding(a, chan[a][MASTER], g[a], SentBy(a), RoundTag(job), phase[a] = "send")'
  <2>1. CASE a = p
    BY <1>0, <1>13, <2>1
  <2>2. CASE a # p
    <3>1. a \in Ranks /\ MASTER \in Ranks
      BY <1>8
    <3>2. chan'[a][MASTER] = chan[a][MASTER] /\ phase'[a] = phase[a] /\ pc'[a] = pc[a]
      BY <1>9, <1>10, <2>2, <3>1
    <3>3. SentBy(a)' = SentBy(a)
      BY <3>2 DEF SentBy
    <3>4. Holding(a, chan[a][MASTER], g[a], SentBy(a), RoundTag(job), phase[a] = "send")
      BY DEF Collecting
    <3>5. QED
      BY <1>0, <3>2, <3>3, <3>4
  <2>3. QED
    BY <2>1, <2>2
<1>15. Collecting(g)'
  <2>1. pc'[MASTER] = pc[MASTER] /\ mem'[MASTER] = mem[MASTER] /\ job'.np = job.np
    BY <1>0, <1>3, <1>8, <1>10
  <2>2. Noted(job.np, mem[MASTER].out, pc[MASTER], g)'
    BY <2>1 DEF Collecting
  <2>3. QED
    BY <1>0, <1>14, <2>2 DEF Collecting
<1>16. QED
  BY <1>11, <1>15

\* The master takes the first message of some worker and outputs it.
LEMMA RoundGets ==
    ASSUME RoundJob, RoundTyped, NEW g, Collecting(g), NEW p \in Ranks, Receive(p)
    PROVE  RoundTyped' /\ (\E h : Collecting(h))'
<1>0. /\ job' = job /\ Ranks' = Ranks /\ RoundTag(job)' = RoundTag(job)
      /\ pc \in [Ranks -> Nat] /\ phase \in [Ranks -> {"run", "send"}]
  BY DEF Receive, Ranks, RoundTyped, RoundTag
<1>1. PICK i \in Current(p), q \in Ranks :
        /\ i.op = "recv" /\ i.from \in {q, AnySource}
        /\ \E k \in Earliest(i, q, p) :
             Takes(p, q, k) /\ Keeps(p, i.var, q, chan[q][p][k])
  BY ReceiveIs
<1>2. PICK k : /\ k \in Earliest(i, q, p)
               /\ Takes(p, q, k) /\ Keeps(p, i.var, q, chan[q][p][k])
  BY <1>1
<1>3. i = Code(p)[pc[p]] /\ pc[p] \in DOMAIN Code(p) /\ phase[p] = "run"
  BY <1>1 DEF Current
<1>4. p = MASTER
  <2>1. ASSUME p # MASTER PROVE FALSE
    <3>1. i = Send(<< p, pc[p] >>, MASTER, RoundTag(job))
      BY <1>3, <2>1, RoundCode
    <3>2. QED
      BY <1>1, <3>1 DEF Send
  <2>2. QED
    BY <2>1
<1>5. i.var = "out" /\ i.tag \in {AnyTag, RoundTag(job)} /\ pc[MASTER] \in 1 .. 2 * (job.np - 1)
  <2>1. Code(p)[pc[p]] = i /\ pc[p] \in 1 .. 2 * (job.np - 1)
    BY <1>3, <1>4, RoundCode
  <2>2. Code(p)[pc[p]].var = "out" /\ Code(p)[pc[p]].tag \in {AnyTag, RoundTag(job)}
    BY <1>4, <2>1, RoundCode
  <2>3. QED
    BY <1>4, <2>1, <2>2
<1>6. MASTER \in Ranks /\ Ranks \ {MASTER} = 1 .. job.np - 1 /\ job.np \in Nat \ {0}
  BY RoundRanks
<1>7. q # MASTER /\ q \in 1 .. job.np - 1
  <2>1. k \in DOMAIN chan[q][MASTER]
    BY <1>2, <1>4 DEF Takes
  <2>2. chan[q][MASTER] # <<>>
    BY <2>1
  <2>3. QED
    BY <1>6, <2>2 DEF RoundTyped
<1>c. PICK c, tag : c = chan[q][MASTER] /\ tag = RoundTag(job)
  OBVIOUS
<1>8. PICK a \in Nat, b \in Nat, waits \in BOOLEAN :
        /\ c = chan[q][MASTER] /\ a = g[q] /\ b = SentBy(q) /\ tag = RoundTag(job)
        /\ (waits <=> phase[q] = "send")
        /\ Holding(q, c, a, b, tag, waits)
  <2>1. Holding(q, chan[q][MASTER], g[q], SentBy(q), RoundTag(job), phase[q] = "send")
    BY <1>7 DEF Collecting
  <2>2. g[q] \in Nat /\ SentBy(q) \in Nat
    BY <2>1 DEF Holding
  <2>3. PICK waits \in BOOLEAN : waits <=> phase[q] = "send"
    OBVIOUS
  <2>4. Holding(q, c, g[q], SentBy(q), tag, waits)
    BY <1>c, <2>1, <2>3 DEF Holding
  <2>5. QED
    BY <1>c, <2>2, <2>3, <2>4
<1>9. k \in DOMAIN c /\ k = 1
  <2>1. k \in DOMAIN c /\ \A j \in 1 .. k - 1 : ~Matches(i, c[j])
    BY <1>2, <1>4, <1>8 DEF Earliest
  <2>2. Sequence(c) /\ \A j \in 1 .. Len(c) : c[j].tag = tag
    BY <1>8 DEF Holding
  <2>3. DOMAIN c = 1 .. Len(c) /\ Len(c) \in Nat
    BY <2>2 DEF Sequence
  <2>4. \A j \in DOMAIN c : Matches(i, c[j])
    BY <1>5, <1>8, <2>2, <2>3 DEF Matches
  <2>5. ASSUME k # 1 PROVE FALSE
    <3>1. 1 \in 1 .. k - 1 /\ 1 \in DOMAIN c
      BY <2>1, <2>3, <2>5
    <3>2. QED
      BY <2>1, <2>4, <3>1
  <2>6. QED
    BY <2>1, <2>5
<1>10. PICK m : m = c[1]
  OBVIOUS
<1>11. /\ m.val = << q, a + 1 >> /\ m.tag = tag /\ a + 1 <= b
       /\ m.sync => waits
       /\ Remaining(q, c, a, b, tag, waits, m)
  <2>1. 1 \in DOMAIN c
    BY <1>9
  <2>2. QED
    BY <1>8, <1>10, <2>1, HoldsLess
<1>12. /\ chan' = [x \in Ranks |-> [y \in Ranks |-> chan'[x][y]]]
       /\ chan'[q][MASTER] = RemoveAt(c, 1)
       /\ \A x, y \in Ranks : x # q \/ y # MASTER => chan'[x][y] = chan[x][y]
  <2>1. chan' = [chan EXCEPT ![q][MASTER] = RemoveAt(@, 1)]
    BY <1>2, <1>4, <1>9 DEF Takes
  <2>2. PICK R, d, e, s, z : /\ R = Ranks /\ d = chan /\ e = chan' /\ s = MASTER
                             /\ z = RemoveAt(chan[q][MASTER], 1)
    OBVIOUS
  <2>3. /\ d = [x \in R |-> [y \in R |-> d[x][y]]] /\ e = [d EXCEPT ![q][s] = z]
        /\ q \in R /\ s \in R
    BY <1>6, <2>1, <2>2 DEF RoundTyped
  <2>4. /\ e = [x \in R |-> [y \in R |-> e[x][y]]]
        /\ e[q][s] = z
        /\ \A x, y \in R : x # q \/ y # s => e[x][y] = d[x][y]
    BY <2>3
  <2>5. QED
    BY <1>8, <2>2, <2>4
<1>13. /\ pc' \in [Ranks -> Nat] /\ phase' \in [Ranks -> {"run", "send"}]
       /\ pc'[MASTER] = pc[MASTER] + 1 /\ phase'[MASTER] = "run"
       /\ \A x \in Ranks \ {MASTER, q} : pc'[x] = pc[x] /\ phase'[x] = phase[x]
       /\ m.sync => phase'[q] = "run" /\ pc'[q] = pc[q] + 1
       /\ ~m.sync => phase'[q] = phase[q] /\ pc'[q] = pc[q]
  <2>1. PICK u \in Nat, w \in Nat : u = pc[MASTER] + 1 /\ w = pc[q] + 1
    BY <1>0, <1>6
  <2>2. CASE m.sync
    <3>1. pc' = [pc EXCEPT ![MASTER] = u, ![q] = w] /\ phase' = [phase EXCEPT ![q] = "run"]
      BY <1>2, <1>4, <1>7, <1>8, <1>9, <1>10, <2>1, <2>2 DEF Takes
    <3>2. QED
      BY <1>0, <1>3, <1>4, <1>6, <1>7, <2>1, <2>2, <3>1
  <2>3. CASE ~m.sync
    <3>1. pc' = [pc EXCEPT ![MASTER] = u] /\ phase' = phase
      BY <1>2, <1>4, <1>8, <1>9, <1>10, <2>1, <2>3 DEF Takes
    <3>2. QED
      BY <1>0, <1>3, <1>4, <1>6, <1>7, <2>1, <2>3, <3>1
  <2>4. QED
    BY <2>2, <2>3
<1>14. /\ mem' = [x \in Ranks |-> mem'[x]] /\ "out" \in DOMAIN mem'[MASTER]
       /\ mem'[MASTER].out = mem[MASTER].out \o m.val
  <2>1. PICK o : o = mem[MASTER].out \o m.val
    OBVIOUS
  <2>2. mem' = [mem EXCEPT ![MASTER].out = o, ![MASTER].src = q, ![MASTER].tag = m.tag]
    BY <1>2, <1>4, <1>5, <1>8, <1>9, <1>10, <2>1 DEF Keeps
  <2>3. mem' = [mem EXCEPT ![MASTER] = [mem[MASTER] EXCEPT !.out = o, !.src = q, !.tag = m.tag]]
    <3>1. mem = [x \in Ranks |-> mem[x]]
      BY DEF RoundTyped
    <3>2. QED
      BY <1>6, <2>2, <3>1
  <2>4. "out" \in DOMAIN mem[MASTER] /\ mem = [x \in Ranks |-> mem[x]]
    BY DEF RoundTyped
  <2>5. mem' = [x \in Ranks |-> mem'[x]]
        /\ mem'[MASTER] = [mem[MASTER] EXCEPT !.out = o, !.src = q, !.tag = m.tag]
    BY <1>6, <2>3, <2>4
  <2>6. QED
    BY <2>1, <2>4, <2>5
<1>15. RoundTyped'
  <2>1. \A x \in Ranks \ {MASTER} : pc'[x] \in 1 .. 3 /\ (phase'[x] = "send" => pc'[x] \in 1 .. 2)
    <3>1. ASSUME NEW x \in Ranks \ {MASTER}
          PROVE  pc'[x] \in 1 .. 3 /\ (phase'[x] = "send" => pc'[x] \in 1 .. 2)
      <4>1. CASE x = q /\ m.sync
        <5>1. pc[q] \in 1 .. 2
          BY <1>7, <1>8, <1>11, <4>1 DEF RoundTyped
        <5>2. QED
          BY <1>13, <4>1, <5>1
      <4>2. CASE x # q \/ ~m.sync
        BY <1>13, <4>2 DEF RoundTyped
      <4>3. QED
        BY <4>1, <4>2
    <3>2. QED
      BY <3>1
  <2>2. \A x, y \in Ranks : y # MASTER \/ x = MASTER => chan'[x][y] = <<>>
    BY <1>7, <1>12 DEF RoundTyped
  <2>3. QED
    BY <1>0, <1>12, <1>13, <1>14, <2>1, <2>2 DEF RoundTyped
<1>16. PICK h : h = [g EXCEPT ![q] = a + 1]
  OBVIOUS
<1>17. /\ h \in [1 .. job.np - 1 -> Nat] /\ h[q] = a + 1
       /\ \A x \in 1 .. job.np - 1 : x # q => h[x] = g[x]
  BY <1>7, <1>16 DEF Collecting
<1>18. SentBy(q)' = b
  <2>1. CASE m.sync
    <3>1. phase[q] = "send" /\ SentBy(q) = pc[q] /\ pc[q] \in Nat
      BY <1>0, <1>8, <1>11, <2>1 DEF SentBy
    <3>2. phase'[q] = "run" /\ pc'[q] = pc[q] + 1
      BY <1>13, <2>1
    <3>3. SentBy(q)' = pc'[q] - 1
      BY <3>2 DEF SentBy
    <3>4. QED
      BY <1>8, <3>1, <3>2, <3>3
  <2>2. CASE ~m.sync
    BY <1>8, <1>13, <2>2 DEF SentBy
  <2>3. QED
    BY <2>1, <2>2
<1>19. ASSUME NEW x \in 1 .. job.np - 1
       PROVE  Holding(x, chan'[x][MASTER], h[x], SentBy(x)', RoundTag(job), phase'[x] = "send")
  <2>1. CASE x = q
    <3>1. PICK d : d = RemoveAt(c, 1) /\ d = chan'[x][MASTER]
      BY <1>12, <2>1
    <3>2. PICK w \in BOOLEAN : (w <=> phase'[x] = "send") /\ w = IF m.sync THEN FALSE ELSE waits
      BY <1>8, <1>10, <1>13, <2>1
    <3>3. Holding(q, d, a + 1, b, tag, w)
      <4>1. CASE m.sync
        BY <1>11, <3>1, <3>2, <4>1 DEF Remaining
      <4>2. CASE ~m.sync
        BY <1>11, <3>1, <3>2, <4>2 DEF Remaining
      <4>3. QED
        BY <4>1, <4>2
    <3>4. Holding(q, d, a + 1, b, tag, phase'[x] = "send")
      BY <3>2, <3>3 DEF Holding
    <3>5. QED
      BY <1>8, <1>17, <1>18, <2>1, <3>1, <3>4
  <2>2. CASE x # q
    <3>1. x \in Ranks \ {MASTER, q} /\ MASTER \in Ranks
      BY <1>6, <2>2
    <3>2. chan'[x][MASTER] = chan[x][MASTER] /\ phase'[x] = phase[x] /\ pc'[x] = pc[x]
      BY <1>12, <1>13, <2>2, <3>1
    <3>3. SentBy(x)' = SentBy(x) /\ h[x] = g[x]
      BY <1>17, <2>2, <3>2 DEF SentBy
    <3>4. Holding(x, chan[x][MASTER], g[x], SentBy(x), RoundTag(job), phase[x] = "send")
      BY DEF Collecting
    <3>5. QED
      BY <3>2, <3>3, <3>4
  <2>3. QED
    BY <2>1, <2>2
<1>20. Noted(job.np, mem'[MASTER].out, pc'[MASTER], h)
  <2>0. PICK o, at, d : o = mem[MASTER].out /\ at = pc[MASTER] /\ d = mem'[MASTER].out
    OBVIOUS
  <2>1. PICK n \in Nat \ {0} : /\ n = job.np /\ o = mem[MASTER].out /\ at = pc[MASTER]
                               /\ d = mem'[MASTER].out
    BY <1>6, <2>0
  <2>2. Noted(n, o, at, g) /\ g \in [1 .. n - 1 -> Nat] /\ at <= 2 * (n - 1) /\ q \in 1 .. n - 1
    BY <1>5, <1>7, <2>1 DEF Collecting
  <2>3. d = o \o << q, g[q] + 1 >> /\ h = [g EXCEPT ![q] = g[q] + 1]
    BY <1>8, <1>11, <1>14, <1>16, <2>1
  <2>4. Noted(n, d, at + 1, h)
    BY <2>2, <2>3, NotesMore
  <2>5. QED
    BY <1>13, <2>1, <2>4
<1>21. Collecting(h)'
  BY <1>0, <1>17, <1>19, <1>20 DEF Collecting
<1>22. QED
  BY <1>15, <1>21, SMTT(40)

\* Every step keeps the invariant.
LEMMA RoundSteps == RoundInv /\ [Next]_vars => RoundInv'
<1> SUFFICES ASSUME RoundInv, [Next]_vars, RoundJob PROVE RoundInv'
  <2>1. [Next]_vars /\ ~RoundJob => ~RoundJob'
    BY JobFixed DEF RoundJob
  <2>2. QED
    BY <2>1 DEF RoundInv
<1>1. PICK g : RoundTyped /\ Collecting(g)
  BY DEF RoundInv
<1>2. ASSUME NEW p \in Ranks, NEW i \in Current(p) PROVE i.op \in {"send", "recv"} /\ ~InvalidRank(i)
  <2>1. i = Code(p)[pc[p]] /\ pc[p] \in DOMAIN Code(p)
    BY <1>2 DEF Current
  <2>2. MASTER \in Ranks
    BY RoundRanks
  <2>3. CASE p = MASTER
    <3>1. i.op = "recv" /\ i.from = AnySource
      <4>1. pc[p] \in 1 .. 2 * (job.np - 1)
        BY <2>1, <2>3, RoundCode
      <4>2. Code(p)[pc[p]].op = "recv" /\ Code(p)[pc[p]].from = AnySource
        BY <2>3, <4>1, RoundCode
      <4>3. QED
        BY <2>1, <4>2
    <3>2. QED
      BY <3>1 DEF InvalidRank
  <2>4. CASE p # MASTER
    <3>1. i = Send(<< p, pc[p] >>, MASTER, RoundTag(job))
      BY <2>1, <2>4, RoundCode
    <3>2. i.op = "send" /\ i.to = MASTER
      BY <3>1 DEF Send
    <3>3. QED
      BY <2>2, <3>2 DEF InvalidRank
  <2>5. QED
    BY <2>3, <2>4
<1>3. CASE UNCHANGED vars
  <2>1. /\ pc' = pc /\ phase' = phase /\ chan' = chan /\ mem' = mem /\ job' = job
    BY <1>3 DEF vars
  <2>2. Ranks' = Ranks /\ RoundTag(job)' = RoundTag(job) /\ \A p : SentBy(p)' = SentBy(p)
    BY <2>1 DEF Ranks, RoundTag, SentBy
  <2>3. RoundTyped'
    BY <1>1, <2>1, <2>2 DEF RoundTyped
  <2>4. Collecting(g)'
    BY <1>1, <2>1, <2>2 DEF Collecting
  <2>5. QED
    BY <2>3, <2>4 DEF RoundInv
<1>4. ASSUME NEW p \in Ranks, SendMessage(p) PROVE RoundInv'
  BY <1>1, <1>4, RoundSends DEF RoundInv
<1>5. ASSUME NEW p \in Ranks, Receive(p) PROVE RoundInv'
  BY <1>1, <1>5, RoundGets DEF RoundInv
<1>6. ASSUME NEW p \in Ranks, Local(p) \/ AbortJob(p) \/ EnterCollective(p) \/ LeaveCollective(p)
      PROVE  FALSE
  <2>1. ~Local(p)
    BY <1>2 DEF Local
  <2>2. ~AbortJob(p)
    BY <1>2 DEF AbortJob
  <2>3. ~EnterCollective(p)
    BY <1>2 DEF EnterCollective, Collectives
  <2>4. ~LeaveCollective(p)
    BY <1>1 DEF LeaveCollective, RoundTyped
  <2>5. QED
    BY <1>6, <2>1, <2>2, <2>3, <2>4
<1>7. QED
  BY <1>3, <1>4, <1>5, <1>6 DEF Next

\* At the start nothing was sent.
LEMMA RoundStarts == Init => RoundInv
<1> SUFFICES ASSUME Init, RoundJob PROVE RoundTyped /\ \E g : Collecting(g)
  BY DEF RoundInv
<1>1. /\ pc = [p \in Ranks |-> 1] /\ phase = [p \in Ranks |-> "run"]
      /\ mem = [p \in Ranks |-> Blank] /\ chan = [p \in Ranks |-> [q \in Ranks |-> <<>>]]
  BY DEF Init
<1>2. Blank.out = <<>> /\ "out" \in DOMAIN Blank
  BY DEF Blank
<1>3. MASTER \in Ranks /\ Ranks \ {MASTER} = 1 .. job.np - 1 /\ job.np \in Nat \ {0}
  BY RoundRanks
<1>4. RoundTyped
  BY <1>1, <1>2, <1>3 DEF RoundTyped
<1>n. PICK n \in Nat \ {0} : n = job.np
  BY <1>3
<1>5. PICK g : n = job.np /\ g = [p \in 1 .. n - 1 |-> 0]
  BY <1>n
<1>6. ASSUME NEW p \in 1 .. n - 1
      PROVE  Holding(p, chan[p][MASTER], g[p], SentBy(p), RoundTag(job), phase[p] = "send")
  <2>1. p \in Ranks
    BY <1>3, <1>5, <1>6
  <2>2. chan[p][MASTER] = <<>> /\ SentBy(p) = 0 /\ g[p] = 0
    BY <1>1, <1>3, <1>5, <2>1 DEF SentBy
  <2>3. Sequence(<<>>) /\ Len(<<>>) = 0 /\ 0 - 0 = 0 /\ 1 .. 0 = {}
    <3>1. <<>> \in Seq({})
      OBVIOUS
    <3>2. QED
      BY <3>1 DEF Sequence
  <2>4. QED
    BY <2>2, <2>3 DEF Holding
<1>7. Noted(n, <<>>, 1, g)
  <2>1. /\ 1 \in 1 .. 2 * (n - 1) + 1 /\ <<>> \in Seq(Int) /\ Len(<<>>) = 2 * (1 - 1)
        /\ 1 .. 1 - 1 = {}
    OBVIOUS
  <2>2. QED
    BY <2>1 DEF Noted
<1>8. mem[MASTER].out = <<>> /\ pc[MASTER] = 1
  BY <1>1, <1>2, <1>3
<1>9. g \in [1 .. n - 1 -> Nat]
  BY <1>5
<1>10. Collecting(g)
  BY <1>5, <1>6, <1>7, <1>8, <1>9 DEF Collecting
<1>11. QED
  BY <1>4, <1>10

\* When everybody is done the master has output everything.
LEMMA RoundDone == RoundInv /\ RoundJob => Outcome
<1> SUFFICES ASSUME RoundInv, RoundJob, AllDone PROVE Outcome
  BY DEF Outcome
<1>1. PICK g : RoundTyped /\ Collecting(g)
  BY DEF RoundInv
<1>2. PICK n \in Nat \ {0} : n = job.np /\ MASTER \in Ranks /\ Ranks \ {MASTER} = 1 .. n - 1
  BY RoundRanks
<1>3. pc[MASTER] = 2 * (n - 1) + 1
  <2>1. pc[MASTER] > 2 * (n - 1)
    BY <1>2, RoundCode DEF AllDone, Done
  <2>2. pc[MASTER] \in 1 .. 2 * (n - 1) + 1
    BY <1>1, <1>2 DEF Collecting, Noted
  <2>3. QED
    BY <2>1, <2>2
<1>4. ASSUME NEW p \in 1 .. n - 1
      PROVE  /\ g[p] \in 0 .. 2 /\ (g[p] = 2 => Len(chan[p][MASTER]) = 0)
             /\ Sequence(chan[p][MASTER])
  <2>1. p \in Ranks /\ p # MASTER
    BY <1>2
  <2>2. phase[p] = "run" /\ pc[p] > 2
    BY <2>1, RoundCode DEF AllDone, Done
  <2>3. pc[p] = 3
    BY <1>1, <2>1, <2>2 DEF RoundTyped
  <2>4. SentBy(p) = 2
    BY <2>2, <2>3 DEF SentBy
  <2>5. Holding(p, chan[p][MASTER], g[p], SentBy(p), RoundTag(job), phase[p] = "send")
    BY <1>1, <1>2 DEF Collecting
  <2>6. Sequence(chan[p][MASTER]) /\ g[p] \in Nat /\ Len(chan[p][MASTER]) = 2 - g[p]
    BY <2>4, <2>5 DEF Holding
  <2>7. Len(chan[p][MASTER]) \in Nat
    BY <2>6 DEF Sequence
  <2>8. QED
    BY <2>6, <2>7
<1>5. PICK o : o = mem[MASTER].out
  OBVIOUS
<1>6. g \in [1 .. n - 1 -> 0 .. 2] /\ Noted(n, o, 2 * (n - 1) + 1, g)
  <2>1. g \in [1 .. n - 1 -> Nat] /\ Noted(n, o, 2 * (n - 1) + 1, g)
    BY <1>1, <1>2, <1>3, <1>5 DEF Collecting
  <2>2. QED
    BY <1>4, <2>1
<1>7. AllNoted(n, o)
  BY <1>6, NotesAll
<1>8. RoundsGoal
  <2>1. \A p \in 1 .. n - 1 : \E i, j \in 1 .. 2 * (n - 1) :
            /\ i < j
            /\ o[2 * i - 1] = p /\ o[2 * i] = 1
            /\ o[2 * j - 1] = p /\ o[2 * j] = 2
    BY <1>7 DEF AllNoted
  <2>2. Len(o) = 4 * (n - 1)
    BY <1>7 DEF AllNoted
  <2>3. PICK W : W = Ranks \ {MASTER} /\ W = 1 .. n - 1
    BY <1>2
  <2>4. \A p \in W : \E i, j \in 1 .. 2 * (n - 1) :
            /\ i < j
            /\ o[2 * i - 1] = p /\ o[2 * i] = 1
            /\ o[2 * j - 1] = p /\ o[2 * j] = 2
    BY <2>1, <2>3
  <2>5. ASSUME NEW p \in W
        PROVE  \E i, j \in 1 .. 2 * (job.np - 1) :
                  /\ i < j
                  /\ mem[MASTER].out[2 * i - 1] = p /\ mem[MASTER].out[2 * i] = 1
                  /\ mem[MASTER].out[2 * j - 1] = p /\ mem[MASTER].out[2 * j] = 2
    <3>1. PICK i \in 1 .. 2 * (n - 1) : \E j \in 1 .. 2 * (n - 1) :
            /\ i < j
            /\ o[2 * i - 1] = p /\ o[2 * i] = 1
            /\ o[2 * j - 1] = p /\ o[2 * j] = 2
      BY <2>4
    <3>2. PICK j \in 1 .. 2 * (n - 1) :
            /\ i < j
            /\ o[2 * i - 1] = p /\ o[2 * i] = 1
            /\ o[2 * j - 1] = p /\ o[2 * j] = 2
      BY <3>1
    <3>3. i \in 1 .. 2 * (job.np - 1) /\ j \in 1 .. 2 * (job.np - 1)
      BY <1>2
    <3>4. QED
      BY <1>5, <3>2, <3>3
  <2>6. Len(mem[MASTER].out) = 4 * (job.np - 1)
    BY <1>2, <1>5, <2>2
  <2>7. \A p \in Ranks \ {MASTER} : \E i, j \in 1 .. 2 * (job.np - 1) :
                  /\ i < j
                  /\ mem[MASTER].out[2 * i - 1] = p /\ mem[MASTER].out[2 * i] = 1
                  /\ mem[MASTER].out[2 * j - 1] = p /\ mem[MASTER].out[2 * j] = 2
    BY <2>3, <2>5, Zenon
  <2>8. QED
    BY <2>6, <2>7, Zenon DEF RoundsGoal
<1>9. ASSUME NEW p \in 1 .. n - 1 PROVE chan[p][MASTER] = <<>>
  <2>1. PICK j \in 1 .. 2 * (n - 1) : o[2 * j - 1] = p /\ o[2 * j] = 2
    BY <1>7 DEF AllNoted
  <2>2. \A i \in 1 .. (2 * (n - 1) + 1) - 1 : o[2 * i] \in 1 .. g[o[2 * i - 1]]
    BY <1>6 DEF Noted
  <2>3. (2 * (n - 1) + 1) - 1 = 2 * (n - 1)
    OBVIOUS
  <2>4. 2 \in 1 .. g[p]
    BY <2>1, <2>2, <2>3
  <2>5. g[p] = 2
    BY <1>4, <2>4
  <2>6. QED
    BY <1>4, <2>5 DEF Sequence
<1>10. \A p, q \in Ranks : chan[p][q] = <<>>
  <2>1. ASSUME NEW p \in Ranks, NEW q \in Ranks PROVE chan[p][q] = <<>>
    <3>1. CASE q # MASTER \/ p = MASTER
      BY <1>1, <3>1 DEF RoundTyped
    <3>2. CASE q = MASTER /\ p # MASTER
      BY <1>2, <1>9, <3>2
    <3>3. QED
      BY <3>1, <3>2
  <2>2. QED
    BY <2>1
<1>11. QED
  BY <1>8, <1>10 DEF Outcome, RoundJob, RoundProgs, Is
-----------------------------------------------------------------------------
(* Programs whose processes have nothing to do with each other.            *)

SoloProgs == {"spmd", "masterWorker", "timing"}
SoloJob == job \in Jobs /\ job.prog \in SoloProgs

\* Nobody sends anything.
SoloInv ==
  SoloJob => /\ phase = [p \in Ranks |-> "run"]
             /\ chan = [p \in Ranks |-> [q \in Ranks |-> <<>>]]

\* A process only computes.
LEMMA SoloCode ==
    ASSUME SoloJob, NEW p, NEW i \in Current(p)
    PROVE  i.op = "compute"
<1>1. job.lang \in {"C", "Java", "Array", "Python"} /\ job.prog \in Programs[job.lang]
  BY JobsAssumption DEF SoloJob
<1>2. PICK v, x : Code(p) = << Compute(v, x) >>
  <2>1. CASE job.prog = "spmd"
    <3>1. Code(p) = spmd(p, job.np)
      BY <1>1, <2>1 DEF Code, CCode, JavaCode, PyCode, JavaSpmd, PySpmd, Programs
    <3>2. QED
      BY <3>1 DEF spmd
  <2>2. CASE job.prog = "masterWorker"
    <3>1. Code(p) = masterWorker(p, job.np)
      BY <1>1, <2>2 DEF Code, CCode, JavaCode, PyCode, JavaMasterWorker, PyMasterWorker, Programs
    <3>2. QED
      BY <3>1 DEF masterWorker
  <2>3. CASE job.prog = "timing"
    <3>1. job.lang \in {"C", "Java"}
      BY <1>1, <2>3 DEF Programs
    <3>2. CASE job.lang = "C"
      <4>1. Code(p) = barrierTiming(p, job.np)
        BY <2>3, <3>2 DEF Code, CCode
      <4>2. QED
        BY <4>1 DEF barrierTiming
    <3>3. CASE job.lang = "Java"
      <4>1. Code(p) = JavaBarrierPlusTiming(p, job.np)
        BY <2>3, <3>3 DEF Code, JavaCode
      <4>2. QED
        BY <4>1 DEF JavaBarrierPlusTiming
    <3>4. QED
      BY <3>1, <3>2, <3>3
  <2>4. QED
    BY <2>1, <2>2, <2>3 DEF SoloJob, SoloProgs
<1>3. i = Code(p)[pc[p]] /\ pc[p] \in DOMAIN Code(p)
  BY DEF Current
<1>4. i = Compute(v, x)
  BY <1>2, <1>3
<1>5. QED
  BY <1>4 DEF Compute

\* Every step keeps the invariant.
LEMMA SoloSteps == SoloInv /\ [Next]_vars => SoloInv'
<1> SUFFICES ASSUME SoloInv, [Next]_vars, SoloJob PROVE SoloInv'
  <2>1. [Next]_vars /\ ~SoloJob => ~SoloJob'
    BY JobFixed DEF SoloJob
  <2>2. QED
    BY <2>1 DEF SoloInv
<1>1. Ranks' = Ranks
  BY JobFixed DEF Ranks
<1>2. phase' = phase /\ chan' = chan
  <2>1. CASE UNCHANGED vars
    BY <2>1 DEF vars
  <2>2. ASSUME NEW p \in Ranks, Local(p) PROVE phase' = phase /\ chan' = chan
    BY <2>2 DEF Local
  <2>3. ASSUME NEW p \in Ranks, AbortJob(p) PROVE phase' = phase /\ chan' = chan
    BY <2>3 DEF AbortJob
  <2>4. ASSUME NEW p \in Ranks, SendMessage(p) \/ Receive(p) \/ EnterCollective(p) \/ LeaveCollective(p)
        PROVE  FALSE
    <3>1. \A i \in Current(p) : i.op = "compute"
      BY SoloCode
    <3>2. ~SendMessage(p)
      BY <3>1 DEF SendMessage
    <3>3. ~Receive(p)
      BY <3>1 DEF Receive
    <3>4. ~EnterCollective(p)
      BY <3>1 DEF EnterCollective, Collectives
    <3>5. ~LeaveCollective(p)
      BY DEF LeaveCollective, SoloInv
    <3>6. QED
      BY <2>4, <3>2, <3>3, <3>4, <3>5
  <2>5. QED
    BY <2>1, <2>2, <2>3, <2>4 DEF Next
<1>3. QED
  BY <1>1, <1>2 DEF SoloInv

\* No program is left out.
LEMMA EveryProgram ==
    ASSUME job \in Jobs
    PROVE  \/ Is({"taskQueue"}) \/ Is(LoopProgs) \/ Is(OnceProgs)
           \/ Is({"broadcast", "broadcastInput", "broadcastSend", "broadcast2"})
           \/ KeyJob(job) \/ RoundJob \/ SoloJob
<1>1. job.lang \in {"C", "Java", "Array", "Python"} /\ job.prog \in Programs[job.lang]
  BY JobsAssumption
<1>2. job.prog \in {"deadlock", "exchange", "exchange2", "ring", "broadcast", "broadcast2",
                    "spmd", "masterWorker", "equalChunks", "slices", "broadcastInput",
                    "broadcastSend", "reduction", "reduction2", "scatter", "gather", "taskQueue",
                    "chunks", "barrier", "sequence", "timing", "reduceTiming",
                    "broadcastLoop", "scatterLoop", "scatterV", "chunks2", "ringAlt", "scatterGather"}
  <2>1. CASE job.lang = "C"
    BY <1>1, <2>1 DEF Programs
  <2>2. CASE job.lang = "Java"
    BY <1>1, <2>2 DEF Programs
  <2>3. CASE job.lang = "Array"
    BY <1>1, <2>3 DEF Programs
  <2>4. CASE job.lang = "Python"
    BY <1>1, <2>4 DEF Programs
  <2>5. QED
    BY <1>1, <2>1, <2>2, <2>3, <2>4
<1>3. QED
  BY <1>2 DEF Is, LoopProgs, OnceProgs, Rings, KeyJob, KeyProgs, RoundJob, RoundProgs, SoloJob, SoloProgs

\* The outcome of the programs whose processes do not interact is that no message is left.
LEMMA SoloDone == SoloInv /\ SoloJob => Outcome
  BY DEF SoloInv, SoloJob, SoloProgs, Outcome, Is

\* Reductions, scatters and gathers, and the arrays doubled in pieces, leave what
\* their closed forms say, in every language and with any number of processes,
\* whether or not a collective synchronises (MPI/12 to 16, 20 and 22 to 24).
THEOREM CollectiveOutcome == Spec => [](Is(KeyProgs) => Outcome)
<1>1. Init => KeyInv /\ StageInv /\ job \in Jobs
  BY KeyStarts, StageStarts DEF Init
<1>2. KeyInv /\ StageInv /\ job \in Jobs /\ [Next]_vars => (KeyInv /\ StageInv /\ job \in Jobs)'
  BY KeySteps, StageSteps, JobFixed
<1>3. KeyInv /\ StageInv /\ job \in Jobs => (Is(KeyProgs) => Outcome)
  <2> SUFFICES ASSUME KeyInv, job \in Jobs, Is(KeyProgs), AllDone PROVE Outcome
    BY DEF Outcome
  <2>1. KeyJob(job)
    BY DEF KeyJob, Is
  <2>2. QED
    BY <2>1, KeyGoals
<1>4. QED
  BY <1>1, <1>2, <1>3, PTL DEF Spec

\* Two rounds of messages from every worker leave both messages of each with the
\* master, in the order they were sent, however they arrive (MPI/17 and 18).
THEOREM RoundsOutcome == Spec => [](RoundJob => Outcome)
<1>1. RoundInv => (RoundJob => Outcome)
  BY RoundDone
<1>2. QED
  BY <1>1, RoundStarts, RoundSteps, PTL DEF Spec

\* When the processes of a job are done, the job has computed what its program is
\* for and no message is left behind: every program, in every language, with any
\* number of processes, however its messages are buffered and overtake each other
\* on their way from different processes, and whether or not its collectives
\* synchronise.
THEOREM OutcomeHolds == Spec => []Outcome
<1>1. Spec => []SoloInv
  <2>1. Init => SoloInv
    BY DEF Init, SoloInv
  <2>2. QED
    BY <2>1, SoloSteps, PTL DEF Spec
<1>2. SoloInv => (SoloJob => Outcome)
  BY SoloDone
<1>3. Spec => [](job \in Jobs)
  <2>1. Init => job \in Jobs
    BY DEF Init
  <2>2. job \in Jobs /\ [Next]_vars => (job \in Jobs)'
    BY JobFixed
  <2>3. QED
    BY <2>1, <2>2, PTL DEF Spec
<1>4. /\ job \in Jobs
      /\ Is({"taskQueue"}) => Outcome
      /\ Is(LoopProgs) => Outcome
      /\ Is(OnceProgs) => Outcome
      /\ Is({"broadcast", "broadcastInput", "broadcastSend", "broadcast2"}) => Outcome
      /\ Is(KeyProgs) => Outcome
      /\ RoundJob => Outcome
      /\ SoloJob => Outcome
      => Outcome
  <2> SUFFICES ASSUME job \in Jobs,
                      Is({"taskQueue"}) => Outcome,
                      Is(LoopProgs) => Outcome,
                      Is(OnceProgs) => Outcome,
                      Is({"broadcast", "broadcastInput", "broadcastSend", "broadcast2"}) => Outcome,
                      Is(KeyProgs) => Outcome,
                      RoundJob => Outcome,
                      SoloJob => Outcome
               PROVE  Outcome
    OBVIOUS
  <2>1. KeyJob(job) => Is(KeyProgs)
    BY DEF KeyJob, Is
  <2>2. QED
    BY <2>1, EveryProgram
<1>5. QED
  BY <1>1, <1>2, <1>3, <1>4, TaskQueueOutcome, LoopOutcome, ExchangeOutcome, BroadcastOutcome,
     CollectiveOutcome, RoundsOutcome, PTL
-----------------------------------------------------------------------------
(* The types of the programs that are not made of key instructions alone,  *)
(* whose instructions are enough to know them.                             *)

OpenJob(j) == j \in Jobs /\ j.prog \notin KeyProgs

\* What is sent or received: as much as an array holds, but for the ring's message,
\* which grows.  Python's lists have no bound.
Values(j) == { s \in Seq(Int) : j.prog \in Rings \/ Len(s) <= ARRAY_SIZE }
Fitting(j) == { s \in Seq(Int) : j.lang = "Python" \/ Len(s) <= ARRAY_SIZE }
Mail(j) == [tag : {0, 1, 2}, val : Values(j), sync : BOOLEAN]

\* A memory that keeps to these bounds.
Fields == {"buf", "part", "all", "out", "src", "tag"}
Sound(j, m) ==
  /\ m = [f \in Fields |-> m[f]]
  /\ m.buf \in Fitting(j) /\ m.part \in Values(j)
  /\ m.src \in 0 .. j.np - 1 \/ m.src = AnySource
  /\ m.tag \in {AnyTag, 0, 1, 2}

\* The instructions that keep to them.
Takers(j) == {"part", "out"} \cup (IF j.prog = "broadcastSend" THEN {"buf"} ELSE {})
Joint(j) == {Barrier} \cup { Bcast("buf", v) : v \in Fitting(j) }
Printing == {Line(0), Line(1), SeparatorLine(1), Abort}
Computing(j, p) ==
  { Compute("out", v) : v \in Seq(Int) \cup {Ascending(Share(j, p))} }
  \cup { Compute("buf", v) : v \in Fitting(j) }
Mailing(j) == { Send(v, t, g) : v \in Values(j), t \in Int, g \in {0, 1, 2} }
Taking(j) == { Recv(x, f, t) : x \in Takers(j), f \in Int, t \in Int }
Jumping(j) == IF j.prog = "taskQueue" THEN {Goto(1)} ELSE {}
Legal(j, p) ==
  Joint(j) \cup Printing \cup Computing(j, p) \cup Mailing(j) \cup Taking(j) \cup Jumping(j)

\* What they are.
LEMMA LegalAre ==
    ASSUME NEW j, NEW p
    PROVE  /\ Barrier \in Legal(j, p) /\ Line(0) \in Legal(j, p) /\ Line(1) \in Legal(j, p)
           /\ SeparatorLine(1) \in Legal(j, p) /\ Abort \in Legal(j, p)
           /\ \A v \in Fitting(j) : Bcast("buf", v) \in Legal(j, p) /\ Compute("buf", v) \in Legal(j, p)
           /\ \A v \in Seq(Int) : Compute("out", v) \in Legal(j, p)
           /\ Compute("out", Ascending(Share(j, p))) \in Legal(j, p)
           /\ \A v \in Values(j) : \A t \in Int : \A g \in {0, 1, 2} : Send(v, t, g) \in Legal(j, p)
           /\ \A x \in Takers(j) : \A f, t \in Int : Recv(x, f, t) \in Legal(j, p)
           /\ j.prog = "taskQueue" => Goto(1) \in Legal(j, p)
<1>1. Barrier \in Joint(j) /\ \A v \in Fitting(j) : Bcast("buf", v) \in Joint(j)
  BY Zenon DEF Joint
<1>2. \A x \in {Line(0), Line(1), SeparatorLine(1), Abort} : x \in Printing
  BY DEF Printing
<1>3. /\ \A v \in Seq(Int) : Compute("out", v) \in Computing(j, p)
      /\ Compute("out", Ascending(Share(j, p))) \in Computing(j, p)
      /\ \A v \in Fitting(j) : Compute("buf", v) \in Computing(j, p)
  BY Zenon DEF Computing
<1>4. \A v \in Values(j) : \A t \in Int : \A g \in {0, 1, 2} : Send(v, t, g) \in Mailing(j)
  BY DEF Mailing
<1>5. \A x \in Takers(j) : \A f, t \in Int : Recv(x, f, t) \in Taking(j)
  BY DEF Taking
<1>6. j.prog = "taskQueue" => Goto(1) \in Jumping(j)
  BY DEF Jumping
<1>7. QED
  BY <1>1, <1>2, <1>3, <1>4, <1>5, <1>6, Zenon DEF Legal

\* Sorted by what they do.
LEMMA LegalKinds ==
    ASSUME NEW j, NEW p, NEW i \in Legal(j, p)
    PROVE  /\ i.op = "compute" => \/ i.var = "out"
                                  \/ i.var = "buf" /\ i.val \in Fitting(j)
           /\ i.op = "goto" => j.prog = "taskQueue" /\ i.to = 1
           /\ i.op = "send" => i.val \in Values(j) /\ i.tag \in {0, 1, 2} /\ i.to \in Int
           /\ i.op = "recv" => i.var \in Takers(j)
           /\ i.op \in Collectives => i \in Joint(j)
<1>1. \A x \in Joint(j) : x.op \in {"barrier", "bcast"}
  BY DEF Joint, Barrier, Bcast
<1>2. \A x \in Printing : x.op \in {"print", "abort"}
  BY DEF Printing, Line, SeparatorLine, Abort
<1>3. \A x \in Computing(j, p) : /\ x.op = "compute"
                                 /\ x.var = "out" \/ (x.var = "buf" /\ x.val \in Fitting(j))
  BY DEF Computing, Compute
<1>4. \A x \in Mailing(j) : /\ x.op = "send" /\ x.val \in Values(j) /\ x.tag \in {0, 1, 2}
                            /\ x.to \in Int
  BY DEF Mailing, Send
<1>5. \A x \in Taking(j) : x.op = "recv" /\ x.var \in Takers(j)
  BY DEF Taking, Recv
<1>6. \A x \in Jumping(j) : x.op = "goto" /\ j.prog = "taskQueue" /\ x.to = 1
  BY DEF Jumping, Goto
<1>7. CASE i \in Joint(j)
  BY <1>1, <1>7
<1>8. CASE i \in Printing \cup Computing(j, p)
  BY <1>2, <1>3, <1>8 DEF Collectives
<1>9. CASE i \in Mailing(j) \cup Taking(j) \cup Jumping(j)
  BY <1>4, <1>5, <1>6, <1>9 DEF Collectives
<1>10. QED
  BY <1>7, <1>8, <1>9 DEF Legal

\* The values that are sent and computed.
LEMMA LegalValues ==
    ASSUME NEW j \in Jobs, NEW p \in 0 .. j.np - 1
    PROVE  /\ \A a \in Int : << a >> \in Values(j) /\ << a >> \in Fitting(j)
           /\ \A a, b \in Int : << a, b >> \in Values(j)
           /\ << 1, 2, 3 >> \in Values(j) /\ << 1, 2, 3 >> \in Fitting(j)
           /\ Fill(ARRAY_SIZE) \in Values(j) /\ Fill(ARRAY_SIZE) \in Fitting(j)
           /\ Zeros(ARRAY_SIZE) \in Fitting(j)
           /\ [k \in 1 .. 8 |-> p + (k - 1)] \in Values(j)
           /\ <<>> \in Values(j) /\ <<>> \in Fitting(j)
<1>1. j.np \in Nat \ {0} /\ p \in Int
  BY JobsAssumption
<1>2. \A s \in Seq(Int) : Len(s) <= 8 => s \in Values(j) /\ s \in Fitting(j)
  BY DEF Values, Fitting, ARRAY_SIZE
<1>3. ARRAY_SIZE = 8
  BY DEF ARRAY_SIZE
<1>4. /\ Fill(8) \in Seq(Int) /\ Len(Fill(8)) <= 8
      /\ Zeros(8) \in Seq(Int) /\ Len(Zeros(8)) <= 8
  BY DEF Fill, Zeros
<1>5. [k \in 1 .. 8 |-> p + (k - 1)] \in Seq(Int) /\ Len([k \in 1 .. 8 |-> p + (k - 1)]) <= 8
  BY <1>1
<1>6. \A a \in Int : << a >> \in Seq(Int) /\ Len(<< a >>) <= 8
  OBVIOUS
<1>7. \A a, b \in Int : << a, b >> \in Seq(Int) /\ Len(<< a, b >>) <= 8
  OBVIOUS
<1>8. /\ << 1, 2, 3 >> \in Seq(Int) /\ Len(<< 1, 2, 3 >>) <= 8
      /\ <<>> \in Seq(Int) /\ Len(<<>>) <= 8
  OBVIOUS
<1>9. QED
  BY <1>2, <1>3, <1>4, <1>5, <1>6, <1>7, <1>8, Zenon

\* A program put together from legal parts.
LEMMA LegalTexts ==
    ASSUME NEW U
    PROVE  /\ <<>> \in Seq(U)
           /\ \A a \in U : << a >> \in Seq(U)
           /\ \A a, b \in U : << a, b >> \in Seq(U)
           /\ \A x, y \in Seq(U) : x \o y \in Seq(U)
           /\ \A x, y, z \in Seq(U) : x \o y \o z \in Seq(U)
<1>1. \A x, y \in Seq(U) : x \o y \in Seq(U)
  OBVIOUS
<1>2. \A x, y, z \in Seq(U) : x \o y \o z \in Seq(U)
  BY <1>1, Zenon
<1>3. QED
  BY <1>1, <1>2

\* The language of a job that has one of these programs.
LEMMA Languages ==
    ASSUME NEW j \in Jobs
    PROVE  /\ j.lang \in {"C", "Java", "Array", "Python"} /\ j.prog \in Programs[j.lang]
           /\ j.np \in Nat \ {0} /\ (j.np <= 1 <=> ~(j.np > 1))
           /\ j.prog \in LoopProgs \cup SoloProgs \cup RoundProgs \cup {"taskQueue", "broadcastInput"}
                => j.lang # "Array"
           /\ j.prog \in {"chunks", "timing"} \cup RoundProgs => j.lang # "Python"
           /\ j.prog = "chunks2" => j.lang = "C"
           /\ j.prog = "ringAlt" => j.lang = "Array"
<1>1. /\ j.lang \in {"C", "Java", "Array", "Python"} /\ j.prog \in Programs[j.lang]
      /\ j.np \in Nat \ {0}
  BY JobsAssumption
<1>2. (j.np <= 1 <=> ~(j.np > 1))
  BY <1>1
<1>3. CASE j.lang = "C"
  BY <1>1, <1>2, <1>3 DEF Programs
<1>4. CASE j.lang = "Java"
  BY <1>1, <1>2, <1>4 DEF Programs
<1>5. CASE j.lang = "Array"
  BY <1>1, <1>2, <1>5 DEF Programs, LoopProgs, SoloProgs, RoundProgs
<1>6. CASE j.lang = "Python"
  BY <1>1, <1>2, <1>6 DEF Programs, RoundProgs
<1>7. QED
  BY <1>1, <1>3, <1>4, <1>5, <1>6

\* The loops, and the programs whose processes do not interact.
LEMMA LegalAlone ==
    ASSUME NEW j \in Jobs, j.prog \in LoopProgs \cup SoloProgs, NEW p \in 0 .. j.np - 1, NEW m
    PROVE  Text(j, p, m) \in Seq(Legal(j, p))
<1> DEFINE n == j.np
           U == Legal(j, p)
<1>1. /\ j.lang \in {"C", "Java", "Python"} /\ n \in Nat \ {0}
      /\ j.prog \in {"chunks", "timing"} => j.lang # "Python"
      /\ j.prog = "chunks2" => j.lang = "C"
  BY Languages
<1>2. p \in Int /\ MASTER \in Int /\ n \in Int
  BY <1>1 DEF MASTER
<1>3. /\ \A v \in Seq(Int) : Compute("out", v) \in U
      /\ Compute("out", Ascending(Share(j, p))) \in U
      /\ \A v \in Fitting(j) : Compute("buf", v) \in U
  BY LegalAre
<1> HIDE DEF U
<1>4. CASE j.prog \in LoopProgs
  <2>1. Text(j, p, m) = <<>> \/ Text(j, p, m) = << Compute("out", Ascending(Share(j, p))) >>
    <3>1. CASE j.prog = "equalChunks"
      BY <1>1, <3>1 DEF Text, CCode, JavaCode, PyCode, JavaParallelLoopEqualChunks,
                        PyParallelLoopEqualChunks, parallelLoopEqualChunks, Iterations, Share
    <3>2. CASE j.prog = "slices"
      BY <1>1, <3>2, SMTT(40) DEF Text, CCode, JavaCode, PyCode, JavaParallelLoopChunksOf1,
                        PyParallelLoopChunksOf1, parallelLoopSlices, Iterations, Share
    <3>3. CASE j.prog \in {"chunks", "chunks2"}
      BY <1>1, <3>3 DEF Text, CCode, JavaCode, JavaParallelLoopAdvanced, parallelLoopChunks,
                        parallelLoopChunks2, Iterations, Share
    <3>4. QED
      BY <1>4, <3>1, <3>2, <3>3 DEF LoopProgs
  <2>2. QED
    BY <1>3, <2>1, LegalTexts, Zenon DEF U
<1>5. CASE j.prog \in {"spmd", "masterWorker"}
  <2>1. \/ Text(j, p, m) = << Compute("out", << p, n >>) >>
        \/ Text(j, p, m) = << Compute("out", << MASTER, p, n >>) >>
        \/ Text(j, p, m) = << Compute("out", << 1, p, n >>) >>
    BY <1>1, <1>5 DEF Text, CCode, JavaCode, PyCode, JavaSpmd, PySpmd, JavaMasterWorker,
                      PyMasterWorker, spmd, masterWorker
  <2>2. /\ << p, n >> \in Seq(Int) /\ << MASTER, p, n >> \in Seq(Int)
        /\ << 1, p, n >> \in Seq(Int)
    BY <1>2
  <2>3. QED
    BY <1>3, <2>1, <2>2, LegalTexts, ZenonT(60) DEF U
<1>6. CASE j.prog = "timing"
  <2>1. PICK a, b : a = (p + 1) \div n /\ b = ((p + 1) * 1000) \div n
    OBVIOUS
  <2>2. a \in Int /\ b \in Int
    BY <1>1, <1>2, <2>1
  <2>3. \/ Text(j, p, m) = << Compute("buf", << a >>) >>
        \/ Text(j, p, m) = << Compute("buf", << b >>) >>
    BY <1>1, <1>6, <2>1 DEF Text, CCode, JavaCode, barrierTiming, JavaBarrierPlusTiming
  <2>4. << a >> \in Fitting(j) /\ << b >> \in Fitting(j)
    BY <2>2, LegalValues
  <2>5. Compute("buf", << a >>) \in U /\ Compute("buf", << b >>) \in U
    BY <1>3, <2>4
  <2>6. QED
    BY <2>3, <2>5, LegalTexts, Zenon DEF U
<1>7. QED
  BY <1>4, <1>5, <1>6 DEF SoloProgs

\* Neighbours, and the ring.
LEMMA LegalOnce ==
    ASSUME NEW j \in Jobs, j.prog \in OnceProgs, NEW p \in 0 .. j.np - 1, NEW m, Sound(j, m)
    PROVE  Text(j, p, m) \in Seq(Legal(j, p))
<1> DEFINE n == j.np
           U == Legal(j, p)
<1>1. /\ j.lang \in {"C", "Java", "Array", "Python"} /\ n \in Nat \ {0}
      /\ j.prog = "ringAlt" => j.lang = "Array"
  BY Languages
<1>2. /\ p \in Int /\ p - 1 \in Int /\ p + 1 \in Int /\ (p + 1) % n \in Int /\ n - 1 \in Int
      /\ AnySource \in Int /\ AnyTag \in Int
  BY <1>1 DEF AnySource, AnyTag
<1>3. /\ \A v \in Values(j) : \A t \in Int : \A g \in {0, 1, 2} : Send(v, t, g) \in U
      /\ \A f, t \in Int : Recv("part", f, t) \in U
  BY LegalAre DEF Takers
<1>4. /\ << p >> \in Values(j) /\ [k \in 1 .. 8 |-> p + (k - 1)] \in Values(j)
  BY <1>2, LegalValues
<1> HIDE DEF U
<1>5. ASSUME NEW v \in Values(j), NEW t \in Int, NEW f \in Int, NEW g \in {0, 1, 2}, NEW h \in Int
      PROVE  /\ << Send(v, t, g), Recv("part", f, h) >> \in Seq(U)
             /\ << Recv("part", f, h), Send(v, t, g) >> \in Seq(U)
  <2>1. Send(v, t, g) \in U /\ Recv("part", f, h) \in U
    BY <1>3
  <2>2. QED
    BY <2>1
<1>6. ASSUME NEW v \in Values(j), NEW q \in Int, NEW g \in {0, 1, 2}, NEW h \in Int
      PROVE  SendThenRecv(v, q, g, h) \in Seq(U) /\ RecvThenSend(v, q, g, h) \in Seq(U)
  BY <1>5 DEF SendThenRecv, RecvThenSend
<1>7. CASE j.prog \notin Rings
  <2> DEFINE Both(v, q, g, h) == {SendThenRecv(v, q, g, h), RecvThenSend(v, q, g, h)}
  <2>1. \/ Text(j, p, m) = <<>>
        \/ \E v \in {<< p >>, [k \in 1 .. 8 |-> p + (k - 1)]}, q \in {p - 1, p + 1},
              g \in {0, 1, 2}, h \in {0, 1, 2, AnyTag} : Text(j, p, m) \in Both(v, q, g, h)
    <3>1. j.prog \in {"deadlock", "exchange", "exchange2"}
      BY <1>7 DEF OnceProgs
    <3>2. CASE j.lang = "C"
      BY <3>1, <3>2, ZenonT(60) DEF Text, CCode, messagePassingDeadlock, messagePassing, messagePassing2
    <3>3. CASE j.lang \in {"Java", "Array"}
      BY <3>1, <3>3, ZenonT(60) DEF Text, JavaCode, ArrayCode, ArrayMessagePassingDeadlock,
                        ArrayMessagePassing, ArrayMessagePassing2, JavaMessagePassingDeadlock,
                        JavaMessagePassing, JavaMessagePassing2
    <3>4. CASE j.lang = "Python"
      BY <3>1, <3>4, ZenonT(60) DEF Text, PyCode, PyMessagePassingDeadlock, PyMessagePassing,
                        PyMessagePassing2
    <3>5. QED
      BY <1>1, <3>2, <3>3, <3>4
  <2>2. CASE Text(j, p, m) = <<>>
    BY <2>2, LegalTexts, Zenon
  <2>3. ASSUME NEW v \in {<< p >>, [k \in 1 .. 8 |-> p + (k - 1)]}, NEW q \in {p - 1, p + 1},
               NEW g \in {0, 1, 2}, NEW h \in {0, 1, 2, AnyTag}, Text(j, p, m) \in Both(v, q, g, h)
        PROVE  Text(j, p, m) \in Seq(U)
    <3>1. v \in Values(j) /\ q \in Int /\ h \in Int
      BY <1>2, <1>4
    <3>2. SendThenRecv(v, q, g, h) \in Seq(U) /\ RecvThenSend(v, q, g, h) \in Seq(U)
      BY <1>6, <3>1
    <3>3. QED
      BY <2>3, <3>2
  <2>4. QED
    BY <2>1, <2>2, <2>3 DEF U
<1>8. CASE j.prog \in Rings
  <2> DEFINE got == [k \in 1 .. p |-> IF k <= Len(m.part) THEN m.part[k] ELSE 0]
  <2>1. m.part \in Seq(Int)
    BY DEF Sound, Values
  <2>2. got \in Seq(Int)
    BY <1>2, <2>1
  <2>3. Append(m.part, p) \in Values(j) /\ Append(got, p) \in Values(j)
    <3>1. Append(m.part, p) \in Seq(Int) /\ Append(got, p) \in Seq(Int)
      BY <1>2, <2>1, <2>2, SMTT(30)
    <3>2. QED
      BY <1>8, <3>1 DEF Values
  <2> HIDE DEF got
  <2>4. \/ Text(j, p, m) = <<>>
        \/ \E t \in {p + 1, (p + 1) % n}, v \in {<< p >>, Append(m.part, p), Append(got, p)},
              f \in {n - 1, p - 1, AnySource}, g \in {0, 1}, h \in {0, 1, AnyTag} :
             \/ Text(j, p, m) = << Send(v, t, g), Recv("part", f, h) >>
             \/ Text(j, p, m) = << Recv("part", f, h), Send(v, t, g) >>
    <3>1. CASE j.lang = "C"
      BY <1>1, <1>8, <3>1, ZenonT(60) DEF Text, CCode, messagePassing3, Rings
    <3>2. CASE j.lang = "Java"
      BY <1>1, <1>8, <3>2, ZenonT(60) DEF Text, JavaCode, JavaMessagePassing3, Rings
    <3>3. CASE j.lang = "Array"
      BY <1>1, <1>8, <3>3, ZenonT(60) DEF Text, ArrayCode, ArrayMessagePassing3, JavaMessagePassing3,
                              ArrayMessagePassing3alt, Rings, got
    <3>4. CASE j.lang = "Python"
      BY <1>1, <1>8, <3>4 DEF Text, PyCode, PyMessagePassing3, Rings
    <3>5. QED
      BY <1>1, <3>1, <3>2, <3>3, <3>4, SMTT(40)
  <2>5. CASE Text(j, p, m) = <<>>
    BY <2>5, LegalTexts, Zenon
  <2>6. ASSUME NEW t \in {p + 1, (p + 1) % n}, NEW v \in {<< p >>, Append(m.part, p), Append(got, p)},
               NEW f \in {n - 1, p - 1, AnySource}, NEW g \in {0, 1}, NEW h \in {0, 1, AnyTag},
               \/ Text(j, p, m) = << Send(v, t, g), Recv("part", f, h) >>
               \/ Text(j, p, m) = << Recv("part", f, h), Send(v, t, g) >>
        PROVE  Text(j, p, m) \in Seq(U)
    <3>1. v \in Values(j)
      BY <1>4, <2>3, Zenon
    <3>a. t \in Int /\ f \in Int /\ h \in Int /\ g \in {0, 1, 2}
      BY <1>2
    <3>2. /\ << Send(v, t, g), Recv("part", f, h) >> \in Seq(U)
          /\ << Recv("part", f, h), Send(v, t, g) >> \in Seq(U)
      BY <1>5, <3>1, <3>a
    <3>3. QED
      BY <2>6, <3>2
  <2>7. QED
    BY <2>4, <2>5, <2>6 DEF U
<1>9. QED
  BY <1>7, <1>8

\* The rounds of messages.
LEMMA LegalRounds ==
    ASSUME NEW j \in Jobs, j.prog \in RoundProgs, NEW p \in 0 .. j.np - 1, NEW m
    PROVE  Text(j, p, m) \in Seq(Legal(j, p))
<1> DEFINE n == j.np
           U == Legal(j, p)
<1>1. j.lang \in {"C", "Java"} /\ n \in Nat \ {0} /\ p \in Int /\ n - 1 \in Nat
  BY Languages
<1>2. /\ \A v \in Values(j) : \A t \in Int : \A g \in {0, 1, 2} : Send(v, t, g) \in U
      /\ \A f, t \in Int : Recv("out", f, t) \in U
  BY LegalAre DEF Takers
<1>3. ASSUME NEW r \in {1, 2} PROVE << p, r >> \in Values(j)
  <2>1. \A a, b \in Int : << a, b >> \in Values(j)
    BY LegalValues
  <2>2. r \in Int
    OBVIOUS
  <2>3. QED
    BY <1>1, <2>1, <2>2, Zenon
<1>4. MASTER \in Int /\ AnySource \in Int /\ AnyTag \in Int
  BY DEF MASTER, AnySource, AnyTag
<1> HIDE DEF U
<1>5. ASSUME NEW r \in {1, 2}, NEW g \in {0, 1}, NEW h \in {AnyTag, 1}
      PROVE  sendReceivePrint(p, n, r, g, h) \in Seq(U)
  <2>1. CASE p # MASTER
    <3>1. << p, r >> \in Values(j) /\ g \in {0, 1, 2}
      BY <1>3
    <3>2. Send(<< p, r >>, MASTER, g) \in U
      BY <1>2, <1>4, <3>1
    <3>3. QED
      BY <2>1, <3>2, LegalTexts, Zenon DEF sendReceivePrint
  <2>2. CASE p = MASTER
    <3>1. Recv("out", AnySource, h) \in U
      BY <1>2, <1>4
    <3>2. [i \in 1 .. n - 1 |-> Recv("out", AnySource, h)] \in Seq(U)
      BY <1>1, <3>1
    <3>3. QED
      BY <2>2, <3>2 DEF sendReceivePrint
  <2>3. QED
    BY <2>1, <2>2
<1>6. Text(j, p, m) \in {barrier(p, n), sequenceNumbers(p, n)}
  BY <1>1 DEF Text, CCode, JavaCode, JavaBarrier, JavaSequenceNumbers, RoundProgs
<1>7. barrier(p, n) \in Seq(U) /\ sequenceNumbers(p, n) \in Seq(U)
  <2>1. /\ sendReceivePrint(p, n, 1, 0, AnyTag) \in Seq(U)
        /\ sendReceivePrint(p, n, 2, 0, AnyTag) \in Seq(U)
        /\ sendReceivePrint(p, n, 1, 1, 1) \in Seq(U)
        /\ sendReceivePrint(p, n, 2, 1, 1) \in Seq(U)
    BY <1>5
  <2>2. QED
    BY <2>1, LegalTexts, Zenon DEF barrier, sequenceNumbers
<1>8. QED
  BY <1>6, <1>7 DEF U

\* The task queue.
LEMMA LegalTasks ==
    ASSUME NEW j \in Jobs, j.prog = "taskQueue", NEW p \in 0 .. j.np - 1, NEW m, Sound(j, m)
    PROVE  Text(j, p, m) \in Seq(Legal(j, p))
<1> DEFINE U == Legal(j, p)
<1>1. PICK n \in Nat \ {0} : n = j.np
  BY JobsAssumption
<1>2. j.lang \in {"C", "Java", "Python"} /\ n - 1 \in Nat
  BY <1>1, Languages
<1>3. /\ \A v \in Values(j) : \A t \in Int : \A g \in {0, 1, 2} : Send(v, t, g) \in U
      /\ \A f, t \in Int : Recv("out", f, t) \in U /\ Recv("part", f, t) \in U
      /\ Goto(1) \in U
  BY LegalAre DEF Takers
<1>4. \A a \in Int : << a >> \in Values(j)
  BY LegalValues
<1>5. MASTER \in Int /\ AnySource \in Int /\ AnyTag \in Int
  BY DEF MASTER, AnySource, AnyTag
<1>6. m.part \in Values(j) /\ m.src \in Int
  BY <1>1, <1>5 DEF Sound
<1> HIDE DEF U
<1>7. ASSUME NEW g \in {0, 1, 2}, NEW h \in {AnyTag, 0, 1}, NEW d \in {0, 1, 2}
      PROVE  HandOut(n, m, g, h, d) \in Seq(U)
  <2>1. Recv("out", AnySource, h) \in U
    BY <1>3, <1>5
  <2>2. [w \in 1 .. n - 1 |-> Send(<< w >>, w, g)] \in Seq(U)
    <3>1. ASSUME NEW w \in 1 .. n - 1 PROVE Send(<< w >>, w, g) \in U
      <4>1. w \in Int
        OBVIOUS
      <4>2. << w >> \in Values(j)
        BY <1>4, <4>1, Zenon
      <4>3. QED
        BY <1>3, <4>1, <4>2
    <3>2. QED
      BY <1>2, <3>1
  <2> DEFINE Turn(k) == IF Odd(k) THEN Recv("out", AnySource, h)
                                  ELSE Send(<< k \div 2 + n - 1 >>, m.src, g)
  <2>3. [k \in 1 .. 2 * (NumTasks(n) - (n - 1)) |-> Turn(k)] \in Seq(U)
    <3>1. PICK l \in Nat : l = 2 * (NumTasks(n) - (n - 1))
      BY <1>2 DEF NumTasks
    <3>2. ASSUME NEW k \in 1 .. l PROVE Turn(k) \in U
      <4>1. k \div 2 + n - 1 \in Int
        OBVIOUS
      <4>2. << k \div 2 + n - 1 >> \in Values(j)
        BY <1>4, <4>1
      <4>3. Send(<< k \div 2 + n - 1 >>, m.src, g) \in U
        BY <1>3, <1>6, <4>2
      <4>4. QED
        BY <2>1, <4>3
    <3> HIDE DEF Turn
    <3>3. [k \in 1 .. l |-> Turn(k)] \in Seq(U)
      BY <3>2
    <3>4. QED
      BY <3>1, <3>3
  <2>4. [w \in 1 .. n - 1 |-> Recv("out", AnySource, h)] \in Seq(U)
    BY <1>2, <2>1
  <2>5. [w \in 1 .. n - 1 |-> Send(<< 0 >>, w, d)] \in Seq(U)
    <3>1. ASSUME NEW w \in 1 .. n - 1 PROVE Send(<< 0 >>, w, d) \in U
      <4>1. << 0 >> \in Values(j)
        BY <1>4
      <4>2. QED
        BY <1>3, <4>1
    <3>2. QED
      BY <1>2, <3>1
  <2>6. QED
    BY <2>2, <2>3, <2>4, <2>5, LegalTexts, Zenon DEF HandOut
<1>8. ASSUME NEW g \in {0, 1}, NEW d PROVE Serve(m, g, d) \in Seq(U)
  <2>1. /\ Recv("part", MASTER, AnyTag) \in U /\ Send(m.part, MASTER, g) \in U
        /\ Goto(1) \in U
    BY <1>3, <1>5, <1>6
  <2>2. << Recv("part", MASTER, AnyTag) >> \in Seq(U)
        /\ << Send(m.part, MASTER, g), Goto(1) >> \in Seq(U)
    BY <2>1
  <2>3. QED
    BY <2>2, LegalTexts, Zenon DEF Serve
<1>9. \/ \E g \in {0, 1, 2}, h \in {AnyTag, 0, 1}, d \in {0, 1, 2} : Text(j, p, m) = HandOut(n, m, g, h, d)
      \/ \E g \in {0, 1}, d \in {0, 1, 2} : Text(j, p, m) = Serve(m, g, d)
  <2>1. CASE j.lang = "C"
    BY <1>1, <2>1 DEF Text, CCode, taskQueue, handOutTasks, performWork, WORK_TAG, DONE_TAG
  <2>2. CASE j.lang = "Java"
    BY <1>1, <2>2 DEF Text, JavaCode, JavaDynamicLoadBalance, JavaHandOutWork, JavaWorker,
                      WORKTAG, DIETAG
  <2>3. CASE j.lang = "Python"
    BY <1>1, <2>3 DEF Text, PyCode, PyDynamicLoadBalance, PyHandOutWork, PyWorker,
                      PyWORKTAG, PyDIETAG
  <2>4. QED
    BY <1>2, <2>1, <2>2, <2>3
<1>10. QED
  BY <1>7, <1>8, <1>9 DEF U

\* The broadcasts, by the collective and by messages.
LEMMA LegalBroadcasts ==
    ASSUME NEW j \in Jobs, j.prog \in BcastProgs \cup {"broadcastSend"}, NEW p \in 0 .. j.np - 1, NEW m
    PROVE  Text(j, p, m) \in Seq(Legal(j, p))
<1> DEFINE U == Legal(j, p)
           g == j.given
<1>1. PICK n \in Nat \ {0} : n = j.np
  BY JobsAssumption
<1>2. /\ j.lang \in {"C", "Java", "Array", "Python"} /\ n - 1 \in Nat
      /\ j.prog = "broadcastInput" => j.lang # "Array"
      /\ j.prog = "broadcastSend" => j.lang # "Array"
  <2>1. "broadcastSend" \notin Programs["Array"]
    BY DEF Programs
  <2>2. QED
    BY <1>1, <2>1, Languages
<1>3. /\ Barrier \in U /\ Line(0) \in U /\ Line(1) \in U /\ SeparatorLine(1) \in U /\ Abort \in U
      /\ \A v \in Fitting(j) : Bcast("buf", v) \in U /\ Compute("buf", v) \in U
      /\ \A v \in Values(j) : \A t \in Int : \A c \in {0, 1, 2} : Send(v, t, c) \in U
      /\ \A f, t \in Int : j.prog = "broadcastSend" => Recv("buf", f, t) \in U
  BY LegalAre DEF Takers
<1>4. /\ \A a \in Int : << a >> \in Fitting(j)
      /\ << 1, 2, 3 >> \in Values(j) /\ << 1, 2, 3 >> \in Fitting(j)
      /\ Fill(ARRAY_SIZE) \in Values(j) /\ Fill(ARRAY_SIZE) \in Fitting(j)
      /\ Zeros(ARRAY_SIZE) \in Fitting(j) /\ <<>> \in Fitting(j)
  BY LegalValues
<1> HIDE DEF U
<1>5. ASSUME NEW t \in {0, 1} PROVE Line(t) \in U
  BY <1>3
<1>6. PrintSeparator(p, 1) \in Seq(U)
  <2>1. << Barrier >> \in Seq(U) /\ << SeparatorLine(1) >> \in Seq(U) /\ <<>> \in Seq(U)
    BY <1>3
  <2>2. (IF p = MASTER THEN << SeparatorLine(1) >> ELSE <<>>) \in Seq(U)
    BY <2>1
  <2>3. QED
    BY <2>1, <2>2, LegalTexts, Zenon DEF PrintSeparator
<1>7. OnlyMaster(p, SeparatorLine(1)) \in Seq(U)
  BY <1>3, LegalTexts, Zenon DEF OnlyMaster
<1>8. ASSUME NEW v \in Fitting(j)
      PROVE  /\ << Bcast("buf", v) >> \in Seq(U) /\ << Bcast("buf", v), Line(1) >> \in Seq(U)
             /\ << Line(0), Bcast("buf", v) >> \in Seq(U)
  <2>1. Bcast("buf", v) \in U
    BY <1>3
  <2>2. QED
    BY <1>3, <2>1, LegalTexts, Zenon
<1>9. << Line(0) >> \in Seq(U) /\ << Line(1) >> \in Seq(U) /\ << Abort >> \in Seq(U) /\ <<>> \in Seq(U)
  BY <1>3, LegalTexts, Zenon
<1>10. CASE j.prog = "broadcast"
  <2>1. PICK v, w \in Fitting(j) :
             /\ v = << IF p = MASTER THEN ANSWER ELSE 0 >>
             /\ w = IF p = MASTER THEN << 1, 2, 3 >> ELSE <<>>
    <3>1. << IF p = MASTER THEN ANSWER ELSE 0 >> \in Fitting(j)
      BY <1>4 DEF ANSWER
    <3>2. (IF p = MASTER THEN << 1, 2, 3 >> ELSE <<>>) \in Fitting(j)
      BY <1>4
    <3>3. QED
      BY <3>1, <3>2, Zenon
  <2>2. \/ Text(j, p, m) \in {<<>>, << Bcast("buf", w) >>}
        \/ Text(j, p, m) = (IF p = MASTER /\ ~g THEN << Abort >> ELSE <<>>) \o << Bcast("buf", v) >>
        \/ Text(j, p, m) = << Line(0) >> \o PrintSeparator(p, 1) \o << Bcast("buf", v), Line(1) >>
        \/ Text(j, p, m) = << Line(0) >> \o OnlyMaster(p, SeparatorLine(1))
                           \o << Bcast("buf", v), Line(1) >>
    BY <1>1, <1>2, <1>10, <2>1 DEF Text, CCode, JavaCode, ArrayCode, PyCode, broadcast,
                                   JavaBroadcast, ArrayBroadcast, PyBroadcast
  <2>3. (IF p = MASTER /\ ~g THEN << Abort >> ELSE <<>>) \in Seq(U)
    BY <1>9
  <2>4. /\ << Bcast("buf", v) >> \in Seq(U) /\ << Bcast("buf", w) >> \in Seq(U)
        /\ << Bcast("buf", v), Line(1) >> \in Seq(U)
    BY <1>8
  <2>5. CASE Text(j, p, m) \in {<<>>, << Bcast("buf", w) >>}
    BY <1>9, <2>4, <2>5 DEF U
  <2>6. CASE Text(j, p, m) = (IF p = MASTER /\ ~g THEN << Abort >> ELSE <<>>) \o << Bcast("buf", v) >>
    <3>1. Text(j, p, m) \in Seq(U)
      BY <2>3, <2>4, <2>6, LegalTexts, Zenon
    <3>2. QED
      BY <3>1 DEF U
  <2>7. CASE Text(j, p, m) = << Line(0) >> \o PrintSeparator(p, 1) \o << Bcast("buf", v), Line(1) >>
    <3>1. << Line(0) >> \o PrintSeparator(p, 1) \o << Bcast("buf", v), Line(1) >> \in Seq(U)
      BY <1>6, <1>9, <2>4, LegalTexts, Zenon
    <3>2. QED
      BY <2>7, <3>1 DEF U
  <2>8. CASE Text(j, p, m) = << Line(0) >> \o OnlyMaster(p, SeparatorLine(1))
                             \o << Bcast("buf", v), Line(1) >>
    <3>1. << Line(0) >> \o OnlyMaster(p, SeparatorLine(1)) \o << Bcast("buf", v), Line(1) >> \in Seq(U)
      BY <1>7, <1>9, <2>4, LegalTexts, Zenon
    <3>2. QED
      BY <2>8, <3>1 DEF U
  <2>9. QED
    BY <2>2, <2>5, <2>6, <2>7, <2>8
<1>11. CASE j.prog = "broadcastInput"
  <2>1. PICK v, w \in Fitting(j) :
             /\ v = << IF p = MASTER THEN ANSWER ELSE 0 >>
             /\ w = << IF p = MASTER /\ g THEN ANSWER ELSE 0 >>
    <3>1. << IF p = MASTER THEN ANSWER ELSE 0 >> \in Fitting(j)
      BY <1>4 DEF ANSWER
    <3>2. << IF p = MASTER /\ g THEN ANSWER ELSE 0 >> \in Fitting(j)
      BY <1>4 DEF ANSWER
    <3>3. QED
      BY <3>1, <3>2, Zenon
  <2>2. \/ Text(j, p, m) \in {<<>>, << Bcast("buf", v) >>, << Bcast("buf", w) >>}
        \/ Text(j, p, m) = << Line(0), Bcast("buf", w) >> \o PrintSeparator(p, 1) \o << Line(1) >>
    BY <1>1, <1>2, <1>11, <2>1 DEF Text, CCode, JavaCode, PyCode, broadcastUserInput,
                                   JavaBroadcastUserInput, PyBroadcastUserInput
  <2>3. /\ << Bcast("buf", v) >> \in Seq(U) /\ << Bcast("buf", w) >> \in Seq(U)
        /\ << Line(0), Bcast("buf", w) >> \in Seq(U)
    BY <1>8
  <2>4. << Line(0), Bcast("buf", w) >> \o PrintSeparator(p, 1) \o << Line(1) >> \in Seq(U)
    BY <1>6, <1>9, <2>3, LegalTexts, Zenon
  <2>5. QED
    BY <1>9, <2>2, <2>3, <2>4 DEF U
<1>12. CASE j.prog = "broadcast2"
  <2>1. PICK v \in Fitting(j) :
             v = IF p = MASTER THEN Fill(ARRAY_SIZE) ELSE Zeros(ARRAY_SIZE)
    BY <1>4, Zenon
  <2>2. CASE j.lang = "Python"
    <3>1. PICK w \in Fitting(j) : w = IF p = MASTER THEN [k \in 1 .. n |-> k - 1] ELSE <<>>
      <4>1. [k \in 1 .. n |-> k - 1] \in Seq(Int)
        OBVIOUS
      <4>2. [k \in 1 .. n |-> k - 1] \in Fitting(j)
        BY <2>2, <4>1 DEF Fitting
      <4>3. QED
        BY <1>4, <4>2, Zenon
    <3>2. Text(j, p, m) \in {<<>>, << Bcast("buf", w) >>}
      BY <1>1, <1>12, <2>2, <3>1 DEF Text, PyCode, PyBroadcastList
    <3>3. QED
      BY <1>8, <1>9, <3>2, Zenon DEF U
  <2>3. CASE j.lang # "Python"
    <3>1. \/ Text(j, p, m) = << Bcast("buf", v) >>
          \/ Text(j, p, m) = << Line(0) >> \o PrintSeparator(p, 1) \o << Bcast("buf", v), Line(1) >>
      BY <1>1, <1>2, <1>12, <2>1, <2>3 DEF Text, CCode, JavaCode, ArrayCode, broadcast2,
                                           ArrayBroadcast2, JavaBroadcast2
    <3>2. << Bcast("buf", v) >> \in Seq(U) /\ << Bcast("buf", v), Line(1) >> \in Seq(U)
      BY <1>8
    <3>3. << Line(0) >> \o PrintSeparator(p, 1) \o << Bcast("buf", v), Line(1) >> \in Seq(U)
      BY <1>6, <1>9, <3>2, LegalTexts, Zenon
    <3>4. QED
      BY <3>1, <3>2, <3>3 DEF U
  <2>4. QED
    BY <2>2, <2>3
<1>13. CASE j.prog = "broadcastSend"
  <2>1. ASSUME NEW v \in Values(j), NEW c \in {0, 1}
        PROVE  [r \in 1 .. n - 1 |-> Send(v, r, c)] \in Seq(U)
    <3>1. \A r \in 1 .. n - 1 : Send(v, r, c) \in U
      BY <1>3
    <3>2. QED
      BY <1>2, <3>1
  <2>2. /\ << Compute("buf", Fill(ARRAY_SIZE)) >> \in Seq(U) /\ << Compute("buf", << 1, 2, 3 >>) >> \in Seq(U)
        /\ << Compute("buf", Fill(ARRAY_SIZE)), Line(0) >> \in Seq(U)
    <3>1. Compute("buf", Fill(ARRAY_SIZE)) \in U /\ Compute("buf", << 1, 2, 3 >>) \in U
      BY <1>3, <1>4
    <3>2. QED
      BY <1>3, <3>1, LegalTexts, Zenon
  <2>3. ASSUME NEW t \in {0, 1, AnyTag}
        PROVE  << Recv("buf", MASTER, t) >> \in Seq(U) /\ << Line(0), Recv("buf", MASTER, t) >> \in Seq(U)
    <3>1. MASTER \in Int /\ t \in Int
      BY DEF MASTER, AnyTag
    <3>2. Recv("buf", MASTER, t) \in U
      BY <1>3, <1>13, <3>1
    <3>3. QED
      BY <1>3, <3>2, LegalTexts, Zenon
  <2>4. CASE j.lang = "C"
    <3>1. Text(j, p, m) = broadcastSendReceive(p, n)
      BY <1>1, <1>13, <2>4 DEF Text, CCode
    <3>2. [r \in 1 .. n - 1 |-> Send(Fill(ARRAY_SIZE), r, 1)] \in Seq(U)
      BY <1>4, <2>1
    <3>3. << Recv("buf", MASTER, 1) >> \in Seq(U)
      BY <2>3
    <3>4. QED
      BY <2>2, <3>1, <3>2, <3>3, LegalTexts, Zenon DEF broadcastSendReceive, U
  <2>5. CASE j.lang = "Java"
    <3>1. Text(j, p, m) = JavaSendReceivePseudoBroadcast(p, n)
      BY <1>1, <1>13, <2>5 DEF Text, JavaCode
    <3>2. [r \in 1 .. n - 1 |-> Send(Fill(ARRAY_SIZE), r, 0)] \in Seq(U)
      BY <1>4, <2>1
    <3>3. << Line(0), Recv("buf", MASTER, 0) >> \in Seq(U)
      BY <2>3
    <3>4. QED
      <4>1. (IF p = MASTER
               THEN << Compute("buf", Fill(ARRAY_SIZE)), Line(0) >>
                    \o [r \in 1 .. n - 1 |-> Send(Fill(ARRAY_SIZE), r, 0)]
               ELSE << Line(0), Recv("buf", MASTER, 0) >>) \in Seq(U)
        BY <2>2, <3>2, <3>3, LegalTexts, Zenon
      <4>2. JavaSendReceivePseudoBroadcast(p, n) \in Seq(U)
        BY <1>6, <1>9, <4>1, LegalTexts, Zenon DEF JavaSendReceivePseudoBroadcast
      <4>3. QED
        BY <3>1, <4>2 DEF U
  <2>6. CASE j.lang = "Python"
    <3>1. Text(j, p, m) = PyBroadcastSendReceive(p, n)
      BY <1>1, <1>13, <2>6 DEF Text, PyCode
    <3>2. [r \in 1 .. n - 1 |-> Send(<< 1, 2, 3 >>, r, 0)] \in Seq(U)
      BY <1>4, <2>1
    <3>3. << Recv("buf", MASTER, AnyTag) >> \in Seq(U)
      BY <2>3
    <3>4. QED
      <4>1. << Compute("buf", << 1, 2, 3 >>) >> \o [r \in 1 .. n - 1 |-> Send(<< 1, 2, 3 >>, r, 0)]
              \in Seq(U)
        BY <2>2, <3>2, LegalTexts, Zenon
      <4>2. QED
        BY <1>9, <3>1, <3>3, <4>1 DEF PyBroadcastSendReceive, U
  <2>7. QED
    BY <1>2, <1>13, <2>4, <2>5, <2>6
<1>14. QED
  BY <1>10, <1>11, <1>12, <1>13 DEF BcastProgs

\* Every program but those of key instructions.
LEMMA LegalText ==
    ASSUME NEW j, OpenJob(j), NEW p \in 0 .. j.np - 1, NEW m, Sound(j, m)
    PROVE  Text(j, p, m) \in Seq(Legal(j, p))
<1>1. /\ j.prog \in Programs[j.lang] /\ j.lang \in {"C", "Java", "Array", "Python"}
  BY Languages DEF OpenJob
<1>2. j.prog \in LoopProgs \cup SoloProgs \cup OnceProgs \cup RoundProgs \cup {"taskQueue"}
                 \cup BcastProgs \cup {"broadcastSend"}
  <2> USE DEF OpenJob, KeyProgs, LoopProgs, SoloProgs, OnceProgs, Rings, RoundProgs, BcastProgs
  <2>1. CASE j.lang = "C"
    BY <1>1, <2>1 DEF Programs
  <2>2. CASE j.lang = "Java"
    BY <1>1, <2>2 DEF Programs
  <2>3. CASE j.lang = "Array"
    BY <1>1, <2>3 DEF Programs
  <2>4. CASE j.lang = "Python"
    BY <1>1, <2>4 DEF Programs
  <2>5. QED
    BY <1>1, <2>1, <2>2, <2>3, <2>4
<1>3. j \in Jobs
  BY DEF OpenJob
<1>4. QED
  BY <1>2, <1>3, LegalAlone, LegalOnce, LegalRounds, LegalTasks, LegalBroadcasts
-----------------------------------------------------------------------------
(* The states of these programs, and that every step keeps to them.        *)

\* Where a process is in its program.
Within(p) ==
  /\ pc[p] \in 1 .. Len(Script(p)) + 1
  /\ phase[p] # "run" => pc[p] <= Len(Script(p))

\* The memories and messages are sound, everyone has entered the collectives it
\* is in, and (but for the task queue, whose workers jump) no one is past its end.
Memories == mem = [p \in Ranks |-> mem[p]] /\ \A p \in Ranks : Sound(job, mem[p])
Joined == \A p \in Ranks : /\ entered[p] \in Seq(Joint(job))
                           /\ phase[p] = "coll" => entered[p] # <<>>
Inside == job.prog # "taskQueue" => \A p \in Ranks : Within(p)
Typed ==
  /\ CollectiveTyped /\ CollectiveNetwork /\ chan \in Network(Ranks, Mail(job))
  /\ Memories /\ Joined /\ Inside
TypeInv == OpenJob(job) => Typed

\* A memory at the start.
LEMMA SoundBlank == ASSUME NEW j \in Jobs PROVE Sound(j, Blank)
<1>1. j.np \in Nat \ {0}
  BY JobsAssumption
<1>2. Zeros(ARRAY_SIZE) \in Seq(Int) /\ Len(Zeros(ARRAY_SIZE)) <= ARRAY_SIZE
  BY DEF Zeros, ARRAY_SIZE
<1>3. Zeros(ARRAY_SIZE) \in Fitting(j)
  BY <1>2 DEF Fitting
<1>4. <<>> \in Values(j)
  BY DEF Values, ARRAY_SIZE
<1>5. /\ Blank = [f \in Fields |-> Blank[f]]
      /\ Blank.buf = Zeros(ARRAY_SIZE) /\ Blank.part = <<>>
      /\ Blank.src = AnySource /\ Blank.tag = AnyTag
  BY DEF Blank, Fields
<1>6. QED
  BY <1>3, <1>4, <1>5 DEF Sound

\* What is stored leaves a memory sound.
LEMMA SoundStore ==
    ASSUME NEW j, NEW m, Sound(j, m), NEW f, NEW v,
           f = "out" \/ (f = "buf" /\ v \in Fitting(j)) \/ (f = "part" /\ v \in Values(j))
    PROVE  /\ Sound(j, [m EXCEPT ![f] = v])
           /\ \A q \in 0 .. j.np - 1 : \A t \in {0, 1, 2} :
                Sound(j, [m EXCEPT ![f] = v, !.src = q, !.tag = t])
<1>1. m = [x \in Fields |-> m[x]] /\ Fields = {"buf", "part", "all", "out", "src", "tag"}
  BY DEF Sound, Fields
<1>2. /\ m.buf \in Fitting(j) /\ m.part \in Values(j)
      /\ m.src \in 0 .. j.np - 1 \/ m.src = AnySource
      /\ m.tag \in {AnyTag, 0, 1, 2}
  BY DEF Sound
<1>3. ASSUME NEW u, u = [m EXCEPT ![f] = v] PROVE Sound(j, u)
  <2>1. /\ u = [x \in Fields |-> u[x]]
        /\ \A x \in Fields : u[x] = IF x = f THEN v ELSE m[x]
    BY <1>1, <1>3
  <2>2. u.buf \in Fitting(j) /\ u.part \in Values(j) /\ u.src = m.src /\ u.tag = m.tag
    BY <1>1, <1>2, <2>1
  <2>3. QED
    BY <1>2, <2>1, <2>2 DEF Sound
<1>4. ASSUME NEW q \in 0 .. j.np - 1, NEW t \in {0, 1, 2},
             NEW u, u = [m EXCEPT ![f] = v, !.src = q, !.tag = t]
      PROVE  Sound(j, u)
  <2>1. /\ u = [x \in Fields |-> u[x]]
        /\ \A x \in Fields : u[x] = IF x = "tag" THEN t ELSE IF x = "src" THEN q
                                    ELSE IF x = f THEN v ELSE m[x]
    BY <1>1, <1>4
  <2>2. u.buf \in Fitting(j) /\ u.part \in Values(j) /\ u.src = q /\ u.tag = t
    BY <1>1, <1>2, <2>1
  <2>3. QED
    BY <2>1, <2>2 DEF Sound
<1>5. QED
  BY <1>3, <1>4

\* How long a program is does not depend on the memory.
LEMMA SameLength ==
    ASSUME NEW j, OpenJob(j), j.prog # "taskQueue", NEW p \in 0 .. j.np - 1, NEW m, Sound(j, m)
    PROVE  /\ Len(Text(j, p, m)) = Len(Text(j, p, Blank)) /\ Len(Text(j, p, Blank)) \in Nat
           /\ DOMAIN Text(j, p, m) = 1 .. Len(Text(j, p, Blank))
<1>1. /\ j \in Jobs /\ j.prog \in Programs[j.lang] /\ j.lang \in {"C", "Java", "Array", "Python"}
      /\ j.prog \notin KeyProgs
  BY Languages DEF OpenJob
<1>2. Len(Text(j, p, m)) = Len(Text(j, p, Blank))
  <2>1. CASE j.prog \in Rings
    <3>1. j.prog \in OnceProgs
      BY <2>1 DEF OnceProgs
    <3>2. CASE Paired(j)
      <4>1. \A x : Len(Text(j, p, x)) = 2
        BY <1>1, <2>1, <3>2, RingCode DEF Pair
      <4>2. QED
        BY <4>1
    <3>3. CASE ~Paired(j)
      <4>1. Idle(j)
        BY <2>1, <3>3 DEF Idle, Alone, Rings
      <4>2. QED
        BY <1>1, <3>1, <4>1, IdleCode
    <3>4. QED
      BY <3>2, <3>3
  <2>2. CASE j.prog \notin Rings
    <3>1. CASE j.lang = "C"
      BY <1>1, <2>2, <3>1 DEF Text, CCode, Programs, Rings, KeyProgs, OpenJob
    <3>2. CASE j.lang = "Java"
      BY <1>1, <2>2, <3>2 DEF Text, JavaCode, Programs, Rings, KeyProgs, OpenJob
    <3>3. CASE j.lang = "Array"
      BY <1>1, <2>2, <3>3 DEF Text, ArrayCode, Programs, Rings, KeyProgs, OpenJob
    <3>4. CASE j.lang = "Python"
      BY <1>1, <2>2, <3>4 DEF Text, PyCode, Programs, Rings, KeyProgs, OpenJob
    <3>5. QED
      BY <1>1, <3>1, <3>2, <3>3, <3>4
  <2>3. QED
    BY <2>1, <2>2
<1>3. Text(j, p, m) \in Seq(Legal(j, p)) /\ Text(j, p, Blank) \in Seq(Legal(j, p))
  BY <1>1, LegalText, SoundBlank
<1>4. QED
  BY <1>2, <1>3

\* The instruction a process is about to execute.
LEMMA LegalCurrent ==
    ASSUME OpenJob(job), Typed, NEW p \in Ranks, NEW i \in Current(p)
    PROVE  /\ i \in Legal(job, p) /\ phase[p] = "run"
           /\ job.prog # "taskQueue" => pc[p] \in 1 .. Len(Script(p)) /\ Len(Script(p)) \in Nat
<1>1. /\ phase[p] = "run" /\ pc[p] \in DOMAIN Code(p) /\ i = Code(p)[pc[p]]
  BY DEF Current
<1>2. Code(p) = Text(job, p, mem[p]) /\ p \in 0 .. job.np - 1
  BY DEF Code, Text, Ranks
<1>3. Sound(job, mem[p])
  BY DEF Typed, Memories
<1>4. Text(job, p, mem[p]) \in Seq(Legal(job, p))
  BY <1>2, <1>3, LegalText
<1>5. i \in Legal(job, p)
  BY <1>1, <1>2, <1>4
<1>6. job.prog # "taskQueue" => /\ DOMAIN Text(job, p, mem[p]) = 1 .. Len(Script(p))
                                /\ Len(Script(p)) \in Nat
  BY <1>2, <1>3, SameLength DEF Script
<1>7. QED
  BY <1>1, <1>2, <1>5, <1>6

\* The memories after one of them changed soundly.
LEMMA OneSound ==
    ASSUME Memories, job' = job, NEW p \in Ranks, NEW m, Sound(job, m), mem' = [mem EXCEPT ![p] = m]
    PROVE  Memories'
<1>1. Ranks' = Ranks
  BY JobSame
<1>2. mem' = [r \in Ranks |-> mem'[r]] /\ mem'[p] = m /\ \A r \in Ranks \ {p} : mem'[r] = mem[r]
  BY DEF Memories
<1>3. \A r \in Ranks : Sound(job', mem'[r])
  BY <1>2 DEF Memories
<1>4. QED
  BY <1>1, <1>2, <1>3 DEF Memories

\* A process goes on.
LEMMA WithinNext ==
    ASSUME OpenJob(job), Typed, job' = job, NEW p \in Ranks, pc[p] <= Len(Script(p)),
           pc' = [pc EXCEPT ![p] = @ + 1], phase' = [phase EXCEPT ![p] = "run"]
    PROVE  pc' \in [Ranks -> Nat \ {0}] /\ phase' \in [Ranks -> {"run", "send", "coll"}] /\ Inside'
<1>1. pc \in [Ranks -> Nat \ {0}] /\ phase \in [Ranks -> {"run", "send", "coll"}] /\ Inside
  BY DEF Typed, CollectiveTyped
<1>2. /\ pc' \in [Ranks -> Nat \ {0}] /\ pc'[p] = pc[p] + 1
      /\ \A r \in Ranks \ {p} : pc'[r] = pc[r]
  <2>1. pc[p] + 1 \in Nat \ {0}
    BY <1>1
  <2>2. QED
    BY <1>1, <2>1
<1>3. /\ phase' \in [Ranks -> {"run", "send", "coll"}] /\ phase'[p] = "run"
      /\ \A r \in Ranks \ {p} : phase'[r] = phase[r]
  BY <1>1
<1>4. Ranks' = Ranks /\ \A r : Script(r)' = Script(r)
  BY JobSame
<1>5. Inside'
  <2>1. SUFFICES ASSUME job.prog # "taskQueue", NEW r \in Ranks PROVE Within(r)'
    BY <1>4 DEF Inside
  <2>2. Within(r)
    BY <1>1, <2>1 DEF Inside
  <2>3. CASE r = p
    BY <1>1, <1>2, <1>3, <1>4, <2>2, <2>3 DEF Within
  <2>4. CASE r # p
    BY <1>2, <1>3, <1>4, <2>2, <2>4 DEF Within
  <2>5. QED
    BY <2>3, <2>4
<1>6. QED
  BY <1>2, <1>3, <1>5

\* A local step.
LEMMA LocalSound ==
    ASSUME OpenJob(job), Typed, NEW p \in Ranks, Local(p)
    PROVE  Typed'
<1>1. PICK i \in Current(p) :
        \/ i.op = "compute" /\ mem' = [mem EXCEPT ![p][i.var] = i.val] /\ Step(p)
        \/ i.op = "print" /\ Step(p) /\ UNCHANGED mem
        \/ i.op = "goto" /\ pc' = [pc EXCEPT ![p] = i.to] /\ UNCHANGED mem
  BY DEF Local
<1>2. job' = job /\ phase' = phase /\ chan' = chan /\ entered' = entered
  BY DEF Local
<1>3. /\ i \in Legal(job, p) /\ phase[p] = "run"
      /\ job.prog # "taskQueue" => pc[p] \in 1 .. Len(Script(p)) /\ Len(Script(p)) \in Nat
  BY LegalCurrent
<1>4. Memories'
  <2>0. Memories
    BY DEF Typed
  <2>1. CASE i.op = "compute"
    <3>1. i.var = "out" \/ (i.var = "buf" /\ i.val \in Fitting(job))
      BY <1>3, <2>1, LegalKinds
    <3>2. mem' = [mem EXCEPT ![p] = [mem[p] EXCEPT ![i.var] = i.val]]
      BY <1>1, <2>1
    <3>3. Sound(job, mem[p])
      BY <2>0 DEF Memories
    <3>4. Sound(job, [mem[p] EXCEPT ![i.var] = i.val])
      BY <3>1, <3>3, SoundStore
    <3>5. QED
      BY <1>2, <2>0, <3>2, <3>4, OneSound
  <2>2. CASE i.op # "compute"
    BY <1>1, <1>2, <2>0, <2>2, JobSame DEF Memories
  <2>3. QED
    BY <2>1, <2>2
<1>5. pc' \in [Ranks -> Nat \ {0}] /\ Inside'
  <2>0. pc \in [Ranks -> Nat \ {0}] /\ phase \in [Ranks -> {"run", "send", "coll"}]
    BY DEF Typed, CollectiveTyped
  <2>1. CASE i.op = "goto"
    <3>1. job.prog = "taskQueue" /\ i.to = 1
      BY <1>3, <2>1, LegalKinds
    <3>2. QED
      BY <1>1, <1>2, <2>0, <2>1, <3>1 DEF Inside
  <2>2. CASE i.op # "goto"
    <3>1. pc' = [pc EXCEPT ![p] = @ + 1]
      BY <1>1, <2>2 DEF Step
    <3>2. CASE job.prog = "taskQueue"
      <4>1. pc[p] + 1 \in Nat \ {0}
        BY <2>0
      <4>2. QED
        BY <1>2, <2>0, <3>1, <3>2, <4>1 DEF Inside
    <3>3. CASE job.prog # "taskQueue"
      <4>1. pc[p] <= Len(Script(p))
        BY <1>3, <3>3
      <4>2. phase' = [phase EXCEPT ![p] = "run"]
        BY <1>2, <1>3, <2>0
      <4>3. QED
        BY <1>2, <3>1, <4>1, <4>2, WithinNext
    <3>4. QED
      BY <3>2, <3>3
  <2>3. QED
    BY <2>1, <2>2
<1>6. CollectiveTyped' /\ CollectiveNetwork'
  <2>1. CollectiveNetwork /\ CollectiveTyped
    BY DEF Typed
  <2>2. CollectiveNetwork'
    BY <1>2, <2>1, NetworkSame
  <2>3. QED
    BY <1>2, <1>5, <2>1, <2>2, JobSame DEF CollectiveTyped
<1>7. Joined' /\ (chan \in Network(Ranks, Mail(job)))'
  BY <1>2, JobSame DEF Typed, Joined
<1>8. QED
  BY <1>4, <1>5, <1>6, <1>7 DEF Typed

\* A send.
LEMMA SendSound ==
    ASSUME OpenJob(job), Typed, NEW p \in Ranks, SendMessage(p)
    PROVE  Typed'
<1>1. PICK i \in Current(p), sync \in BOOLEAN :
        /\ i.op = "send" /\ i.to \in Ranks
        /\ chan' = Added(chan, p, i.to, [tag |-> i.tag, val |-> i.val, sync |-> sync])
        /\ IF sync THEN phase' = [phase EXCEPT ![p] = "send"] /\ pc' = pc
                   ELSE pc' = [pc EXCEPT ![p] = @ + 1] /\ phase' = phase
  BY DEF SendMessage, InvalidRank, Step, Added
<1>2. job' = job /\ mem' = mem /\ entered' = entered
  BY DEF SendMessage
<1>3. /\ i \in Legal(job, p) /\ phase[p] = "run"
      /\ job.prog # "taskQueue" => pc[p] \in 1 .. Len(Script(p)) /\ Len(Script(p)) \in Nat
  BY LegalCurrent
<1>4. i.val \in Values(job) /\ i.tag \in {0, 1, 2}
  BY <1>1, <1>3, LegalKinds
<1>5. i.val \in Seq(Int) /\ i.tag \in Int
  BY <1>4 DEF Values
<1>6. /\ CollectiveTyped /\ CollectiveNetwork /\ chan \in Network(Ranks, Mail(job))
      /\ pc \in [Ranks -> Nat \ {0}] /\ phase \in [Ranks -> {"run", "send", "coll"}]
      /\ Memories /\ Joined /\ Inside
  BY DEF Typed, CollectiveTyped
<1>7. chan' \in Network(Ranks, Letter) /\ CollectiveNetwork'
  <2>1. IF sync THEN phase' = [phase EXCEPT ![p] = "send"] ELSE phase' = phase
    BY <1>1
  <2>2. QED
    BY <1>1, <1>2, <1>3, <1>5, <1>6, <2>1, Posting
<1>8. chan' \in Network(Ranks, Mail(job))
  <2>1. PICK msg : msg = [tag |-> i.tag, val |-> i.val, sync |-> sync]
    OBVIOUS
  <2>2. msg \in Mail(job)
    BY <1>4, <2>1 DEF Mail
  <2>3. PICK R, M, c, d, X : R = Ranks /\ M = Mail(job) /\ c = chan /\ d = chan' /\ X = {}
    OBVIOUS
  <2>4. /\ c \in Network(R, M) /\ p \in R /\ i.to \in R /\ msg \in M /\ d = Added(c, p, i.to, msg)
    BY <1>1, <1>6, <2>1, <2>2, <2>3
  <2>5. d \in Network(R, M)
    BY <2>4, SendAdds
  <2>6. QED
    BY <2>3, <2>5
<1>9. /\ pc' \in [Ranks -> Nat \ {0}] /\ phase' \in [Ranks -> {"run", "send", "coll"}] /\ Inside'
      /\ \A r \in Ranks : phase'[r] = "coll" => phase[r] = "coll"
  <2>1. CASE sync
    <3>1. pc' = pc /\ phase' = [phase EXCEPT ![p] = "send"]
      BY <1>1, <2>1
    <3>2. /\ phase' \in [Ranks -> {"run", "send", "coll"}] /\ phase'[p] = "send"
          /\ \A r \in Ranks \ {p} : phase'[r] = phase[r]
      BY <1>6, <3>1
    <3>3. Ranks' = Ranks /\ \A r : Script(r)' = Script(r)
      BY <1>2, JobSame
    <3>4. Inside'
      <4>1. SUFFICES ASSUME job.prog # "taskQueue", NEW r \in Ranks PROVE Within(r)'
        BY <1>2, <3>3 DEF Inside
      <4>2. Within(r)
        BY <1>6, <4>1 DEF Inside
      <4>3. CASE r = p
        BY <1>3, <3>1, <3>3, <4>1, <4>2, <4>3 DEF Within
      <4>4. CASE r # p
        BY <3>1, <3>2, <3>3, <4>2, <4>4 DEF Within
      <4>5. QED
        BY <4>3, <4>4
    <3>5. QED
      BY <1>6, <3>1, <3>2, <3>4
  <2>2. CASE ~sync
    <3>1. pc' = [pc EXCEPT ![p] = @ + 1] /\ phase' = phase
      BY <1>1, <2>2
    <3>2. CASE job.prog = "taskQueue"
      <4>1. pc[p] + 1 \in Nat \ {0}
        BY <1>6
      <4>2. QED
        BY <1>2, <1>6, <3>1, <3>2, <4>1 DEF Inside
    <3>3. CASE job.prog # "taskQueue"
      <4>1. pc[p] <= Len(Script(p))
        BY <1>3, <3>3
      <4>2. phase' = [phase EXCEPT ![p] = "run"]
        BY <1>3, <1>6, <3>1
      <4>3. QED
        BY <1>2, <3>1, <4>1, <4>2, WithinNext
    <3>4. QED
      BY <3>2, <3>3
  <2>3. QED
    BY <2>1, <2>2
<1>10. CollectiveTyped' /\ Memories' /\ Joined' /\ (chan \in Network(Ranks, Mail(job)))'
  <2>1. Ranks' = Ranks
    BY <1>2, JobSame
  <2>2. CollectiveTyped'
    BY <1>2, <1>6, <1>7, <1>9, <2>1 DEF CollectiveTyped
  <2>3. Memories' /\ Joined'
    BY <1>2, <1>6, <1>9, <2>1 DEF Memories, Joined
  <2>4. QED
    BY <1>2, <1>8, <2>1, <2>2, <2>3
<1>11. QED
  BY <1>7, <1>9, <1>10 DEF Typed

\* A receive: the sender goes on too if it waited for it.
LEMMA ReceiveSound ==
    ASSUME OpenJob(job), Typed, NEW p \in Ranks, Receive(p)
    PROVE  Typed'
<1>1. PICK i \in Current(p), q \in Ranks :
        /\ i.op = "recv"
        /\ \E k : Takes(p, q, k) /\ Keeps(p, i.var, q, chan[q][p][k])
  BY ReceiveIs
<1>2. PICK k : Takes(p, q, k) /\ Keeps(p, i.var, q, chan[q][p][k])
  BY <1>1
<1>3. job' = job /\ entered' = entered
  BY DEF Receive
<1>4. /\ i \in Legal(job, p) /\ phase[p] = "run"
      /\ job.prog # "taskQueue" => pc[p] \in 1 .. Len(Script(p)) /\ Len(Script(p)) \in Nat
  BY LegalCurrent
<1>5. /\ CollectiveTyped /\ CollectiveNetwork /\ chan \in Network(Ranks, Mail(job))
      /\ pc \in [Ranks -> Nat \ {0}] /\ phase \in [Ranks -> {"run", "send", "coll"}]
      /\ Memories /\ Joined /\ Inside
  BY DEF Typed, CollectiveTyped
<1> DEFINE msg == chan[q][p][k]
<1>6. /\ chan' \in Network(Ranks, Letter) /\ CollectiveNetwork'
      /\ msg.sync \in BOOLEAN /\ msg.sync => phase[q] = "send" /\ p # q
  BY <1>2, <1>3, <1>4, <1>5, Fetching
<1>7. IF msg.sync
        THEN pc' = [pc EXCEPT ![p] = @ + 1, ![q] = @ + 1] /\ phase' = [phase EXCEPT ![q] = "run"]
        ELSE pc' = [pc EXCEPT ![p] = @ + 1] /\ phase' = phase
  BY <1>2 DEF Takes
<1>8. msg \in Mail(job) /\ chan' \in Network(Ranks, Mail(job))
  <2>1. PICK R, M, c, d, X : R = Ranks /\ M = Mail(job) /\ c = chan /\ d = chan' /\ X = {}
    OBVIOUS
  <2>2. /\ c \in Network(R, M) /\ p \in R /\ q \in R /\ k \in DOMAIN c[q][p] /\ d = Taken(c, q, p, k)
    BY <1>2, <1>5, <2>1 DEF Takes, Taken
  <2>3. d \in Network(R, M)
    BY <2>2, ReceiveRemoves
  <2>4. c[q][p][k] \in M
    BY <2>2 DEF Network
  <2>5. QED
    BY <2>1, <2>3, <2>4
<1>9. Memories'
  <2>1. msg.val \in Values(job) /\ msg.tag \in {0, 1, 2}
    BY <1>8 DEF Mail
  <2> HIDE DEF msg
  <2>2. i.var \in {"part", "out"} \/ (job.prog = "broadcastSend" /\ i.var = "buf")
    BY <1>1, <1>4, LegalKinds DEF Takers
  <2>3. PICK v : v = IF i.var = "out" THEN mem[p].out \o msg.val ELSE msg.val
    OBVIOUS
  <2>4. \/ i.var = "out" \/ (i.var = "buf" /\ v \in Fitting(job))
        \/ (i.var = "part" /\ v \in Values(job))
    <3>1. CASE i.var = "out"
      BY <3>1
    <3>2. CASE i.var = "part"
      BY <2>1, <2>3, <3>2
    <3>3. CASE job.prog = "broadcastSend" /\ i.var = "buf"
      <4>1. msg.val \in Fitting(job)
        BY <2>1, <3>3 DEF Values, Fitting, Rings
      <4>2. QED
        BY <2>3, <3>3, <4>1
    <3>4. QED
      BY <2>2, <3>1, <3>2, <3>3
  <2>5. mem' = [mem EXCEPT ![p] = [mem[p] EXCEPT ![i.var] = v, !.src = q, !.tag = msg.tag]]
    <3>1. mem' = [mem EXCEPT ![p][i.var] = v, ![p].src = q, ![p].tag = msg.tag]
      BY <1>2, <2>3 DEF Keeps, msg
    <3>2. mem = [r \in Ranks |-> mem[r]]
      BY <1>5 DEF Memories
    <3>3. QED
      BY <3>1, <3>2
  <2>6. Sound(job, [mem[p] EXCEPT ![i.var] = v, !.src = q, !.tag = msg.tag])
    <3>1. Sound(job, mem[p]) /\ q \in 0 .. job.np - 1
      BY <1>5 DEF Memories, Ranks
    <3>2. QED
      BY <2>1, <2>4, <3>1, SoundStore
  <2>7. QED
    BY <1>3, <1>5, <2>5, <2>6, OneSound
<1> HIDE DEF msg
<1>10. /\ pc' \in [Ranks -> Nat \ {0}] /\ phase' \in [Ranks -> {"run", "send", "coll"}] /\ Inside'
       /\ \A r \in Ranks : phase'[r] = "coll" => phase[r] = "coll"
  <2>1. pc[p] + 1 \in Nat \ {0} /\ pc[q] + 1 \in Nat \ {0}
    BY <1>5
  <2>2. Ranks' = Ranks /\ \A r : Script(r)' = Script(r)
    BY <1>3, JobSame
  <2>3. CASE msg.sync
    <3>1. /\ pc' = [pc EXCEPT ![p] = @ + 1, ![q] = @ + 1] /\ phase' = [phase EXCEPT ![q] = "run"]
          /\ p # q /\ phase[q] = "send"
      BY <1>6, <1>7, <2>3
    <3>2. /\ pc' \in [Ranks -> Nat \ {0}] /\ pc'[p] = pc[p] + 1 /\ pc'[q] = pc[q] + 1
          /\ \A a \in Ranks \ {p, q} : pc'[a] = pc[a]
      BY <1>5, <2>1, <3>1
    <3>3. /\ phase' \in [Ranks -> {"run", "send", "coll"}] /\ phase'[q] = "run"
          /\ \A a \in Ranks \ {q} : phase'[a] = phase[a]
      BY <1>5, <3>1
    <3>4. Inside'
      <4>1. SUFFICES ASSUME job.prog # "taskQueue", NEW r \in Ranks PROVE Within(r)'
        BY <1>3, <2>2 DEF Inside
      <4>2. Within(r) /\ pc[r] \in Nat
        BY <1>5, <4>1 DEF Inside
      <4>3. CASE r = p
        BY <1>4, <2>2, <3>1, <3>2, <3>3, <4>1, <4>2, <4>3 DEF Within
      <4>4. CASE r = q
        BY <2>2, <3>1, <3>2, <3>3, <4>2, <4>4 DEF Within
      <4>5. CASE r # p /\ r # q
        BY <2>2, <3>2, <3>3, <4>2, <4>5 DEF Within
      <4>6. QED
        BY <4>3, <4>4, <4>5
    <3>5. QED
      BY <3>2, <3>3, <3>4
  <2>4. CASE ~msg.sync
    <3>1. pc' = [pc EXCEPT ![p] = @ + 1] /\ phase' = phase
      BY <1>7, <2>4
    <3>2. CASE job.prog = "taskQueue"
      BY <1>3, <1>5, <2>1, <3>1, <3>2 DEF Inside
    <3>3. CASE job.prog # "taskQueue"
      <4>1. pc[p] <= Len(Script(p))
        BY <1>4, <3>3
      <4>2. phase' = [phase EXCEPT ![p] = "run"]
        BY <1>4, <1>5, <3>1
      <4>3. QED
        BY <1>3, <3>1, <4>1, <4>2, WithinNext
    <3>4. QED
      BY <3>2, <3>3
  <2>5. QED
    BY <2>3, <2>4
<1>11. CollectiveTyped' /\ Joined' /\ (chan \in Network(Ranks, Mail(job)))'
  <2>1. Ranks' = Ranks
    BY <1>3, JobSame
  <2>2. CollectiveTyped'
    BY <1>3, <1>5, <1>6, <1>10, <2>1 DEF CollectiveTyped
  <2>3. Joined'
    BY <1>3, <1>5, <1>10, <2>1 DEF Joined
  <2>4. QED
    BY <1>3, <1>8, <2>1, <2>2, <2>3
<1>12. QED
  BY <1>6, <1>9, <1>10, <1>11 DEF Typed

\* Entering a collective.
LEMMA EnterSound ==
    ASSUME OpenJob(job), Typed, NEW p \in Ranks, EnterCollective(p)
    PROVE  Typed'
<1>1. PICK i \in Current(p) :
        /\ i.op \in Collectives
        /\ entered' = [entered EXCEPT ![p] = Append(@, i)]
        /\ phase' = [phase EXCEPT ![p] = "coll"]
  BY DEF EnterCollective
<1>2. job' = job /\ pc' = pc /\ chan' = chan /\ mem' = mem
  BY DEF EnterCollective
<1>3. /\ i \in Legal(job, p) /\ phase[p] = "run"
      /\ job.prog # "taskQueue" => pc[p] \in 1 .. Len(Script(p)) /\ Len(Script(p)) \in Nat
  BY LegalCurrent
<1>4. i \in Joint(job)
  BY <1>1, <1>3, LegalKinds
<1>5. /\ CollectiveTyped /\ CollectiveNetwork /\ chan \in Network(Ranks, Mail(job))
      /\ pc \in [Ranks -> Nat \ {0}] /\ phase \in [Ranks -> {"run", "send", "coll"}]
      /\ entered = [r \in Ranks |-> entered[r]] /\ Memories /\ Joined /\ Inside
  BY DEF Typed, CollectiveTyped
<1>6. /\ phase' \in [Ranks -> {"run", "send", "coll"}] /\ phase'[p] = "coll"
      /\ \A r \in Ranks \ {p} : phase'[r] = phase[r]
  BY <1>1, <1>5
<1>7. /\ entered' = [r \in Ranks |-> entered'[r]] /\ entered'[p] = Append(entered[p], i)
      /\ \A r \in Ranks \ {p} : entered'[r] = entered[r]
  BY <1>1, <1>5
<1>8. Ranks' = Ranks /\ \A r : Script(r)' = Script(r)
  BY <1>2, JobSame
<1>9. Joined'
  <2>1. SUFFICES ASSUME NEW r \in Ranks
                 PROVE  entered'[r] \in Seq(Joint(job)) /\ (phase'[r] = "coll" => entered'[r] # <<>>)
    BY <1>2, <1>8 DEF Joined
  <2>2. CASE r = p
    <3>1. entered[p] \in Seq(Joint(job))
      BY <1>5 DEF Joined
    <3>2. Append(entered[p], i) \in Seq(Joint(job)) /\ Append(entered[p], i) # <<>>
      BY <1>4, <3>1
    <3>3. QED
      BY <1>7, <2>2, <3>2
  <2>3. CASE r # p
    BY <1>5, <1>6, <1>7, <2>3 DEF Joined
  <2>4. QED
    BY <2>2, <2>3
<1>10. Inside'
  <2>1. SUFFICES ASSUME job.prog # "taskQueue", NEW r \in Ranks PROVE Within(r)'
    BY <1>2, <1>8 DEF Inside
  <2>2. Within(r)
    BY <1>5, <2>1 DEF Inside
  <2>3. CASE r = p
    BY <1>2, <1>3, <1>8, <2>1, <2>2, <2>3 DEF Within
  <2>4. CASE r # p
    BY <1>2, <1>6, <1>8, <2>2, <2>4 DEF Within
  <2>5. QED
    BY <2>3, <2>4
<1>11. CollectiveTyped' /\ CollectiveNetwork'
  <2>1. \A a \in Ranks : (phase'[a] = "send") <=> (phase[a] = "send")
    BY <1>3, <1>6
  <2>2. CollectiveNetwork'
    BY <1>2, <1>5, <2>1, NetworkSame
  <2>3. QED
    BY <1>2, <1>5, <1>6, <1>7, <1>8, <2>2 DEF CollectiveTyped
<1>12. Memories' /\ (chan \in Network(Ranks, Mail(job)))'
  BY <1>2, <1>5, <1>8 DEF Memories
<1>13. QED
  BY <1>9, <1>10, <1>11, <1>12 DEF Typed

\* Leaving one: the barrier leaves the memory as it is, and the broadcast stores
\* what the master has entered it with.
LEMMA LeaveSound ==
    ASSUME OpenJob(job), Typed, NEW p \in Ranks, LeaveCollective(p)
    PROVE  Typed'
<1>1. PICK k, i, awaited : /\ k = Len(entered[p]) /\ i = entered[p][k]
                           /\ awaited = Awaited(i, p, job.np)
  OBVIOUS
<1>2. /\ phase[p] = "coll" /\ phase' = [phase EXCEPT ![p] = "run"]
      /\ pc' = [pc EXCEPT ![p] = @ + 1]
      /\ job' = job /\ chan' = chan /\ entered' = entered
  BY DEF LeaveCollective, Step
<1>3. /\ \A q \in awaited : Len(entered[q]) >= k
      /\ mem' = [mem EXCEPT ![p] = Received(i, p, job.np, @, [q \in awaited |-> entered[q][k].val])]
  BY <1>1 DEF LeaveCollective
<1>4. /\ CollectiveTyped /\ CollectiveNetwork /\ chan \in Network(Ranks, Mail(job))
      /\ pc \in [Ranks -> Nat \ {0}] /\ phase \in [Ranks -> {"run", "send", "coll"}]
      /\ entered = [r \in Ranks |-> entered[r]] /\ Memories /\ Joined /\ Inside
  BY DEF Typed, CollectiveTyped
<1>5. k \in Nat \ {0} /\ i \in Joint(job)
  <2>1. entered[p] \in Seq(Joint(job)) /\ entered[p] # <<>>
    BY <1>2, <1>4 DEF Joined
  <2>2. QED
    BY <1>1, <2>1
<1>6. Memories'
  <2>1. PICK m : m = Received(i, p, job.np, mem[p], [q \in awaited |-> entered[q][k].val])
    OBVIOUS
  <2>2. mem' = [mem EXCEPT ![p] = m] /\ Sound(job, mem[p])
    BY <1>3, <1>4, <2>1 DEF Memories
  <2>3. CASE i = Barrier
    <3>1. m = mem[p]
      BY <2>1, <2>3 DEF Received, Barrier
    <3>2. QED
      BY <1>2, <1>4, <2>2, <3>1, OneSound
  <2>4. CASE \E v \in Fitting(job) : i = Bcast("buf", v)
    <3>1. i.op = "bcast" /\ i.var = "buf"
      BY <2>4 DEF Bcast
    <3>2. awaited = {MASTER}
      BY <1>1, <3>1 DEF Awaited
    <3>3. MASTER \in Ranks
      <4>1. job.np \in Nat \ {0}
        BY JobsAssumption DEF OpenJob
      <4>2. QED
        BY <4>1 DEF Ranks, MASTER
    <3>4. entered[MASTER][k] \in Joint(job)
      <4>1. entered[MASTER] \in Seq(Joint(job)) /\ Len(entered[MASTER]) >= k
        BY <1>3, <1>4, <3>2, <3>3 DEF Joined
      <4>2. QED
        BY <1>5, <4>1
    <3>5. entered[MASTER][k].val \in Fitting(job)
      <4>1. \A x \in Joint(job) : x.val = <<>> \/ x.val \in Fitting(job)
        BY DEF Joint, Barrier, Bcast
      <4>2. <<>> \in Fitting(job)
        BY DEF Fitting, ARRAY_SIZE
      <4>3. QED
        BY <3>4, <4>1, <4>2
    <3>6. m = [mem[p] EXCEPT !["buf"] = entered[MASTER][k].val]
      BY <2>1, <3>1, <3>2 DEF Received
    <3>7. Sound(job, m)
      BY <2>2, <3>5, <3>6, SoundStore
    <3>8. QED
      BY <1>2, <1>4, <2>2, <3>7, OneSound
  <2>5. QED
    BY <1>5, <2>3, <2>4 DEF Joint
<1>7. pc' \in [Ranks -> Nat \ {0}] /\ phase' \in [Ranks -> {"run", "send", "coll"}] /\ Inside'
  <2>1. CASE job.prog = "taskQueue"
    <3>1. pc[p] + 1 \in Nat \ {0}
      BY <1>4
    <3>2. QED
      BY <1>2, <1>4, <2>1, <3>1 DEF Inside
  <2>2. CASE job.prog # "taskQueue"
    <3>1. pc[p] <= Len(Script(p))
      BY <1>2, <1>4, <2>2 DEF Inside, Within
    <3>2. QED
      BY <1>2, <3>1, WithinNext
  <2>3. QED
    BY <2>1, <2>2
<1>8. \A r \in Ranks : phase'[r] = IF r = p THEN "run" ELSE phase[r]
  BY <1>2, <1>4
<1>9. Ranks' = Ranks
  BY <1>2, JobSame
<1>10. CollectiveTyped' /\ CollectiveNetwork'
  <2>1. \A a \in Ranks : (phase'[a] = "send") <=> (phase[a] = "send")
    BY <1>2, <1>8
  <2>2. CollectiveNetwork'
    BY <1>2, <1>4, <2>1, NetworkSame
  <2>3. QED
    BY <1>2, <1>4, <1>7, <1>9, <2>2 DEF CollectiveTyped
<1>11. Joined' /\ (chan \in Network(Ranks, Mail(job)))'
  BY <1>2, <1>4, <1>8, <1>9 DEF Joined
<1>12. QED
  BY <1>6, <1>7, <1>10, <1>11 DEF Typed

\* Every step keeps the types.
LEMMA TypeSteps == TypeInv /\ [Next]_vars => TypeInv'
<1> SUFFICES ASSUME TypeInv, [Next]_vars, OpenJob(job) PROVE Typed'
  <2>1. [Next]_vars => job' = job
    BY JobFixed
  <2>2. QED
    BY <2>1 DEF TypeInv
<1>1. Typed
  BY DEF TypeInv
<1>2. ASSUME NEW p \in Ranks,
             \/ Local(p)           \/ AbortJob(p)
             \/ SendMessage(p)     \/ Receive(p)
             \/ EnterCollective(p) \/ LeaveCollective(p)
      PROVE  Typed'
  <2>1. CASE AbortJob(p)
    <3>1. /\ job' = job /\ pc' = pc /\ phase' = phase /\ mem' = mem /\ chan' = chan
          /\ entered' = entered
      BY <2>1 DEF AbortJob
    <3>2. QED
      BY <1>1, <3>1, JobSame, NetworkSame
         DEF Typed, Memories, Joined, Inside, Within, CollectiveTyped
  <2>2. QED
    BY <1>1, <1>2, <2>1, LocalSound, SendSound, ReceiveSound, EnterSound, LeaveSound
<1>3. CASE UNCHANGED vars
  <2>1. /\ job' = job /\ pc' = pc /\ phase' = phase /\ mem' = mem /\ chan' = chan
        /\ entered' = entered
    BY <1>3 DEF vars
  <2>2. QED
    BY <1>1, <2>1, JobSame, NetworkSame
       DEF Typed, Memories, Joined, Inside, Within, CollectiveTyped
<1>4. QED
  BY <1>2, <1>3 DEF Next

\* At first everything is typed.
LEMMA TypeStarts == Init => TypeInv
<1> SUFFICES ASSUME Init, OpenJob(job) PROVE Typed
  BY DEF TypeInv
<1>1. /\ job \in Jobs
      /\ pc = [p \in Ranks |-> 1] /\ phase = [p \in Ranks |-> "run"]
      /\ mem = [p \in Ranks |-> Blank]
      /\ chan = [p \in Ranks |-> [q \in Ranks |-> <<>>]]
      /\ entered = [p \in Ranks |-> <<>>]
  BY DEF Init
<1>2. CollectiveTyped /\ chan \in Network(Ranks, Mail(job))
  <2>1. chan \in [Ranks -> [Ranks -> Seq(Letter)]] /\ chan \in [Ranks -> [Ranks -> Seq(Mail(job))]]
    BY <1>1
  <2>2. entered = [p \in Ranks |-> entered[p]]
    BY <1>1
  <2>3. QED
    BY <1>1, <2>1, <2>2 DEF CollectiveTyped, Network
<1>3. CollectiveNetwork
  <2>1. \A p, q \in Ranks : DOMAIN chan[p][q] = {}
    BY <1>1
  <2>2. \A X : Chosen(chan, Ranks, X) = {}
    BY <2>1, ChosenAre
  <2>3. QED
    BY <1>1, <2>2 DEF CollectiveNetwork
<1>4. Memories
  BY <1>1, SoundBlank DEF Memories
<1>5. Joined
  BY <1>1 DEF Joined
<1>6. Inside
  <2>1. SUFFICES ASSUME job.prog # "taskQueue", NEW p \in Ranks PROVE Within(p)
    BY DEF Inside
  <2>2. Len(Script(p)) \in Nat
    BY <1>1, <2>1, SameLength, SoundBlank DEF Script, Ranks
  <2>3. QED
    BY <1>1, <2>2 DEF Within
<1>7. QED
  BY <1>2, <1>3, <1>4, <1>5, <1>6 DEF Typed
-----------------------------------------------------------------------------
(* The types of the programs made of key instructions.                     *)

\* A memory as the key instructions leave it.
Bounded(j, b, q) == (Len(b) <= 8 \/ j.lang = "Python") /\ Len(q) <= 8
Tidy(j, m) == \E b, q, a : m = Store(b, q, a) /\ Bounded(j, b, q)

\* What the collectives store keeps to the bounds of the arrays.
LEMMA StoresTidy ==
    ASSUME NEW j, KeyJob(j), NEW p \in 0 .. j.np - 1, NEW i \in 0 .. Count(j)
    PROVE  Tidy(j, After(j, p, i))
<1>1. PICK n \in Nat \ {0} : n = j.np /\ p \in 0 .. n - 1
  BY KeyLanguages
<1>2. \A b, q, a : Bounded(j, b, q) => Tidy(j, Store(b, q, a))
  BY DEF Tidy
<1>3. /\ Len(Empty) = 8 /\ Len(<<>>) = 0 /\ Len(Fill(ARRAY_SIZE)) = 8
      /\ \A a : Len(<< a >>) = 1
  BY DEF Empty, Zeros, Fill, ARRAY_SIZE
<1>e. Len(Empty) <= 8
  BY DEF Empty, Zeros, ARRAY_SIZE
<1>b. /\ Bounded(j, Empty, <<>>) /\ \A q : Len(q) <= 8 => Bounded(j, Empty, q)
      /\ \A b : Len(b) <= 8 \/ j.lang = "Python" => Bounded(j, b, <<>>)
  BY <1>3 DEF Bounded
<1>4. Tidy(j, After(j, p, 0))
  BY <1>2, <1>b, FirstStore, Zenon
<1>5. CASE j.prog = "reduction"
  <2>1. PICK a, b, c, s : /\ Stores(j, p) = << Store(Empty, <<>>, <<>>), Store(a, <<>>, <<>>),
                                               Store(a, <<>>, b) >>
                          /\ a = AtMaster(p, << s >>, Empty) /\ c = b
    BY <1>5, KeysAre, ZenonT(60) DEF ReductionStores
  <2>2. Count(j) = 2
    BY <1>5, KeysAre DEF ReductionOps, Count
  <2>3. Len(a) <= 8
    <3>1. CASE a = << s >>
      BY <1>3, <3>1
    <3>2. CASE a = Empty
      BY <1>e, <3>2
    <3>3. QED
      BY <2>1, <3>1, <3>2 DEF AtMaster
  <2>4. After(j, p, 1) = Store(a, <<>>, <<>>) /\ After(j, p, 2) = Store(a, <<>>, b)
    BY <2>1 DEF After
  <2>5. Tidy(j, After(j, p, 1)) /\ Tidy(j, After(j, p, 2))
    BY <1>2, <1>b, <2>3, <2>4, Zenon
  <2>6. QED
    BY <1>4, <2>2, <2>5
<1>6. CASE j.prog = "reduction2"
  <2>1. CASE j.lang = "Python"
    <3>1. PICK a, b : Stores(j, p) = << Store(Empty, <<>>, <<>>), Store(Empty, <<>>, a),
                                        Store(b, <<>>, a) >>
      BY <1>6, <2>1, KeysAre DEF ArraysStores
    <3>2. Count(j) = 2
      BY <1>6, <2>1, KeysAre DEF ArraysOps, Count
    <3>3. After(j, p, 1) = Store(Empty, <<>>, a) /\ After(j, p, 2) = Store(b, <<>>, a)
      BY <3>1 DEF After
    <3>4. Tidy(j, After(j, p, 1)) /\ Tidy(j, After(j, p, 2))
      BY <1>2, <1>b, <2>1, <3>3, Zenon
    <3>5. QED
      BY <1>4, <3>2, <3>4
  <2>2. CASE j.lang # "Python"
    <3>1. PICK a : Stores(j, p) = << Store(Empty, <<>>, <<>>), Store(Empty, <<>>, a) >>
      BY <1>6, <2>2, KeysAre DEF ArraysStores
    <3>2. Count(j) = 1
      BY <1>6, <2>2, KeysAre DEF ArraysOps, Count
    <3>3. After(j, p, 1) = Store(Empty, <<>>, a)
      BY <3>1 DEF After
    <3>4. Tidy(j, After(j, p, 1))
      BY <1>2, <1>b, <3>3, Zenon
    <3>5. QED
      BY <1>4, <3>2, <3>4
  <2>3. QED
    BY <2>1, <2>2
<1>7. CASE j.prog \in {"reduceTiming", "gather"}
  <2>1. \E a : Stores(j, p) = << Store(Empty, <<>>, <<>>), Store(Empty, <<>>, a) >>
    <3>1. CASE j.prog = "reduceTiming"
      <4>1. PICK x : x = AtMaster(p, << IF j.lang = "C" THEN 1 ELSE 1000 * j.np >>, <<>>)
        OBVIOUS
      <4>2. TimingStores(j, p) = << Store(Empty, <<>>, <<>>), Store(Empty, <<>>, x) >>
        BY <4>1 DEF TimingStores
      <4>3. Stores(j, p) = TimingStores(j, p)
        BY <3>1, KeysAre
      <4>4. QED
        BY <4>2, <4>3
    <3>2. CASE j.prog = "gather"
      BY <3>2, KeysAre DEF GatherStores
    <3>3. QED
      BY <1>7, <3>1, <3>2
  <2>2. PICK a : Stores(j, p) = << Store(Empty, <<>>, <<>>), Store(Empty, <<>>, a) >>
    BY <2>1
  <2>3. Count(j) = 1
    <3>1. CASE j.prog = "reduceTiming"
      <4>1. Ops(j) = << "max" >> \/ Ops(j) = << "sum" >>
        BY <3>1, KeysAre DEF TimingOps
      <4>2. QED
        BY <4>1 DEF Count
    <3>2. CASE j.prog = "gather"
      BY <3>2, KeysAre DEF GatherOps, Count
    <3>3. QED
      BY <1>7, <3>1, <3>2
  <2>4. After(j, p, 1) = Store(Empty, <<>>, a)
    BY <2>2 DEF After
  <2>5. Tidy(j, After(j, p, 1))
    BY <1>2, <1>b, <2>4, Zenon
  <2>6. QED
    BY <1>4, <2>3, <2>5
<1>8. CASE j.prog = "scatter"
  <2>1. Count(j) <= 1 /\ Count(j) \in Nat
    <3>1. CASE Ops(j) = <<>>
      BY <3>1 DEF Count
    <3>2. CASE Ops(j) = << "scatter" >>
      BY <3>2 DEF Count
    <3>3. QED
      BY <1>8, <3>1, <3>2, KeysAre DEF ScatterOps
  <2>2. After(j, p, 1) = Store(Empty, Part(j, p), <<>>)
    BY <1>8, KeysAre DEF ScatterStores, After
  <2>3. Len(Part(j, p)) <= 8
    <3>1. CASE j.lang = "Python"
      BY <3>1 DEF Part
    <3>2. CASE j.lang # "Python"
      <4>1. 8 \div n \in Nat /\ 8 \div n <= 8
        <5>1. PICK h \in Nat : h = 8
          OBVIOUS
        <5>2. h \div n \in Nat /\ h % n \in 0 .. n - 1 /\ h = n * (h \div n) + (h % n)
          BY DivMod
        <5>3. PICK d \in Nat, r \in Nat : d = h \div n /\ h = n * d + r
          BY <5>2
        <5>4. 1 * d <= n * d
          BY <5>3, ProductMonotone
        <5>5. QED
          BY <5>1, <5>3, <5>4
      <4>2. PICK d \in Nat : d = 8 \div n
        BY <4>1
      <4>3. Part(j, p) = [k \in 1 .. d |-> Elevens[p * d + k]]
        BY <1>1, <3>2, <4>2 DEF Part, Piece
      <4>4. Len(Part(j, p)) = d
        BY <4>3
      <4>5. QED
        BY <4>1, <4>2, <4>4
    <3>3. QED
      BY <3>1, <3>2
  <2>4. Tidy(j, After(j, p, 1))
    BY <1>2, <1>b, <2>2, <2>3, Zenon
  <2>5. QED
    BY <1>4, <2>1, <2>4
<1>9. CASE j.prog = "scatterGather"
  <2>1. PICK a : Stores(j, p) = << Store(Empty, <<>>, <<>>), Store(Empty, Triple(p), <<>>),
                                   Store(Empty, Triple(p), a) >>
    BY <1>9, KeysAre DEF BothStores
  <2>2. Count(j) = 2
    BY <1>9, KeysAre DEF BothOps, Count
  <2>3. After(j, p, 1) = Store(Empty, Triple(p), <<>>) /\ After(j, p, 2) = Store(Empty, Triple(p), a)
    BY <2>1 DEF After
  <2>4. Len(Triple(p)) <= 8
    BY DEF Triple
  <2>5. Tidy(j, After(j, p, 1)) /\ Tidy(j, After(j, p, 2))
    BY <1>2, <1>b, <2>3, <2>4, Zenon
  <2>6. QED
    BY <1>4, <2>2, <2>5
<1>10. CASE j.prog \in Doublers
  <2>1. CASE Refused(j)
    <3>1. Count(j) = 0
      BY <1>10, <2>1, KeysAre DEF DoublerOps, Count
    <3>2. QED
      BY <1>4, <3>1
  <2>2. CASE ~Refused(j)
    <3>1. Count(j) = 3
      BY <1>10, <2>2, KeysAre DEF DoublerOps, Count
    <3>2. PICK d, x, y : d = PieceOf(j, p) /\ x = (IF Loop(j) THEN Fill(ARRAY_SIZE) ELSE Empty)
                         /\ y = (IF Loop(j) THEN <<>> ELSE d)
      OBVIOUS
    <3>3. PICK e : e = Doubled(d)
      OBVIOUS
    <3>4. PICK t : Stores(j, p) = << Store(Empty, <<>>, <<>>), Store(x, y, <<>>),
                                     Store(x, e, <<>>), Store(x, e, t) >>
      BY <1>10, <3>2, <3>3, KeysAre DEF DoublerStores
    <3>5. SizeOf(j, p) \in Nat /\ SizeOf(j, p) <= 8
      <4>1. PICK o \in [0 .. n -> Nat] :
              \A q \in 0 .. n - 1 : /\ StartOf(j, q) = o[q] /\ SizeOf(j, q) \in Nat
                                    /\ o[q + 1] = o[q] + SizeOf(j, q) /\ o[q + 1] <= 8
        BY <1>1, <1>10, <2>2, PiecesAre
      <4>2. o[p] \in Nat /\ SizeOf(j, p) \in Nat /\ o[p + 1] = o[p] + SizeOf(j, p) /\ o[p + 1] <= 8
        <5>1. p \in 0 .. n /\ p + 1 \in 0 .. n
          BY <1>1
        <5>2. o[p] \in Nat /\ o[p + 1] \in Nat
          BY <5>1
        <5>3. QED
          BY <1>1, <4>1, <5>2
      <4>3. QED
        BY <4>2
    <3>6. PICK s \in Nat : s = SizeOf(j, p) /\ s <= 8
      BY <3>5
    <3>7. Len(d) = s
      BY <3>2, <3>6 DEF PieceOf, Piece
    <3>8. Len(e) = s
      BY <3>3, <3>6, <3>7 DEF Doubled
    <3>9. Len(x) = 8 /\ Len(y) <= 8
      BY <1>3, <3>2, <3>6, <3>7
    <3>10. /\ After(j, p, 1) = Store(x, y, <<>>) /\ After(j, p, 2) = Store(x, e, <<>>)
           /\ After(j, p, 3) = Store(x, e, t)
      BY <3>4 DEF After
    <3>11. Bounded(j, x, y) /\ Bounded(j, x, e)
      BY <3>6, <3>8, <3>9 DEF Bounded
    <3>12. Tidy(j, After(j, p, 1)) /\ Tidy(j, After(j, p, 2)) /\ Tidy(j, After(j, p, 3))
      BY <1>2, <3>10, <3>11
    <3>13. QED
      BY <1>4, <3>1, <3>12
  <2>3. QED
    BY <2>1, <2>2
<1>11. QED
  BY <1>5, <1>6, <1>7, <1>8, <1>9, <1>10 DEF KeyJob, KeyProgs, Doublers

\* No process passes more key instructions than there are.
LEMMA CourseBounded ==
    ASSUME NEW j, KeyJob(j), NEW p, NEW m, NEW k \in 0 .. Len(Text(j, p, m))
    PROVE  KeyCourse(j, p)[k] \in 0 .. Count(j)
<1>1. PICK x, c, K : x = Text(j, p, m) /\ c = KeyCourse(j, p) /\ K = Keys(j, p, m)
  OBVIOUS
<1>2. Keyed(x, K, c) /\ Len(x) \in Nat /\ c[0] = 0 /\ DOMAIN K = 1 .. Count(j)
  BY <1>1, CourseIs, KeysLength
<1>3. Count(j) \in Nat
  <2>1. c[Len(x)] = Count(j)
    BY <1>1, CourseIs
  <2>2. QED
    BY <1>2, <2>1 DEF Keyed
<1>4. PICK l \in Nat : l = Len(x)
  BY <1>2
<1>5. PICK T : T = { h \in 0 .. l : c[h] \in 0 .. Count(j) }
  OBVIOUS
<1>6. 0 \in T
  BY <1>2, <1>3, <1>5
<1>7. ASSUME NEW h \in 1 .. l, h - 1 \in T PROVE h \in T
  <2>1. Counts(x[h], K, c[h - 1], c[h])
    BY <1>2, <1>4 DEF Keyed
  <2>2. c[h - 1] \in 0 .. Count(j)
    BY <1>5, <1>7
  <2>3. c[h] \in 0 .. Count(j)
    BY <1>2, <1>3, <2>1, <2>2 DEF Counts
  <2>4. QED
    BY <1>5, <2>3
<1>8. \A h \in 0 .. l : h \in T
  BY <1>6, <1>7, Upwards
<1>9. QED
  BY <1>1, <1>4, <1>5, <1>8

\* So the memory of a process is as the key instructions leave it.
LEMMA StandsTidy ==
    ASSUME KeyJob(job), NEW p \in Ranks, Stands(p)
    PROVE  /\ Tidy(job, mem[p])
           /\ pc[p] \in 1 .. Len(Code(p)) + 1
           /\ phase[p] = "coll" => Len(entered[p]) > 0
<1>1. PICK j, m, k, e : j = job /\ m = mem[p] /\ k = pc[p] /\ e = entered[p]
  OBVIOUS
<1>2. p \in 0 .. j.np - 1 /\ KeyJob(j) /\ Standing(j, p, k, phase[p], m, e)
  BY <1>1 DEF Ranks, Stands
<1>3. Code(p) = Text(j, p, m)
  BY <1>1 DEF Code, Text
<1>4. k \in 1 .. Len(Text(j, p, m)) + 1 /\ Len(Text(j, p, m)) \in Nat
  BY <1>2, CourseIs DEF Standing
<1>5. k - 1 \in 0 .. Len(Text(j, p, m))
  BY <1>4
<1>6. KeyCourse(j, p)[k - 1] \in 0 .. Count(j)
  BY <1>2, <1>5, CourseBounded
<1>7. Tidy(j, m)
  <2>1. m = After(j, p, KeyCourse(j, p)[k - 1])
    BY <1>2 DEF Standing
  <2>2. QED
    BY <1>2, <1>6, <2>1, StoresTidy
<1>8. phase[p] = "coll" => Len(e) > 0
  <2>1. PICK U : e \in Seq(U)
    BY <1>2 DEF Standing, Sequence
  <2>2. phase[p] = "coll" => e # <<>>
    BY <1>2 DEF Standing
  <2>3. QED
    BY <2>1, <2>2
<1>9. QED
  BY <1>1, <1>3, <1>4, <1>7, <1>8

\* The state of these programs is typed.
LEMMA KeysTyped ==
    ASSUME KeyJob(job), KeyInv, aborted \in BOOLEAN
    PROVE  TypeOK
<1>1. KeyTyped /\ \A p \in Ranks : Stands(p)
  BY DEF KeyInv
<1>2. /\ job \in Jobs /\ ~Is({"ring", "ringAlt"})
  BY DEF KeyJob, KeyProgs, Is
<1>3. ASSUME NEW p \in Ranks
      PROVE  /\ pc[p] \in 1 .. Len(Code(p)) + 1
             /\ phase[p] \in {"run", "coll"}
             /\ mem[p].src = AnySource /\ mem[p].tag = AnyTag
             /\ Len(mem[p].buf) <= ARRAY_SIZE \/ job.lang = "Python"
             /\ Len(mem[p].part) <= ARRAY_SIZE
             /\ phase[p] = "coll" => Len(entered[p]) > 0
  <2>1. /\ Tidy(job, mem[p]) /\ pc[p] \in 1 .. Len(Code(p)) + 1
        /\ phase[p] = "coll" => Len(entered[p]) > 0
    BY <1>1, StandsTidy
  <2>2. PICK b, q, a : mem[p] = Store(b, q, a) /\ Bounded(job, b, q)
    BY <2>1 DEF Tidy
  <2>3. /\ mem[p].buf = b /\ mem[p].part = q
        /\ mem[p].src = AnySource /\ mem[p].tag = AnyTag
    BY <2>2 DEF Store
  <2>4. (Len(b) <= ARRAY_SIZE \/ job.lang = "Python") /\ Len(q) <= ARRAY_SIZE
    BY <2>2 DEF Bounded, ARRAY_SIZE
  <2>5. phase[p] \in {"run", "coll"}
    BY <1>1 DEF KeyTyped
  <2>6. QED
    BY <2>1, <2>3, <2>4, <2>5
<1>4. QED
  BY <1>2, <1>3 DEF TypeOK
-----------------------------------------------------------------------------
(* The types of the other programs, and of them all.                       *)

\* A message around the ring has as many values as it has seen processes.
LEMMA RingWithin ==
    ASSUME OnceInv, job \in Jobs, job.prog \in Rings, NEW p \in Ranks
    PROVE  Len(mem[p].part) <= job.np
<1>1. OnceJob /\ job.np \in Nat \ {0} /\ ~Alone(job)
  BY JobsAssumption DEF OnceJob, OnceProgs, Alone, Rings
<1>2. Len(<<>>) <= job.np
  BY <1>1
<1>3. CASE Idle(job)
  <2>1. mem[p].part = <<>>
    BY <1>1, <1>3 DEF OnceInv
  <2>2. QED
    BY <1>2, <2>1
<1>4. CASE Paired(job)
  <2>1. OneMessage(p)
    BY <1>1, <1>4 DEF OnceInv
  <2>2. CASE mem[p].part = <<>>
    BY <1>2, <2>2
  <2>3. CASE mem[p].part = What(job, From(job, p))
    <3>1. PICK q \in 0 .. job.np - 1 : q = From(job, p)
      BY <1>1, <1>4, Peers DEF OnceJob, Ranks
    <3>2. mem[p].part = [k \in 1 .. q + 1 |-> k - 1]
      BY <2>3, <3>1 DEF What
    <3>3. q + 1 \in Nat /\ q + 1 <= job.np
      BY <1>1, <3>1
    <3>4. Len(mem[p].part) = q + 1
      BY <3>2, <3>3
    <3>5. QED
      BY <3>3, <3>4
  <2>4. QED
    BY <2>1, <2>2, <2>3 DEF OneMessage
<1>5. QED
  BY <1>1, <1>3, <1>4 DEF Idle

\* The processes of a task queue are within their programs: a worker that has been
\* told to stop is at its end.
LEMMA TaskWithin ==
    ASSUME QueueInv, TaskJob, NEW p \in Ranks
    PROVE  pc[p] \in 1 .. Len(Code(p)) + 1
<1>1. TaskInv /\ Queues /\ job \in Jobs /\ TaskTyped /\ TaskControl
  BY DEF QueueInv, TaskInv
<1>2. job.np \in Nat \ {0} /\ pc[p] \in Nat \ {0}
  BY <1>1, TaskCode DEF TaskTyped
<1>3. CASE p = MASTER
  <2>1. PICK recvTag : Code(MASTER) = HandOut(job.np, mem[MASTER], WorkTag, recvTag, DoneTag)
    BY <1>1, TaskCode
  <2>2. Len(Code(MASTER)) = 9 * (job.np - 1)
    BY <1>2, <2>1, HandOutShape
  <2>3. pc[MASTER] <= 9 * (job.np - 1) + 1
    BY <1>1 DEF TaskControl
  <2>4. QED
    BY <1>2, <1>3, <2>2, <2>3
<1>4. CASE p # MASTER
  <2>1. WorkerQueue(p)
    BY <1>1, <1>4 DEF Queues
  <2>2. pc[p] \in {1, 2, 3} /\ (pc[p] = 3 => mem[p].tag # DoneTag)
    BY <2>1 DEF WorkerQueue
  <2>3. PICK replyTag \in Int : Code(p) = Serve(mem[p], replyTag, DoneTag)
    BY <1>1, <1>4, TaskCode
  <2>4. Len(Code(p)) = 3 \/ Len(Code(p)) = 1
    <3>1. CASE mem[p].tag = DoneTag
      BY <2>3, <3>1 DEF Serve
    <3>2. CASE mem[p].tag # DoneTag
      BY <1>1, <1>4, <3>2, WorkerLength
    <3>3. QED
      BY <3>1, <3>2
  <2>5. CASE Len(Code(p)) = 3
    BY <2>2, <2>5
  <2>6. CASE Len(Code(p)) = 1
    <3>1. pc[p] # 3
      BY <1>1, <1>4, <2>2, <2>6, WorkerLength
    <3>2. QED
      BY <2>2, <2>6, <3>1
  <2>7. QED
    BY <2>4, <2>5, <2>6
<1>5. QED
  BY <1>3, <1>4

\* The state of the programs that are not made of key instructions alone is typed.
LEMMA OpenTyped ==
    ASSUME OpenJob(job), TypeInv, OnceInv, QueueInv, aborted \in BOOLEAN
    PROVE  TypeOK
<1>1. Typed /\ job \in Jobs
  BY DEF TypeInv, OpenJob
<1>2. ASSUME NEW p \in Ranks PROVE pc[p] \in 1 .. Len(Code(p)) + 1
  <2>1. CASE job.prog = "taskQueue"
    BY <2>1, TaskWithin DEF TaskJob
  <2>2. CASE job.prog # "taskQueue"
    <3>1. Within(p) /\ Sound(job, mem[p])
      BY <1>1, <2>2 DEF Typed, Inside, Memories
    <3>2. Code(p) = Text(job, p, mem[p]) /\ p \in 0 .. job.np - 1
      BY DEF Code, Text, Ranks
    <3>3. Len(Text(job, p, mem[p])) = Len(Script(p))
      BY <2>2, <3>1, <3>2, SameLength DEF Script
    <3>4. QED
      BY <3>1, <3>2, <3>3 DEF Within
  <2>3. QED
    BY <2>1, <2>2
<1>3. ASSUME NEW p \in Ranks
      PROVE  /\ mem[p].src \in Ranks \cup {AnySource} /\ mem[p].tag \in {AnyTag, 0, 1, 2}
             /\ Len(mem[p].buf) <= ARRAY_SIZE \/ job.lang = "Python"
             /\ Len(mem[p].part) <= IF Is({"ring", "ringAlt"}) THEN job.np ELSE ARRAY_SIZE
  <2>1. Sound(job, mem[p])
    BY <1>1 DEF Typed, Memories
  <2>2. /\ mem[p].src \in Ranks \cup {AnySource} /\ mem[p].tag \in {AnyTag, 0, 1, 2}
    BY <2>1 DEF Sound, Ranks
  <2>3. Len(mem[p].buf) <= ARRAY_SIZE \/ job.lang = "Python"
    BY <2>1 DEF Sound, Fitting
  <2>4. CASE job.prog \in Rings
    BY <1>1, <2>2, <2>3, <2>4, RingWithin DEF Is, Rings
  <2>5. CASE job.prog \notin Rings
    <3>1. Len(mem[p].part) <= ARRAY_SIZE
      BY <2>1, <2>5 DEF Sound, Values
    <3>2. QED
      BY <2>2, <2>3, <2>5, <3>1 DEF Is, Rings
  <2>6. QED
    BY <2>4, <2>5
<1>4. ASSUME NEW p \in Ranks
      PROVE  /\ phase[p] \in {"run", "send", "coll"}
             /\ phase[p] = "coll" => Len(entered[p]) > 0
  <2>1. phase[p] \in {"run", "send", "coll"}
    BY <1>1 DEF Typed, CollectiveTyped
  <2>2. entered[p] \in Seq(Joint(job)) /\ (phase[p] = "coll" => entered[p] # <<>>)
    BY <1>1 DEF Typed, Joined
  <2>3. QED
    BY <2>1, <2>2
<1>5. ASSUME NEW p \in Ranks, phase[p] = "send"
      PROVE  \E q \in Ranks : \E k \in DOMAIN chan[p][q] : chan[p][q][k].sync
  <2>1. Singleton(Chosen(chan, Ranks, LettersOf(p)))
    BY <1>1, <1>5 DEF Typed, CollectiveNetwork
  <2>2. PICK x : x \in Chosen(chan, Ranks, LettersOf(p))
    BY <2>1 DEF Singleton
  <2>3. \E a, q \in Ranks : \E k \in DOMAIN chan[a][q] : chan[a][q][k] \in LettersOf(p)[a]
    BY <2>2, ChosenAre
  <2>4. PICK a \in Ranks, q \in Ranks :
          \E k \in DOMAIN chan[a][q] : chan[a][q][k] \in LettersOf(p)[a]
    BY <2>3
  <2>5. PICK k \in DOMAIN chan[a][q] : chan[a][q][k] \in LettersOf(p)[a]
    BY <2>4
  <2>6. a = p /\ chan[a][q][k].sync
    BY <2>5 DEF LettersOf
  <2>7. QED
    BY <2>6
<1>6. QED
  BY <1>1, <1>2, <1>3, <1>4, <1>5 DEF TypeOK

\* Of a job it is only ever said that it was aborted, or not.
LEMMA AbortedTyped == aborted \in BOOLEAN /\ [Next]_vars => (aborted \in BOOLEAN)'
<1> SUFFICES ASSUME aborted \in BOOLEAN, [Next]_vars PROVE aborted' \in BOOLEAN
  OBVIOUS
<1>1. CASE UNCHANGED vars
  BY <1>1 DEF vars
<1>2. ASSUME NEW p \in Ranks,
             \/ Local(p)           \/ AbortJob(p)
             \/ SendMessage(p)     \/ Receive(p)
             \/ EnterCollective(p) \/ LeaveCollective(p)
      PROVE  aborted' = aborted \/ aborted' = TRUE
  BY <1>2 DEF Local, AbortJob, SendMessage, Receive, EnterCollective, LeaveCollective
<1>3. QED
  BY <1>1, <1>2 DEF Next

\* Every state of every job, in every language and with any number of processes, is
\* one the programs can be in: each process is within its program or at its end, a
\* status names a sender and a tag, arrays stay within their bounds and the ring's
\* message within the number of processes, a process that waits in a synchronous
\* send has a message under way, and one in a collective has entered it.
THEOREM TypesHold == Spec => []TypeOK
<1>1. Init => /\ TypeInv /\ KeyInv /\ StageInv /\ OnceInv /\ QueueInv
              /\ aborted \in BOOLEAN /\ job \in Jobs
  BY TypeStarts, KeyStarts, StageStarts, OnceStarts, QueueStarts DEF Init
<1>2. Spec => []TypeInv
  BY TypeSteps, TypeStarts, PTL DEF Spec
<1>3. Spec => [](KeyInv /\ StageInv)
  BY <1>1, KeySteps, StageSteps, PTL DEF Spec
<1>4. Spec => []OnceInv
  BY OnceSteps, OnceStarts, PTL DEF Spec
<1>5. Spec => []QueueInv
  BY QueueSteps, QueueStarts, PTL DEF Spec
<1>6. Spec => [](aborted \in BOOLEAN)
  BY <1>1, AbortedTyped, PTL DEF Spec
<1>7. Spec => [](job \in Jobs)
  <2>1. job \in Jobs /\ [Next]_vars => (job \in Jobs)'
    BY JobFixed
  <2>2. QED
    BY <1>1, <2>1, PTL DEF Spec
<1>8. TypeInv /\ KeyInv /\ OnceInv /\ QueueInv /\ aborted \in BOOLEAN /\ job \in Jobs => TypeOK
  BY KeysTyped, OpenTyped DEF KeyJob, OpenJob
<1>9. QED
  BY <1>2, <1>3, <1>4, <1>5, <1>6, <1>7, <1>8, PTL
=============================================================================
