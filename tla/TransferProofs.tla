--------------------------- MODULE TransferProofs ---------------------------
(***************************************************************************)
(* Proofs about Transfer: whatever wiiload sends, however often it is      *)
(* started, and wherever the line is cut or flushed, what the channel      *)
(* takes for a program is what one client sent.                            *)
(***************************************************************************)
EXTENDS Transfer, SequenceTheorems, WellFoundedInduction, TLAPS

---------------------------------------------------------------------------
(* The lengths.                                                            *)

\* pos is what the loop over the first n arguments makes of them.
Loop(argv, n, pos) == pos = [i \in 0..n |-> IF i = 0 THEN 0 ELSE pos[i - 1] + argv[i] + 1]

\* A set of numbers is empty or has a least one.
LEMMA Least ==
    ASSUME NEW T \in SUBSET Nat, T # {}
    PROVE  \E n \in T : \A m \in Nat : m < n => m \notin T
<1>1. PICK n \in T : \A m \in T : ~(<<m, n>> \in OpToRel(<, Nat))
  BY WFMin, NatLessThanWellFounded
<1>2. ASSUME NEW m \in Nat, m < n PROVE m \notin T
  BY <1>1, <1>2 DEF OpToRel
<1> QED
  BY <1>2

\* One more argument.
LEMMA LoopOnce ==
    ASSUME NEW argv \in Seq(Nat), NEW n \in Nat, n < Len(argv),
           NEW pos \in [0..n -> Nat], Loop(argv, n, pos)
    PROVE  \E next \in [0..(n + 1) -> Nat] : Loop(argv, n + 1, next)
<1> DEFINE next == [i \in 0..(n + 1) |-> IF i = n + 1 THEN pos[n] + argv[n + 1] + 1 ELSE pos[i]]
<1>1. argv[n + 1] \in Nat /\ pos[n] \in Nat
  OBVIOUS
<1>2. next \in [0..(n + 1) -> Nat]
  BY <1>1
<1>3. ASSUME NEW i \in 0..(n + 1)
      PROVE  next[i] = IF i = 0 THEN 0 ELSE next[i - 1] + argv[i] + 1
  <2>1. CASE i = n + 1
    BY <2>1
  <2>2. CASE i \in 0..n
    <3>1. next[i] = pos[i] /\ (i # 0 => next[i - 1] = pos[i - 1])
      BY <2>2
    <3>2. pos[i] = IF i = 0 THEN 0 ELSE pos[i - 1] + argv[i] + 1
      BY <2>2 DEF Loop
    <3> QED
      BY <3>1, <3>2
  <2> QED
    BY <2>1, <2>2
<1>4. Loop(argv, n + 1, next)
  BY <1>3 DEF Loop
<1> HIDE DEF next
<1> QED
  BY <1>2, <1>4

\* The loop has a result, for every number of arguments.
LEMMA LoopEnds ==
    ASSUME NEW argv \in Seq(Nat)
    PROVE  \E pos \in [0..Len(argv) -> Nat] : Loop(argv, Len(argv), pos)
<1> DEFINE Fails == {n \in 0..Len(argv) : ~\E pos \in [0..n -> Nat] : Loop(argv, n, pos)}
<1>1. Len(argv) \in Nat /\ Fails \subseteq Nat
  OBVIOUS
<1>2. CASE Fails = {}
  BY <1>1, <1>2
<1>3. CASE Fails # {}
  <2> HIDE DEF Fails
  <2>1. PICK n \in Fails : \A m \in Nat : m < n => m \notin Fails
    BY <1>1, <1>3, Least
  <2>2. CASE n = 0
    <3>1. [i \in 0..0 |-> 0] \in [0..0 -> Nat] /\ Loop(argv, 0, [i \in 0..0 |-> 0])
      BY DEF Loop
    <3> QED
      BY <2>1, <2>2, <3>1 DEF Fails
  <2>3. CASE n # 0
    <3>0. n \in 0..Len(argv)
      BY <2>1 DEF Fails
    <3>1. n - 1 \in Nat /\ n - 1 < Len(argv) /\ n - 1 \notin Fails /\ n - 1 \in 0..Len(argv)
      BY <1>1, <2>1, <2>3, <3>0
    <3>2. PICK pos \in [0..(n - 1) -> Nat] : Loop(argv, n - 1, pos)
      BY <3>1 DEF Fails
    <3>3. \E next \in [0..(n - 1 + 1) -> Nat] : Loop(argv, n - 1 + 1, next)
      BY <3>1, <3>2, LoopOnce
    <3>4. n - 1 + 1 = n
      BY <1>1, <2>1
    <3> QED
      BY <2>1, <3>3, <3>4 DEF Fails
  <2> QED
    BY <2>2, <2>3
<1> QED
  BY <1>2, <1>3

\* ... which is a number at every place.
LEMMA LoopTyped ==
    ASSUME NEW argv \in Seq(Nat), NEW pos, Loop(argv, Len(argv), pos)
    PROVE  pos[Len(argv)] \in Nat
<1> DEFINE Odd == {n \in 0..Len(argv) : pos[n] \notin Nat}
<1>1. Len(argv) \in Nat /\ Odd \subseteq Nat
  OBVIOUS
<1>2. \A i \in 0..Len(argv) : pos[i] = IF i = 0 THEN 0 ELSE pos[i - 1] + argv[i] + 1
  BY DEF Loop
<1>3. CASE Odd # {}
  <2> HIDE DEF Odd
  <2>1. PICK n \in Odd : \A m \in Nat : m < n => m \notin Odd
    BY <1>1, <1>3, Least
  <2> USE DEF Odd
  <2>2. n \in 0..Len(argv) /\ pos[n] \notin Nat
    BY <2>1
  <2>3. n # 0
    BY <1>2, <2>2
  <2>4. n - 1 \in 0..Len(argv) /\ n - 1 < n
    BY <1>1, <2>2, <2>3
  <2>5. pos[n - 1] \in Nat /\ argv[n] \in Nat
    BY <2>1, <2>2, <2>3, <2>4
  <2> QED
    BY <1>2, <2>2, <2>3, <2>5
<1> QED
  BY <1>1, <1>3

\* The length of the arguments is a number above zero.
LEMMA ArgsLenTyped == ASSUME NEW f \in Files PROVE ArgsLen(f) \in Nat \ {0}
<1>1. f.argv \in Seq(Nat)
  BY TransferAssumption
<1> DEFINE arg_pos == CHOOSE pos : Loop(f.argv, Len(f.argv), pos)
<1>2. Loop(f.argv, Len(f.argv), arg_pos)
  BY <1>1, LoopEnds
<1>3. ArgsLen(f) = arg_pos[Len(f.argv)] + 1
  BY DEF ArgsLen, Loop
<1> HIDE DEF arg_pos
<1>4. arg_pos[Len(f.argv)] \in Nat
  BY <1>1, <1>2, LoopTyped
<1> QED
  BY <1>3, <1>4

---------------------------------------------------------------------------
(* What a run of wiiload sends.                                            *)

Unit == (1..Sessions) \X {"HAXX", "args", "len", "un", "d", "a"} \X Nat

\* Its lengths are numbers.
LEMMA PayloadTyped ==
    ASSUME NEW f \in Files
    PROVE  Payload(f).len \in Nat /\ Payload(f).un \in Nat
BY TransferAssumption DEF Payload

\* The unit at each place.
UnitAt(n, f, p) ==
    CASE p = 1 -> <<n, "HAXX", 0>> [] p = 2 -> <<n, "args", ArgsLen(f)>>
      [] p = 3 -> <<n, "len", Payload(f).len>> [] p = 4 -> <<n, "un", Payload(f).un>>
      [] p > 4 /\ p <= 4 + Payload(f).len -> <<n, "d", p - 4>>
      [] OTHER -> <<n, "a", p - 4 - Payload(f).len>>

\* The stream has a unit of its own at each place.
LEMMA StreamIs ==
    ASSUME NEW n \in 1..Sessions, NEW f \in Files
    PROVE  /\ Stream(n, f) \in Seq(Unit)
           /\ Len(Stream(n, f)) = 4 + Payload(f).len + ArgsLen(f)
           /\ \A p \in 1..Len(Stream(n, f)) : Stream(n, f)[p] = UnitAt(n, f, p)
<1> DEFINE P == Payload(f).len  U == Payload(f).un  A == ArgsLen(f)
           head == <<<<n, "HAXX", 0>>, <<n, "args", A>>, <<n, "len", P>>, <<n, "un", U>>>>
           data == [i \in 1..P |-> <<n, "d", i>>]
           args == [i \in 1..A |-> <<n, "a", i>>]
<1>1. P \in Nat /\ U \in Nat /\ A \in Nat /\ Sessions \in Nat
  BY PayloadTyped, ArgsLenTyped, TransferAssumption
<1>2. Stream(n, f) = (head \o data) \o args
  BY DEF Stream, Units
<1> HIDE DEF P, U, A
<1>3. head \in Seq(Unit) /\ Len(head) = 4
  BY <1>1 DEF Unit
<1>4. data \in Seq(Unit) /\ Len(data) = P
  BY <1>1 DEF Unit
<1>5. args \in Seq(Unit) /\ Len(args) = A
  BY <1>1 DEF Unit
<1>6. /\ head[1] = <<n, "HAXX", 0>> /\ head[2] = <<n, "args", A>>
      /\ head[3] = <<n, "len", P>> /\ head[4] = <<n, "un", U>>
  OBVIOUS
<1>7. \A i \in 1..P : data[i] = <<n, "d", i>>
  OBVIOUS
<1>8. \A i \in 1..A : args[i] = <<n, "a", i>>
  OBVIOUS
<1> HIDE DEF head, data, args
<1>9. /\ head \o data \in Seq(Unit) /\ Len(head \o data) = 4 + P
      /\ \A p \in 1..(4 + P) : (head \o data)[p] = IF p <= 4 THEN head[p] ELSE data[p - 4]
  <2>1. /\ head \o data \in Seq(Unit) /\ Len(head \o data) = Len(head) + Len(data)
        /\ \A p \in 1..(Len(head) + Len(data)) :
              (head \o data)[p] = IF p <= Len(head) THEN head[p] ELSE data[p - Len(head)]
    BY <1>3, <1>4, ConcatProperties
  <2> QED
    BY <2>1, <1>3, <1>4
<1>10. /\ (head \o data) \o args \in Seq(Unit) /\ Len((head \o data) \o args) = 4 + P + A
       /\ \A p \in 1..(4 + P + A) :
             ((head \o data) \o args)[p] = IF p <= 4 + P THEN (head \o data)[p] ELSE args[p - (4 + P)]
  BY <1>5, <1>9, ConcatProperties
<1>11. ASSUME NEW p \in 1..(4 + P + A) PROVE Stream(n, f)[p] = UnitAt(n, f, p)
  <2>1. CASE p \in 1..4
    <3>1. Stream(n, f)[p] = head[p]
      BY <1>1, <1>2, <1>9, <1>10, <2>1
    <3> QED
      BY <3>1, <2>1, <1>6 DEF UnitAt, P, U, A
  <2>2. CASE p \in 5..(4 + P)
    <3>1. Stream(n, f)[p] = data[p - 4] /\ p - 4 \in 1..P
      BY <1>1, <1>2, <1>9, <1>10, <2>2
    <3> QED
      BY <3>1, <2>2, <1>1, <1>7 DEF UnitAt, P
  <2>3. CASE p > 4 + P
    <3>0. p - (4 + P) \in 1..A /\ ~(p <= 4 + P)
      BY <1>1, <2>3
    <3>1. Stream(n, f)[p] = args[p - (4 + P)] /\ p - (4 + P) \in 1..A
      BY <1>2, <1>10, <3>0
    <3>2. p - (4 + P) = p - 4 - P /\ p > 4
      BY <1>1, <2>3
    <3> QED
      BY <3>1, <3>2, <2>3, <1>1, <1>8 DEF UnitAt, P
  <2> QED
    BY <1>1, <2>1, <2>2, <2>3
<1> QED
  BY <1>2, <1>10, <1>11 DEF P, A

---------------------------------------------------------------------------
(* The invariant.                                                          *)

\* What run n of wiiload sends, and how much of it has left it.
Sent(us, n) == Stream(n, us[n])
Left(us, s, n) == IF n = Len(us) THEN s ELSE Len(Sent(us, n))

\* Where a unit stands in what its run sends.
Place(us, u) ==
    LET len == Payload(us[u[1]]).len
    IN  CASE u[2] = "HAXX" -> 1 [] u[2] = "args" -> 2 [] u[2] = "len" -> 3 [] u[2] = "un" -> 4
          [] u[2] = "d" -> 4 + u[3] [] OTHER -> 4 + len + u[3]

\* What has come, and what will, in order: units of the receive that is under
\* way, then the line.
Taken == IF rPc = "success" THEN <<>> ELSE got
Seen == Taken \o line

\* Every unit is one that its run has sent.
KnownIn(us, s, q) ==
    \A i \in 1..Len(q) :
        /\ q[i][1] \in 1..Len(us)
        /\ Place(us, q[i]) \in 1..Left(us, s, q[i][1])
        /\ q[i] = Sent(us, q[i][1])[Place(us, q[i])]

\* The runs follow each other, and the units of each keep their order.
OrderedIn(us, q) ==
    \A i, j \in 1..Len(q) : i < j =>
        /\ q[i][1] <= q[j][1]
        /\ q[i][1] = q[j][1] => Place(us, q[i]) + (j - i) <= Place(us, q[j])

\* A run begins with its first unit, even behind one that was cut off.
BeginsIn(us, q) ==
    \A i \in 1..(Len(q) - 1) : q[i][1] # q[i + 1][1] => Place(us, q[i + 1]) = 1

\* The last unit is of the last run, once that has sent one.
LastIn(us, s, q) == (Len(q) > 0 /\ s > 0) => q[Len(q)][1] = Len(us)

Runs(us, s, q) == KnownIn(us, s, q) /\ OrderedIn(us, q) /\ BeginsIn(us, q)

\* On the Gecko, a run that lost nothing follows its first unit that is still
\* there to its last.
UnbrokenIn(us, s, q, gone) ==
    \A i \in 1..Len(q), k \in Nat :
        (q[i][1] \notin gone /\ Place(us, q[i]) + k <= Left(us, s, q[i][1])) =>
            /\ i + k <= Len(q)
            /\ q[i + k][1] = q[i][1] /\ Place(us, q[i + k]) = Place(us, q[i]) + k

\* What an accepted header of run n says, and what may come behind it.
HeaderOf(us, n) ==
    [session |-> n, args |-> ArgsLen(us[n]), len |-> Payload(us[n]).len, un |-> Payload(us[n]).un]

BehindIn(us, q, n) ==
    \A i \in 1..Len(q) : q[i][1] >= n /\ (q[i][1] = n => Place(us, q[i]) >= 4 + i)

\* All of run n that has been sent is there, but its header.
AllBehind(us, s, q, n) ==
    \A k \in 1..(Left(us, s, n) - 4) : k <= Len(q) /\ q[k][1] = n /\ Place(us, q[k]) = k + 4

\* Wiiload.
ClientOrder ==
    /\ ups \in Seq(Files) /\ sent \in Nat
    /\ cPc = "send" => ups # <<>>
    /\ ups # <<>> => sent <= Len(Sent(ups, Len(ups)))
    /\ (ups # <<>> /\ cPc # "send" /\ Len(ups) \notin lost) => sent = Len(Sent(ups, Len(ups)))
    /\ lost \subseteq 1..Len(ups)

\* The channel: what it has received where, and the connection, which has one
\* client.
Receiver ==
    /\ rPc \in {"flush", "wait", "accepted", "ready", "failed"} => got = <<>>
    /\ rPc \in {"wait", "accepted"} => via = "gecko"
    /\ rPc \in {"header", "load"} => Len(got) <= Wanted
    /\ {clock, step} \subseteq Nat /\ (rPc \in {"accepted", "ready"} => step = 0)
    /\ via = "gecko" => conn = "none"
    /\ (via = "tcp" /\ conn = "none") => rPc \in {"flush", "success", "failed"}
    /\ rPc = "success" => header.session \in 1..Len(ups)

\* What the units are, of which runs and in which order.
InOrder ==
    /\ Runs(ups, sent, Seen) /\ LastIn(ups, sent, Seen)
    /\ via = "gecko" => UnbrokenIn(ups, sent, Seen, lost)
    /\ via = "tcp" => \A i \in 1..Len(Seen) : Seen[i][1] = Len(ups)

Accepted ==
    rPc \in {"accepted", "ready", "load"} =>
        /\ header.session \in 1..Len(ups) /\ header = HeaderOf(ups, header.session)
        /\ Left(ups, sent, header.session) >= 4
        /\ via = "tcp" => header.session = Len(ups)
        /\ BehindIn(ups, Seen, header.session)
        /\ (via = "gecko" /\ header.session \notin lost) => AllBehind(ups, sent, Seen, header.session)

Typed == TransferTypeOK /\ line \in Seq(Unit) /\ got \in Seq(Unit)

IInv == Typed /\ ClientOrder /\ Receiver /\ InOrder /\ Accepted /\ TransferHonest

---------------------------------------------------------------------------
(* What a step does with the units that are there.                         *)

\* Runs are added and go on.
Grows(us, s, us2, s2) ==
    /\ Len(us) \in Nat /\ Len(us2) \in Nat /\ Len(us) <= Len(us2)
    /\ \A n \in 1..Len(us) :
          /\ us2[n] = us[n]
          /\ Left(us, s, n) \in Nat /\ Left(us2, s2, n) \in Nat /\ Left(us, s, n) <= Left(us2, s2, n)

\* One that has lost nothing is where it was.
Rests(us, s, us2, s2, gone, gone2) ==
    \A n \in 1..Len(us) : n \notin gone2 => n \notin gone /\ Left(us2, s2, n) = Left(us, s, n)

\* The first d units go, and perhaps some of the last.
Part(q, q2, d) ==
    /\ Len(q) \in Nat /\ Len(q2) \in Nat /\ d + Len(q2) <= Len(q)
    /\ \A i \in 1..Len(q2) : q2[i] = q[d + i]

\* Runs that go on leave the units where they stand.
LEMMA PlacesKept ==
    ASSUME NEW us, NEW s, NEW us2, NEW s2, Grows(us, s, us2, s2),
           NEW u, u[1] \in 1..Len(us)
    PROVE  Place(us2, u) = Place(us, u) /\ Sent(us2, u[1]) = Sent(us, u[1])
BY DEF Grows, Place, Sent

\* What is left of the units is still in order.
LEMMA RunsKept ==
    ASSUME NEW us, NEW s, NEW q, NEW us2, NEW s2, NEW q2, NEW d \in Nat,
           Runs(us, s, q), Grows(us, s, us2, s2), Part(q, q2, d)
    PROVE  Runs(us2, s2, q2)
<1>1. \A i \in 1..Len(q2) : q2[i] = q[d + i] /\ d + i \in 1..Len(q)
  BY DEF Part
<1>2. ASSUME NEW i \in 1..Len(q)
      PROVE  /\ q[i][1] \in 1..Len(us) /\ q[i][1] \in 1..Len(us2)
             /\ Place(us2, q[i]) = Place(us, q[i]) /\ Sent(us2, q[i][1]) = Sent(us, q[i][1])
             /\ Place(us2, q[i]) \in 1..Left(us2, s2, q[i][1])
  <2>1. q[i][1] \in 1..Len(us) /\ Place(us, q[i]) \in 1..Left(us, s, q[i][1])
    BY DEF Runs, KnownIn
  <2>2. Place(us2, q[i]) = Place(us, q[i]) /\ Sent(us2, q[i][1]) = Sent(us, q[i][1])
    BY <2>1, PlacesKept
  <2> QED
    BY <2>1, <2>2 DEF Grows
<1>3. KnownIn(us2, s2, q2)
  <2>1. ASSUME NEW i \in 1..Len(q2)
        PROVE  /\ q2[i][1] \in 1..Len(us2) /\ Place(us2, q2[i]) \in 1..Left(us2, s2, q2[i][1])
               /\ q2[i] = Sent(us2, q2[i][1])[Place(us2, q2[i])]
    <3>1. q2[i] = q[d + i] /\ d + i \in 1..Len(q)
      BY <1>1
    <3>2. q[d + i] = Sent(us, q[d + i][1])[Place(us, q[d + i])]
      BY <3>1 DEF Runs, KnownIn
    <3> QED
      BY <1>2, <3>1, <3>2
  <2> QED
    BY <2>1 DEF KnownIn
<1>4. OrderedIn(us2, q2)
  <2>1. ASSUME NEW i \in 1..Len(q2), NEW j \in 1..Len(q2), i < j
        PROVE  /\ q2[i][1] <= q2[j][1]
               /\ q2[i][1] = q2[j][1] => Place(us2, q2[i]) + (j - i) <= Place(us2, q2[j])
    <3>1. d + i \in 1..Len(q) /\ d + j \in 1..Len(q) /\ d + i < d + j /\ (d + j) - (d + i) = j - i
      BY <1>1, <2>1
    <3>2. /\ q[d + i][1] <= q[d + j][1]
          /\ q[d + i][1] = q[d + j][1] =>
                Place(us, q[d + i]) + ((d + j) - (d + i)) <= Place(us, q[d + j])
      BY <3>1 DEF Runs, OrderedIn
    <3> QED
      BY <1>1, <1>2, <3>1, <3>2
  <2> QED
    BY <2>1 DEF OrderedIn
<1>5. BeginsIn(us2, q2)
  <2>1. ASSUME NEW i \in 1..(Len(q2) - 1), q2[i][1] # q2[i + 1][1]
        PROVE  Place(us2, q2[i + 1]) = 1
    <3>1. /\ i \in 1..Len(q2) /\ i + 1 \in 1..Len(q2) /\ d + i \in 1..(Len(q) - 1)
          /\ (d + i) + 1 = d + (i + 1) /\ d + (i + 1) \in 1..Len(q)
      BY DEF Part
    <3>2. q2[i] = q[d + i] /\ q2[i + 1] = q[(d + i) + 1]
      BY <1>1, <3>1
    <3>3. Place(us, q[(d + i) + 1]) = 1
      BY <2>1, <3>1, <3>2 DEF Runs, BeginsIn
    <3> QED
      BY <1>2, <3>1, <3>2, <3>3
  <2> QED
    BY <2>1 DEF BeginsIn
<1> QED
  BY <1>3, <1>4, <1>5 DEF Runs

\* A run that lost nothing goes on to its last unit, if the last are kept.
LEMMA UnbrokenKept ==
    ASSUME NEW us, NEW s, NEW q, NEW us2, NEW s2, NEW q2, NEW d \in Nat, NEW gone, NEW gone2,
           Runs(us, s, q), Grows(us, s, us2, s2), Rests(us, s, us2, s2, gone, gone2),
           Part(q, q2, d), d + Len(q2) = Len(q), UnbrokenIn(us, s, q, gone)
    PROVE  UnbrokenIn(us2, s2, q2, gone2)
<1>1. \A i \in 1..Len(q2) : q2[i] = q[d + i] /\ d + i \in 1..Len(q)
  BY DEF Part
<1>2. ASSUME NEW i \in 1..Len(q)
      PROVE  q[i][1] \in 1..Len(us) /\ Place(us2, q[i]) = Place(us, q[i])
  <2>1. q[i][1] \in 1..Len(us)
    BY DEF Runs, KnownIn
  <2> QED
    BY <2>1, PlacesKept
<1>3. ASSUME NEW i \in 1..Len(q2), NEW k \in Nat, q2[i][1] \notin gone2,
             Place(us2, q2[i]) + k <= Left(us2, s2, q2[i][1])
      PROVE  /\ i + k <= Len(q2)
             /\ q2[i + k][1] = q2[i][1] /\ Place(us2, q2[i + k]) = Place(us2, q2[i]) + k
  <2>1. q2[i] = q[d + i] /\ d + i \in 1..Len(q)
    BY <1>1
  <2>2. q[d + i][1] \notin gone /\ Place(us, q[d + i]) + k <= Left(us, s, q[d + i][1])
    BY <1>2, <1>3, <2>1 DEF Rests
  <2>3. /\ (d + i) + k <= Len(q) /\ q[(d + i) + k][1] = q[d + i][1]
        /\ Place(us, q[(d + i) + k]) = Place(us, q[d + i]) + k
    BY <2>1, <2>2 DEF UnbrokenIn
  <2>4. /\ i + k <= Len(q2) /\ (d + i) + k = d + (i + k) /\ i + k \in 1..Len(q2)
        /\ d + (i + k) \in 1..Len(q)
    BY <2>3, <2>1 DEF Part
  <2>5. q2[i + k] = q[(d + i) + k]
    BY <1>1, <2>4
  <2> QED
    BY <1>2, <2>1, <2>3, <2>4, <2>5
<1> QED
  BY <1>3 DEF UnbrokenIn

\* Nothing of an accepted run but its data and arguments comes.
LEMMA BehindKept ==
    ASSUME NEW us, NEW s, NEW q, NEW us2, NEW s2, NEW q2, NEW n,
           Runs(us, s, q), Grows(us, s, us2, s2), Part(q, q2, 0), BehindIn(us, q, n)
    PROVE  BehindIn(us2, q2, n)
<1>1. ASSUME NEW i \in 1..Len(q2)
      PROVE  q2[i][1] >= n /\ (q2[i][1] = n => Place(us2, q2[i]) >= 4 + i)
  <2>1. i \in 1..Len(q) /\ q2[i] = q[i]
    BY DEF Part
  <2>2. q[i][1] \in 1..Len(us)
    BY <2>1 DEF Runs, KnownIn
  <2>3. Place(us2, q[i]) = Place(us, q[i])
    BY <2>2, PlacesKept
  <2> QED
    BY <2>1, <2>3 DEF BehindIn
<1> QED
  BY <1>1 DEF BehindIn

\* All of a run that lost nothing is still there.
LEMMA AllKept ==
    ASSUME NEW us, NEW s, NEW q, NEW us2, NEW s2, NEW gone, NEW gone2, NEW n \in 1..Len(us),
           Runs(us, s, q), Grows(us, s, us2, s2), Rests(us, s, us2, s2, gone, gone2),
           n \notin gone2, AllBehind(us, s, q, n)
    PROVE  n \notin gone /\ AllBehind(us2, s2, q, n)
<1>1. n \notin gone /\ Left(us2, s2, n) = Left(us, s, n) /\ Left(us, s, n) \in Nat
  BY DEF Rests, Grows
<1>2. ASSUME NEW k \in 1..(Left(us, s, n) - 4)
      PROVE  k <= Len(q) /\ q[k][1] = n /\ Place(us2, q[k]) = k + 4
  <2>1. k <= Len(q) /\ q[k][1] = n /\ Place(us, q[k]) = k + 4
    BY DEF AllBehind
  <2>2. Place(us2, q[k]) = Place(us, q[k])
    BY <2>1, PlacesKept
  <2> QED
    BY <2>1, <2>2
<1> QED
  BY <1>1, <1>2 DEF AllBehind

---------------------------------------------------------------------------
(* More of the last run.                                                   *)

\* Units are joined in any order.
LEMMA Joined ==
    ASSUME NEW x \in Seq(Unit), NEW y \in Seq(Unit), NEW z \in Seq(Unit)
    PROVE  (x \o y) \o z = x \o (y \o z)
BY ConcatAssociative

\* A unit stands where UnitAt says.
LEMMA PlaceIs ==
    ASSUME NEW us \in Seq(Files), Len(us) <= Sessions, NEW n \in 1..Len(us),
           NEW p \in 1..Len(Sent(us, n))
    PROVE  /\ Sent(us, n)[p] \in Unit /\ Sent(us, n)[p][1] = n /\ Place(us, Sent(us, n)[p]) = p
           /\ p = 2 => Sent(us, n)[p][3] = ArgsLen(us[n])
           /\ p = 3 => Sent(us, n)[p][3] = Payload(us[n]).len
           /\ p = 4 => Sent(us, n)[p][3] = Payload(us[n]).un
<1> DEFINE u == UnitAt(n, us[n], p)
<1>1. us[n] \in Files /\ n \in 1..Sessions
  BY TransferAssumption
<1>2. Payload(us[n]).len \in Nat /\ ArgsLen(us[n]) \in Nat
  BY <1>1, PayloadTyped, ArgsLenTyped
<1>3. /\ Sent(us, n)[p] = u /\ Sent(us, n)[p] \in Unit
      /\ p \in 1..(4 + Payload(us[n]).len + ArgsLen(us[n]))
  <2>1. /\ Sent(us, n) \in Seq(Unit) /\ Len(Sent(us, n)) = 4 + Payload(us[n]).len + ArgsLen(us[n])
    BY <1>1, StreamIs, Zenon DEF Sent
  <2>2. Sent(us, n)[p] = u
    BY <1>1, StreamIs, Zenon DEF Sent
  <2>3. Sent(us, n)[p] \in Unit
    BY <2>1
  <2> QED
    BY <2>1, <2>2, <2>3
<1>4. u[1] = n
  BY <1>1, <1>3 DEF UnitAt
<1>5. Place(us, u) = p
  BY <1>1, <1>2, <1>3, <1>4 DEF UnitAt, Place
<1>6. /\ p = 2 => u[3] = ArgsLen(us[n])
      /\ p = 3 => u[3] = Payload(us[n]).len
      /\ p = 4 => u[3] = Payload(us[n]).un
  BY <1>3 DEF UnitAt
<1> QED
  BY <1>3, <1>4, <1>5, <1>6

\* m is the next part of what the last run sends.
Follows(us, s, m) ==
    /\ us \in Seq(Files) /\ us # <<>> /\ Len(us) <= Sessions
    /\ s \in Nat /\ Len(m) \in Nat /\ s + Len(m) <= Len(Sent(us, Len(us)))
    /\ \A j \in 1..Len(m) : m[j] = Sent(us, Len(us))[s + j]

\* What a line q with m behind it has at each place.
LineOf(us, s, q, m) ==
    /\ Len(q \o m) = Len(q) + Len(m)
    /\ Len(q) \in Nat /\ Len(m) \in Nat /\ Len(us) \in Nat \ {0} /\ s \in Nat
    /\ \A i \in 1..Len(q) : (q \o m)[i] = q[i]
    /\ \A j \in 1..Len(m) : (q \o m)[Len(q) + j] = m[j]
    /\ \A j \in 1..Len(m) :
          m[j][1] = Len(us) /\ Place(us, m[j]) = s + j /\ m[j] = Sent(us, Len(us))[s + j]
    /\ \A i \in 1..Len(q \o m) : i \in 1..Len(q) \/ \E j \in 1..Len(m) : i = Len(q) + j

\* The line has q, then what was sent.
LEMMA LineIs ==
    ASSUME NEW us, NEW s, NEW q \in Seq(Unit), NEW m \in Seq(Unit), Follows(us, s, m)
    PROVE  LineOf(us, s, q, m)
<1>1. /\ Len(q \o m) = Len(q) + Len(m)
      /\ \A i \in 1..(Len(q) + Len(m)) : (q \o m)[i] = IF i <= Len(q) THEN q[i] ELSE m[i - Len(q)]
  BY ConcatProperties
<1>2. Len(q) \in Nat /\ Len(m) \in Nat /\ Len(us) \in Nat \ {0} /\ s \in Nat
  BY DEF Follows
<1>3. ASSUME NEW j \in 1..Len(m)
      PROVE  /\ (q \o m)[Len(q) + j] = m[j] /\ m[j][1] = Len(us) /\ Place(us, m[j]) = s + j
             /\ m[j] = Sent(us, Len(us))[s + j]
  <2>1. /\ Len(q) + j \in 1..(Len(q) + Len(m)) /\ ~(Len(q) + j <= Len(q))
        /\ Len(q) + j - Len(q) = j
    BY <1>2
  <2>2. (q \o m)[Len(q) + j] = m[j]
    BY <1>1, <2>1
  <2>3. /\ m[j] = Sent(us, Len(us))[s + j] /\ s + j \in 1..Len(Sent(us, Len(us)))
        /\ Len(us) \in 1..Len(us)
    BY <1>2 DEF Follows
  <2>4. us \in Seq(Files) /\ Len(us) <= Sessions
    BY DEF Follows
  <2> QED
    BY <2>2, <2>3, <2>4, PlaceIs
<1>4. \A i \in 1..Len(q) : (q \o m)[i] = q[i]
  BY <1>1, <1>2
<1>5. ASSUME NEW i \in 1..Len(q \o m) PROVE i \in 1..Len(q) \/ \E j \in 1..Len(m) : i = Len(q) + j
  <2>1. i \in 1..Len(q) \/ (i - Len(q) \in 1..Len(m) /\ i = Len(q) + (i - Len(q)))
    BY <1>1, <1>2
  <2> QED
    BY <2>1
<1> QED
  BY <1>1, <1>2, <1>3, <1>4, <1>5 DEF LineOf

\* What wiiload sends next fits behind what is there.
LEMMA RunsAppended ==
    ASSUME NEW us, NEW s, NEW q \in Seq(Unit), NEW m \in Seq(Unit), Follows(us, s, m),
           Runs(us, s, q), LastIn(us, s, q)
    PROVE  Runs(us, s + Len(m), q \o m)
<1> DEFINE q2 == q \o m  s2 == s + Len(m)  N == Len(us)
<1>0. LineOf(us, s, q, m)
  BY LineIs
<1>1. /\ Len(q2) = Len(q) + Len(m) /\ Len(q) \in Nat /\ Len(m) \in Nat /\ N \in Nat \ {0}
      /\ \A i \in 1..Len(q) : q2[i] = q[i]
      /\ \A j \in 1..Len(m) : q2[Len(q) + j] = m[j]
      /\ \A j \in 1..Len(m) : m[j][1] = N /\ Place(us, m[j]) = s + j /\ m[j] = Sent(us, N)[s + j]
      /\ \A i \in 1..Len(q2) : i \in 1..Len(q) \/ \E j \in 1..Len(m) : i = Len(q) + j
  BY <1>0 DEF LineOf
<1>2. s \in Nat /\ Left(us, s, N) = s /\ Left(us, s2, N) = s2
  BY DEF Follows, Left
<1>3. \A n \in 1..N : n # N => Left(us, s2, n) = Left(us, s, n)
  BY DEF Left
<1>4. ASSUME NEW i \in 1..Len(q)
      PROVE  /\ q[i][1] \in 1..N /\ Place(us, q[i]) \in 1..Left(us, s, q[i][1])
             /\ q[i] = Sent(us, q[i][1])[Place(us, q[i])]
             /\ q[i][1] = N => Place(us, q[i]) + (Len(q) - i) <= s
  <2>1. /\ q[i][1] \in 1..N /\ Place(us, q[i]) \in 1..Left(us, s, q[i][1])
        /\ q[i] = Sent(us, q[i][1])[Place(us, q[i])]
    BY DEF Runs, KnownIn
  <2>2. ASSUME q[i][1] = N, i # Len(q) PROVE Place(us, q[i]) + (Len(q) - i) <= s
    <3>1. Len(q) \in 1..Len(q) /\ i < Len(q)
      BY <1>1, <2>2
    <3>2. q[Len(q)][1] \in 1..N /\ Place(us, q[Len(q)]) \in 1..Left(us, s, q[Len(q)][1])
      BY <3>1 DEF Runs, KnownIn
    <3>3. /\ q[i][1] <= q[Len(q)][1]
          /\ q[i][1] = q[Len(q)][1] => Place(us, q[i]) + (Len(q) - i) <= Place(us, q[Len(q)])
      BY <3>1 DEF Runs, OrderedIn
    <3>4. q[Len(q)][1] = N
      BY <2>2, <3>2, <3>3, <1>1
    <3> QED
      BY <2>1, <2>2, <3>1, <3>2, <3>3, <3>4, <1>1, <1>2
  <2>3. ASSUME q[i][1] = N, i = Len(q) PROVE Place(us, q[i]) + (Len(q) - i) <= s
    BY <2>1, <2>3, <1>1, <1>2
  <2> QED
    BY <2>1, <2>2, <2>3
<1> HIDE DEF q2, s2, N
<1>5. KnownIn(us, s2, q2)
  <2>1. ASSUME NEW i \in 1..Len(q)
        PROVE  /\ q2[i][1] \in 1..N /\ Place(us, q2[i]) \in 1..Left(us, s2, q2[i][1])
               /\ q2[i] = Sent(us, q2[i][1])[Place(us, q2[i])]
    <3>1. q2[i] = q[i]
      BY <1>1
    <3>2. CASE q[i][1] = N
      BY <3>1, <3>2, <1>1, <1>2, <1>4 DEF s2
    <3>3. CASE q[i][1] # N
      BY <3>1, <3>3, <1>3, <1>4
    <3> QED
      BY <3>2, <3>3
  <2>2. ASSUME NEW j \in 1..Len(m)
        PROVE  /\ m[j][1] \in 1..N /\ Place(us, m[j]) \in 1..Left(us, s2, m[j][1])
               /\ m[j] = Sent(us, m[j][1])[Place(us, m[j])]
    BY <1>1, <1>2 DEF s2
  <2>3. ASSUME NEW i \in 1..Len(q2)
        PROVE  /\ q2[i][1] \in 1..N /\ Place(us, q2[i]) \in 1..Left(us, s2, q2[i][1])
               /\ q2[i] = Sent(us, q2[i][1])[Place(us, q2[i])]
    <3>1. CASE i \in 1..Len(q)
      BY <2>1, <3>1
    <3>2. CASE i \notin 1..Len(q)
      <4>1. PICK j \in 1..Len(m) : i = Len(q) + j
        BY <1>1, <3>2
      <4>2. q2[i] = m[j]
        BY <1>1, <4>1
      <4> QED
        BY <2>2, <4>2
    <3> QED
      BY <3>1, <3>2
  <2> QED
    BY <2>3 DEF KnownIn, N
<1>6. OrderedIn(us, q2)
  <2>1. ASSUME NEW i \in 1..Len(q2), NEW j \in 1..Len(q2), i < j
        PROVE  /\ q2[i][1] <= q2[j][1]
               /\ q2[i][1] = q2[j][1] => Place(us, q2[i]) + (j - i) <= Place(us, q2[j])
    <3>1. CASE j \in 1..Len(q)
      <4>1. i \in 1..Len(q) /\ q2[i] = q[i] /\ q2[j] = q[j]
        BY <1>1, <2>1, <3>1
      <4> QED
        BY <2>1, <3>1, <4>1 DEF Runs, OrderedIn
    <3>2. ASSUME NEW b \in 1..Len(m), j = Len(q) + b, i \in 1..Len(q)
          PROVE  /\ q2[i][1] <= q2[j][1]
                 /\ q2[i][1] = q2[j][1] => Place(us, q2[i]) + (j - i) <= Place(us, q2[j])
      <4>1. q2[i] = q[i] /\ q2[j] = m[b] /\ m[b][1] = N /\ Place(us, m[b]) = s + b
        BY <1>1, <3>2
      <4>2. q[i][1] \in 1..N
        BY <1>4, <3>2
      <4>3. q[i][1] = N => Place(us, q[i]) \in Nat /\ Place(us, q[i]) + (Len(q) - i) <= s
        BY <1>1, <1>2, <1>4, <3>2
      <4> QED
        BY <1>1, <1>2, <3>2, <4>1, <4>2, <4>3
    <3>3. ASSUME NEW a \in 1..Len(m), i = Len(q) + a, NEW b \in 1..Len(m), j = Len(q) + b
          PROVE  /\ q2[i][1] <= q2[j][1]
                 /\ q2[i][1] = q2[j][1] => Place(us, q2[i]) + (j - i) <= Place(us, q2[j])
      <4>1. q2[i] = m[a] /\ q2[j] = m[b] /\ m[a][1] = N /\ m[b][1] = N
            /\ Place(us, m[a]) = s + a /\ Place(us, m[b]) = s + b
        BY <1>1, <3>3
      <4>2. Len(q) \in Nat /\ Len(m) \in Nat /\ s \in Nat /\ N \in Nat
        BY <1>1, <1>2
      <4>3. j - i = b - a /\ (s + a) + (b - a) = s + b
        BY <3>3, <4>2
      <4> QED
        BY <4>1, <4>2, <4>3
    <3> QED
      BY <1>1, <3>1, <3>2, <3>3
  <2> QED
    BY <2>1 DEF OrderedIn
<1>7. BeginsIn(us, q2)
  <2>1. ASSUME NEW i \in 1..(Len(q2) - 1), q2[i][1] # q2[i + 1][1]
        PROVE  Place(us, q2[i + 1]) = 1
    <3>1. CASE i \in 1..(Len(q) - 1)
      <4>1. i \in 1..Len(q) /\ i + 1 \in 1..Len(q) /\ q2[i] = q[i] /\ q2[i + 1] = q[i + 1]
        BY <1>1, <3>1
      <4> QED
        BY <2>1, <3>1, <4>1 DEF Runs, BeginsIn
    <3>2. CASE i = Len(q)
      <4>1. 1 \in 1..Len(m) /\ Len(q) \in 1..Len(q)
        BY <1>1, <3>2
      <4>2. q2[i] = q[Len(q)] /\ q2[i + 1] = m[1] /\ m[1][1] = N /\ Place(us, m[1]) = s + 1
        BY <1>1, <3>2, <4>1
      <4>3. s = 0
        BY <1>1, <1>2, <2>1, <4>1, <4>2 DEF LastIn, N
      <4> QED
        BY <4>2, <4>3
    <3>3. CASE i > Len(q)
      <4>1. /\ i \in 1..Len(q2) /\ i + 1 \in 1..Len(q2) /\ ~(i \in 1..Len(q))
            /\ ~(i + 1 \in 1..Len(q))
        BY <1>1, <3>3
      <4>2. PICK a \in 1..Len(m), b \in 1..Len(m) : i = Len(q) + a /\ i + 1 = Len(q) + b
        BY <1>1, <4>1
      <4>3. q2[i] = m[a] /\ q2[i + 1] = m[b] /\ m[a][1] = N /\ m[b][1] = N
        BY <1>1, <4>2
      <4> QED
        BY <2>1, <4>3
    <3> QED
      BY <1>1, <3>1, <3>2, <3>3
  <2> QED
    BY <2>1 DEF BeginsIn
<1> QED
  BY <1>5, <1>6, <1>7 DEF Runs, q2, s2

\* What lost nothing goes on without a gap.
LEMMA UnbrokenAppended ==
    ASSUME NEW us, NEW s, NEW q \in Seq(Unit), NEW m \in Seq(Unit), Follows(us, s, m), NEW gone,
           Runs(us, s, q), UnbrokenIn(us, s, q, gone)
    PROVE  UnbrokenIn(us, s + Len(m), q \o m, gone)
<1> DEFINE q2 == q \o m  s2 == s + Len(m)  N == Len(us)
<1>0. LineOf(us, s, q, m)
  BY LineIs
<1>1. /\ Len(q2) = Len(q) + Len(m) /\ Len(q) \in Nat /\ Len(m) \in Nat /\ N \in Nat \ {0}
      /\ \A i \in 1..Len(q) : q2[i] = q[i]
      /\ \A j \in 1..Len(m) : q2[Len(q) + j] = m[j]
      /\ \A j \in 1..Len(m) : m[j][1] = N /\ Place(us, m[j]) = s + j /\ m[j] = Sent(us, N)[s + j]
      /\ \A i \in 1..Len(q2) : i \in 1..Len(q) \/ \E j \in 1..Len(m) : i = Len(q) + j
  BY <1>0 DEF LineOf
<1>2. s \in Nat /\ Left(us, s, N) = s /\ Left(us, s2, N) = s2
  BY DEF Follows, Left
<1>3. \A n \in 1..N : n # N => Left(us, s2, n) = Left(us, s, n)
  BY DEF Left
<1>4. \A i \in 1..Len(q) : q[i][1] \in 1..N /\ Place(us, q[i]) \in 1..Left(us, s, q[i][1])
  BY DEF Runs, KnownIn
<1> HIDE DEF q2, N
<1>5. ASSUME NEW i \in 1..Len(q), NEW k \in Nat, q[i][1] \notin gone,
             Place(us, q[i]) + k <= Left(us, s, q[i][1])
      PROVE  /\ i + k \in 1..Len(q) /\ i + k <= Len(q2) /\ q2[i + k] = q[i + k]
             /\ q[i + k][1] = q[i][1] /\ Place(us, q[i + k]) = Place(us, q[i]) + k
  <2>1. i + k <= Len(q) /\ q[i + k][1] = q[i][1] /\ Place(us, q[i + k]) = Place(us, q[i]) + k
    BY <1>5 DEF UnbrokenIn
  <2>2. i + k \in 1..Len(q) /\ i + k <= Len(q2)
    BY <2>1, <1>1
  <2> QED
    BY <2>1, <2>2, <1>1
<1>6. ASSUME NEW i \in 1..Len(q), NEW k \in Nat, q[i][1] \notin gone, q[i][1] = N,
             Place(us, q[i]) + k > s, Place(us, q[i]) + k <= s2
      PROVE  /\ i + k <= Len(q2)
             /\ q2[i + k][1] = N /\ Place(us, q2[i + k]) = Place(us, q[i]) + k
  <2> DEFINE k0 == s - Place(us, q[i])
  <2>1. Place(us, q[i]) \in 1..s /\ k0 \in Nat /\ Place(us, q[i]) + k0 <= Left(us, s, q[i][1])
    BY <1>2, <1>4, <1>6
  <2>2. Place(us, q[i]) + k0 = s
    BY <2>1, <1>2
  <2> HIDE DEF k0
  <2>3. i + k0 \in 1..Len(q) /\ q[i + k0][1] = N /\ Place(us, q[i + k0]) = s
    BY <1>5, <1>6, <2>1, <2>2
  <2>4. i + k0 = Len(q)
    <3>1. SUFFICES ASSUME i + k0 < Len(q) PROVE FALSE
      BY <2>3, <1>1
    <3>2. Len(q) \in 1..Len(q)
      BY <1>1, <3>1, <2>3
    <3>3. /\ q[i + k0][1] <= q[Len(q)][1]
          /\ q[i + k0][1] = q[Len(q)][1] =>
                Place(us, q[i + k0]) + (Len(q) - (i + k0)) <= Place(us, q[Len(q)])
      BY <2>3, <3>1, <3>2 DEF Runs, OrderedIn
    <3>4. q[Len(q)][1] = N /\ Place(us, q[Len(q)]) \in 1..s
      <4>1. q[Len(q)][1] \in 1..N
        BY <1>4, <3>2
      <4>2. q[Len(q)][1] = N
        BY <4>1, <3>3, <2>3, <1>1
      <4> QED
        BY <4>2, <1>4, <3>2, <1>2
    <3> QED
      BY <3>1, <3>3, <3>4, <2>3, <1>1, <1>2
  <2>5. k - k0 \in 1..Len(m) /\ i + k = Len(q) + (k - k0) /\ s + (k - k0) = Place(us, q[i]) + k
    <3> DEFINE p == Place(us, q[i])
    <3>1. p \in Nat /\ p + k0 = s /\ p + k > s /\ p + k <= s + Len(m) /\ k \in Nat /\ k0 \in Nat
      BY <1>2, <1>6, <2>1, <2>2
    <3>2. i \in Nat /\ i + k0 = Len(q) /\ Len(m) \in Nat
      BY <1>1, <2>4
    <3> HIDE DEF p
    <3>3. k - k0 \in 1..Len(m) /\ i + k = Len(q) + (k - k0) /\ s + (k - k0) = p + k
      BY <3>1, <3>2
    <3> QED
      BY <3>3 DEF p
  <2>6. /\ q2[Len(q) + (k - k0)] = m[k - k0] /\ m[k - k0][1] = N
        /\ Place(us, m[k - k0]) = s + (k - k0)
    BY <1>1, <2>5
  <2> QED
    BY <1>1, <2>5, <2>6
<1>7. ASSUME NEW j \in 1..Len(m), NEW k \in Nat, (s + j) + k <= s2
      PROVE  /\ (Len(q) + j) + k <= Len(q2) /\ q2[(Len(q) + j) + k][1] = N
             /\ Place(us, q2[(Len(q) + j) + k]) = (s + j) + k
  <2>1. j + k \in 1..Len(m) /\ (Len(q) + j) + k = Len(q) + (j + k) /\ (s + j) + k = s + (j + k)
    BY <1>1, <1>2, <1>7
  <2>2. q2[Len(q) + (j + k)] = m[j + k] /\ m[j + k][1] = N /\ Place(us, m[j + k]) = s + (j + k)
    BY <1>1, <2>1
  <2> QED
    BY <1>1, <2>1, <2>2
<1>8. ASSUME NEW i \in 1..Len(q2), NEW k \in Nat, q2[i][1] \notin gone,
             Place(us, q2[i]) + k <= Left(us, s2, q2[i][1])
      PROVE  /\ i + k <= Len(q2)
             /\ q2[i + k][1] = q2[i][1] /\ Place(us, q2[i + k]) = Place(us, q2[i]) + k
  <2>1. CASE i \in 1..Len(q) /\ q2[i][1] # N
    <3>1. q2[i] = q[i] /\ Left(us, s, q[i][1]) = Left(us, s2, q[i][1])
      BY <1>1, <1>3, <1>4, <2>1
    <3> QED
      BY <1>5, <1>8, <2>1, <3>1
  <2>2. CASE i \in 1..Len(q) /\ q2[i][1] = N
    <3>1. q2[i] = q[i] /\ Place(us, q[i]) \in Nat
      BY <1>1, <1>4, <2>2
    <3>2. CASE Place(us, q[i]) + k <= s
      <4>1. q[i][1] \notin gone /\ Place(us, q[i]) + k <= Left(us, s, q[i][1])
        BY <1>2, <1>8, <2>2, <3>1, <3>2
      <4> QED
        BY <1>5, <2>2, <3>1, <4>1
    <3>3. CASE Place(us, q[i]) + k > s
      BY <1>2, <1>6, <1>8, <2>2, <3>1, <3>3
    <3> QED
      BY <3>1, <3>2, <3>3, <1>2
  <2>3. CASE i \notin 1..Len(q)
    <3>1. PICK j \in 1..Len(m) : i = Len(q) + j
      BY <1>1, <2>3
    <3>2. q2[i] = m[j] /\ m[j][1] = N /\ Place(us, m[j]) = s + j
      BY <1>1, <3>1
    <3> QED
      BY <1>2, <1>7, <1>8, <3>1, <3>2
  <2> QED
    BY <2>1, <2>2, <2>3
<1> QED
  BY <1>8 DEF UnbrokenIn, q2

\* What is sent next comes behind the accepted header too.
LEMMA BehindAppended ==
    ASSUME NEW us, NEW s, NEW q \in Seq(Unit), NEW m \in Seq(Unit), Follows(us, s, m),
           Runs(us, s, q), LastIn(us, s, q), NEW n \in 1..Len(us), Left(us, s, n) >= 4,
           BehindIn(us, q, n)
    PROVE  /\ BehindIn(us, q \o m, n)
           /\ n = Len(us) => Len(q) <= s - 4
<1> DEFINE q2 == q \o m  N == Len(us)
<1>0. LineOf(us, s, q, m)
  BY LineIs
<1>1. /\ Len(q2) = Len(q) + Len(m) /\ Len(q) \in Nat /\ Len(m) \in Nat /\ N \in Nat \ {0}
      /\ \A i \in 1..Len(q) : q2[i] = q[i]
      /\ \A j \in 1..Len(m) : q2[Len(q) + j] = m[j]
      /\ \A j \in 1..Len(m) : m[j][1] = N /\ Place(us, m[j]) = s + j /\ m[j] = Sent(us, N)[s + j]
      /\ \A i \in 1..Len(q2) : i \in 1..Len(q) \/ \E j \in 1..Len(m) : i = Len(q) + j
  BY <1>0 DEF LineOf
<1>2. s \in Nat /\ Left(us, s, N) = s
  BY DEF Follows, Left
<1>3. ASSUME n = N PROVE Len(q) <= s - 4
  <2>1. s >= 4
    BY <1>2, <1>3
  <2>2. CASE Len(q) = 0
    BY <1>2, <2>1, <2>2
  <2>3. CASE Len(q) > 0
    <3>1. Len(q) \in 1..Len(q) /\ q[Len(q)][1] = N
      BY <1>1, <1>2, <2>1, <2>3 DEF LastIn
    <3>2. Place(us, q[Len(q)]) \in 1..s
      BY <1>2, <3>1 DEF Runs, KnownIn
    <3>3. Place(us, q[Len(q)]) >= 4 + Len(q)
      BY <1>3, <3>1 DEF BehindIn
    <3> QED
      BY <1>1, <1>2, <3>2, <3>3
  <2> QED
    BY <1>1, <2>2, <2>3
<1> HIDE DEF q2, N
<1>4. ASSUME NEW i \in 1..Len(q2)
      PROVE  q2[i][1] >= n /\ (q2[i][1] = n => Place(us, q2[i]) >= 4 + i)
  <2>1. CASE i \in 1..Len(q)
    BY <1>1, <2>1 DEF BehindIn
  <2>2. CASE i \notin 1..Len(q)
    <3>1. PICK j \in 1..Len(m) : i = Len(q) + j
      BY <1>1, <2>2
    <3>2. q2[i] = m[j] /\ m[j][1] = N /\ Place(us, m[j]) = s + j /\ N >= n
      BY <1>1, <3>1 DEF N
    <3> QED
      BY <1>1, <1>2, <1>3, <3>1, <3>2
  <2> QED
    BY <2>1, <2>2
<1> QED
  BY <1>3, <1>4 DEF BehindIn, q2, N

\* ... and so all of its run is still there.
LEMMA AllAppended ==
    ASSUME NEW us, NEW s, NEW q \in Seq(Unit), NEW m \in Seq(Unit), Follows(us, s, m),
           Runs(us, s, q), LastIn(us, s, q), NEW n \in 1..Len(us), Left(us, s, n) >= 4,
           BehindIn(us, q, n), AllBehind(us, s, q, n)
    PROVE  AllBehind(us, s + Len(m), q \o m, n)
<1> DEFINE q2 == q \o m  s2 == s + Len(m)  N == Len(us)
<1>0. LineOf(us, s, q, m)
  BY LineIs
<1>1. /\ Len(q2) = Len(q) + Len(m) /\ Len(q) \in Nat /\ Len(m) \in Nat /\ N \in Nat \ {0}
      /\ \A i \in 1..Len(q) : q2[i] = q[i]
      /\ \A j \in 1..Len(m) : q2[Len(q) + j] = m[j]
      /\ \A j \in 1..Len(m) : m[j][1] = N /\ Place(us, m[j]) = s + j /\ m[j] = Sent(us, N)[s + j]
      /\ \A i \in 1..Len(q2) : i \in 1..Len(q) \/ \E j \in 1..Len(m) : i = Len(q) + j
  BY <1>0 DEF LineOf
<1>2. s \in Nat /\ Left(us, s, N) = s /\ Left(us, s2, N) = s2
  BY DEF Follows, Left
<1>3. n # N => Left(us, s2, n) = Left(us, s, n)
  BY DEF Left
<1>4. ASSUME NEW k \in 1..(Left(us, s, n) - 4)
      PROVE  k <= Len(q2) /\ q2[k][1] = n /\ Place(us, q2[k]) = k + 4
  <2>1. k <= Len(q) /\ q[k][1] = n /\ Place(us, q[k]) = k + 4
    BY DEF AllBehind
  <2>2. k \in 1..Len(q)
    BY <1>1, <2>1
  <2> QED
    BY <1>1, <2>1, <2>2
<1>5. ASSUME n = N, NEW k \in 1..(s2 - 4), k > s - 4
      PROVE  k <= Len(q2) /\ q2[k][1] = n /\ Place(us, q2[k]) = k + 4
  <2>1. s >= 4 /\ Len(q) <= s - 4
    BY <1>2, <1>5, BehindAppended
  <2>2. Len(q) = s - 4
    <3>1. CASE s = 4
      BY <1>1, <2>1, <3>1
    <3>2. CASE s > 4
      <4>1. s - 4 \in 1..(Left(us, s, n) - 4)
        BY <1>2, <1>5, <3>2
      <4>2. s - 4 <= Len(q)
        BY <4>1 DEF AllBehind
      <4> QED
        BY <1>1, <1>2, <2>1, <4>2
    <3> QED
      BY <1>2, <2>1, <3>1, <3>2
  <2>3. k + 4 - s \in 1..Len(m) /\ k = Len(q) + (k + 4 - s) /\ s + (k + 4 - s) = k + 4
    BY <1>1, <1>2, <1>5, <2>1, <2>2
  <2>4. /\ q2[Len(q) + (k + 4 - s)] = m[k + 4 - s] /\ m[k + 4 - s][1] = N
        /\ Place(us, m[k + 4 - s]) = s + (k + 4 - s)
    BY <1>1, <2>3
  <2> QED
    BY <1>1, <1>5, <2>3, <2>4
<1> HIDE DEF q2, N
<1>6. CASE n # N
  BY <1>3, <1>4, <1>6 DEF AllBehind, q2
<1>7. CASE n = N
  <2>1. ASSUME NEW k \in 1..(s2 - 4)
        PROVE  k <= Len(q2) /\ q2[k][1] = n /\ Place(us, q2[k]) = k + 4
    <3>1. CASE k <= s - 4
      BY <1>2, <1>4, <1>7, <3>1
    <3>2. CASE k > s - 4
      BY <1>5, <1>7, <3>2
    <3> QED
      BY <1>2, <3>1, <3>2
  <2> QED
    BY <2>1, <1>2, <1>7 DEF AllBehind, q2
<1> QED
  BY <1>6, <1>7

---------------------------------------------------------------------------
(* What the channel makes of them.                                         *)

\* Four words that pass for a header are those of one run, and what is behind
\* them is behind the run's header.
LEMMA HeaderIs ==
    ASSUME NEW us \in Seq(Files), Len(us) <= Sessions, NEW s,
           NEW h \in Seq(Unit), NEW l \in Seq(Unit),
           Runs(us, s, h \o l), Len(h) = 4, Valid(h),
           \A n \in 1..Len(us) : Left(us, s, n) \in Nat /\ Left(us, s, n) <= Len(Sent(us, n))
    PROVE  /\ h[1][1] \in 1..Len(us) /\ Words(h) = HeaderOf(us, h[1][1])
           /\ Left(us, s, h[1][1]) >= 4 /\ BehindIn(us, l, h[1][1])
           /\ \A gone : UnbrokenIn(us, s, h \o l, gone) /\ h[1][1] \notin gone
                          => AllBehind(us, s, l, h[1][1])
<1> DEFINE q == h \o l  n == h[1][1]
<1>1. /\ Len(q) = 4 + Len(l) /\ Len(l) \in Nat
      /\ \A i \in 1..4 : q[i] = h[i]
      /\ \A i \in 1..Len(l) : q[4 + i] = l[i]
  <2>1. /\ Len(q) = Len(h) + Len(l)
        /\ \A i \in 1..(Len(h) + Len(l)) : q[i] = IF i <= Len(h) THEN h[i] ELSE l[i - Len(h)]
    BY ConcatProperties
  <2> HIDE DEF q
  <2>2. Len(l) \in Nat
    OBVIOUS
  <2>3. \A i \in 1..(4 + Len(l)) : q[i] = IF i <= 4 THEN h[i] ELSE l[i - 4]
    BY <2>1
  <2>4. ASSUME NEW i \in 1..Len(l) PROVE q[4 + i] = l[i]
    <3>1. 4 + i \in 1..(4 + Len(l)) /\ ~(4 + i <= 4) /\ 4 + i - 4 = i
      BY <2>2
    <3> QED
      BY <2>3, <3>1
  <2>5. ASSUME NEW i \in 1..4 PROVE q[i] = h[i]
    <3>1. i \in 1..(4 + Len(l)) /\ i <= 4
      BY <2>2
    <3> QED
      BY <2>3, <3>1
  <2> QED
    BY <2>1, <2>2, <2>4, <2>5
<1>2. \A i \in 1..Len(q) : /\ q[i][1] \in 1..Len(us) /\ Place(us, q[i]) \in 1..Left(us, s, q[i][1])
                         /\ q[i] = Sent(us, q[i][1])[Place(us, q[i])]
  BY DEF Runs, KnownIn
<1>11. OrderedIn(us, q)
  BY DEF Runs
<1>3. /\ Place(us, q[1]) = 1 /\ Place(us, q[2]) = 2 /\ Place(us, q[3]) = 3 /\ Place(us, q[4]) = 4
  <2>1. q[1][2] = "HAXX" /\ q[2][2] = "args" /\ q[3][2] = "len" /\ q[4][2] = "un"
    BY <1>1 DEF Valid
  <2> HIDE DEF q
  <2> QED
    BY <2>1 DEF Place
<1> HIDE DEF q
<1>4. \A i \in 1..3 : q[i][1] # q[i + 1][1] => Place(us, q[i + 1]) = 1
  <2>1. \A i \in 1..3 : i \in 1..(Len(q) - 1)
    BY <1>1
  <2> QED
    BY <2>1 DEF Runs, BeginsIn, q
<1>5. q[1][1] = n /\ q[2][1] = n /\ q[3][1] = n /\ q[4][1] = n
  <2>1. q[1][1] = q[2][1] /\ q[2][1] = q[3][1] /\ q[3][1] = q[4][1]
    <3>1. /\ q[1][1] # q[2][1] => Place(us, q[2]) = 1
          /\ q[2][1] # q[3][1] => Place(us, q[3]) = 1
          /\ q[3][1] # q[4][1] => Place(us, q[4]) = 1
      BY <1>4
    <3> QED
      BY <3>1, <1>3
  <2> QED
    BY <2>1, <1>1
<1>6. {1, 2, 3, 4} \subseteq 1..Len(q)
  BY <1>1
<1>7. /\ n \in 1..Len(us) /\ Left(us, s, n) \in Nat /\ Left(us, s, n) >= 4
      /\ Left(us, s, n) <= Len(Sent(us, n))
  <2>1. n \in 1..Len(us) /\ 4 \in 1..Left(us, s, n)
    BY <1>2, <1>3, <1>5, <1>6
  <2> QED
    BY <2>1
<1>8. Words(h) = HeaderOf(us, n)
  <2>1. /\ h[2] = Sent(us, n)[2] /\ h[3] = Sent(us, n)[3] /\ h[4] = Sent(us, n)[4]
    <3>1. /\ q[2] = Sent(us, q[2][1])[Place(us, q[2])]
          /\ q[3] = Sent(us, q[3][1])[Place(us, q[3])]
          /\ q[4] = Sent(us, q[4][1])[Place(us, q[4])]
      BY <1>2, <1>6
    <3>2. q[2] = h[2] /\ q[3] = h[3] /\ q[4] = h[4]
      BY <1>1
    <3> QED
      BY <1>3, <1>5, <3>1, <3>2
  <2>2. {2, 3, 4} \subseteq 1..Len(Sent(us, n))
    <3>0. us[n] \in Files /\ n \in 1..Sessions
      BY <1>7, TransferAssumption
    <3>1. Sent(us, n) \in Seq(Unit)
      BY <3>0, StreamIs DEF Sent
    <3>2. Len(Sent(us, n)) \in Nat
      BY <3>1
    <3> QED
      BY <1>7, <3>2
  <2>3. /\ Sent(us, n)[2][3] = ArgsLen(us[n]) /\ Sent(us, n)[3][3] = Payload(us[n]).len
        /\ Sent(us, n)[4][3] = Payload(us[n]).un
    BY <1>7, <2>2, PlaceIs
  <2> QED
    BY <2>1, <2>3 DEF Words, HeaderOf
<1>9. BehindIn(us, l, n)
  <2>1. ASSUME NEW i \in 1..Len(l)
        PROVE  l[i][1] >= n /\ (l[i][1] = n => Place(us, l[i]) >= 4 + i)
    <3>1. 4 \in 1..Len(q) /\ 4 + i \in 1..Len(q) /\ 4 < 4 + i /\ 4 + i - 4 = i
      BY <1>1
    <3>2. /\ q[4][1] <= q[4 + i][1]
          /\ q[4][1] = q[4 + i][1] => Place(us, q[4]) + (4 + i - 4) <= Place(us, q[4 + i])
      BY <1>3, <1>11, <3>1 DEF OrderedIn
    <3>3. q[4 + i] = l[i] /\ q[4 + i][1] \in 1..Len(us)
      BY <1>1, <1>2, <3>1
    <3> QED
      BY <1>3, <1>5, <1>7, <3>1, <3>2, <3>3
  <2> QED
    BY <2>1 DEF BehindIn
<1>10. ASSUME NEW gone, UnbrokenIn(us, s, q, gone), n \notin gone
       PROVE  AllBehind(us, s, l, n)
  <2>1. ASSUME NEW k \in 1..(Left(us, s, n) - 4)
        PROVE  k <= Len(l) /\ l[k][1] = n /\ Place(us, l[k]) = k + 4
    <3>1. k \in Nat /\ 4 \in 1..Len(q) /\ Place(us, q[4]) + k <= Left(us, s, n) /\ q[4][1] = n
      BY <1>3, <1>5, <1>6, <1>7
    <3>2. /\ 4 + k <= Len(q) /\ q[4 + k][1] = q[4][1] /\ Place(us, q[4 + k]) = Place(us, q[4]) + k
      BY <1>10, <3>1 DEF UnbrokenIn
    <3>3. k \in 1..Len(l) /\ q[4 + k] = l[k]
      BY <1>1, <3>1, <3>2
    <3> QED
      BY <1>3, <3>1, <3>2, <3>3
  <2> QED
    BY <2>1 DEF AllBehind
<1> QED
  BY <1>7, <1>8, <1>9, <1>10 DEF q

\* As many units of one run as it has behind its header are those.
LEMMA WholeIs ==
    ASSUME NEW us \in Seq(Files), Len(us) <= Sessions, NEW s,
           NEW g \in Seq(Unit), NEW l \in Seq(Unit),
           NEW n \in 1..Len(us), Runs(us, s, g \o l), BehindIn(us, g \o l, n),
           Len(g) = Payload(us[n]).len + ArgsLen(us[n]),
           Left(us, s, n) <= Len(Sent(us, n)), Left(us, s, n) \in Nat,
           \A i \in 1..Len(g) : g[i][1] = n
    PROVE  g = SubSeq(Sent(us, n), 5, Len(Sent(us, n)))
<1> DEFINE q == g \o l  W == Len(g)  S == Sent(us, n)
<1>1. S \in Seq(Unit) /\ Len(S) = 4 + W /\ W \in Nat
  <2>1. us[n] \in Files /\ n \in 1..Sessions
    BY TransferAssumption
  <2>2. Payload(us[n]).len \in Nat /\ ArgsLen(us[n]) \in Nat
    BY <2>1, PayloadTyped, ArgsLenTyped
  <2>3. S \in Seq(Unit) /\ Len(S) = 4 + Payload(us[n]).len + ArgsLen(us[n])
    BY <2>1, StreamIs, Zenon DEF Sent
  <2> QED
    BY <2>2, <2>3
<1>2. /\ \A i \in 1..W : q[i] = g[i]
      /\ Len(q) \in Nat /\ W <= Len(q)
  BY ConcatProperties, LenProperties
<1> HIDE DEF q, W, S
<1>3. ASSUME NEW i \in 1..W PROVE Place(us, g[i]) = i + 4 /\ g[i] = S[i + 4]
  <2>1. /\ i \in 1..Len(q) /\ W \in 1..Len(q) /\ q[i] = g[i] /\ q[W] = g[W] /\ g[i][1] = n
        /\ g[W][1] = n
    BY <1>1, <1>2 DEF W
  <2>2. /\ Place(us, g[i]) \in 1..Left(us, s, n) /\ g[i] = S[Place(us, g[i])]
        /\ Place(us, g[W]) \in 1..Left(us, s, n)
    BY <2>1 DEF Runs, KnownIn, q, S
  <2>3. Place(us, g[i]) >= 4 + i
    BY <2>1 DEF BehindIn, q
  <2>4. i < W => Place(us, g[i]) + (W - i) <= Place(us, g[W])
    BY <2>1 DEF Runs, OrderedIn, q
  <2>5. Place(us, g[W]) <= 4 + W
    BY <1>1, <2>2 DEF S
  <2>6. Place(us, g[i]) = i + 4
    BY <1>1, <2>2, <2>3, <2>4, <2>5
  <2> QED
    BY <2>2, <2>6
<1>4. /\ SubSeq(S, 5, Len(S)) \in Seq(Unit) /\ Len(SubSeq(S, 5, Len(S))) = W
      /\ \A i \in 1..W : SubSeq(S, 5, Len(S))[i] = S[i + 4]
  <2>1. \A i \in 5..Len(S) : S[i] \in Unit
    BY <1>1
  <2>2. /\ SubSeq(S, 5, Len(S)) \in Seq(Unit)
        /\ Len(SubSeq(S, 5, Len(S))) = IF 5 <= Len(S) THEN Len(S) - 5 + 1 ELSE 0
        /\ \A i \in 1..(Len(S) - 5 + 1) : SubSeq(S, 5, Len(S))[i] = S[5 + i - 1]
    BY <1>1, <2>1, SubSeqProperties
  <2>3. ASSUME NEW i \in 1..W PROVE i \in 1..(Len(S) - 5 + 1) /\ 5 + i - 1 = i + 4
    BY <1>1
  <2> QED
    BY <1>1, <2>2, <2>3
<1> QED
  BY <1>3, <1>4, SeqEqual DEF W, S

---------------------------------------------------------------------------
(* The steps.                                                              *)

\* What has left each run is no more than the run has.
LEMMA LeftTyped ==
    ASSUME NEW us \in Seq(Files), Len(us) <= Sessions, NEW s \in Nat,
           us # <<>> => s <= Len(Sent(us, Len(us)))
    PROVE  \A n \in 1..Len(us) : /\ Left(us, s, n) \in Nat /\ Left(us, s, n) <= Len(Sent(us, n))
                                /\ Len(Sent(us, n)) \in Nat /\ Len(Sent(us, n)) >= 4
<1>1. ASSUME NEW n \in 1..Len(us)
      PROVE  /\ Left(us, s, n) \in Nat /\ Left(us, s, n) <= Len(Sent(us, n))
             /\ Len(Sent(us, n)) \in Nat /\ Len(Sent(us, n)) >= 4
  <2>1. us[n] \in Files /\ n \in 1..Sessions /\ us # <<>>
    BY TransferAssumption
  <2>2. Payload(us[n]).len \in Nat /\ ArgsLen(us[n]) \in Nat
    BY <2>1, PayloadTyped, ArgsLenTyped
  <2>3. Len(Sent(us, n)) = 4 + Payload(us[n]).len + ArgsLen(us[n])
    BY <2>1, StreamIs, Zenon DEF Sent
  <2>4. Len(Sent(us, n)) \in Nat /\ Len(Sent(us, n)) >= 4
    BY <2>2, <2>3
  <2> QED
    BY <2>1, <2>4 DEF Left
<1> QED
  BY <1>1

\* The same of the state.
LEMMA LeftIs ==
    ASSUME Typed, ClientOrder
    PROVE  /\ Len(ups) \in Nat /\ Len(ups) <= Sessions
           /\ \A n \in 1..Len(ups) :
                 /\ Left(ups, sent, n) \in Nat /\ Left(ups, sent, n) <= Len(Sent(ups, n))
                 /\ Len(Sent(ups, n)) \in Nat /\ Len(Sent(ups, n)) >= 4
<1>1. ups \in Seq(Files) /\ Len(ups) <= Sessions /\ sent \in Nat
  BY DEF Typed, TransferTypeOK, ClientOrder
<1>2. ups # <<>> => sent <= Len(Sent(ups, Len(ups)))
  BY DEF ClientOrder
<1> QED
  BY <1>1, <1>2, LeftTyped

\* The line behind what was taken has its units in order.
LEMMA SeenIs ==
    ASSUME NEW g \in Seq(Unit), NEW l \in Seq(Unit)
    PROVE  /\ g \o l \in Seq(Unit) /\ Len(g \o l) = Len(g) + Len(l) /\ Len(g) \in Nat /\ Len(l) \in Nat
           /\ Part(g \o l, l, Len(g)) /\ Part(g \o l, g, 0)
           /\ Part(g \o l, g \o l, 0) /\ <<>> \o l = l /\ g \o <<>> = g
<1>1. /\ g \o l \in Seq(Unit) /\ Len(g \o l) = Len(g) + Len(l)
      /\ \A i \in 1..(Len(g) + Len(l)) : (g \o l)[i] = IF i <= Len(g) THEN g[i] ELSE l[i - Len(g)]
  BY ConcatProperties
<1>2. Len(g) \in Nat /\ Len(l) \in Nat
  OBVIOUS
<1>3. ASSUME NEW i \in 1..Len(l) PROVE l[i] = (g \o l)[Len(g) + i]
  <2>1. Len(g) + i \in 1..(Len(g) + Len(l)) /\ ~(Len(g) + i <= Len(g)) /\ Len(g) + i - Len(g) = i
    BY <1>2
  <2> QED
    BY <1>1, <2>1
<1>4. ASSUME NEW i \in 1..Len(g) PROVE g[i] = (g \o l)[0 + i]
  <2>1. i \in 1..(Len(g) + Len(l)) /\ i <= Len(g) /\ 0 + i = i
    BY <1>2
  <2> QED
    BY <1>1, <2>1
<1>5. Part(g \o l, l, Len(g)) /\ Part(g \o l, g, 0) /\ Part(g \o l, g \o l, 0)
  BY <1>1, <1>2, <1>3, <1>4 DEF Part
<1> QED
  BY <1>1, <1>2, <1>5, ConcatEmptySeq

\* Nothing is sent or lost: the runs are as they were.
LEMMA SameGrows ==
    ASSUME Typed, ClientOrder, NEW gone, lost \subseteq gone
    PROVE  Grows(ups, sent, ups, sent) /\ Rests(ups, sent, ups, sent, lost, gone)
BY LeftIs DEF Grows, Rests

\* The first d units are done with.
LEMMA InOrderKept ==
    ASSUME Typed, ClientOrder, InOrder, UNCHANGED <<via, client, lost>>, NEW d \in Nat,
           Part(Seen, Seen', d), d + Len(Seen') = Len(Seen)
    PROVE  ClientOrder' /\ InOrder'
<1>1. ups' = ups /\ sent' = sent /\ lost' = lost /\ via' = via /\ cPc' = cPc
  BY DEF client
<1>2. Grows(ups, sent, ups, sent) /\ Rests(ups, sent, ups, sent, lost, lost)
  BY SameGrows
<1>3. Runs(ups, sent, Seen')
  BY <1>2, RunsKept DEF InOrder
<1>4. LastIn(ups, sent, Seen')
  <2>1. /\ Len(Seen) \in Nat /\ Len(Seen') \in Nat /\ d + Len(Seen') = Len(Seen)
        /\ \A i \in 1..Len(Seen') : Seen'[i] = Seen[d + i]
    BY DEF Part
  <2>2. ASSUME Len(Seen') > 0 PROVE Seen'[Len(Seen')] = Seen[Len(Seen)] /\ Len(Seen) > 0
    <3> DEFINE n == Len(Seen')  N == Len(Seen)
    <3>1. n \in 1..n /\ d + n = N /\ N > 0
      BY <2>1, <2>2
    <3>2. Seen'[n] = Seen[d + n]
      BY <2>1, <3>1
    <3> QED
      BY <3>1, <3>2
  <2> QED
    BY <2>2 DEF InOrder, LastIn
<1>5. via = "gecko" => UnbrokenIn(ups, sent, Seen', lost)
  BY <1>2, UnbrokenKept DEF InOrder
<1>6. ASSUME via = "tcp", NEW i \in 1..Len(Seen') PROVE Seen'[i][1] = Len(ups)
  BY <1>6 DEF InOrder, Part
<1> QED
  BY <1>1, <1>3, <1>4, <1>5, <1>6 DEF ClientOrder, InOrder

\* What comes behind an accepted header stays behind it.
LEMMA AcceptedKept ==
    ASSUME InOrder, Accepted, Grows(ups, sent, ups', sent'),
           Rests(ups, sent, ups', sent', lost, lost'),
           Part(Seen, Seen', 0), via = "gecko" => Seen' = Seen,
           via' = via, header' = header, rPc \in {"accepted", "ready", "load"},
           via = "tcp" => Len(ups') = Len(ups)
    PROVE  Accepted'
<1> DEFINE n == header.session
<1>1. /\ n \in 1..Len(ups) /\ header = HeaderOf(ups, n) /\ Left(ups, sent, n) >= 4
      /\ via = "tcp" => n = Len(ups)
      /\ BehindIn(ups, Seen, n)
      /\ (via = "gecko" /\ n \notin lost) => AllBehind(ups, sent, Seen, n)
  BY DEF Accepted
<1> HIDE DEF n
<1>2. Runs(ups, sent, Seen)
  BY DEF InOrder
<1>3. n \in 1..Len(ups') /\ header = HeaderOf(ups', n) /\ Left(ups', sent', n) >= 4
  <2>1. /\ Len(ups) \in Nat /\ Len(ups') \in Nat /\ Len(ups) <= Len(ups') /\ ups'[n] = ups[n]
        /\ Left(ups, sent, n) \in Nat /\ Left(ups', sent', n) \in Nat
        /\ Left(ups, sent, n) <= Left(ups', sent', n)
    BY <1>1 DEF Grows
  <2>2. HeaderOf(ups', n) = HeaderOf(ups, n)
    BY <2>1 DEF HeaderOf
  <2>3. n \in 1..Len(ups') /\ Left(ups', sent', n) >= 4
    BY <1>1, <2>1
  <2>4. header = HeaderOf(ups', n)
    BY <1>1, <2>2, Zenon
  <2> QED
    BY <2>3, <2>4, Zenon
<1>4. BehindIn(ups', Seen', n)
  BY <1>1, <1>2, BehindKept
<1>5. ASSUME via = "gecko", n \notin lost' PROVE AllBehind(ups', sent', Seen', n)
  <2>1. n \notin lost
    BY <1>1, <1>5, Zenon DEF Rests
  <2> QED
    BY <1>1, <1>2, <1>5, <2>1, AllKept
<1> QED
  BY <1>1, <1>3, <1>4, <1>5 DEF Accepted, n

\* The units are where they were.
LEMMA SeenKept ==
    ASSUME IInv, UNCHANGED <<via, client, lost>>, Seen' = Seen
    PROVE  ClientOrder' /\ InOrder'
<1>1. Taken \in Seq(Unit) /\ line \in Seq(Unit)
  BY DEF IInv, Typed, Taken
<1>2. Part(Seen, Seen, 0) /\ Len(Seen) \in Nat
  BY <1>1, SeenIs DEF Seen
<1>3. Part(Seen, Seen', 0) /\ 0 + Len(Seen') = Len(Seen)
  BY <1>2
<1> QED
  BY <1>3, InOrderKept DEF IInv

\* What was taken is done with.
LEMMA TakenDropped ==
    ASSUME IInv, UNCHANGED <<via, client, lost, line>>, Taken' = <<>>
    PROVE  ClientOrder' /\ InOrder' /\ Seen' = line
<1>1. Taken \in Seq(Unit) /\ line \in Seq(Unit)
  BY DEF IInv, Typed, Taken
<1>2. Seen' = line
  BY <1>1, SeenIs DEF Seen
<1>3. Len(Taken) \in Nat /\ Part(Seen, line, Len(Taken)) /\ Len(Taken) + Len(line) = Len(Seen)
  BY <1>1, SeenIs DEF Seen
<1>4. ClientOrder' /\ InOrder'
  BY <1>2, <1>3, InOrderKept DEF IInv
<1> QED
  BY <1>2, <1>4

\* Nothing has been received of no block.
LEMMA NoBlock == 0 \div TCP_BLOCK_SIZE = 0
BY TransferAssumption

\* What is received at once reaches the next block at most.
LEMMA NextBlock ==
    ASSUME NEW a \in Nat, NEW n \in Nat, n <= MAX_BLOCK
    PROVE  (a + n) \div TCP_BLOCK_SIZE \in {a \div TCP_BLOCK_SIZE, (a \div TCP_BLOCK_SIZE) + 1}
<1>1. ASSUME NEW b \in Nat \ {0}, NEW k \in 0..b
      PROVE  (a + k) \div b \in {a \div b, (a \div b) + 1}
  OBVIOUS
<1>2. n \in 0..TCP_BLOCK_SIZE /\ TCP_BLOCK_SIZE \in Nat \ {0}
  BY TransferAssumption
<1> QED
  BY <1>1, <1>2

\* A receive begins: main polls, or a client has connected.
LEMMA PollKeepsIInv == IInv /\ Poll => IInv'
<1> SUFFICES ASSUME IInv, Poll PROVE IInv'
  OBVIOUS
<1>1. Typed'
  BY TransferAssumption, NoBlock DEF IInv, Typed, TransferTypeOK, Poll, client, Limit
<1>2. Seen' = Seen
  BY DEF IInv, Receiver, Poll, Seen, Taken
<1>3. ClientOrder' /\ InOrder'
  BY <1>2, SeenKept DEF Poll
<1>4. Receiver' /\ Accepted' /\ TransferHonest'
  BY <1>1 DEF IInv, Receiver, Poll, Accepted, TransferHonest, Typed, Wanted
<1> QED
  BY <1>1, <1>3, <1>4 DEF IInv

\* A header that passes the checks is the whole header of one run.
LEMMA CheckKeepsIInv == IInv /\ Check => IInv'
<1> SUFFICES ASSUME IInv, Check PROVE IInv'
  OBVIOUS
<1>1. Typed'
  <2>1. /\ got' = <<>> /\ line' = line /\ clock' = 0 /\ step' = 0 /\ via' = via /\ lost' = lost
        /\ cPc' = cPc /\ ups' = ups
    BY DEF Check, client
  <2>2. conn' \in {conn, "none"} /\ rPc' \in {"accepted", "ready", "flush"}
    BY DEF Check
  <2>3. Limit' = Limit /\ Limit \in Nat
    BY <2>1, TransferAssumption DEF Limit
  <2>4. got' \in Seq(Unit) /\ Len(got') <= 4 /\ Len(got') = 0
    BY <2>1
  <2>5. 0 \in 0..(Limit' + 1)
    BY <2>3
  <2>6. TransferTypeOK'
    BY <2>1, <2>2, <2>4, <2>5, NoBlock DEF IInv, Typed, TransferTypeOK
  <2> QED
    BY <2>1, <2>4, <2>6 DEF IInv, Typed
<1>2. ClientOrder' /\ InOrder' /\ Seen' = line
  <2>1. Taken' = <<>> /\ UNCHANGED <<via, client, lost, line>>
    BY DEF Check, Taken
  <2> QED
    BY <2>1, TakenDropped
<1>3. Receiver'
  BY DEF IInv, Receiver, Check
<1>4. Accepted'
  <2>1. CASE Valid(got)
    <3> DEFINE n == got[1][1]
    <3>1. Seen = got \o line /\ Len(got) = 4 /\ got \in Seq(Unit) /\ line \in Seq(Unit)
      BY DEF IInv, Typed, Check, Seen, Taken
    <3>2. Runs(ups, sent, got \o line) /\ ups \in Seq(Files) /\ Len(ups) <= Sessions
      BY <3>1 DEF IInv, InOrder, ClientOrder, Typed, TransferTypeOK
    <3>3. \A m \in 1..Len(ups) : Left(ups, sent, m) \in Nat /\ Left(ups, sent, m) <= Len(Sent(ups, m))
      BY LeftIs DEF IInv
    <3>4. /\ n \in 1..Len(ups) /\ Words(got) = HeaderOf(ups, n)
          /\ Left(ups, sent, n) >= 4 /\ BehindIn(ups, line, n)
          /\ \A gone : UnbrokenIn(ups, sent, got \o line, gone) /\ n \notin gone
                         => AllBehind(ups, sent, line, n)
      BY <2>1, <3>1, <3>2, <3>3, HeaderIs
    <3>5. via = "tcp" => n = Len(ups)
      <4>1. Part(Seen, got, 0) /\ 1 \in 1..Len(got)
        BY <3>1, SeenIs
      <4>2. 1 \in 1..Len(Seen) /\ Seen[1] = got[1]
        BY <4>1 DEF Part
      <4> QED
        BY <4>2 DEF IInv, InOrder
    <3> HIDE DEF n
    <3>6. (via = "gecko" /\ n \notin lost) => AllBehind(ups, sent, line, n)
      BY <3>1, <3>4 DEF IInv, InOrder
    <3>7. /\ header' = HeaderOf(ups, n) /\ header'.session = n /\ ups' = ups /\ sent' = sent
          /\ lost' = lost /\ via' = via
      BY <2>1, <3>4 DEF Check, HeaderOf, client
    <3> QED
      BY <1>2, <3>4, <3>5, <3>6, <3>7 DEF Accepted
  <2>2. CASE ~Valid(got)
    BY <2>2 DEF Check, Accepted
  <2> QED
    BY <2>1, <2>2
<1>5. TransferHonest'
  BY <1>1 DEF Check, TransferHonest, Typed
<1> QED
  BY <1>1, <1>2, <1>3, <1>4, <1>5 DEF IInv

\* main has loader_load run.
LEMMA LoadKeepsIInv == IInv /\ Load => IInv'
<1> SUFFICES ASSUME IInv, Load PROVE IInv'
  OBVIOUS
<1>1. Seen' = Seen /\ UNCHANGED <<via, client, lost>>
  BY DEF Load, Seen, Taken
<1>2. ClientOrder' /\ InOrder'
  BY <1>1, SeenKept
<1>3. Accepted'
  BY <1>1, SameGrows DEF IInv, Load, Accepted, client
<1>4. got = <<>> /\ got' = got
  BY DEF IInv, Receiver, Load
<1>5. header.len \in Nat /\ header.args \in Nat
  <2>1. header = HeaderOf(ups, header.session) /\ ups[header.session] \in Files
    BY DEF IInv, Accepted, Load, ClientOrder
  <2> QED
    BY <2>1, PayloadTyped, ArgsLenTyped DEF HeaderOf
<1>6. Receiver'
  BY <1>4, <1>5 DEF IInv, Receiver, Load, Wanted
<1>7. Typed'
  BY <1>4, NoBlock DEF IInv, Typed, TransferTypeOK, Receiver, Load, client, Limit
<1> QED
  BY <1>2, <1>3, <1>6, <1>7 DEF IInv, TransferHonest, Typed, Load

\* The lengths that an accepted header asks for are numbers.
LEMMA WantedTyped ==
    ASSUME IInv, rPc \in {"header", "accepted", "ready", "load"}
    PROVE  Wanted \in Nat
<1>1. CASE rPc = "header"
  BY <1>1 DEF Wanted
<1>2. CASE rPc # "header"
  <2>1. header = HeaderOf(ups, header.session) /\ ups[header.session] \in Files
    BY <1>2 DEF IInv, Accepted, ClientOrder
  <2> QED
    BY <1>2, <2>1, PayloadTyped, ArgsLenTyped DEF HeaderOf, Wanted
<1> QED
  BY <1>1, <1>2

\* Units go from the line to the channel, and none gets lost.
LEMMA TakeKeeps ==
    ASSUME IInv, rPc \in {"header", "load"}, rPc' = rPc, NEW most \in Nat, Take(most)
    PROVE  /\ Seen' = Seen
           /\ got' \in Seq(Unit) /\ line' \in Seq(Unit)
           /\ Len(got') <= Wanted /\ Len(line') <= Len(line) /\ Len(line') \in Nat
           /\ Len(got) \in Nat /\ Len(got') \in Nat
           /\ \E n \in 1..most : Len(got') = Len(got) + n
<1>1. PICK n \in 1..most : /\ n <= Len(line) /\ n <= Wanted - Len(got)
                          /\ got' = got \o SubSeq(line, 1, n) /\ line' = SubSeq(line, n + 1, Len(line))
  BY DEF Take
<1>2. /\ got \in Seq(Unit) /\ line \in Seq(Unit) /\ Wanted \in Nat /\ n \in Nat
      /\ Len(got) \in Nat /\ Len(line) \in Nat
  BY WantedTyped DEF IInv, Typed
<1> DEFINE front == SubSeq(line, 1, n)  rest == SubSeq(line, n + 1, Len(line))
<1>3. front \in Seq(Unit) /\ Len(front) = n /\ rest \in Seq(Unit) /\ Len(rest) = Len(line) - n
  <2>1. \A i \in 1..Len(line) : line[i] \in Unit
    BY <1>2
  <2>2. /\ SubSeq(line, 1, n) \in Seq(Unit)
        /\ Len(SubSeq(line, 1, n)) = IF 1 <= n THEN n - 1 + 1 ELSE 0
    BY <1>1, <1>2, <2>1, SubSeqProperties
  <2>3. /\ SubSeq(line, n + 1, Len(line)) \in Seq(Unit)
        /\ Len(SubSeq(line, n + 1, Len(line))) =
              IF n + 1 <= Len(line) THEN Len(line) - (n + 1) + 1 ELSE 0
    <3>1. \A i \in (n + 1)..Len(line) : line[i] \in Unit
      BY <1>2, <2>1
    <3>2. n + 1 \in Int /\ Len(line) \in Int
      BY <1>2
    <3> QED
      BY <3>1, <3>2, SubSeqProperties
  <2> QED
    BY <1>1, <1>2, <2>2, <2>3
<1>4. front \o rest = line
  <2>1. 1 \in 1..(Len(line) + 1) /\ n \in (1 - 1)..Len(line) /\ Len(line) \in n..Len(line)
    BY <1>1, <1>2
  <2>2. SubSeq(line, 1, n) \o SubSeq(line, n + 1, Len(line)) = SubSeq(line, 1, Len(line))
    BY <1>2, <2>1, ConcatAdjacentSubSeq
  <2> QED
    BY <1>2, <2>2, SubSeqFull
<1> HIDE DEF front, rest
<1>5. got' = got \o front /\ line' = rest
  BY <1>1 DEF front, rest
<1>6. got' \o line' = got \o line
  <2>1. (got \o front) \o rest = got \o (front \o rest)
    BY <1>2, <1>3, Joined, Zenon
  <2> QED
    BY <2>1, <1>4, <1>5
<1>7. Seen' = Seen
  BY <1>6 DEF Seen, Taken
<1>8. got' \in Seq(Unit) /\ Len(got') = Len(got) + n
  BY <1>2, <1>3, <1>5, ConcatProperties
<1> QED
  BY <1>1, <1>2, <1>3, <1>5, <1>7, <1>8

\* tcp_read takes what is there, a block at most.
LEMMA TcpReceiveKeepsIInv == IInv /\ TcpReceive => IInv'
<1> SUFFICES ASSUME IInv, TcpReceive PROVE IInv'
  OBVIOUS
<1>1. /\ Seen' = Seen
      /\ got' \in Seq(Unit) /\ line' \in Seq(Unit)
      /\ Len(got') <= Wanted /\ Len(line') <= Len(line) /\ Len(line') \in Nat
      /\ Len(got) \in Nat /\ Len(got') \in Nat
      /\ \E n \in 1..MAX_BLOCK : Len(got') = Len(got) + n
  BY TakeKeeps, TransferAssumption DEF TcpReceive, Waiting
<1>2. /\ UNCHANGED <<via, client, conn, rPc, header, lost>> /\ via = "tcp"
      /\ rPc \in {"header", "load"}
      /\ IF Len(got') \div TCP_BLOCK_SIZE > step
         THEN clock' = 0 /\ step' = step + 1 ELSE UNCHANGED <<clock, step>>
  BY DEF TcpReceive, Waiting
<1>3. ClientOrder' /\ InOrder'
  BY <1>1, <1>2, SeenKept
<1>4. Wanted' = Wanted
  BY <1>2 DEF Wanted
<1>5. step' = Len(got') \div TCP_BLOCK_SIZE /\ step \in Nat
  <2>1. step = Len(got) \div TCP_BLOCK_SIZE /\ step \in Nat
    BY <1>2 DEF IInv, Typed, TransferTypeOK, Receiver
  <2>2. PICK n \in 1..MAX_BLOCK : Len(got') = Len(got) + n
    BY <1>1
  <2>3. Len(got') \div TCP_BLOCK_SIZE \in {step, step + 1}
    <3>1. n \in Nat /\ n <= MAX_BLOCK
      BY <2>2, TransferAssumption
    <3> QED
      BY <1>1, <2>1, <2>2, <3>1, NextBlock
  <2> QED
    BY <1>2, <2>1, <2>3
<1>6. Typed'
  <2>1. clock' \in 0..(Limit + 1) /\ Limit' = Limit
    <3>1. Limit \in Nat /\ Limit' = Limit
      BY <1>2, TransferAssumption DEF Limit
    <3> QED
      BY <1>2, <3>1 DEF IInv, Typed, TransferTypeOK
  <2>2. Len(got') <= 4 \/ rPc = "load"
    BY <1>1, <1>2 DEF Wanted
  <2>3. (via = "tcp" /\ rPc \in {"header", "load"} => step = Len(got) \div TCP_BLOCK_SIZE)'
    BY <1>2, <1>5
  <2>4. Len(line') <= Fifo
    <3>1. Len(line) <= Fifo /\ Len(line) \in Nat /\ Fifo \in Nat
      BY TransferAssumption DEF IInv, Typed, TransferTypeOK
    <3> QED
      BY <1>1, <3>1
  <2>5. /\ cPc \in {"idle", "send", "done", "failed"} /\ Len(ups) <= Sessions
        /\ lost \subseteq 1..Sessions
        /\ conn \in {"none", "open", "shut", "reset"} /\ via \in {"tcp", "gecko"}
    BY DEF IInv, Typed, TransferTypeOK
  <2> QED
    BY <1>1, <1>2, <2>1, <2>2, <2>3, <2>4, <2>5 DEF Typed, TransferTypeOK, client
<1>7. Receiver'
  BY <1>1, <1>2, <1>4, <1>5 DEF IInv, Receiver
<1>8. Accepted'
  BY <1>1, <1>2, SameGrows, SeenKept DEF IInv, Accepted, client
<1> QED
  BY <1>2, <1>3, <1>6, <1>7, <1>8 DEF IInv, TransferHonest, Typed

\* The loops of the Gecko take what is in its FIFO.
LEMMA GeckoReceiveKeepsIInv == IInv /\ GeckoReceive => IInv'
<1> SUFFICES ASSUME IInv, GeckoReceive PROVE IInv'
  OBVIOUS
<1>1. /\ Seen' = Seen
      /\ got' \in Seq(Unit) /\ line' \in Seq(Unit)
      /\ Len(got') <= Wanted /\ Len(line') <= Len(line) /\ Len(line') \in Nat
      /\ Len(got) \in Nat /\ Len(got') \in Nat
      /\ \E n \in 1..Fifo : Len(got') = Len(got) + n
  BY TakeKeeps, TransferAssumption DEF GeckoReceive, Waiting
<1>2. /\ UNCHANGED <<via, client, conn, rPc, header, lost>> /\ via = "gecko"
      /\ rPc \in {"header", "load"}
  BY DEF GeckoReceive, Waiting
<1>3. ClientOrder' /\ InOrder'
  BY <1>1, <1>2, SeenKept
<1>4. Wanted' = Wanted
  BY <1>2 DEF Wanted
<1>5. clock' \in {0, clock} /\ step' \in Nat
  <2>1. step \in Nat /\ Len(got') >= Len(got)
    BY <1>1 DEF IInv, Receiver
  <2> QED
    BY <1>1, <2>1 DEF GeckoReceive
<1>6. Typed'
  <2>1. clock' \in 0..(Limit + 1) /\ Limit' = Limit
    <3>1. Limit \in Nat /\ Limit' = Limit
      BY <1>2, TransferAssumption DEF Limit
    <3> QED
      BY <1>5, <3>1 DEF IInv, Typed, TransferTypeOK
  <2>2. Len(got') <= 4 \/ rPc = "load"
    BY <1>1, <1>2 DEF Wanted
  <2>3. Len(line') <= Fifo
    <3>1. Len(line) <= Fifo /\ Len(line) \in Nat /\ Fifo \in Nat
      BY TransferAssumption DEF IInv, Typed, TransferTypeOK
    <3> QED
      BY <1>1, <3>1
  <2>4. /\ cPc \in {"idle", "send", "done", "failed"} /\ Len(ups) <= Sessions
        /\ lost \subseteq 1..Sessions
        /\ conn \in {"none", "open", "shut", "reset"}
        /\ rPc \in {"flush", "wait", "header", "accepted", "ready", "load", "success", "failed"}
    BY DEF IInv, Typed, TransferTypeOK
  <2>5. cPc' = cPc /\ ups' = ups
    BY <1>2 DEF client
  <2>6. (via = "tcp")' = FALSE /\ via' \in {"tcp", "gecko"}
    BY <1>2
  <2>7. TransferTypeOK'
    BY <1>2, <2>1, <2>2, <2>3, <2>4, <2>5, <2>6 DEF TransferTypeOK
  <2> QED
    BY <1>1, <2>7 DEF Typed
<1>7. Receiver'
  BY <1>1, <1>2, <1>4, <1>5 DEF IInv, Receiver
<1>8. Accepted'
  BY <1>1, <1>2, SameGrows, SeenKept DEF IInv, Accepted, client
<1> QED
  BY <1>2, <1>3, <1>6, <1>7, <1>8 DEF IInv, TransferHonest, Typed

\* The receiver sleeps within its limit.
LEMMA SleepKeepsIInv == IInv /\ Sleep => IInv'
<1> SUFFICES ASSUME IInv, Sleep PROVE IInv'
  OBVIOUS
<1>1. Seen' = Seen /\ UNCHANGED <<via, client, line, conn, rPc, got, header, step, lost>>
  BY DEF Sleep, Seen, Taken
<1>2. ClientOrder' /\ InOrder'
  BY <1>1, SeenKept
<1>3. clock' = clock + 1 /\ clock \in 0..Limit /\ Limit \in Nat /\ Limit' = Limit
  BY <1>1, TransferAssumption DEF Sleep, IInv, Typed, TransferTypeOK, Limit
<1>4. Typed'
  BY <1>1, <1>3 DEF IInv, Typed, TransferTypeOK, client
<1>5. Receiver'
  <2>1. Wanted' = Wanted /\ clock' \in Nat
    BY <1>1, <1>3 DEF Wanted
  <2> QED
    BY <1>1, <2>1 DEF IInv, Receiver, client
<1>6. Accepted'
  BY <1>1 DEF IInv, Accepted, client
<1>7. TransferHonest'
  BY <1>1, <1>4 DEF IInv, TransferHonest, Sleep, Typed
<1> QED
  BY <1>2, <1>4, <1>5, <1>6, <1>7 DEF IInv

\* A receive that is given up leaves its units behind.
LEMMA TimesOutKeepsIInv == IInv /\ TimesOut => IInv'
<1> SUFFICES ASSUME IInv, TimesOut PROVE IInv'
  OBVIOUS
<1>1. Taken' = <<>> /\ UNCHANGED <<via, client, lost, line>>
  BY DEF TimesOut, Taken
<1>2. ClientOrder' /\ InOrder'
  BY <1>1, TakenDropped
<1>3. Typed'
  BY TransferAssumption DEF IInv, Typed, TransferTypeOK, TimesOut, client, Limit
<1>4. Receiver'
  BY DEF IInv, Receiver, TimesOut
<1>5. Accepted' /\ TransferHonest'
  BY <1>3 DEF TimesOut, Accepted, TransferHonest, Typed
<1> QED
  BY <1>2, <1>3, <1>4, <1>5 DEF IInv

\* What has arrived in full is what the run of the header has sent.
LEMMA ArrivedKeepsIInv == IInv /\ Arrived => IInv'
<1> SUFFICES ASSUME IInv, Arrived PROVE IInv'
  OBVIOUS
<1>1. Taken' = <<>> /\ UNCHANGED <<via, client, lost, line>>
  BY DEF Arrived, Taken
<1>2. ClientOrder' /\ InOrder'
  BY <1>1, TakenDropped
<1>3. Typed'
  BY DEF IInv, Typed, TransferTypeOK, Arrived, client, Limit
<1>4. Receiver'
  BY DEF IInv, Receiver, Arrived, Accepted, client
<1>5. Accepted'
  BY DEF Arrived, Accepted
<1>6. TransferHonest'
  <2> DEFINE n == header.session
  <2>1. /\ n \in 1..Len(ups) /\ header = HeaderOf(ups, n) /\ (via = "tcp" => n = Len(ups))
        /\ BehindIn(ups, Seen, n)
        /\ (via = "gecko" /\ n \notin lost) => AllBehind(ups, sent, Seen, n)
    BY DEF IInv, Accepted, Arrived
  <2> HIDE DEF n
  <2>2. /\ ups \in Seq(Files) /\ Len(ups) <= Sessions /\ got \in Seq(Unit) /\ line \in Seq(Unit)
        /\ Runs(ups, sent, Seen) /\ via \in {"tcp", "gecko"}
    BY DEF IInv, Typed, TransferTypeOK, ClientOrder, InOrder
  <2>3. Seen = got \o line
    BY DEF Seen, Taken, Arrived
  <2>4. Len(got) = Payload(ups[n]).len + ArgsLen(ups[n])
    BY <2>1 DEF Arrived, Wanted, HeaderOf
  <2>5. Left(ups, sent, n) \in Nat /\ Left(ups, sent, n) <= Len(Sent(ups, n)) /\ Len(ups) \in Nat
    BY <2>1, LeftIs DEF IInv
  <2>6. ASSUME \A i \in 1..Len(got) : got[i][1] = n
        PROVE  got = SubSeq(Sent(ups, n), 5, Len(Sent(ups, n)))
    BY <2>1, <2>2, <2>3, <2>4, <2>5, <2>6, WholeIs
  <2>7. ASSUME NEW i \in 1..Len(got)
        PROVE  /\ i \in 1..Len(Seen) /\ Seen[i] = got[i]
               /\ got[i][1] \in 1..Len(ups) /\ got[i][1] >= n
    <3>1. Part(Seen, got, 0)
      BY <2>2, <2>3, SeenIs
    <3>2. i \in 1..Len(Seen) /\ Seen[i] = got[i]
      BY <3>1 DEF Part
    <3> QED
      BY <2>1, <2>2, <3>2 DEF Runs, KnownIn, BehindIn
  <2>8. ASSUME via = "tcp", NEW i \in 1..Len(got) PROVE got[i][1] = n
    BY <2>1, <2>7, <2>8 DEF IInv, InOrder
  <2>9. ASSUME via = "gecko", n \notin lost, NEW i \in 1..Len(got) PROVE got[i][1] = n
    <3>1. CASE n = Len(ups)
      BY <2>5, <2>7, <3>1
    <3>2. CASE n # Len(ups)
      <4>1. Left(ups, sent, n) = Len(Sent(ups, n))
        BY <3>2 DEF Left
      <4>2. ups[n] \in Files /\ n \in 1..Sessions /\ Len(got) \in Nat
        BY <2>1, <2>2, <2>5, TransferAssumption
      <4>3. Payload(ups[n]).len \in Nat /\ ArgsLen(ups[n]) \in Nat
        BY <4>2, PayloadTyped, ArgsLenTyped
      <4>4. Len(Sent(ups, n)) = 4 + Len(got)
        BY <2>4, <4>2, <4>3, StreamIs DEF Sent
      <4>5. i \in 1..(Left(ups, sent, n) - 4)
        BY <4>1, <4>2, <4>4
      <4>6. Seen[i][1] = n
        BY <2>1, <2>9, <4>5 DEF AllBehind
      <4> QED
        BY <2>7, <4>6
    <3> QED
      BY <3>1, <3>2
  <2>10. \/ got = SubSeq(Sent(ups, n), 5, Len(Sent(ups, n)))
         \/ via = "gecko" /\ n \in lost /\ \E i \in 1..Len(got) : got[i][1] # n
    BY <2>2, <2>6, <2>8, <2>9
  <2>11. UNCHANGED <<via, client, lost, line, got, header>>
    BY DEF Arrived
  <2> QED
    BY <1>3, <2>10, <2>11 DEF TransferHonest, Typed, Sent, client, n
<1> QED
  BY <1>2, <1>3, <1>4, <1>5, <1>6 DEF IInv

\* main goes on.
LEMMA OverKeepsIInv == IInv /\ Over => IInv'
<1> SUFFICES ASSUME IInv, Over PROVE IInv'
  OBVIOUS
<1>1. Seen' = Seen /\ UNCHANGED <<via, client, lost>>
  BY DEF IInv, Receiver, Over, Seen, Taken
<1>2. ClientOrder' /\ InOrder'
  BY <1>1, SeenKept
<1>3. Typed'
  BY TransferAssumption DEF IInv, Typed, TransferTypeOK, Over, client, Limit
<1>4. Receiver' /\ Accepted' /\ TransferHonest'
  BY <1>3 DEF IInv, Receiver, Over, Accepted, TransferHonest, Typed, TransferTypeOK
<1> QED
  BY <1>2, <1>3, <1>4 DEF IInv

\* An empty line has its units in order.
LEMMA NothingInOrder ==
    ASSUME NEW us, NEW s, NEW gone
    PROVE  Runs(us, s, <<>>) /\ LastIn(us, s, <<>>) /\ UnbrokenIn(us, s, <<>>, gone)
BY DEF Runs, KnownIn, OrderedIn, BeginsIn, LastIn, UnbrokenIn

\* A flush takes units from the runs on the line, and these count as lost.
LEMMA FlushKeepsIInv == IInv /\ Flush => IInv'
<1> SUFFICES ASSUME IInv, Flush PROVE IInv'
  OBVIOUS
<1>1. /\ Seen' = <<>> /\ Seen = line /\ line \in Seq(Unit) /\ via = "gecko"
      /\ UNCHANGED <<via, client, conn, got, header, clock, step>>
      /\ lost' = lost \cup {line[i][1] : i \in 1..Len(line)}
      /\ rPc' = IF rPc = "flush" THEN "wait" ELSE "ready"
  <2>1. got = <<>> /\ line \in Seq(Unit)
    BY DEF IInv, Receiver, Flush, Typed
  <2>2. <<>> \o line = line /\ <<>> \o <<>> = <<>>
    BY <2>1, SeenIs
  <2> QED
    BY <2>1, <2>2 DEF Flush, Seen, Taken
<1>2. \A i \in 1..Len(line) : line[i][1] \in 1..Len(ups)
  BY <1>1 DEF IInv, InOrder, Runs, KnownIn
<1>3. lost \subseteq lost' /\ lost' \subseteq 1..Len(ups)
  BY <1>1, <1>2 DEF IInv, ClientOrder
<1>4. ClientOrder'
  BY <1>1, <1>3 DEF IInv, ClientOrder, client
<1>5. InOrder'
  <2>1. /\ Runs(ups', sent', <<>>) /\ LastIn(ups', sent', <<>>)
        /\ UnbrokenIn(ups', sent', <<>>, lost')
    BY NothingInOrder
  <2> QED
    BY <1>1, <2>1 DEF InOrder
<1>6. Typed'
  <2>1. lost' \subseteq 1..Sessions
    BY <1>3, LeftIs, TransferAssumption DEF IInv
  <2> QED
    BY <1>1, <2>1, TransferAssumption DEF IInv, Typed, TransferTypeOK, Flush, client, Limit
<1>7. Receiver'
  BY <1>1 DEF IInv, Receiver, Flush
<1>8. Accepted'
  <2>1. CASE rPc = "flush"
    BY <1>1, <2>1 DEF Accepted
  <2>2. CASE rPc = "accepted"
    <3> DEFINE n == header.session
    <3>1. /\ n \in 1..Len(ups) /\ header = HeaderOf(ups, n) /\ Left(ups, sent, n) >= 4
          /\ n \notin lost => AllBehind(ups, sent, line, n)
      BY <1>1, <2>2 DEF IInv, Accepted
    <3> HIDE DEF n
    <3>2. ASSUME n \notin lost' PROVE AllBehind(ups, sent, <<>>, n)
      <4>1. AllBehind(ups, sent, line, n) /\ Left(ups, sent, n) \in Nat
        BY <1>3, <3>1, <3>2, LeftIs DEF IInv
      <4>2. ASSUME 1 \in 1..(Left(ups, sent, n) - 4) PROVE FALSE
        <5>1. 1 \in 1..Len(line) /\ line[1][1] = n
          BY <1>1, <4>1, <4>2 DEF AllBehind
        <5> QED
          BY <1>1, <3>2, <5>1
      <4> QED
        BY <4>1, <4>2 DEF AllBehind
    <3>3. BehindIn(ups, <<>>, n)
      BY DEF BehindIn
    <3> QED
      BY <1>1, <3>1, <3>2, <3>3 DEF Accepted, client, n
  <2> QED
    BY <2>1, <2>2 DEF Flush
<1>9. TransferHonest'
  BY <1>1, <1>6 DEF TransferHonest, Typed
<1> QED
  BY <1>4, <1>5, <1>6, <1>7, <1>8, <1>9 DEF IInv

---------------------------------------------------------------------------
(* Wiiload.                                                                *)

\* What is sent at once are the next n units.
LEMMA SliceIs ==
    ASSUME NEW S \in Seq(Unit), NEW a \in Nat, NEW n \in Nat, a + n <= Len(S)
    PROVE  /\ SubSeq(S, a + 1, a + n) \in Seq(Unit) /\ Len(SubSeq(S, a + 1, a + n)) = n
           /\ \A j \in 1..n : SubSeq(S, a + 1, a + n)[j] = S[a + j]
<1>1. ASSUME NEW b \in Int, NEW c \in Int, \A i \in b..c : S[i] \in Unit
      PROVE  /\ SubSeq(S, b, c) \in Seq(Unit)
             /\ Len(SubSeq(S, b, c)) = IF b <= c THEN c - b + 1 ELSE 0
             /\ \A j \in 1..(c - b + 1) : SubSeq(S, b, c)[j] = S[b + j - 1]
  BY <1>1, SubSeqProperties
<1> DEFINE b == a + 1  c == a + n
<1>2. b \in Int /\ c \in Int /\ \A i \in b..c : S[i] \in Unit
  OBVIOUS
<1>3. c - b + 1 = n /\ (IF b <= c THEN c - b + 1 ELSE 0) = n /\ \A j \in 1..n : b + j - 1 = a + j
  OBVIOUS
<1> HIDE DEF b, c
<1>4. /\ SubSeq(S, b, c) \in Seq(Unit) /\ Len(SubSeq(S, b, c)) = n
      /\ \A j \in 1..n : SubSeq(S, b, c)[j] = S[b + j - 1]
  BY <1>1, <1>2, <1>3
<1>5. ASSUME NEW j \in 1..n PROVE SubSeq(S, b, c)[j] = S[a + j]
  BY <1>3, <1>4
<1>6. /\ SubSeq(S, b, c) \in Seq(Unit) /\ Len(SubSeq(S, b, c)) = n
      /\ \A j \in 1..n : SubSeq(S, b, c)[j] = S[a + j]
  BY <1>4, <1>5
<1> QED
  BY <1>6 DEF b, c

\* Some more of the current run goes on the line.
LEMMA SendKeepsIInv == IInv /\ Send => IInv'
<1> SUFFICES ASSUME IInv, Send PROVE IInv'
  OBVIOUS
<1> DEFINE N == Len(ups)  S == Sent(ups, N)
<1>1. PICK n \in 1..(Fifo - Len(line)) :
         sent + n <= Len(S) /\ line' = line \o SubSeq(S, sent + 1, sent + n) /\ sent' = sent + n
  BY DEF Send, All, Sent
<1> DEFINE m == SubSeq(S, sent + 1, sent + n)
<1>2. /\ UNCHANGED <<via, cPc, ups, conn, rPc, got, header, clock, step, lost>> /\ cPc = "send"
  BY DEF Send, receiver
<1>3. /\ ups \in Seq(Files) /\ ups # <<>> /\ N \in Nat \ {0} /\ N <= Sessions /\ sent \in Nat
      /\ line \in Seq(Unit) /\ got \in Seq(Unit) /\ Fifo \in Nat
      /\ Taken \in Seq(Unit) /\ Taken' = Taken
  BY <1>2, TransferAssumption DEF IInv, ClientOrder, Typed, TransferTypeOK, Taken
<1>4. S \in Seq(Unit) /\ Len(S) \in Nat
  <2>1. N \in 1..N /\ ups[N] \in Files /\ N \in 1..Sessions
    BY <1>3, TransferAssumption
  <2>2. Sent(ups, N) \in Seq(Unit)
    BY <2>1, StreamIs DEF Sent
  <2> QED
    BY <2>2
<1>5. n \in Nat \ {0} /\ n <= Fifo - Len(line) /\ Len(line) \in Nat
  BY <1>1, <1>3
<1> HIDE DEF S
<1>6. /\ m \in Seq(Unit) /\ Len(m) = n /\ \A j \in 1..n : m[j] = S[sent + j]
  <2>1. sent \in Nat /\ n \in Nat /\ sent + n <= Len(S)
    BY <1>1, <1>3, <1>5
  <2> QED
    BY <1>4, <2>1, SliceIs
<1> HIDE DEF m
<1>7. line' = line \o m /\ sent' = sent + Len(m) /\ sent + Len(m) <= Len(S)
  BY <1>1, <1>6 DEF m
<1>8. Follows(ups, sent, m)
  BY <1>3, <1>5, <1>6, <1>7 DEF Follows, S
<1>9. Seen' = Seen \o m /\ Seen \in Seq(Unit)
  <2>0. \A x, y, z \in Seq(Unit) : x \o (y \o z) = (x \o y) \o z
    BY Joined, Zenon
  <2>1. Taken \o (line \o m) = (Taken \o line) \o m
    BY <1>3, <1>6, <2>0
  <2>2. Taken \o line \in Seq(Unit)
    BY <1>3, ConcatProperties
  <2>3. Seen' = Taken' \o line'
    BY DEF Seen
  <2> QED
    BY <1>3, <1>7, <2>1, <2>2, <2>3 DEF Seen
<1>10. Runs(ups, sent, Seen) /\ LastIn(ups, sent, Seen)
  BY DEF IInv, InOrder
<1>11. ClientOrder'
  BY <1>2, <1>3, <1>5, <1>6, <1>7 DEF IInv, ClientOrder, S
<1>12. InOrder'
  <2>1. LineOf(ups, sent, Seen, m)
    BY <1>6, <1>8, <1>9, LineIs
  <2>2. Runs(ups, sent + Len(m), Seen \o m)
    BY <1>6, <1>8, <1>9, <1>10, RunsAppended
  <2>3. LastIn(ups, sent + Len(m), Seen \o m)
    <3>1. n \in 1..Len(m) /\ Len(Seen \o m) = Len(Seen) + n
      BY <1>5, <1>6, <2>1 DEF LineOf
    <3>2. (Seen \o m)[Len(Seen) + n] = m[n] /\ m[n][1] = Len(ups)
      BY <2>1, <3>1 DEF LineOf
    <3> QED
      BY <3>1, <3>2 DEF LastIn
  <2>4. via = "gecko" => UnbrokenIn(ups, sent + Len(m), Seen \o m, lost)
    BY <1>6, <1>8, <1>9, <1>10, UnbrokenAppended DEF IInv, InOrder
  <2>5. ASSUME via = "tcp", NEW i \in 1..Len(Seen \o m) PROVE (Seen \o m)[i][1] = Len(ups)
    <3>1. CASE i \in 1..Len(Seen)
      BY <2>1, <2>5, <3>1 DEF LineOf, IInv, InOrder
    <3>2. CASE i \notin 1..Len(Seen)
      <4>1. PICK j \in 1..Len(m) : i = Len(Seen) + j
        BY <2>1, <3>2 DEF LineOf
      <4> QED
        BY <2>1, <4>1 DEF LineOf
    <3> QED
      BY <3>1, <3>2
  <2> QED
    BY <1>2, <1>7, <1>9, <2>2, <2>3, <2>4, <2>5 DEF InOrder
<1>13. Typed'
  <2>1. line' \in Seq(Unit) /\ Len(line') = Len(line) + n
    BY <1>3, <1>6, <1>7, ConcatProperties
  <2>2. Len(line') <= Fifo
    BY <1>3, <1>5, <2>1
  <2> QED
    BY <1>2, <2>1, <2>2 DEF IInv, Typed, TransferTypeOK, Limit
<1>14. Receiver'
  BY <1>2 DEF IInv, Receiver, Wanted
<1>15. Accepted'
  <2>1. SUFFICES ASSUME rPc \in {"accepted", "ready", "load"} PROVE Accepted'
    BY <1>2 DEF Accepted
  <2> DEFINE k == header.session
  <2>2. /\ k \in 1..Len(ups) /\ header = HeaderOf(ups, k) /\ Left(ups, sent, k) >= 4
        /\ via = "tcp" => k = Len(ups)
        /\ BehindIn(ups, Seen, k)
        /\ (via = "gecko" /\ k \notin lost) => AllBehind(ups, sent, Seen, k)
    BY <2>1 DEF IInv, Accepted
  <2> HIDE DEF k
  <2>3. BehindIn(ups, Seen \o m, k)
    BY <1>6, <1>8, <1>9, <1>10, <2>2, BehindAppended
  <2>4. (via = "gecko" /\ k \notin lost) => AllBehind(ups, sent + Len(m), Seen \o m, k)
    BY <1>6, <1>8, <1>9, <1>10, <2>2, AllAppended
  <2>5. Left(ups, sent + Len(m), k) >= 4
    BY <1>3, <1>5, <1>6, <2>2 DEF Left
  <2> QED
    BY <1>2, <1>7, <1>9, <2>2, <2>3, <2>4, <2>5 DEF Accepted, k
<1>16. TransferHonest'
  BY <1>2, <1>13 DEF IInv, TransferHonest, Typed
<1> QED
  BY <1>11, <1>12, <1>13, <1>14, <1>15, <1>16 DEF IInv

\* wiiload ends, and the user may try again.
LEMMA DoneKeepsIInv == IInv /\ (Done \/ Again) => IInv'
<1> SUFFICES ASSUME IInv, Done \/ Again PROVE IInv'
  OBVIOUS
<1>1. /\ UNCHANGED <<via, ups, sent, line, rPc, got, header, clock, step, lost>> /\ Seen' = Seen
      /\ cPc' \in {"done", "idle"} /\ conn' \in {conn, "shut"} /\ (conn' # conn => conn = "open")
  BY DEF Done, Again, receiver, Seen, Taken
<1>2. ClientOrder'
  <2>1. Done => sent = Len(Sent(ups, Len(ups)))
    BY DEF Done, All, Sent
  <2>2. Again => cPc # "send"
    BY DEF Again
  <2> QED
    BY <1>1, <2>1, <2>2 DEF IInv, ClientOrder
<1>3. InOrder' /\ Accepted'
  BY <1>1 DEF IInv, InOrder, Accepted
<1>4. Typed'
  BY <1>1 DEF IInv, Typed, TransferTypeOK, Limit
<1>5. Receiver'
  BY <1>1 DEF IInv, Receiver, Wanted
<1>6. TransferHonest'
  BY <1>1, <1>4 DEF IInv, TransferHonest, Typed
<1> QED
  BY <1>2, <1>3, <1>4, <1>5, <1>6 DEF IInv

\* A reset connection loses what is on it, for the only client it has.
LEMMA ResetKeepsIInv == IInv /\ Reset => IInv'
<1> SUFFICES ASSUME IInv, Reset PROVE IInv'
  OBVIOUS
<1>1. /\ UNCHANGED <<via, client, rPc, got, header, clock, step, lost>>
      /\ conn = "open" /\ conn' = "reset" /\ line' = <<>> /\ via = "tcp"
      /\ Taken \in Seq(Unit) /\ Taken' = Taken /\ line \in Seq(Unit)
  BY DEF Reset, receiver, IInv, Receiver, Typed, TransferTypeOK, Taken
<1>2. Seen' = Taken /\ Part(Seen, Seen', 0)
  <2>1. Part(Taken \o line, Taken, 0) /\ Taken \o <<>> = Taken
    BY <1>1, SeenIs
  <2> QED
    BY <1>1, <2>1 DEF Seen
<1>3. Grows(ups, sent, ups, sent) /\ Rests(ups, sent, ups, sent, lost, lost)
  BY SameGrows DEF IInv
<1>4. Runs(ups, sent, Seen')
  BY <1>2, <1>3, RunsKept DEF IInv, InOrder
<1>5. \A i \in 1..Len(Seen') : Seen'[i][1] = Len(ups)
  BY <1>1, <1>2 DEF IInv, InOrder, Part
<1>6. InOrder'
  BY <1>1, <1>2, <1>4, <1>5 DEF InOrder, LastIn, Part, client
<1>7. Accepted'
  <2>1. CASE rPc \in {"accepted", "ready", "load"}
    BY <1>1, <1>2, <1>3, <2>1, AcceptedKept DEF IInv, client
  <2>2. CASE rPc \notin {"accepted", "ready", "load"}
    BY <1>1, <2>2 DEF Accepted
  <2> QED
    BY <2>1, <2>2
<1>8. Typed'
  BY <1>1, TransferAssumption DEF IInv, Typed, TransferTypeOK, client, Limit
<1>9. Receiver'
  BY <1>1 DEF IInv, Receiver, client, Wanted
<1>10. ClientOrder' /\ TransferHonest'
  BY <1>1, <1>8 DEF IInv, TransferHonest, Typed, ClientOrder, client
<1> QED
  BY <1>6, <1>7, <1>8, <1>9, <1>10 DEF IInv

\* A run that fails has lost what it has not sent.
LEMMA SendFailsKeepsIInv == IInv /\ SendFails => IInv'
<1> SUFFICES ASSUME IInv, SendFails PROVE IInv'
  OBVIOUS
<1> DEFINE N == Len(ups)  a == ArgsAt(ups[N])
<1>1. /\ UNCHANGED <<via, ups, line, rPc, got, header, clock, step>> /\ Seen' = Seen
      /\ cPc = "send" /\ lost' = lost \cup {N}
      /\ \/ cPc' = "send" /\ sent \in 4..(a - 1) /\ sent' = a /\ conn' = conn
         \/ cPc' = "failed" /\ sent' = sent /\ conn' = IF conn = "open" THEN "shut" ELSE conn
  BY DEF SendFails, receiver, Seen, Taken
<1>2. /\ ups \in Seq(Files) /\ N \in Nat \ {0} /\ N <= Sessions /\ sent \in Nat
      /\ lost \subseteq 1..N
  BY <1>1, TransferAssumption DEF IInv, ClientOrder, Typed, TransferTypeOK
<1>3. a \in Nat /\ a <= Len(Sent(ups, N)) /\ Len(Sent(ups, N)) \in Nat
  <2>1. ups[N] \in Files /\ N \in 1..Sessions
    BY <1>2, TransferAssumption
  <2>2. Payload(ups[N]).len \in Nat /\ ArgsLen(ups[N]) \in Nat
    BY <2>1, PayloadTyped, ArgsLenTyped
  <2>3. Len(Sent(ups, N)) = 4 + Payload(ups[N]).len + ArgsLen(ups[N])
    BY <2>1, StreamIs DEF Sent
  <2> QED
    BY <2>2, <2>3 DEF ArgsAt
<1>4. sent' \in Nat /\ sent <= sent' /\ sent' <= Len(Sent(ups, N)) /\ (sent' # sent => sent > 0)
  BY <1>1, <1>2, <1>3 DEF IInv, ClientOrder
<1> HIDE DEF a
<1>5. \A n \in 1..N : Left(ups, sent, n) \in Nat
  BY LeftIs DEF IInv
<1>6. Grows(ups, sent, ups, sent')
  BY <1>2, <1>4, <1>5 DEF Grows, Left
<1>7. Rests(ups, sent, ups, sent', lost, lost')
  BY <1>1, <1>2 DEF Rests, Left
<1>8. Part(Seen, Seen, 0) /\ Len(Seen) \in Nat
  <2>1. Taken \in Seq(Unit) /\ line \in Seq(Unit)
    BY DEF IInv, Typed, Taken
  <2> QED
    BY <2>1, SeenIs DEF Seen
<1>9. Runs(ups, sent, Seen)
  BY DEF IInv, InOrder
<1>10. lost' \subseteq 1..N /\ lost' \subseteq 1..Sessions /\ ClientOrder'
  <2>1. N \in 1..N /\ Sessions \in Nat
    BY <1>2, TransferAssumption
  <2>2. lost' \subseteq 1..N
    BY <1>1, <1>2, <2>1
  <2>3. 1..N \subseteq 1..Sessions
    BY <1>2, <2>1
  <2>4. cPc' \in {"send", "failed"} /\ N \in lost' /\ ups # <<>>
    BY <1>1 DEF IInv, ClientOrder
  <2>5. ClientOrder'
    BY <1>1, <1>2, <1>4, <2>2, <2>4 DEF ClientOrder
  <2> QED
    BY <2>2, <2>3, <2>5
<1>11. InOrder'
  <2>1. Runs(ups, sent', Seen)
    BY <1>6, <1>8, <1>9, RunsKept
  <2>2. LastIn(ups, sent', Seen)
    BY <1>2, <1>4 DEF IInv, InOrder, LastIn
  <2>3. via = "gecko" => UnbrokenIn(ups, sent', Seen, lost')
    <3>1. 0 + Len(Seen) = Len(Seen)
      BY <1>8
    <3> QED
      BY <1>6, <1>7, <1>8, <1>9, <3>1, UnbrokenKept DEF IInv, InOrder
  <2> QED
    BY <1>1, <2>1, <2>2, <2>3 DEF IInv, InOrder
<1>12. Typed'
  BY <1>1, <1>10 DEF IInv, Typed, TransferTypeOK, Limit
<1>13. Receiver'
  BY <1>1 DEF IInv, Receiver, Wanted
<1>14. Accepted'
  <2>1. CASE rPc \in {"accepted", "ready", "load"}
    BY <1>1, <1>6, <1>7, <1>8, <2>1, AcceptedKept DEF IInv
  <2>2. CASE rPc \notin {"accepted", "ready", "load"}
    BY <1>1, <2>2 DEF Accepted
  <2> QED
    BY <2>1, <2>2
<1>15. TransferHonest'
  BY <1>1, <1>12 DEF IInv, TransferHonest, Typed
<1> QED
  BY <1>10, <1>11, <1>12, <1>13, <1>14, <1>15 DEF IInv

\* The next run finds the runs before it as they are, or, over TCP, a
\* connection of its own.
LEMMA WiiloadStartKeepsIInv == IInv /\ WiiloadStart => IInv'
<1> SUFFICES ASSUME IInv, WiiloadStart PROVE IInv'
  OBVIOUS
<1>1. PICK f \in Files : ups' = Append(ups, f)
  BY DEF WiiloadStart
<1>2. /\ UNCHANGED <<via, rPc, got, header, clock, step, lost>> /\ Taken' = Taken
      /\ cPc = "idle" /\ cPc' = "send" /\ sent' = 0 /\ Len(ups) < Sessions
      /\ IF via = "tcp" THEN conn = "none" /\ line' = <<>> /\ conn' = "open" ELSE UNCHANGED <<line, conn>>
  BY DEF WiiloadStart, receiver, Taken
<1>3. ups \in Seq(Files) /\ sent \in Nat /\ lost \subseteq 1..Len(ups) /\ Len(ups) \in Nat
  BY DEF IInv, ClientOrder
<1>4. /\ ups' \in Seq(Files) /\ Len(ups') = Len(ups) + 1 /\ Len(ups') <= Sessions
      /\ \A n \in 1..Len(ups) : ups'[n] = ups[n]
  BY <1>1, <1>2, <1>3, TransferAssumption
<1>5. \A n \in 1..Len(ups') : Left(ups', sent', n) \in Nat /\ Len(Sent(ups', n)) \in Nat
  <2>1. ups' # <<>> => sent' <= Len(Sent(ups', Len(ups')))
    <3>1. Len(ups') \in 1..Sessions /\ ups'[Len(ups')] \in Files
      BY <1>3, <1>4, TransferAssumption
    <3>2. Len(Sent(ups', Len(ups'))) \in Nat
      BY <3>1, StreamIs DEF Sent
    <3> QED
      BY <1>2, <3>2
  <2>2. sent' \in Nat
    BY <1>2
  <2> QED
    BY <1>4, <2>1, <2>2, LeftTyped
<1>6. ClientOrder'
  BY <1>2, <1>3, <1>4, <1>5 DEF ClientOrder
<1>7. Typed'
  <2>1. Len(line') <= Fifo /\ line' \in Seq(Unit)
    <3>1. Fifo \in Nat /\ <<>> \in Seq(Unit) /\ Len(<<>>) = 0
      BY TransferAssumption
    <3>2. Len(line) <= Fifo /\ line \in Seq(Unit)
      BY DEF IInv, Typed, TransferTypeOK
    <3>3. line' \in {line, <<>>}
      BY <1>2
    <3>4. CASE line' = line
      BY <3>2, <3>4
    <3>5. CASE line' = <<>>
      <4>1. Len(line') = 0
        BY <3>1, <3>5
      <4> QED
        BY <3>1, <3>5, <4>1
    <3> QED
      BY <3>3, <3>4, <3>5
  <2>2. conn' \in {"none", "open", "shut", "reset"}
    BY <1>2 DEF IInv, Typed, TransferTypeOK
  <2> QED
    BY <1>2, <1>4, <2>1, <2>2 DEF IInv, Typed, TransferTypeOK, Limit
<1>8. Receiver'
  BY <1>2, <1>3, <1>4 DEF IInv, Receiver, Wanted
<1>9. InOrder' /\ Accepted'
  <2>1. CASE via = "tcp"
    <3>1. Seen' = <<>> /\ rPc \in {"flush", "success", "failed"}
      <4>1. Taken = <<>> /\ rPc \in {"flush", "success", "failed"}
        BY <1>2, <2>1 DEF IInv, Receiver, Taken
      <4>2. <<>> \o <<>> = <<>>
        OBVIOUS
      <4> QED
        BY <1>2, <2>1, <4>1, <4>2 DEF Seen
    <3>2. /\ Runs(ups', sent', <<>>) /\ LastIn(ups', sent', <<>>)
          /\ UnbrokenIn(ups', sent', <<>>, lost')
      BY NothingInOrder
    <3> QED
      BY <1>2, <3>1, <3>2 DEF InOrder, Accepted
  <2>2. CASE via = "gecko"
    <3>1. Seen' = Seen
      BY <1>2, <2>2 DEF Seen
    <3>2. Part(Seen, Seen', 0) /\ Len(Seen) \in Nat
      <4>1. Taken \in Seq(Unit) /\ line \in Seq(Unit)
        BY DEF IInv, Typed, Taken
      <4>2. Part(Seen, Seen, 0) /\ Len(Seen) \in Nat
        BY <4>1, SeenIs DEF Seen
      <4> QED
        BY <3>1, <4>2
    <3>3. Runs(ups, sent, Seen) /\ UnbrokenIn(ups, sent, Seen, lost)
      BY <2>2 DEF IInv, InOrder
    <3>4. \A n \in 1..Len(ups) : /\ Left(ups, sent, n) \in Nat /\ Left(ups, sent, n) <= Len(Sent(ups, n))
                                /\ Left(ups', sent', n) = Len(Sent(ups, n))
      <4>1. \A n \in 1..Len(ups) : n # Len(ups') /\ Sent(ups', n) = Sent(ups, n)
        BY <1>3, <1>4 DEF Sent
      <4> QED
        BY <4>1, LeftIs DEF IInv, Left
    <3>5. Grows(ups, sent, ups', sent')
      BY <1>3, <1>4, <1>5, <3>4 DEF Grows
    <3>6. Rests(ups, sent, ups', sent', lost, lost')
      <4>1. \A n \in 1..Len(ups) : n \notin lost => Left(ups, sent, n) = Len(Sent(ups, n))
        BY <1>2, <1>3 DEF IInv, ClientOrder, Left
      <4> QED
        BY <1>2, <3>4, <4>1 DEF Rests
    <3>7. Runs(ups', sent', Seen')
      BY <3>2, <3>3, <3>5, RunsKept
    <3>8. UnbrokenIn(ups', sent', Seen', lost')
      <4>1. 0 + Len(Seen') = Len(Seen)
        BY <3>1, <3>2
      <4> QED
        BY <3>2, <3>3, <3>5, <3>6, <4>1, UnbrokenKept
    <3>9. InOrder'
      BY <1>2, <2>2, <3>7, <3>8 DEF InOrder, LastIn
    <3>10. Accepted'
      <4>1. CASE rPc \in {"accepted", "ready", "load"}
        BY <1>2, <2>2, <3>1, <3>2, <3>5, <3>6, <4>1, AcceptedKept DEF IInv
      <4>2. CASE rPc \notin {"accepted", "ready", "load"}
        BY <1>2, <4>2 DEF Accepted
      <4> QED
        BY <4>1, <4>2
    <3> QED
      BY <3>9, <3>10
  <2> QED
    BY <2>1, <2>2 DEF IInv, Typed, TransferTypeOK
<1>10. TransferHonest'
  <2>1. rPc = "success" => header.session \in 1..Len(ups)
    BY DEF IInv, Receiver
  <2> QED
    BY <1>2, <1>4, <1>7, <2>1 DEF IInv, TransferHonest, Typed
<1> QED
  BY <1>6, <1>7, <1>8, <1>9, <1>10 DEF IInv

---------------------------------------------------------------------------
(* The theorems.                                                           *)

\* Nothing has been sent yet.
LEMMA InitIInv == TransferInit => IInv
<1> SUFFICES ASSUME TransferInit PROVE IInv
  OBVIOUS
<1>1. Typed
  BY TransferAssumption DEF TransferInit, Typed, TransferTypeOK, Limit
<1>2. Seen = <<>>
  BY DEF TransferInit, Seen, Taken
<1>3. Runs(ups, sent, <<>>) /\ LastIn(ups, sent, <<>>) /\ UnbrokenIn(ups, sent, <<>>, lost)
  BY NothingInOrder
<1>4. InOrder
  BY <1>2, <1>3 DEF InOrder
<1>5. ClientOrder /\ Receiver /\ Accepted /\ TransferHonest
  BY <1>1 DEF TransferInit, ClientOrder, Receiver, Accepted, TransferHonest, Typed
<1> QED
  BY <1>1, <1>4, <1>5 DEF IInv

\* A step of neither program changes nothing.
LEMMA StutterKeepsIInv == IInv /\ UNCHANGED transferVars => IInv'
<1> SUFFICES ASSUME IInv, UNCHANGED transferVars PROVE IInv'
  OBVIOUS
<1>1. /\ UNCHANGED <<via, cPc, ups, sent, line, conn, rPc, got, header, clock, step, lost>>
      /\ Seen' = Seen
  BY DEF transferVars, client, receiver, Seen, Taken
<1>2. Typed' /\ ClientOrder' /\ Receiver'
  BY <1>1 DEF IInv, Typed, TransferTypeOK, Limit, ClientOrder, Receiver, Wanted
<1>3. InOrder' /\ Accepted'
  BY <1>1 DEF IInv, InOrder, Accepted
<1>4. TransferHonest'
  BY <1>1, <1>2 DEF IInv, TransferHonest, Typed
<1> QED
  BY <1>2, <1>3, <1>4 DEF IInv

\* Every step of wiiload and of the channel keeps the invariant.
LEMMA NextIInv == IInv /\ [TransferNext]_transferVars => IInv'
<1> SUFFICES ASSUME IInv, [TransferNext]_transferVars PROVE IInv'
  OBVIOUS
<1>1. CASE Wiiload
  BY <1>1, WiiloadStartKeepsIInv, SendKeepsIInv, SendFailsKeepsIInv, DoneKeepsIInv,
     ResetKeepsIInv
     DEF Wiiload
<1>2. CASE Channel
  BY <1>2, FlushKeepsIInv, PollKeepsIInv, CheckKeepsIInv, LoadKeepsIInv,
     TcpReceiveKeepsIInv,
     GeckoReceiveKeepsIInv, SleepKeepsIInv, TimesOutKeepsIInv, ArrivedKeepsIInv, OverKeepsIInv
     DEF Channel
<1>3. CASE UNCHANGED transferVars
  BY <1>3, StutterKeepsIInv
<1> QED
  BY <1>1, <1>2, <1>3 DEF TransferNext

\* The inductive invariant: on the line and in the buffer are units of the
\* runs of wiiload, in order, and behind an accepted header what belongs to
\* it (main.c and gecko.c of wiiload; tcp_read; ld_gecko_func, ld_load_func).
THEOREM Invariance == TransferSpec => []IInv
BY InitIInv, NextIInv, PTL DEF TransferSpec

\* The variables have their types, nothing is received past what was asked
\* for, and the clock is looked at in time (tcp_read of tcp.c).
THEOREM TypeCorrect == TransferSpec => []TransferTypeOK
<1>1. IInv => TransferTypeOK
  BY DEF IInv, Typed
<1> QED
  BY <1>1, Invariance, PTL

\* What the channel loads is what one client sent, whole; over the Gecko a
\* payload with a gap can only be filled by the units of another run
\* (ld_load_func of loader.c).
THEOREM UploadsHonest == TransferSpec => []TransferHonest
<1>1. IInv => TransferHonest
  BY DEF IInv
<1> QED
  BY <1>1, Invariance, PTL
=============================================================================
