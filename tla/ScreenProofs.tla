---------------------------- MODULE ScreenProofs ----------------------------
(***************************************************************************)
(* Proofs about the pages of the browser and about the screen.             *)
(*                                                                         *)
(* Browser, for every table, sort order, grid and directory: which entry   *)
(* the focused widget stands for rests on what both banks of widgets draw  *)
(* at each place of main, as long as nothing that has changed the entries  *)
(* is still to be shown.  That an entry is nowhere twice rests on how far  *)
(* the thread has filled the slots.                                        *)
(*                                                                         *)
(* Screen, for any number of bubbles and whatever is installed: what the   *)
(* views are and which calls main has left, in which order, say whose      *)
(* pointers may dangle before each of them.  No call that draws is among   *)
(* those that find a pointer to the theme, a glyph or an icon dangling.    *)
(***************************************************************************)
EXTENDS Browser, Screen, FiniteSetTheorems, SequenceTheorems, WellFoundedInduction, TLAPS

\* Nothing that has changed the entries is still to be shown.
Fresh == phase # "added" /\ ~stale
Filling == phase \in {"loading", "filter"}

\* The count is never below what the slots hold.
Counted ==
    /\ entry_count_all >= Cardinality(Used(slots))
    /\ phase = "loading" => entry_count_all <= MaxEntries
    /\ phase = "empty" => slots = Freed /\ entry_count_all = 0 /\ entries = <<>>

\* While the thread fills the table it puts what it reads into the slots one
\* after the other.
Filled ==
    /\ entries = <<>> /\ entry_count_all <= MaxEntries
    /\ phase = "loading" => entry_count_all < MaxEntries
    /\ Used(slots) = 0..(entry_count_all - 1)
    /\ \A i \in Used(slots) : \E j \in 1..read : slots[i] = Listing[j]

Distinct(s) == \A i, j \in Used(s) : s[i] = s[j] => i = j

Kept ==
    /\ entry_count_all = Cardinality(Used(slots)) /\ Distinct(slots)
    /\ Filling => Filled
    /\ ~Filling => IsInjective(entries) /\ Range(entries) \subseteq Range(slots)

\* Only an entry of the table is deleted, so the table is not being filled
\* unless an upload has put the entry there.
Deleting ==
    (mpc = "delete" \/ (mpc = "slide" /\ gen.then = "delete")) =>
        app_sel \in Apps /\ phase # "empty" /\ (Filling => clobbered)

\* What the page at top_offset has for a place of the shown bank.
EntryAt(p) ==
    IF p - Shown * Bank \in 0..(Page - 1) /\ top_offset + p - Shown * Bank + 1 \in DOMAIN entries
    THEN entries[top_offset + p - Shown * Bank + 1] ELSE NoApp

OnScreen == {p \in Positions : p \div Bank = Shown}

PageDrawn == \A p \in OnScreen : drawn[p] = EntryAt(p)

\* The page at top_offset is one of those the entries are divided into.
PageStarts(left, right) ==
    entries # <<>> =>
        /\ top_offset < Len(entries) /\ top_offset % Page = 0
        /\ left = (top_offset > 0) /\ right = (Len(entries) > top_offset + Page)

\* A focus in the shown bank is its first widget or one that draws an entry.
Focused(f) == InBank(f, Shown) => f = Base(Shown) \/ drawn[f - AeOffset] # NoApp

InputOK ==
    (mpc = "input" /\ Fresh) =>
        /\ PageDrawn /\ PageStarts(less, more) /\ Focused(focus)
        /\ entries # <<>> => columns_new = columns_current

SlideOK ==
    mpc = "slide" =>
        /\ gen.remove => gen.then # "input" /\ \A p \in OnScreen : drawn[p] = NoApp
        /\ ~gen.remove => gen.then = "input"
        /\ gen.then = "free" => phase = "gone"
        /\ Focused(gen.focus)
        /\ (~gen.remove /\ Fresh) => PageDrawn /\ PageStarts(gen.less, gen.more)

BrowserIInv == BrowserTypeOK /\ Counted /\ (~clobbered => Kept) /\ Deleting /\ InputOK /\ SlideOK

---------------------------------------------------------------------------
\* A set of numbers that is not empty has a least element.
LEMMA Smallest ==
    ASSUME NEW T \in SUBSET Nat, T # {}
    PROVE  \E n \in T : \A m \in Nat : m < n => m \notin T
<1>1. PICK n \in T : \A m \in T : ~(<<m, n>> \in OpToRel(<, Nat))
  BY WFMin, NatLessThanWellFounded
<1>2. ASSUME NEW m \in Nat, m < n PROVE m \notin T
  BY <1>1, <1>2 DEF OpToRel
<1> QED
  BY <1>2

LEMMA FirstIsLeast ==
    ASSUME NEW S \in SUBSET Nat, S # {}
    PROVE  First(S) \in S /\ \A j \in S : First(S) <= j
<1>1. PICK n \in S : \A m \in Nat : m < n => m \notin S
  BY Smallest
<1>2. \A j \in S : n <= j
  BY <1>1
<1> QED
  BY <1>2 DEF First

LEMMA Product ==
    ASSUME NEW m \in Nat \ {0}, NEW n \in Nat \ {0}, NEW r \in Nat \ {0}, m <= n
    PROVE  m * r \in Nat \ {0} /\ m * r <= n * r /\ n * r \in Nat \ {0}
<1>1. n - m \in Nat /\ n = m + (n - m)
  OBVIOUS
<1>2. \A a, b \in Nat : a * b \in Nat
  OBVIOUS
<1>3. (n - m) * r \in Nat /\ n * r = m * r + (n - m) * r
  BY <1>1, <1>2
<1>4. (m - 1) * r \in Nat /\ m * r = (m - 1) * r + r
  BY <1>2
<1> QED
  BY <1>3, <1>4

\* Numbers and the multiples of P at or below them.
LEMMA Multiples ==
    ASSUME NEW P \in Nat \ {0}, NEW i \in Nat
    PROVE  /\ (i \div P) * P \in Nat /\ (i \div P) * P <= i /\ i < (i \div P) * P + P
           /\ ((i \div P) * P) % P = 0
<1>1. i \div P \in Nat
  OBVIOUS
<1>2. P * (i \div P) <= i
  OBVIOUS
<1>3. i < P * (i \div P) + P
  OBVIOUS
<1>4. (P * (i \div P)) % P = 0
  OBVIOUS
<1>5. P * (i \div P) = (i \div P) * P /\ (i \div P) * P \in Nat
  BY <1>1
<1> QED
  BY <1>2, <1>3, <1>4, <1>5

LEMMA MultipleOf ==
    ASSUME NEW P \in Nat \ {0}, NEW i \in Nat, NEW q \in Int, i = P * q
    PROVE  i % P = 0
OBVIOUS

LEMMA NextMultiple ==
    ASSUME NEW P \in Nat \ {0}, NEW t \in Nat, t % P = 0
    PROVE  (t + P) % P = 0 /\ (t >= 1 => t >= P /\ (t - P) % P = 0)
<1>1. t = P * (t \div P) /\ t \div P \in Nat
  OBVIOUS
<1> DEFINE q == t \div P
<1>2. t = P * q /\ q \in Nat
  BY <1>1
<1> HIDE DEF q
<1>3. t + P = P * (q + 1) /\ t + P \in Nat /\ q + 1 \in Int
  BY <1>2
<1>4. (t + P) % P = 0
  BY <1>3, MultipleOf
<1>5. ASSUME t >= 1 PROVE t >= P /\ (t - P) % P = 0
  <2>1. q # 0
    BY <1>2, <1>5
  <2>2. q - 1 \in Nat /\ t = P * (q - 1) + P
    BY <1>2, <2>1
  <2>3. P * (q - 1) \in Nat
    BY <2>2
  <2>4. t - P \in Nat /\ t - P = P * (q - 1) /\ q - 1 \in Int
    BY <2>2, <2>3
  <2>5. (t - P) % P = 0
    BY <2>4, MultipleOf
  <2> QED
    BY <2>2, <2>3, <2>5
<1> QED
  BY <1>4, <1>5

\* The two banks of widgets.
LEMMA BankSizes ==
    ASSUME BrowserAssumption, BrowserTypeOK
    PROVE  /\ Bank \in Nat \ {0} /\ Page \in Nat \ {0} /\ Page <= Bank
           /\ columns_current * Rows \in Nat \ {0}
<1>1. MaxColumns \in Nat \ {0} /\ Rows \in Nat \ {0} /\ Columns \in 2..MaxColumns
  BY DEF BrowserAssumption
<1>2. /\ columns_new \in Nat \ {0} /\ columns_new <= MaxColumns
      /\ columns_current \in Nat \ {0} /\ columns_current <= MaxColumns
  BY <1>1 DEF BrowserTypeOK
<1>3. columns_new * Rows \in Nat \ {0} /\ columns_new * Rows <= MaxColumns * Rows
  BY <1>1, <1>2, Product, Zenon
<1>4. columns_current * Rows \in Nat \ {0} /\ MaxColumns * Rows \in Nat \ {0}
  BY <1>1, <1>2, Product, Zenon
<1> QED
  BY <1>3, <1>4 DEF Bank, Page

\* Which bank a place is in, for banks of any size B.
LEMMA BankOf ==
    ASSUME NEW B \in Nat \ {0}, NEW p \in 0..(2 * B - 1)
    PROVE  /\ p \div B \in {0, 1}
           /\ p \div B = 0 <=> p < B
           /\ p \div B = 1 <=> p >= B
<1>1. CASE p < B
  <2>1. p \div B = 0
    BY <1>1
  <2> QED
    BY <1>1, <2>1
<1>2. CASE p >= B
  <2>1. p \in Nat /\ p < 2 * B
    OBVIOUS
  <2>2. p \div B = 1
    BY <1>2, <2>1
  <2> QED
    BY <1>2, <2>2
<1> QED
  BY <1>1, <1>2

\* The places of the two banks, and the widgets they are.
LEMMA Places ==
    ASSUME BrowserAssumption, BrowserTypeOK, NEW b \in {0, 1}, NEW p
    PROVE  /\ p \in Positions /\ p \div Bank = b <=> p \in (b * Bank)..(b * Bank + Bank - 1)
           /\ p \in Positions => p \div Bank \in {0, 1}
           /\ p \in Int => (InBank(p + AeOffset, b) <=> p \in Positions /\ p \div Bank = b)
<1>1. Bank \in Nat \ {0}
  BY BankSizes
<1>2. p \in Positions => p \div Bank \in {0, 1} /\ (p \div Bank = 0 <=> p < Bank) /\ (p \div Bank = 1 <=> p >= Bank)
  BY <1>1, BankOf DEF Positions
<1> DEFINE B == Bank
<1>3. Positions = 0..(2 * B - 1)
  BY DEF Positions
<1> HIDE DEF B
<1>4. B \in Nat \ {0} /\ (p \in 0..(2 * B - 1) => p \div B \in {0, 1} /\ (p \div B = 0 <=> p < B) /\ (p \div B = 1 <=> p >= B))
  BY <1>1, <1>2, <1>3 DEF B
<1>5. p \in 0..(2 * B - 1) /\ p \div B = b <=> p \in (b * B)..(b * B + B - 1)
  <2>1. CASE b = 0
    BY <2>1, <1>4
  <2>2. CASE b = 1
    BY <2>2, <1>4
  <2> QED
    BY <2>1, <2>2
<1>6. ASSUME p \in Int
      PROVE  p + 5 \in (5 + b * B)..(5 + b * B + B - 1) <=> p \in (b * B)..(b * B + B - 1)
  <2>1. b * B \in Int
    BY <1>4
  <2> QED
    BY <2>1, <1>4, <1>6
<1> QED
  BY <1>2, <1>3, <1>5, <1>6 DEF B, InBank, Base, AeOffset

---------------------------------------------------------------------------
(* What the filter lets through.                                           *)

\* s[i] is u[1] \o ... \o u[i].
Joins(u, n, s) == s = [i \in 1..n |-> IF i = 1 THEN u[i] ELSE s[i - 1] \o u[i]]

\* One more sequence.
LEMMA JoinsOnce ==
    ASSUME NEW S, NEW u, NEW k \in Nat, NEW s \in [1..k -> Seq(S)],
           u[k + 1] \in Seq(S), Joins(u, k, s)
    PROVE  \E next \in [1..(k + 1) -> Seq(S)] : Joins(u, k + 1, next)
<1> DEFINE last == IF k = 0 THEN u[k + 1] ELSE s[k] \o u[k + 1]
           next == [i \in 1..(k + 1) |-> IF i = k + 1 THEN last ELSE s[i]]
<1>1. last \in Seq(S)
  <2>1. CASE k = 0
    BY <2>1
  <2>2. CASE k # 0
    <3>1. k \in 1..k
      BY <2>2
    <3>2. s[k] \in Seq(S)
      BY <3>1, Zenon
    <3> QED
      BY <2>2, <3>2
  <2> QED
    BY <2>1, <2>2
<1>2. next \in [1..(k + 1) -> Seq(S)]
  <2>1. ASSUME NEW i \in 1..(k + 1), i # k + 1 PROVE s[i] \in Seq(S)
    <3>1. i \in 1..k
      BY <2>1
    <3> QED
      BY <3>1
  <2> HIDE DEF last
  <2> QED
    BY <1>1, <2>1
<1>3. ASSUME NEW i \in 1..(k + 1)
      PROVE  next[i] = IF i = 1 THEN u[i] ELSE next[i - 1] \o u[i]
  <2>1. CASE i = k + 1
    <3>1. next[i] = last
      BY <2>1
    <3>2. CASE k = 0
      BY <2>1, <3>1, <3>2
    <3>3. CASE k # 0
      <4>1. i # 1 /\ i - 1 = k /\ k \in 1..(k + 1) /\ k # k + 1
        BY <2>1, <3>3
      <4>2. next[k] = s[k]
        BY <4>1
      <4> QED
        BY <2>1, <3>1, <3>3, <4>1, <4>2
    <3> QED
      BY <3>2, <3>3
  <2>2. CASE i # k + 1
    <3>1. i \in 1..k
      BY <2>2
    <3>2. s[i] = IF i = 1 THEN u[i] ELSE s[i - 1] \o u[i]
      BY <3>1, Zenon DEF Joins
    <3>3. next[i] = s[i]
      BY <2>2
    <3>4. i # 1 => next[i - 1] = s[i - 1]
      BY <3>1
    <3> HIDE DEF next
    <3> QED
      BY <3>2, <3>3, <3>4
  <2> QED
    BY <2>1, <2>2
<1>4. next = [i \in 1..(k + 1) |-> next[i]]
  OBVIOUS
<1> HIDE DEF next
<1>5. Joins(u, k + 1, next)
  BY <1>3, <1>4 DEF Joins
<1> QED
  BY <1>2, <1>5

LEMMA JoinsExist ==
    ASSUME NEW S, NEW u, NEW k \in Nat, \A i \in 1..k : u[i] \in Seq(S)
    PROVE  \E s : Joins(u, k, s)
<1> DEFINE Fails == {n \in 0..k : ~\E s \in [1..n -> Seq(S)] : Joins(u, n, s)}
<1>1. Fails \subseteq Nat
  OBVIOUS
<1>2. CASE Fails = {}
  BY <1>2
<1>3. CASE Fails # {}
  <2> HIDE DEF Fails
  <2>1. PICK n \in Fails : \A m \in Nat : m < n => m \notin Fails
    BY <1>1, <1>3, Smallest
  <2>2. n \in 0..k /\ ~\E s \in [1..n -> Seq(S)] : Joins(u, n, s)
    BY <2>1 DEF Fails
  <2>3. CASE n = 0
    <3>1. [i \in 1..0 |-> <<>>] \in [1..0 -> Seq(S)] /\ Joins(u, 0, [i \in 1..0 |-> <<>>])
      BY DEF Joins
    <3> QED
      BY <2>2, <2>3, <3>1
  <2>4. CASE n # 0
    <3>1. n - 1 \in Nat /\ n - 1 < n /\ n - 1 \in 0..k /\ n - 1 + 1 = n /\ n \in 1..k
      BY <2>2, <2>4
    <3>2. n - 1 \notin Fails
      BY <2>1, <3>1
    <3>3. PICK s \in [1..(n - 1) -> Seq(S)] : Joins(u, n - 1, s)
      BY <3>1, <3>2 DEF Fails
    <3>4. u[n - 1 + 1] \in Seq(S)
      BY <3>1
    <3>5. \E next \in [1..(n - 1 + 1) -> Seq(S)] : Joins(u, n - 1 + 1, next)
      BY <3>1, <3>3, <3>4, JoinsOnce
    <3> QED
      BY <2>2, <3>1, <3>5
  <2> QED
    BY <2>3, <2>4
<1> QED
  BY <1>2, <1>3

\* The places of two sequences in both together.
LEMMA Halves ==
    ASSUME NEW S, NEW a \in Seq(S), NEW b \in Seq(S), NEW x \in 1..Len(a \o b)
    PROVE  /\ x \in Int /\ Len(a) \in Nat
           /\ x <= Len(a) => x \in 1..Len(a) /\ (a \o b)[x] = a[x]
           /\ x > Len(a) => x - Len(a) \in 1..Len(b) /\ (a \o b)[x] = b[x - Len(a)]
<1>1. Len(a \o b) = Len(a) + Len(b) /\ Len(a) \in Nat /\ Len(b) \in Nat
  OBVIOUS
<1>2. x <= Len(a) => x \in 1..Len(a) /\ (a \o b)[x] = a[x]
  BY <1>1
<1>3. x > Len(a) => x - Len(a) \in 1..Len(b) /\ (a \o b)[x] = b[x - Len(a)]
  BY <1>1
<1> QED
  BY <1>1, <1>2, <1>3

\* What joining sequences of elements of S gives.
Joined(S, u, k, s) ==
    /\ \A i \in 1..k : s[i] \in Seq(S) /\ s[i] = IF i = 1 THEN u[i] ELSE s[i - 1] \o u[i]
    /\ \A i \in 1..k : \A x \in 1..Len(s[i]) :
          \E j \in 1..i : \E y \in 1..Len(u[j]) : s[i][x] = u[j][y]

\* Each of what has been joined is a sequence, of elements of those joined.
LEMMA JoinsTyped ==
    ASSUME NEW S, NEW u, NEW k \in Nat, \A i \in 1..k : u[i] \in Seq(S), NEW s, Joins(u, k, s)
    PROVE  Joined(S, u, k, s)
<1>1. \A i \in 1..k : s[i] = IF i = 1 THEN u[i] ELSE s[i - 1] \o u[i]
  BY Zenon DEF Joins
<1> DEFINE From(i) == \A x \in 1..Len(s[i]) : \E j \in 1..i : \E y \in 1..Len(u[j]) : s[i][x] = u[j][y]
           Odd == {i \in 1..k : ~(s[i] \in Seq(S) /\ From(i))}
<1>2. Odd \subseteq Nat
  OBVIOUS
<1>3. ASSUME Odd # {} PROVE FALSE
  <2> HIDE DEF Odd
  <2>1. PICK n \in Odd : \A m \in Nat : m < n => m \notin Odd
    BY <1>2, <1>3, Smallest
  <2>2. n \in 1..k /\ ~(s[n] \in Seq(S) /\ From(n))
    BY <2>1 DEF Odd
  <2>3. s[n] = (IF n = 1 THEN u[n] ELSE s[n - 1] \o u[n]) /\ u[n] \in Seq(S)
    BY <1>1, <2>2
  <2>4. CASE n = 1
    BY <2>2, <2>3, <2>4
  <2>5. CASE n # 1
    <3>1. n - 1 \in 1..k /\ n - 1 \in Nat /\ n - 1 < n /\ n \in Nat
      BY <2>2, <2>5
    <3>2. s[n - 1] \in Seq(S) /\ From(n - 1)
      BY <2>1, <3>1 DEF Odd
    <3>3. s[n] = s[n - 1] \o u[n]
      BY <2>3, <2>5
    <3> HIDE DEF From
    <3>4. s[n] \in Seq(S)
      BY <2>3, <3>2, <3>3
    <3>5. ASSUME NEW x \in 1..Len(s[n])
          PROVE  \E j \in 1..n : \E y \in 1..Len(u[j]) : s[n][x] = u[j][y]
      <4> DEFINE a == s[n - 1]
      <4>a. a \in Seq(S) /\ u[n] \in Seq(S) /\ x \in 1..Len(a \o u[n])
        BY <2>3, <3>2, <3>3, <3>5
      <4> HIDE DEF a
      <4>0. /\ x \in Int /\ Len(a) \in Nat
            /\ x <= Len(a) => x \in 1..Len(a) /\ (a \o u[n])[x] = a[x]
            /\ x > Len(a) => x - Len(a) \in 1..Len(u[n]) /\ (a \o u[n])[x] = u[n][x - Len(a)]
        BY <4>a, Halves
      <4>1. CASE x <= Len(s[n - 1])
        <5>1. x \in 1..Len(s[n - 1]) /\ s[n][x] = s[n - 1][x]
          BY <3>3, <4>0, <4>1, Zenon DEF a
        <5>2. PICK j \in 1..(n - 1) : \E y \in 1..Len(u[j]) : s[n - 1][x] = u[j][y]
          BY <3>2, <5>1 DEF From
        <5>3. j \in 1..n
          BY <3>1
        <5> QED
          BY <5>1, <5>2, <5>3
      <4>2. CASE x > Len(s[n - 1])
        <5>1. x - Len(s[n - 1]) \in 1..Len(u[n]) /\ s[n][x] = u[n][x - Len(s[n - 1])]
          BY <3>3, <4>0, <4>2, Zenon DEF a
        <5>2. n \in 1..n
          BY <2>2
        <5> QED
          BY <5>1, <5>2
      <4>3. x \in Int /\ Len(s[n - 1]) \in Int
        BY <4>0 DEF a
      <4> QED
        BY <4>1, <4>2, <4>3
    <3>6. From(n)
      BY <3>5 DEF From
    <3> QED
      BY <2>2, <3>4, <3>6
  <2> QED
    BY <2>4, <2>5
<1>4. \A i \in 1..k : s[i] \in Seq(S) /\ From(i)
  BY <1>3
<1> QED
  BY <1>1, <1>4, Zenon DEF Joined

\* Joining sequences of at most one element that differ repeats none.
LEMMA JoinsDistinct ==
    ASSUME NEW S, NEW u, NEW k \in Nat, \A i \in 1..k : u[i] \in Seq(S), NEW s, Joins(u, k, s),
           \A i \in 1..k : Len(u[i]) <= 1,
           \A i, j \in 1..k : i # j => \A x \in 1..Len(u[i]), y \in 1..Len(u[j]) : u[i][x] # u[j][y]
    PROVE  \A i \in 1..k : IsInjective(s[i])
<1>1. /\ \A i \in 1..k : s[i] \in Seq(S) /\ s[i] = IF i = 1 THEN u[i] ELSE s[i - 1] \o u[i]
      /\ \A i \in 1..k : \A x \in 1..Len(s[i]) :
            \E j \in 1..i : \E y \in 1..Len(u[j]) : s[i][x] = u[j][y]
  BY JoinsTyped DEF Joined
<1> DEFINE Odd == {i \in 1..k : ~IsInjective(s[i])}
<1>2. Odd \subseteq Nat
  OBVIOUS
<1>3. ASSUME Odd # {} PROVE FALSE
  <2> HIDE DEF Odd
  <2>1. PICK n \in Odd : \A m \in Nat : m < n => m \notin Odd
    BY <1>2, <1>3, Smallest
  <2>2. n \in 1..k /\ ~IsInjective(s[n])
    BY <2>1 DEF Odd
  <2>3. PICK x \in DOMAIN s[n], y \in DOMAIN s[n] : s[n][x] = s[n][y] /\ x # y
    BY <2>2, Zenon DEF IsInjective
  <2>4. s[n] \in Seq(S) /\ u[n] \in Seq(S) /\ Len(u[n]) \in Nat /\ Len(u[n]) <= 1
    BY <1>1, <2>2
  <2>5. x \in 1..Len(s[n]) /\ y \in 1..Len(s[n])
    BY <2>3, <2>4
  <2>6. CASE n = 1
    <3>1. s[n] = u[n]
      BY <1>1, <2>2, <2>6
    <3> QED
      BY <2>3, <2>4, <2>5, <3>1
  <2>7. CASE n # 1
    <3> DEFINE a == s[n - 1]
               b == u[n]
    <3>1. n - 1 \in 1..k /\ n - 1 \in Nat /\ n - 1 < n /\ n \in Nat
      BY <2>2, <2>7
    <3>2. a \in Seq(S) /\ b \in Seq(S) /\ s[n] = a \o b
      BY <1>1, <2>2, <2>4, <2>7, <3>1
    <3>3. IsInjective(a)
      BY <2>1, <3>1 DEF Odd
    <3>4. ASSUME NEW z \in 1..Len(a), NEW w \in 1..Len(b) PROVE a[z] # b[w]
      <4>0. \A v \in 1..Len(s[n - 1]) : \E j \in 1..(n - 1) : \E y1 \in 1..Len(u[j]) : s[n - 1][v] = u[j][y1]
        BY <1>1, <3>1, Zenon
      <4>1. PICK j \in 1..(n - 1) : \E v \in 1..Len(u[j]) : s[n - 1][z] = u[j][v]
        BY <4>0, Zenon
      <4>2. j \in 1..k /\ j # n
        BY <2>2, <4>1
      <4> QED
        BY <2>2, <4>1, <4>2
    <3>5. /\ x \in Int /\ y \in Int /\ Len(a) \in Nat /\ Len(b) \in Nat /\ Len(b) <= 1
          /\ x <= Len(a) => x \in 1..Len(a) /\ s[n][x] = a[x]
          /\ x > Len(a) => x - Len(a) \in 1..Len(b) /\ s[n][x] = b[x - Len(a)]
          /\ y <= Len(a) => y \in 1..Len(a) /\ s[n][y] = a[y]
          /\ y > Len(a) => y - Len(a) \in 1..Len(b) /\ s[n][y] = b[y - Len(a)]
      <4> HIDE DEF a, b
      <4>1. x \in 1..Len(a \o b) /\ y \in 1..Len(a \o b)
        BY <2>5, <3>2
      <4>2. x \in Int /\ (x <= Len(a) => x \in 1..Len(a) /\ s[n][x] = a[x])
                      /\ (x > Len(a) => x - Len(a) \in 1..Len(b) /\ s[n][x] = b[x - Len(a)])
        BY <3>2, <4>1, Halves
      <4>3. y \in Int /\ (y <= Len(a) => y \in 1..Len(a) /\ s[n][y] = a[y])
                      /\ (y > Len(a) => y - Len(a) \in 1..Len(b) /\ s[n][y] = b[y - Len(a)])
        BY <3>2, <4>1, Halves
      <4>4. Len(a) \in Nat /\ Len(b) \in Nat /\ Len(b) <= 1
        BY <2>4, <3>2 DEF b
      <4> QED
        BY <4>2, <4>3, <4>4
    <3>6. DOMAIN a = 1..Len(a)
      BY <3>2
    <3> HIDE DEF a, b
    <3>7. \A z, w \in 1..Len(a) : a[z] = a[w] => z = w
      BY <3>3, <3>6 DEF IsInjective
    <3>8. CASE x <= Len(a) /\ y <= Len(a)
      BY <2>3, <3>5, <3>7, <3>8
    <3>9. CASE x <= Len(a) /\ y > Len(a)
      BY <2>3, <3>4, <3>5, <3>9
    <3>10. CASE x > Len(a) /\ y <= Len(a)
      BY <2>3, <3>4, <3>5, <3>10
    <3>11. CASE x > Len(a) /\ y > Len(a)
      BY <2>3, <3>5, <3>11
    <3> QED
      BY <3>5, <3>8, <3>9, <3>10, <3>11
  <2> QED
    BY <2>6, <2>7
<1> QED
  BY <1>3

LEMMA SequenceOf ==
    ASSUME NEW T, NEW n \in Nat, NEW u, u = [k \in 1..n |-> u[k]], \A k \in 1..n : u[k] \in T
    PROVE  u \in Seq(T) /\ Len(u) = n
OBVIOUS

\* FlattenSeq by what it has joined.
LEMMA Flattened ==
    ASSUME NEW S, NEW u, NEW n \in Nat, Len(u) = n, n # 0, \A i \in 1..n : u[i] \in Seq(S)
    PROVE  \E s : Joins(u, n, s) /\ FlattenSeq(u) = s[n]
<1> DEFINE f == CHOOSE s : s = [i \in 1..n |-> IF i = 1 THEN u[i] ELSE s[i - 1] \o u[i]]
<1>1. \E s : s = [i \in 1..n |-> IF i = 1 THEN u[i] ELSE s[i - 1] \o u[i]]
  <2>1. \E s : Joins(u, n, s)
    BY JoinsExist
  <2> QED
    BY <2>1, Zenon DEF Joins
<1>2. f = [i \in 1..n |-> IF i = 1 THEN u[i] ELSE f[i - 1] \o u[i]]
  BY <1>1, Zenon
<1>3. FlattenSeq(u) = f[n]
  BY Zenon DEF FlattenSeq
<1> HIDE DEF f
<1>4. Joins(u, n, f)
  BY <1>2, Zenon DEF Joins
<1> QED
  BY <1>3, <1>4, Zenon

Flat(S, u, n, f) ==
    /\ f \in Seq(S)
    /\ \A x \in 1..Len(f) : \E j \in 1..n : \E y \in 1..Len(u[j]) : f[x] = u[j][y]
    /\ /\ \A i \in 1..n : Len(u[i]) <= 1
       /\ \A i, j \in 1..n : i # j => \A x \in 1..Len(u[i]), y \in 1..Len(u[j]) : u[i][x] # u[j][y]
       => IsInjective(f)

LEMMA FlattenTyped ==
    ASSUME NEW S, NEW u, NEW n \in Nat, Len(u) = n, n # 0, \A i \in 1..n : u[i] \in Seq(S)
    PROVE  Flat(S, u, n, FlattenSeq(u))
<1>1. n \in 1..n
  OBVIOUS
<1>3. PICK f : Joins(u, n, f) /\ FlattenSeq(u) = f[n]
  BY Flattened
<1>4. /\ \A i \in 1..n : f[i] \in Seq(S) /\ f[i] = IF i = 1 THEN u[i] ELSE f[i - 1] \o u[i]
      /\ \A i \in 1..n : \A x \in 1..Len(f[i]) :
            \E j \in 1..i : \E y \in 1..Len(u[j]) : f[i][x] = u[j][y]
  <2>1. Joined(S, u, n, f)
    BY <1>3, JoinsTyped
  <2> QED
    BY <2>1, Zenon DEF Joined
<1>5. f[n] \in Seq(S) /\ \A x \in 1..Len(f[n]) : \E j \in 1..n : \E y \in 1..Len(u[j]) : f[n][x] = u[j][y]
  BY <1>1, <1>4, Zenon
<1>6. ASSUME \A i \in 1..n : Len(u[i]) <= 1,
             \A i, j \in 1..n : i # j => \A x \in 1..Len(u[i]), y \in 1..Len(u[j]) : u[i][x] # u[j][y]
      PROVE  IsInjective(f[n])
  <2>1. \A i \in 1..n : IsInjective(f[i])
    BY <1>3, <1>6, JoinsDistinct
  <2> QED
    BY <1>1, <2>1, Zenon
<1> QED
  <2>1. Flat(S, u, n, f[n])
    BY <1>5, <1>6, Zenon DEF Flat
  <2> QED
    BY <1>3, <2>1, Zenon

LEMMA Orders ==
    ASSUME BrowserAssumption, sort \in {"NAME", "DATE"}
    PROVE  /\ Cardinality(Apps) \in Nat
           /\ Order[sort] \in [1..Cardinality(Apps) -> Apps] /\ DOMAIN Order[sort] = 1..Cardinality(Apps)
           /\ \A i, j \in 1..Cardinality(Apps) : i # j => Order[sort][i] # Order[sort][j]
<1>1. Order[sort] \in SetToSeqs(Apps)
  BY DEF BrowserAssumption
<1>2. Cardinality(Apps) \in Nat
  BY FS_CardinalityType DEF BrowserAssumption
<1> QED
  BY <1>1, <1>2, Zenon DEF SetToSeqs

LEMMA HolderCounts ==
    ASSUME BrowserAssumption, NEW s, NEW a
    PROVE  /\ IsFiniteSet(Holding(s, a)) /\ Cardinality(Holding(s, a)) \in Nat
           /\ Holding(s, a) \subseteq TableSlots /\ Used(s) \subseteq TableSlots
           /\ IsFiniteSet(Used(s)) /\ Cardinality(Used(s)) \in Nat
           /\ (Cardinality(Holding(s, a)) >= 1 => Holding(s, a) # {})
<1>1. 0 \in Int /\ MaxEntries - 1 \in Int
  BY DEF BrowserAssumption
<1>2. IsFiniteSet(TableSlots)
  BY <1>1, FS_Interval DEF TableSlots
<1>3. Holding(s, a) \subseteq TableSlots /\ Used(s) \subseteq TableSlots
  BY DEF Holding, Used
<1>4. IsFiniteSet(Holding(s, a)) /\ IsFiniteSet(Used(s))
  BY <1>2, <1>3, FS_Subset
<1>5. Cardinality(Holding(s, a)) = 0 <=> Holding(s, a) = {}
  BY <1>4, FS_EmptySet
<1> QED
  BY <1>3, <1>4, <1>5, FS_CardinalityType

\* What the filter lets through are applications of the table, each once if
\* the table has each once.
LEMMA FilterResult ==
    ASSUME BrowserAssumption, sort \in {"NAME", "DATE"}, NEW s \in [TableSlots -> Apps \union {NoApp}]
    PROVE  /\ app_entry_filter(s) \in Seq(Apps)
           /\ Distinct(s) => IsInjective(app_entry_filter(s)) /\ Range(app_entry_filter(s)) \subseteq Range(s)
<1> DEFINE O == Order[sort]
           n == Cardinality(Apps)
           shown(a) == IF sort = "DATE" /\ a \notin Dated THEN {} ELSE Holding(s, a)
           copies(a) == [j \in 1..Cardinality(shown(a)) |-> a]
           u == [k \in DOMAIN O |-> copies(O[k])]
<1>1. /\ n \in Nat /\ O \in [1..n -> Apps] /\ DOMAIN O = 1..n
      /\ \A i, j \in 1..n : i # j => O[i] # O[j]
  BY Orders, Zenon
<1>2. app_entry_filter(s) = FlattenSeq(u)
  BY Zenon DEF app_entry_filter
<1>3. ASSUME NEW a
      PROVE  /\ Cardinality(shown(a)) \in Nat
             /\ Cardinality(shown(a)) >= 1 => \E i \in TableSlots : s[i] = a
             /\ Distinct(s) /\ a \in Apps => Cardinality(shown(a)) <= 1
  <2>1. CASE shown(a) = {}
    <3>1. Cardinality(shown(a)) = 0
      BY <2>1, FS_EmptySet, Zenon
    <3> HIDE DEF shown
    <3> QED
      BY <3>1
  <2>2. CASE shown(a) # {}
    <3>1. shown(a) = Holding(s, a)
      BY <2>2
    <3>2. Cardinality(shown(a)) \in Nat
      BY <3>1, HolderCounts, Zenon
    <3>3. PICK i \in TableSlots : s[i] = a
      BY <2>2, <3>1 DEF Holding
    <3>4. ASSUME Distinct(s), a \in Apps PROVE Cardinality(shown(a)) <= 1
      <4>1. a # NoApp
        BY <3>4 DEF BrowserAssumption
      <4>2. Holding(s, a) = {i}
        BY <3>3, <3>4, <4>1, Zenon DEF Holding, Distinct, Used
      <4>3. Cardinality(shown(a)) = 1
        BY <3>1, <4>2, FS_Singleton, Zenon
      <4> HIDE DEF shown
      <4> QED
        BY <4>3
    <3> QED
      BY <3>2, <3>3, <3>4
  <2> QED
    BY <2>1, <2>2
<1> HIDE DEF shown
<1>4. ASSUME NEW k \in 1..n
      PROVE  /\ u[k] \in Seq(Apps) /\ Len(u[k]) = Cardinality(shown(O[k]))
             /\ \A x \in 1..Len(u[k]) : u[k][x] = O[k]
  <2>1. u[k] = [j \in 1..Cardinality(shown(O[k])) |-> O[k]]
    BY <1>1
  <2>2. O[k] \in Apps
    BY <1>1
  <2>3. Cardinality(shown(O[k])) \in Nat
    BY <1>3
  <2> HIDE DEF O, u
  <2> QED
    BY <2>1, <2>2, <2>3
<1>5. u \in Seq(Seq(Apps)) /\ Len(u) = n
  <2>1. u = [k \in 1..n |-> u[k]]
    BY <1>1
  <2> HIDE DEF u, O, n
  <2>2. \A k \in 1..n : u[k] \in Seq(Apps)
    BY <1>4
  <2> QED
    <3> DEFINE T == Seq(Apps)
    <3>1. n \in Nat /\ \A k \in 1..n : u[k] \in T
      BY <1>1, <2>2
    <3> HIDE DEF T
    <3>2. u \in Seq(T) /\ Len(u) = n
      BY <2>1, <3>1, SequenceOf
    <3> QED
      BY <3>2 DEF T
<1> HIDE DEF u
<1>6. CASE n = 0
  <2>1. u = <<>> /\ FlattenSeq(u) = <<>>
    BY <1>5, <1>6 DEF FlattenSeq
  <2>2. app_entry_filter(s) = <<>>
    BY <1>2, <2>1, Zenon
  <2>3. <<>> \in Seq(Apps) /\ DOMAIN <<>> = {}
    OBVIOUS
  <2>4. IsInjective(<<>>) /\ Range(<<>>) = {}
    BY <2>3, Zenon DEF IsInjective, Range
  <2> QED
    BY <2>2, <2>3, <2>4, Zenon
<1>7. CASE n # 0
  <2> HIDE DEF n, O
  <2> DEFINE f == FlattenSeq(u)
  <2>1. /\ f \in Seq(Apps)
        /\ \A x \in 1..Len(f) : \E j \in 1..n : \E y \in 1..Len(u[j]) : f[x] = u[j][y]
        /\ /\ \A i \in 1..n : Len(u[i]) <= 1
           /\ \A i, j \in 1..n : i # j => \A x \in 1..Len(u[i]), y \in 1..Len(u[j]) : u[i][x] # u[j][y]
           => IsInjective(f)
    <3>1. n \in Nat /\ Len(u) = n /\ n # 0 /\ \A i \in 1..n : u[i] \in Seq(Apps)
      BY <1>1, <1>4, <1>5, <1>7, Zenon
    <3> QED
      <4>1. Flat(Apps, u, n, f)
        BY <3>1, FlattenTyped DEF f
      <4> QED
        BY <4>1, Zenon DEF Flat
  <2> HIDE DEF f
  <2>2. ASSUME Distinct(s) PROVE IsInjective(f) /\ Range(f) \subseteq Range(s)
    <3>1. ASSUME NEW i \in 1..n PROVE Len(u[i]) <= 1
      <4>1. O[i] \in Apps
        BY <1>1
      <4>2. Cardinality(shown(O[i])) <= 1
        BY <1>3, <2>2, <4>1, Zenon
      <4> QED
        BY <1>4, <4>2, Zenon
    <3>2. ASSUME NEW i \in 1..n, NEW j \in 1..n, i # j,
                 NEW x \in 1..Len(u[i]), NEW y \in 1..Len(u[j])
          PROVE  u[i][x] # u[j][y]
      <4>1. u[i][x] = O[i] /\ u[j][y] = O[j]
        BY <1>4, Zenon
      <4> QED
        BY <1>1, <3>2, <4>1, Zenon
    <3>3. IsInjective(f)
      BY <2>1, <3>1, <3>2, Zenon
    <3>4. ASSUME NEW x \in 1..Len(f) PROVE \E i \in TableSlots : f[x] = s[i]
      <4>1. PICK j \in 1..n : \E y \in 1..Len(u[j]) : f[x] = u[j][y]
        BY <2>1, Zenon
      <4>0. PICK y \in 1..Len(u[j]) : f[x] = u[j][y]
        BY <4>1
      <4>2. Len(u[j]) = Cardinality(shown(O[j])) /\ u[j][y] = O[j]
        BY <1>4, Zenon
      <4>3. Len(u[j]) \in Nat /\ Len(u[j]) >= 1
        <5>1. u[j] \in Seq(Apps)
          BY <1>4, Zenon
        <5> QED
          BY <5>1
      <4>4. \E i \in TableSlots : s[i] = O[j]
        BY <1>3, <4>2, <4>3, Zenon
      <4> QED
        BY <4>0, <4>2, <4>4, Zenon
    <3>5. DOMAIN f = 1..Len(f) /\ DOMAIN s = TableSlots
      BY <2>1
    <3>6. Range(f) \subseteq Range(s)
      <4>1. ASSUME NEW v \in Range(f) PROVE v \in Range(s)
        <5>1. PICK x \in 1..Len(f) : v = f[x]
          BY <3>5, Zenon DEF Range
        <5>2. PICK i \in TableSlots : f[x] = s[i]
          BY <3>4, Zenon
        <5> QED
          BY <3>5, <5>1, <5>2, Zenon DEF Range
      <4> QED
        BY <4>1, Zenon
    <3> QED
      BY <3>3, <3>6, Zenon
  <2> QED
    BY <1>2, <2>1, <2>2, Zenon DEF f
<1> QED
  BY <1>6, <1>7

---------------------------------------------------------------------------
(* Slots.                                                                  *)

LEMMA SlotFreed ==
    ASSUME BrowserAssumption, NEW s \in [TableSlots -> Apps \union {NoApp}], NEW i \in Used(s)
    PROVE  LET t == [s EXCEPT ![i] = NoApp] IN
           /\ t \in [TableSlots -> Apps \union {NoApp}]
           /\ Used(t) = Used(s) \ {i} /\ Cardinality(Used(t)) = Cardinality(Used(s)) - 1
           /\ Distinct(s) => Distinct(t) /\ \A j \in Used(t) : t[j] # s[i]
<1> DEFINE t == [s EXCEPT ![i] = NoApp]
<1>1. i \in TableSlots /\ s[i] # NoApp
  BY DEF Used
<1>2. t \in [TableSlots -> Apps \union {NoApp}]
  BY <1>1
<1>3. t[i] = NoApp /\ \A j \in TableSlots : j # i => t[j] = s[j]
  BY <1>1
<1> HIDE DEF t
<1>4. Used(t) = Used(s) \ {i}
  BY <1>1, <1>3 DEF Used
<1>5. Cardinality(Used(t)) = Cardinality(Used(s)) - 1
  <2>1. IsFiniteSet(Used(s))
    BY HolderCounts, Zenon
  <2>2. Cardinality(Used(s) \ {i}) = Cardinality(Used(s)) - 1
    BY <2>1, FS_RemoveElement
  <2> QED
    BY <1>4, <2>2
<1>6. ASSUME Distinct(s) PROVE Distinct(t) /\ \A j \in Used(t) : t[j] # s[i]
  <2>1. \A j \in Used(t) : j \in Used(s) /\ j # i /\ t[j] = s[j]
    BY <1>3, <1>4, Zenon DEF Used
  <2> QED
    BY <1>6, <2>1, Zenon DEF Distinct
<1> QED
  BY <1>2, <1>4, <1>5, <1>6 DEF t

LEMMA SlotTaken ==
    ASSUME BrowserAssumption, NEW s \in [TableSlots -> Apps \union {NoApp}],
           NEW i \in TableSlots, NEW a \in Apps
    PROVE  LET t == [s EXCEPT ![i] = a] IN
           /\ t \in [TableSlots -> Apps \union {NoApp}]
           /\ Used(t) = Used(s) \union {i} /\ Cardinality(Used(t)) <= Cardinality(Used(s)) + 1
           /\ i \notin Used(s) => Cardinality(Used(t)) = Cardinality(Used(s)) + 1
           /\ Distinct(s) /\ (\A j \in Used(s) : s[j] # a) => Distinct(t)
<1> DEFINE t == [s EXCEPT ![i] = a]
<1>1. a # NoApp
  BY DEF BrowserAssumption
<1>2. t \in [TableSlots -> Apps \union {NoApp}]
  OBVIOUS
<1>3. t[i] = a /\ \A j \in TableSlots : j # i => t[j] = s[j]
  OBVIOUS
<1> HIDE DEF t
<1>4. Used(t) = Used(s) \union {i}
  BY <1>1, <1>3 DEF Used
<1>5. IsFiniteSet(Used(s)) /\ Cardinality(Used(s)) \in Nat
  BY HolderCounts
<1>6. i \notin Used(s) => Cardinality(Used(t)) = Cardinality(Used(s)) + 1
  BY <1>4, <1>5, FS_AddElement
<1>7. i \in Used(s) => Used(t) = Used(s)
  BY <1>4
<1>8. ASSUME Distinct(s), \A j \in Used(s) : s[j] # a PROVE Distinct(t)
  <2>1. \A j \in Used(t) : j = i \/ (j \in Used(s) /\ j # i /\ t[j] = s[j])
    BY <1>3, <1>4, Zenon DEF Used
  <2> QED
    BY <1>3, <1>8, <2>1, Zenon DEF Distinct
<1>9. Cardinality(Used(t)) <= Cardinality(Used(s)) + 1
  BY <1>5, <1>6, <1>7
<1> QED
  BY <1>2, <1>4, <1>6, <1>8, <1>9 DEF t

LEMMA NoneUsed ==
    ASSUME BrowserAssumption
    PROVE  /\ Freed \in [TableSlots -> Apps \union {NoApp}]
           /\ Used(Freed) = {} /\ Cardinality(Used(Freed)) = 0 /\ Distinct(Freed)
<1>1. Used(Freed) = {}
  BY DEF Used, Freed
<1> QED
  BY <1>1, FS_EmptySet DEF Freed, Distinct

---------------------------------------------------------------------------
(* Views.                                                                  *)

\* What browser_gen_view leaves in the bank that slides in.
LEMMA GenViewMakes ==
    ASSUME BrowserAssumption, BrowserTypeOK, NEW action, NEW top \in Nat, NEW app,
           NEW then \in {"input", "free", "delete", "refresh"},
           GenView(action, top, app, then), UNCHANGED entries
    PROVE  /\ top_offset' = top /\ first_set' \in BOOLEAN /\ mpc' = "slide"
           /\ UNCHANGED <<columns_current, columns_new, focus, less, more>>
           /\ drawn' \in [Positions -> Apps \union {NoApp}]
           /\ gen' \in [remove : BOOLEAN, then : {"input", "free", "delete", "refresh"},
                        focus : 0..(WidgetCount - 1), less : BOOLEAN, more : BOOLEAN]
           /\ gen'.remove = (action = "REMOVE") /\ gen'.then = then
           /\ action = "REMOVE" => \A p \in OnScreen' : drawn'[p] = NoApp
           /\ action # "REMOVE" => /\ PageDrawn' /\ gen'.less = (top > 0)
                                   /\ gen'.more = (Len(entries) > top + Page)
           /\ Focused(gen.focus)'
<1> DEFINE new == 1 - Shown
           visible(p) == action # "REMOVE" /\ p - new * Bank \in 0..(Page - 1)
           index(p) == top + p - new * Bank + 1
           at == {p \in Positions : p \div Bank = new /\ app # NoApp /\ drawn'[p] = app}
           w == AeOffset + IF at = {} THEN new * Bank ELSE First(at)
<1>1. /\ top_offset' = top /\ first_set' = ~first_set /\ mpc' = "slide"
      /\ UNCHANGED <<columns_current, columns_new, focus, less, more>>
      /\ drawn' = [p \in Positions |->
            IF p \div Bank # new THEN drawn[p]
            ELSE IF visible(p) /\ index(p) \in DOMAIN entries THEN entries[index(p)] ELSE NoApp]
      /\ gen' = [remove |-> action = "REMOVE", then |-> then, focus |-> w,
                 less |-> action # "REMOVE" /\ top > 0,
                 more |-> action # "REMOVE" /\ Len(entries) > top + Page]
  BY Zenon DEF GenView
<1>2. first_set \in BOOLEAN /\ entries \in Seq(Apps) /\ drawn \in [Positions -> Apps \union {NoApp}]
  BY DEF BrowserTypeOK
<1>3. new \in {0, 1} /\ Shown' = new /\ first_set' \in BOOLEAN
  <2>1. first_set' = ~first_set
    BY <1>1
  <2>2. CASE first_set = TRUE
    <3>1. first_set' = FALSE
      BY <2>1, <2>2, Zenon
    <3>2. Shown = 0 /\ Shown' = 1
      BY <2>2, <3>1, Zenon DEF Shown
    <3>3. first_set' \in BOOLEAN
      BY <3>1, Zenon
    <3>4. new \in {0, 1} /\ Shown' = new
      BY <3>2
    <3> QED
      BY <3>3, <3>4, Zenon
  <2>3. CASE first_set = FALSE
    <3>1. first_set' = TRUE
      BY <2>1, <2>3, Zenon
    <3>2. Shown = 1 /\ Shown' = 0
      BY <2>3, <3>1, Zenon DEF Shown
    <3>3. first_set' \in BOOLEAN
      BY <3>1, Zenon
    <3>4. new \in {0, 1} /\ Shown' = new
      BY <3>2
    <3> QED
      BY <3>3, <3>4, Zenon
  <2> QED
    BY <1>2, <2>2, <2>3
<1>4. Bank \in Nat \ {0} /\ Page \in Nat \ {0}
  BY BankSizes
<1>5. drawn' \in [Positions -> Apps \union {NoApp}]
  <2>1. ASSUME NEW p \in Positions
        PROVE  (IF p \div Bank # new THEN drawn[p]
                ELSE IF visible(p) /\ index(p) \in DOMAIN entries THEN entries[index(p)] ELSE NoApp)
               \in Apps \union {NoApp}
    <3> HIDE DEF new, visible, index
    <3> QED
      BY <1>2
  <2> HIDE DEF new, visible, index
  <2> QED
    BY <1>1, <2>1
<1> HIDE DEF new
<1>6. ASSUME NEW p \in Positions, p \div Bank = new
      PROVE  drawn'[p] = IF visible(p) /\ index(p) \in DOMAIN entries THEN entries[index(p)] ELSE NoApp
  <2> HIDE DEF visible, index
  <2> QED
    BY <1>1, <1>6
<1>7. /\ action = "REMOVE" => \A p \in OnScreen' : drawn'[p] = NoApp
      /\ action # "REMOVE" => PageDrawn'
  <2>1. OnScreen' = {p \in Positions : p \div Bank = new}
    BY <1>3 DEF OnScreen, Positions, Bank
  <2>2. ASSUME NEW p \in OnScreen', action # "REMOVE" PROVE drawn'[p] = EntryAt(p)'
    <3>1. EntryAt(p)' = IF p - new * Bank \in 0..(Page - 1) /\ top + p - new * Bank + 1 \in DOMAIN entries
                        THEN entries[top + p - new * Bank + 1] ELSE NoApp
      BY <1>1, <1>3, Zenon DEF EntryAt, Page, Bank
    <3> QED
      BY <1>6, <2>1, <2>2, <3>1, Zenon
  <2>3. ASSUME NEW p \in OnScreen', action = "REMOVE" PROVE drawn'[p] = NoApp
    BY <1>6, <2>1, <2>3, Zenon
  <2> QED
    BY <2>2, <2>3, Zenon DEF PageDrawn
<1>8. w \in 0..(WidgetCount - 1) /\ (w = AeOffset + new * Bank \/ drawn'[w - AeOffset] # NoApp)
  <2>1. CASE at = {}
    <3>1. w = AeOffset + new * Bank
      BY <2>1
    <3>2. new * Bank \in 0..Bank
      BY <1>3, <1>4
    <3> QED
      BY <1>4, <3>1, <3>2 DEF WidgetCount, AeOffset
  <2>2. CASE at # {}
    <3>1. at \subseteq Nat
      BY <1>4 DEF Positions
    <3> DEFINE q == First(at)
    <3>2. q \in at
      BY <2>2, <3>1, FirstIsLeast
    <3>3. q \in Positions /\ drawn'[q] = app /\ app # NoApp /\ w = AeOffset + q
      BY <2>2, <3>2
    <3> HIDE DEF w, q, at
    <3>4. q \in 0..(2 * Bank - 1)
      BY <3>3 DEF Positions
    <3>5. w - AeOffset = q /\ w \in 0..(WidgetCount - 1)
      BY <1>4, <3>3, <3>4 DEF WidgetCount, AeOffset
    <3> QED
      BY <3>3, <3>5
  <2> QED
    BY <2>1, <2>2
<1> HIDE DEF w
<1>9. Focused(gen.focus)'
  <2>1. gen'.focus = w
    BY <1>1
  <2>2. Base(Shown)' = AeOffset + new * Bank
    BY <1>3 DEF Base, AeOffset, Bank
  <2> QED
    BY <1>8, <2>1, <2>2, Zenon DEF Focused, AeOffset
<1>10. gen' \in [remove : BOOLEAN, then : {"input", "free", "delete", "refresh"},
                 focus : 0..(WidgetCount - 1), less : BOOLEAN, more : BOOLEAN]
  BY <1>1, <1>8
<1>11. /\ gen'.remove = (action = "REMOVE") /\ gen'.then = then
       /\ action # "REMOVE" => gen'.less = (top > 0) /\ gen'.more = (Len(entries) > top + Page)
  BY <1>1
<1> QED
  BY <1>1, <1>3, <1>5, <1>7, <1>9, <1>10, <1>11

\* A view is made of a table that is as it was: what is left to show is that
\* its page is one the entries are divided into, and that what main does next
\* is allowed.
LEMMA GenViewKeeps ==
    ASSUME BrowserAssumption, BrowserIInv, NEW action, NEW top \in Nat, NEW app,
           NEW then \in {"input", "free", "delete", "refresh"},
           GenView(action, top, app, then), UNCHANGED <<table, read, clobbered>>,
           phase' = phase \/ (phase = "added" /\ phase' = "shown"),
           app_sel' \in Pointer,
           then = "input" <=> action # "REMOVE",
           then = "free" => phase' = "gone",
           then = "delete" => app_sel' \in Apps /\ phase' # "empty" /\ (Filling' => clobbered),
           action # "REMOVE" /\ Fresh' /\ entries # <<>> => top < Len(entries) /\ top % Page = 0
    PROVE  BrowserIInv'
<1>1. UNCHANGED <<slots, entry_count_all, entries, sort>>
  BY DEF table
<1>2. BrowserTypeOK
  BY DEF BrowserIInv
<1>3. /\ top_offset' = top /\ first_set' \in BOOLEAN /\ mpc' = "slide"
      /\ UNCHANGED <<columns_current, columns_new, focus, less, more>>
      /\ drawn' \in [Positions -> Apps \union {NoApp}]
      /\ gen' \in [remove : BOOLEAN, then : {"input", "free", "delete", "refresh"},
                   focus : 0..(WidgetCount - 1), less : BOOLEAN, more : BOOLEAN]
      /\ gen'.remove = (action = "REMOVE") /\ gen'.then = then
      /\ action = "REMOVE" => \A p \in OnScreen' : drawn'[p] = NoApp
      /\ action # "REMOVE" => /\ PageDrawn' /\ gen'.less = (top > 0)
                              /\ gen'.more = (Len(entries) > top + Page)
      /\ Focused(gen.focus)'
  BY <1>1, <1>2, GenViewMakes
<1>4. BrowserTypeOK'
  <2>1. stale' \in BOOLEAN
    BY Zenon DEF GenView
  <2>2. phase' \in {"shown", "gone", "empty", "loading", "filter", "added"} /\ clobbered' \in BOOLEAN
    BY <1>2 DEF BrowserTypeOK
  <2>3. mpc' \in {"input", "slide", "switch", "delete", "refresh"} /\ top_offset' \in Nat
    BY <1>3
  <2>4. read' \in 0..Len(Listing)
    BY <1>2 DEF BrowserTypeOK
  <2> QED
    BY <1>1, <1>2, <1>3, <2>1, <2>2, <2>3, <2>4, Zenon
    DEF BrowserTypeOK, WidgetCount, Positions, Bank, TableSlots, Pointer
<1>5. phase' # phase => phase = "added" /\ phase' = "shown"
  OBVIOUS
<1>6. Counted'
  BY <1>1, <1>5 DEF BrowserIInv, Counted, Used, Freed, TableSlots
<1>7. clobbered' = clobbered /\ read' = read
  OBVIOUS
<1>8. ~clobbered' => Kept'
  <2>1. ASSUME ~clobbered PROVE Kept'
    <3>1. Kept
      BY <2>1 DEF BrowserIInv
    <3>2. Filling' <=> Filling
      BY <1>5 DEF Filling
    <3>3. phase' = "loading" <=> phase = "loading"
      BY <1>5
    <3> QED
      BY <1>1, <1>7, <3>1, <3>2, <3>3, Zenon DEF Kept, Filled, Distinct, Used, TableSlots
  <2> QED
    BY <1>7, <2>1
<1>9. Deleting'
  BY <1>3, <1>7 DEF Deleting
<1>10. InputOK'
  BY <1>3 DEF InputOK
<1>11. SlideOK'
  <2>1. ASSUME action # "REMOVE", Fresh' PROVE PageStarts(gen.less, gen.more)'
    <3>1. Page' = Page
      BY <1>3 DEF Page
    <3> QED
      BY <1>1, <1>3, <2>1, <3>1, Zenon DEF PageStarts
  <2>2. gen'.then = "free" => phase' = "gone"
    BY <1>3
  <2>3. gen'.remove => action = "REMOVE" /\ gen'.then # "input" /\ \A p \in OnScreen' : drawn'[p] = NoApp
    BY <1>3, Zenon
  <2>4. ~gen'.remove => action # "REMOVE" /\ gen'.then = "input" /\ PageDrawn'
    BY <1>3, Zenon
  <2> QED
    BY <1>3, <2>1, <2>2, <2>3, <2>4, Zenon DEF SlideOK
<1> QED
  BY <1>4, <1>6, <1>8, <1>9, <1>10, <1>11, Zenon DEF BrowserIInv

\* An offset browser_set_top_offset gives for an entry, or for none.
LEMMA OffsetStarts ==
    ASSUME BrowserAssumption, BrowserTypeOK, NEW app
    PROVE  /\ browser_set_top_offset(app) \in Nat
           /\ ~Lost(app) /\ entries # <<>> =>
                 browser_set_top_offset(app) < Len(entries) /\ browser_set_top_offset(app) % Page = 0
<1>1. Page \in Nat \ {0}
  BY BankSizes
<1>2. entries \in Seq(Apps) /\ top_offset \in Nat /\ Len(entries) \in Nat /\ DOMAIN entries = 1..Len(entries)
  BY DEF BrowserTypeOK
<1>3. CASE app = NoApp \/ entries = <<>>
  <2>1. browser_set_top_offset(app) = 0
    BY <1>3 DEF browser_set_top_offset
  <2>2. 0 % Page = 0
    BY <1>1
  <2>3. entries # <<>> => 0 < Len(entries)
    BY <1>2
  <2> QED
    BY <2>1, <2>2, <2>3
<1>4. CASE ~(app = NoApp \/ entries = <<>>)
  <2> DEFINE here == {j \in DOMAIN entries : entries[j] = app}
             i == IF here = {} THEN top_offset ELSE First(here) - 1
             t == (i \div Page) * Page
  <2>1. browser_set_top_offset(app) = IF t > Len(entries) - 1 THEN t - Page ELSE t
    BY <1>4, Zenon DEF browser_set_top_offset
  <2>2. here # {} => i \in Nat /\ i < Len(entries)
    <3>1. here \subseteq Nat
      BY <1>2
    <3>2. ASSUME here # {} PROVE First(here) \in here
      BY <3>1, <3>2, FirstIsLeast
    <3>3. \A j \in here : j - 1 \in Nat /\ j - 1 < Len(entries)
      BY <1>2
    <3> HIDE DEF here
    <3> QED
      BY <3>2, <3>3
  <2>3. i \in Nat
    <3> HIDE DEF here
    <3>1. CASE here = {}
      BY <1>2, <3>1
    <3>2. CASE here # {}
      BY <2>2, <3>2
    <3> QED
      BY <3>1, <3>2
  <2>4. ~Lost(app) => here # {}
    BY <1>4 DEF Lost, Range
  <2> HIDE DEF i, here
  <2>5. t \in Nat /\ t <= i /\ t % Page = 0
    BY <1>1, <2>3, Multiples
  <2>6. t >= 1 => t >= Page
    BY <1>1, <2>5, NextMultiple
  <2>7. Len(entries) >= 1
    BY <1>2, <1>4
  <2> HIDE DEF t
  <2>8. browser_set_top_offset(app) \in Nat
    BY <1>1, <1>2, <2>1, <2>5, <2>6, <2>7
  <2>9. ~Lost(app) => browser_set_top_offset(app) = t /\ t < Len(entries)
    BY <1>2, <2>1, <2>2, <2>3, <2>4, <2>5
  <2> QED
    BY <2>5, <2>8, <2>9
<1> QED
  BY <1>3, <1>4

LEMMA SelTyped ==
    ASSUME BrowserAssumption, BrowserTypeOK
    PROVE  browser_sel \in Pointer
<1>1. entries \in Seq(Apps)
  BY DEF BrowserTypeOK
<1> DEFINE i == top_offset + focus - Base(Shown)
<1> HIDE DEF i
<1>2. i + 1 \in DOMAIN entries => entries[i + 1] \in Apps
  BY <1>1
<1> QED
  BY <1>2, Zenon DEF browser_sel, i, Pointer

LEMMA ActRemoveKeeps ==
    ASSUME BrowserAssumption, BrowserIInv, ActRemove PROVE BrowserIInv'
<1>1. BrowserTypeOK
  BY DEF BrowserIInv
<1>2. /\ phase = "gone" /\ GenView("REMOVE", top_offset, NoApp, "free")
      /\ UNCHANGED <<table, read, clobbered>> /\ phase' = phase /\ app_sel' = app_sel
  BY DEF ActRemove, thread
<1>3. top_offset \in Nat /\ app_sel \in Pointer
  BY <1>1 DEF BrowserTypeOK
<1> QED
  BY <1>2, <1>3, GenViewKeeps

LEMMA ActAddKeeps ==
    ASSUME BrowserAssumption, BrowserIInv, ActAdd PROVE BrowserIInv'
<1>1. BrowserTypeOK
  BY DEF BrowserIInv
<1>2. /\ phase = "added" /\ phase' = "shown" /\ UNCHANGED <<table, read, clobbered>> /\ app_sel' = app_sel
  BY DEF ActAdd
<1>3. PICK app \in Range(entries) \union {NoApp} :
         GenView("ADD", browser_set_top_offset(app), app, "input")
  BY DEF ActAdd
<1>4. ~Lost(app)
  BY DEF Lost
<1>5. /\ browser_set_top_offset(app) \in Nat
      /\ entries # <<>> => browser_set_top_offset(app) < Len(entries)
                           /\ browser_set_top_offset(app) % Page = 0
  BY <1>1, <1>4, OffsetStarts, Zenon
<1>6. app_sel \in Pointer
  BY <1>1 DEF BrowserTypeOK
<1> HIDE DEF browser_set_top_offset
<1> QED
  BY <1>2, <1>3, <1>5, <1>6, GenViewKeeps

\* From the page that is shown, forward and back.
LEMMA TurnKeeps ==
    ASSUME BrowserAssumption, BrowserIInv, mpc = "input", NEW top \in Nat, NEW action \in {"NEXT", "PREV"},
           GenView(action, top, NoApp, "input"), UNCHANGED <<table, thread, app_sel, clobbered>>,
           \/ top = top_offset + columns_current * Rows /\ Len(entries) > top_offset + Page
           \/ top = top_offset - columns_current * Rows /\ top_offset >= 1
    PROVE  BrowserIInv'
<1>1. BrowserTypeOK /\ InputOK
  BY DEF BrowserIInv
<1>2. /\ UNCHANGED <<table, read, clobbered>> /\ phase' = phase /\ app_sel' = app_sel
      /\ app_sel \in Pointer
  BY <1>1 DEF thread, BrowserTypeOK
<1>3. stale' = stale
  <2>1. stale' = (Lost(NoApp) \/ (stale /\ action \in {"NEXT", "PREV"}))
    BY Zenon DEF GenView
  <2>2. ~Lost(NoApp)
    BY DEF Lost
  <2>3. stale \in BOOLEAN
    BY <1>1 DEF BrowserTypeOK
  <2> QED
    BY <2>1, <2>2, <2>3, Zenon
<1>4. ASSUME Fresh', entries # <<>> PROVE top < Len(entries) /\ top % Page = 0
  <2>1. Fresh
    BY <1>2, <1>3, <1>4 DEF Fresh
  <2>2. top_offset < Len(entries) /\ top_offset % Page = 0 /\ columns_new = columns_current
    BY <1>1, <1>4, <2>1 DEF InputOK, PageStarts
  <2>3. Page \in Nat \ {0} /\ columns_current * Rows = Page
    BY <1>1, <2>2, BankSizes DEF Page
  <2>4. top_offset \in Nat /\ Len(entries) \in Nat
    BY <1>1 DEF BrowserTypeOK
  <2> HIDE DEF Page
  <2>5. (top_offset + Page) % Page = 0 /\ (top_offset >= 1 => (top_offset - Page) % Page = 0)
    BY <2>2, <2>3, <2>4, NextMultiple, Zenon
  <2>6. CASE top = top_offset + columns_current * Rows /\ Len(entries) > top_offset + Page
    BY <2>3, <2>4, <2>5, <2>6
  <2>7. CASE top = top_offset - columns_current * Rows /\ top_offset >= 1
    BY <2>2, <2>3, <2>4, <2>5, <2>7
  <2> QED
    BY <2>6, <2>7
<1>5. action # "REMOVE"
  OBVIOUS
<1> QED
  BY <1>2, <1>4, <1>5, GenViewKeeps

LEMMA PagesTurn ==
    ASSUME BrowserAssumption, BrowserIInv, NextPage \/ PrevPage PROVE BrowserIInv'
<1>1. columns_current * Rows \in Nat \ {0} /\ top_offset \in Nat
  BY BankSizes DEF BrowserIInv, BrowserTypeOK
<1>2. CASE NextPage
  <2> DEFINE top == top_offset + columns_current * Rows
  <2>1. top \in Nat
    BY <1>1
  <2>2. /\ mpc = "input" /\ Len(entries) > top_offset + Page
        /\ GenView("NEXT", top, NoApp, "input") /\ UNCHANGED <<table, thread, app_sel, clobbered>>
    BY <1>2, Zenon DEF NextPage
  <2> QED
    BY <2>1, <2>2, TurnKeeps
<1>3. CASE PrevPage
  <2> DEFINE top == top_offset - columns_current * Rows
  <2>1. top \in Nat
    BY <1>1, <1>3 DEF PrevPage
  <2>2. /\ mpc = "input" /\ top_offset >= 1
        /\ GenView("PREV", top, NoApp, "input") /\ UNCHANGED <<table, thread, app_sel, clobbered>>
    BY <1>3, Zenon DEF PrevPage
  <2> QED
    BY <2>1, <2>2, TurnKeeps
<1> QED
  BY <1>2, <1>3

\* A page made again for app, after a switch of the layout, a deletion, an
\* upload or a new theme.
LEMMA RefreshKeeps ==
    ASSUME BrowserAssumption, BrowserIInv, Switched \/ Refresh PROVE BrowserIInv'
<1>1. BrowserTypeOK
  BY DEF BrowserIInv
<1> DEFINE top == browser_set_top_offset(app_sel)
<1>2. /\ GenView("REFRESH", top, app_sel, "input") /\ app_sel' = NoApp
      /\ UNCHANGED <<table, read, clobbered>> /\ phase' = phase
  BY Zenon DEF Switched, Refresh, thread
<1>3. Fresh' => ~Lost(app_sel)
  BY <1>2, Zenon DEF GenView, Fresh
<1>4. top \in Nat /\ (~Lost(app_sel) /\ entries # <<>> => top < Len(entries) /\ top % Page = 0)
  BY <1>1, OffsetStarts, Zenon
<1>5. NoApp \in Pointer
  BY DEF Pointer
<1> HIDE DEF top
<1> QED
  BY <1>2, <1>3, <1>4, <1>5, GenViewKeeps

LEMMA DeleteKeeps ==
    ASSUME BrowserAssumption, BrowserIInv, Delete PROVE BrowserIInv'
<1>1. BrowserTypeOK /\ Counted /\ (~clobbered => Kept)
  BY DEF BrowserIInv
<1>2. /\ browser_sel \in Apps /\ app_sel' = browser_sel /\ GenView("REMOVE", top_offset, NoApp, "delete")
      /\ UNCHANGED <<table, read, clobbered>> /\ phase' = phase
  BY Zenon DEF Delete, thread
<1>3. entries # <<>>
  BY <1>2 DEF browser_sel, BrowserAssumption
<1>4. phase # "empty" /\ (Filling => clobbered)
  BY <1>1, <1>3, Zenon DEF Counted, Kept, Filled
<1>5. Filling' <=> Filling
  BY <1>2 DEF Filling
<1>6. top_offset \in Nat /\ app_sel' \in Pointer
  BY <1>1, <1>2 DEF BrowserTypeOK, Pointer
<1> HIDE DEF browser_sel
<1> QED
  BY <1>2, <1>4, <1>5, <1>6, GenViewKeeps

LEMMA NewThemeKeeps ==
    ASSUME BrowserAssumption, BrowserIInv, NewTheme PROVE BrowserIInv'
<1>1. BrowserTypeOK
  BY DEF BrowserIInv
<1>2. /\ GenView("REMOVE", top_offset, NoApp, "refresh") /\ UNCHANGED <<table, read, clobbered>>
      /\ phase' = phase /\ app_sel' \in {NoApp} \union ({browser_sel} \ {Garbage})
  BY Zenon DEF NewTheme, thread
<1>3. browser_sel \in Pointer /\ NoApp \in Pointer
  BY <1>1, SelTyped DEF Pointer
<1>4. top_offset \in Nat /\ app_sel' \in Pointer
  BY <1>1, <1>2, <1>3 DEF BrowserTypeOK
<1> QED
  BY <1>2, <1>4, GenViewKeeps

---------------------------------------------------------------------------
(* The pointer, the layout and the sort order.                             *)

LEMMA SamePage ==
    ASSUME entries' = entries, first_set' = first_set, top_offset' = top_offset,
           columns_new' = columns_new, drawn' = drawn
    PROVE  PageDrawn' <=> PageDrawn
<1>1. Shown' = Shown
  BY DEF Shown
<1>2. OnScreen' = OnScreen
  BY <1>1, Zenon DEF OnScreen, Positions, Bank
<1>3. ASSUME NEW p \in OnScreen PROVE EntryAt(p)' = EntryAt(p)
  BY <1>1 DEF EntryAt, Page, Bank
<1> QED
  BY <1>2, <1>3, Zenon DEF PageDrawn

LEMMA SameFocus ==
    ASSUME first_set' = first_set, drawn' = drawn
    PROVE  /\ Shown' = Shown
           /\ focus' = focus => (Focused(focus)' <=> Focused(focus))
           /\ gen' = gen => (Focused(gen.focus)' <=> Focused(gen.focus))
<1>1. Shown' = Shown
  BY DEF Shown
<1>2. \A b : Base(b)' = Base(b)
  BY DEF Base, Bank
<1> QED
  BY <1>1, <1>2 DEF Focused, InBank, Base, Bank

LEMMA TargetsTyped ==
    ASSUME BrowserAssumption, BrowserTypeOK, NEW left, NEW right, NEW w \in Targets(left, right)
    PROVE  w \in 0..(WidgetCount - 1) /\ Focused(w)
<1>1. w \in 0..(WidgetCount - 1) /\ Focusable(w, left, right)
  BY DEF Targets
<1>2. ASSUME InBank(w, Shown) PROVE drawn[w - AeOffset] # NoApp
  <2>1. w # 0 /\ w # 1
    <3>1. Bank \in Nat \ {0} /\ Shown \in {0, 1}
      BY BankSizes DEF Shown
    <3>2. Shown * Bank >= 0
      BY <3>1
    <3>3. w >= AeOffset + Shown * Bank
      BY <1>2, <3>1, <3>2 DEF InBank, Base, AeOffset
    <3> QED
      BY <3>1, <3>2, <3>3 DEF AeOffset
  <2> QED
    BY <1>1, <2>1, Zenon DEF Focusable
<1> QED
  BY <1>1, <1>2 DEF Focused

\* Only the focus changes, to a widget that takes it or to none.
LEMMA FocusKeeps ==
    ASSUME BrowserAssumption, BrowserIInv, mpc = "input",
           focus' \in Targets(less, more) \union {-1},
           UNCHANGED <<table, thread, layout, first_set, less, more, drawn, mpc, gen, app_sel, hist>>
    PROVE  BrowserIInv'
<1>1. BrowserTypeOK /\ InputOK
  BY DEF BrowserIInv
<1>2. Bank \in Nat \ {0} /\ Shown \in {0, 1}
  BY <1>1, BankSizes DEF Shown
<1>3. focus' \in -1..(WidgetCount - 1) /\ Focused(focus')
  <2>1. CASE focus' = -1
    <3>1. Shown * Bank >= 0
      BY <1>2
    <3>2. ~InBank(-1, Shown)
      BY <1>2, <3>1 DEF InBank, Base, AeOffset
    <3>3. -1 \in -1..(WidgetCount - 1)
      BY <1>2 DEF WidgetCount, AeOffset
    <3> QED
      BY <2>1, <3>2, <3>3, Zenon DEF Focused
  <2>2. CASE focus' \in Targets(less, more)
    <3>1. focus' \in 0..(WidgetCount - 1) /\ Focused(focus')
      BY <1>1, <2>2, TargetsTyped
    <3> QED
      BY <3>1
  <2> QED
    BY <2>1, <2>2
<1>4. /\ UNCHANGED <<slots, entry_count_all, entries, sort>> /\ UNCHANGED <<phase, read>>
      /\ UNCHANGED <<top_offset, columns_current, columns_new>> /\ UNCHANGED <<clobbered, stale>>
      /\ UNCHANGED <<first_set, less, more, drawn, mpc, gen, app_sel>>
  BY DEF table, thread, layout, hist
<1>5. BrowserTypeOK'
  BY <1>1, <1>3, <1>4 DEF BrowserTypeOK, WidgetCount, Positions, Bank, TableSlots, Pointer
<1>6. Counted' /\ (~clobbered' => Kept') /\ Deleting'
  BY <1>4, Zenon DEF BrowserIInv, Counted, Kept, Filled, Filling, Distinct, Deleting, Used,
     Freed, TableSlots
<1>7. InputOK'
  <2>1. (Focused(focus))'
    <3>0. Shown' = Shown
      BY <1>4 DEF Shown
    <3>1. Base(Shown)' = Base(Shown) /\ (Base(Shown) + Bank - 1)' = Base(Shown) + Bank - 1
      BY <3>0 DEF Base, Bank
    <3>2. drawn' = drawn
      BY <1>4
    <3> QED
      BY <1>3, <3>0, <3>1, <3>2 DEF Focused, InBank
  <2>2. ASSUME Fresh'
        PROVE  /\ PageDrawn' /\ PageStarts(less, more)'
               /\ entries' # <<>> => columns_new' = columns_current'
    <3>1. Fresh
      BY <1>4, <2>2, Zenon DEF Fresh
    <3>2. PageDrawn /\ PageStarts(less, more) /\ (entries # <<>> => columns_new = columns_current)
      BY <1>1, <3>1, Zenon DEF InputOK
    <3>3. PageDrawn'
      BY <1>4, <3>2, SamePage
    <3>4. PageStarts(less, more)'
      BY <1>4, <3>2, Zenon DEF PageStarts, Page
    <3>5. entries' # <<>> => columns_new' = columns_current'
      BY <1>4, <3>2
    <3> QED
      BY <3>3, <3>4, <3>5
  <2> QED
    BY <2>1, <2>2, Zenon DEF InputOK
<1>8. SlideOK'
  BY <1>4 DEF SlideOK
<1> QED
  BY <1>5, <1>6, <1>7, <1>8, Zenon DEF BrowserIInv

LEMMA GreatestBelow ==
    ASSUME NEW S \in SUBSET Nat, S # {}, NEW m \in Nat, \A j \in S : j < m
    PROVE  (CHOOSE w \in S : \A v \in S : v <= w) \in S
<1> DEFINE T == {n \in Nat : \E j \in S : n = m - j}
<1>1. T \subseteq Nat /\ T # {}
  <2>1. PICK j \in S : TRUE
    OBVIOUS
  <2>2. m - j \in Nat
    BY <2>1
  <2>3. m - j \in T
    BY <2>1, <2>2
  <2> QED
    BY <2>3
<1>2. PICK n \in T : \A k \in Nat : k < n => k \notin T
  BY <1>1, Smallest
<1>3. PICK w \in S : n = m - w
  BY <1>2
<1>4. ASSUME NEW v \in S PROVE v <= w
  <2>1. m - v \in Nat /\ v \in Nat /\ w \in Nat
    OBVIOUS
  <2>2. m - v \in T
    BY <2>1
  <2>3. ~(m - v < m - w)
    BY <1>2, <1>3, <2>1, <2>2
  <2> QED
    BY <2>1, <2>3
<1> QED
  BY <1>3, <1>4

LEMMA MoveKeeps ==
    ASSUME BrowserAssumption, BrowserIInv, Move PROVE BrowserIInv'
<1> DEFINE targets == Targets(less, more)
           before == {w \in targets : w < focus}
           after == {w \in targets : w > focus}
<1>1. /\ mpc = "input"
      /\ UNCHANGED <<table, thread, layout, first_set, less, more, drawn, mpc, gen, app_sel, hist>>
      /\ \/ before # {} /\ focus' = CHOOSE w \in before : \A v \in before : v <= w
         \/ after # {} /\ focus' = First(after)
         \/ focus' \in {focus - columns_current, focus + columns_current} \intersect targets
  BY Zenon DEF Move
<1>2. focus \in Int /\ Bank \in Nat \ {0}
  BY BankSizes DEF BrowserIInv, BrowserTypeOK
<1>3. targets \subseteq Nat
  BY <1>2 DEF Targets, WidgetCount, AeOffset
<1> HIDE DEF targets
<1>4. ASSUME before # {} PROVE (CHOOSE w \in before : \A v \in before : v <= w) \in targets
  <2>1. before \subseteq Nat /\ \A j \in before : j < focus
    BY <1>3
  <2>2. focus \in Nat
    BY <1>2, <1>4, <2>1
  <2>3. (CHOOSE w \in before : \A v \in before : v <= w) \in before
    <3> HIDE DEF before
    <3> QED
      BY <1>4, <2>1, <2>2, GreatestBelow
  <2> QED
    BY <2>3
<1>5. ASSUME after # {} PROVE First(after) \in targets
  <2>1. after \subseteq Nat
    BY <1>3
  <2>2. First(after) \in after
    BY <1>5, <2>1, FirstIsLeast
  <2> QED
    BY <2>2
<1>6. focus' \in targets
  <2> HIDE DEF before, after
  <2> QED
    BY <1>1, <1>4, <1>5, Zenon
<1> QED
  BY <1>1, <1>6, FocusKeeps DEF targets

LEMMA PointKeeps ==
    ASSUME BrowserAssumption, BrowserIInv, Point PROVE BrowserIInv'
BY FocusKeeps DEF Point

\* The layout switches in the next view.
LEMMA SwitchModeKeeps ==
    ASSUME BrowserAssumption, BrowserIInv, SwitchMode PROVE BrowserIInv'
<1>1. BrowserTypeOK
  BY DEF BrowserIInv
<1>2. /\ UNCHANGED <<slots, entry_count_all, entries, sort>> /\ UNCHANGED <<phase, read>>
      /\ UNCHANGED <<top_offset, columns_current, gen>> /\ UNCHANGED <<clobbered, stale>>
      /\ UNCHANGED <<first_set, focus, less, more, drawn>>
      /\ mpc' = "switch" /\ app_sel' = browser_sel
      /\ columns_new' = IF columns_current = 1 THEN Columns ELSE 1
  BY Zenon DEF SwitchMode, table, thread, widgets, hist
<1>3. columns_new' \in {1, Columns} /\ app_sel' \in Pointer
  BY <1>1, <1>2, SelTyped
<1>4. BrowserTypeOK'
  <2> HIDE DEF browser_sel
  <2> QED
    BY <1>1, <1>2, <1>3 DEF BrowserTypeOK, WidgetCount, Positions, Bank, TableSlots, Pointer
<1>5. Counted' /\ (~clobbered' => Kept')
  BY <1>2, Zenon DEF BrowserIInv, Counted, Kept, Filled, Filling, Distinct, Used, Freed,
     TableSlots
<1>6. Deleting' /\ InputOK' /\ SlideOK'
  BY <1>2 DEF Deleting, InputOK, SlideOK
<1> QED
  BY <1>4, <1>5, <1>6, Zenon DEF BrowserIInv

LEMMA SetSortKeeps ==
    ASSUME BrowserAssumption, BrowserIInv, SetSort PROVE BrowserIInv'
<1>1. /\ UNCHANGED <<slots, entry_count_all, entries>> /\ UNCHANGED <<phase, read>>
      /\ UNCHANGED <<top_offset, columns_current, columns_new>> /\ UNCHANGED <<clobbered, stale>>
      /\ UNCHANGED <<first_set, focus, less, more, drawn, mpc, gen, app_sel>>
      /\ sort' \in {"NAME", "DATE"}
  BY Zenon DEF SetSort, thread, layout, widgets, hist
<1>2. BrowserTypeOK'
  BY <1>1 DEF BrowserIInv, BrowserTypeOK, WidgetCount, Positions, Bank, TableSlots, Pointer
<1>3. Counted' /\ (~clobbered' => Kept') /\ Deleting'
  BY <1>1, Zenon DEF BrowserIInv, Counted, Kept, Filled, Filling, Distinct, Deleting, Used,
     Freed, TableSlots
<1>4. InputOK' /\ SlideOK'
  BY <1>1, Zenon DEF BrowserIInv, InputOK, SlideOK, Fresh, PageDrawn, OnScreen, EntryAt,
     PageStarts,
     Focused, InBank, Base, Page, Shown, Bank, Positions
<1> QED
  BY <1>2, <1>3, <1>4, Zenon DEF BrowserIInv

---------------------------------------------------------------------------
(* The table changes under the browser.                                    *)

\* Entries are removed from the table and added to it, and sorted again.
LEMMA TableChanges ==
    ASSUME BrowserAssumption, BrowserIInv, slots' \in [TableSlots -> Apps \union {NoApp}],
           phase' = phase, phase # "empty", entry_count_all' \in Nat,
           entry_count_all' >= Cardinality(Used(slots')), phase = "loading" => entry_count_all' <= MaxEntries,
           ~clobbered => entry_count_all' = Cardinality(Used(slots')) /\ Distinct(slots'),
           entries' = app_entry_filter(slots') \/ (entries' = entries /\ slots' = slots),
           ~clobbered' => ~clobbered /\ ~Filling
    PROVE  Counted' /\ (~clobbered' => Kept') /\ entries' \in Seq(Apps)
<1>1. BrowserTypeOK
  BY DEF BrowserIInv
<1>2. sort \in {"NAME", "DATE"} /\ entries \in Seq(Apps)
  BY <1>1 DEF BrowserTypeOK
<1>3. entries' \in Seq(Apps)
  <2>1. app_entry_filter(slots') \in Seq(Apps)
    BY <1>2, FilterResult, Zenon
  <2> QED
    BY <1>2, <2>1, Zenon
<1>4. Counted'
  BY Zenon DEF Counted, Used, TableSlots
<1>5. ASSUME ~clobbered' PROVE Kept'
  <2>1. ~clobbered /\ ~Filling /\ Kept
    BY <1>5 DEF BrowserIInv
  <2>2. Distinct(slots') /\ entry_count_all' = Cardinality(Used(slots'))
    BY <2>1
  <2>3. IsInjective(entries') /\ Range(entries') \subseteq Range(slots')
    <3>1. Distinct(slots') => /\ IsInjective(app_entry_filter(slots'))
                              /\ Range(app_entry_filter(slots')) \subseteq Range(slots')
      BY <1>2, FilterResult, Zenon
    <3>2. IsInjective(entries) /\ Range(entries) \subseteq Range(slots)
      BY <2>1, Zenon DEF Kept
    <3> QED
      BY <2>2, <3>1, <3>2, Zenon
  <2>4. ~Filling'
    BY <2>1 DEF Filling
  <2> QED
    BY <2>2, <2>3, <2>4, Zenon DEF Kept, Distinct, Used, TableSlots
<1> QED
  BY <1>3, <1>4, <1>5

LEMMA HolderUsed ==
    ASSUME BrowserAssumption, NEW s, NEW a \in Apps, Holding(s, a) # {}
    PROVE  First(Holding(s, a)) \in Used(s) /\ s[First(Holding(s, a))] = a
<1>1. Holding(s, a) \subseteq Nat
  BY DEF Holding, TableSlots, BrowserAssumption
<1>2. First(Holding(s, a)) \in Holding(s, a)
  BY <1>1, FirstIsLeast
<1>3. a # NoApp
  BY DEF BrowserAssumption
<1> HIDE DEF First
<1> QED
  BY <1>2, <1>3 DEF Holding, Used

LEMMA DeletedKeeps ==
    ASSUME BrowserAssumption, BrowserIInv, Deleted PROVE BrowserIInv'
<1>1. BrowserTypeOK /\ Counted /\ (~clobbered => Kept) /\ Deleting
  BY DEF BrowserIInv
<1>2. /\ mpc = "delete" /\ mpc' = "refresh" /\ app_sel' = NoApp
      /\ UNCHANGED sort /\ UNCHANGED <<phase, read>>
      /\ UNCHANGED <<top_offset, columns_current, columns_new>> /\ UNCHANGED <<clobbered, stale>>
      /\ UNCHANGED <<first_set, focus, less, more, drawn>> /\ UNCHANGED gen
      /\ app_entry_remove(app_sel) \/ UNCHANGED <<slots, entry_count_all, entries>>
  BY Zenon DEF Deleted, thread, layout, widgets, hist
<1>3. app_sel \in Apps /\ phase # "empty" /\ (Filling => clobbered)
  BY <1>1, <1>2, Zenon DEF Deleting
<1>4. /\ slots \in [TableSlots -> Apps \union {NoApp}] /\ entry_count_all \in 0..(MaxEntries + 1)
      /\ Cardinality(Used(slots)) \in Nat /\ entry_count_all >= Cardinality(Used(slots)) /\ MaxEntries \in Nat
      /\ (phase = "loading" => entry_count_all <= MaxEntries)
  BY <1>1, HolderCounts, Zenon DEF BrowserTypeOK, Counted, BrowserAssumption
<1>5. ~clobbered => entry_count_all = Cardinality(Used(slots)) /\ Distinct(slots)
  BY <1>1, Zenon DEF Kept
<1>6. /\ slots' \in [TableSlots -> Apps \union {NoApp}] /\ entry_count_all' \in 0..(MaxEntries + 1)
      /\ entry_count_all' >= Cardinality(Used(slots')) /\ (phase = "loading" => entry_count_all' <= MaxEntries)
      /\ ~clobbered => entry_count_all' = Cardinality(Used(slots')) /\ Distinct(slots')
      /\ entries' = app_entry_filter(slots') \/ (entries' = entries /\ slots' = slots)
  <2>1. CASE UNCHANGED <<slots, entry_count_all, entries>>
    BY <1>4, <1>5, <2>1
  <2>2. CASE app_entry_remove(app_sel) /\ Holding(slots, app_sel) # {}
    <3> DEFINE i == First(Holding(slots, app_sel))
               t == [slots EXCEPT ![i] = NoApp]
    <3>1. slots' = t /\ entry_count_all' = entry_count_all - 1 /\ entries' = app_entry_filter(slots')
      BY <2>2, Zenon DEF app_entry_remove
    <3>2. i \in Used(slots)
      BY <1>3, <2>2, HolderUsed
    <3> HIDE DEF i
    <3>3. /\ t \in [TableSlots -> Apps \union {NoApp}]
          /\ Used(t) = Used(slots) \ {i} /\ Cardinality(Used(t)) = Cardinality(Used(slots)) - 1
          /\ Distinct(slots) => Distinct(t)
      BY <1>4, <3>2, SlotFreed
    <3> HIDE DEF t
    <3>4. Cardinality(Used(t)) \in Nat
      BY HolderCounts
    <3>5. /\ entry_count_all - 1 \in 0..(MaxEntries + 1) /\ entry_count_all - 1 >= Cardinality(Used(t))
          /\ (phase = "loading" => entry_count_all - 1 <= MaxEntries)
          /\ ~clobbered => entry_count_all - 1 = Cardinality(Used(t))
      BY <1>4, <1>5, <3>3, <3>4
    <3> QED
      BY <1>5, <3>1, <3>3, <3>5, Zenon
  <2>3. app_entry_remove(app_sel) /\ Holding(slots, app_sel) = {} => UNCHANGED <<slots, entry_count_all, entries>>
    BY Zenon DEF app_entry_remove
  <2> QED
    BY <1>2, <2>1, <2>2, <2>3, Zenon
<1>7. ~clobbered' => ~clobbered /\ ~Filling
  BY <1>2, <1>3
<1>8. Counted' /\ (~clobbered' => Kept') /\ entries' \in Seq(Apps)
  <2>1. entry_count_all' \in Nat /\ phase' = phase
    BY <1>2, <1>4, <1>6
  <2> QED
    BY <1>3, <1>6, <1>7, <2>1, TableChanges
<1>9. BrowserTypeOK'
  <2>1. mpc' \in {"input", "slide", "switch", "delete", "refresh"} /\ app_sel' \in Pointer
    BY <1>2 DEF Pointer
  <2>2. read' \in 0..Len(Listing)
    BY <1>1, <1>2 DEF BrowserTypeOK
  <2> QED
    BY <1>1, <1>2, <1>6, <1>8, <2>1, <2>2
    DEF BrowserTypeOK, WidgetCount, Positions, Bank, TableSlots, Pointer
<1>10. Deleting' /\ InputOK' /\ SlideOK'
  BY <1>2 DEF Deleting, InputOK, SlideOK
<1> QED
  BY <1>8, <1>9, <1>10, Zenon DEF BrowserIInv

LEMMA UploadKeeps ==
    ASSUME BrowserAssumption, BrowserIInv, Upload PROVE BrowserIInv'
<1>1. BrowserTypeOK /\ Counted /\ (~clobbered => Kept) /\ InputOK
  BY DEF BrowserIInv
<1>2. PICK a \in Apps, ok \in BOOLEAN : Add(a, ok)
  BY DEF Upload
<1>3. /\ mpc = "input" /\ phase # "empty"
      /\ clobbered' = (clobbered \/ Filling)
      /\ UNCHANGED sort /\ UNCHANGED <<phase, read>>
      /\ UNCHANGED <<top_offset, columns_current, columns_new>>
      /\ UNCHANGED <<first_set, focus, less, more, drawn>> /\ UNCHANGED gen
  BY Zenon DEF Upload, thread, layout, widgets, Filling
<1>4. /\ slots \in [TableSlots -> Apps \union {NoApp}] /\ entry_count_all \in 0..(MaxEntries + 1)
      /\ Cardinality(Used(slots)) \in Nat /\ entry_count_all >= Cardinality(Used(slots)) /\ MaxEntries \in Nat
      /\ (phase = "loading" => entry_count_all <= MaxEntries)
  BY <1>1, HolderCounts, Zenon DEF BrowserTypeOK, Counted, BrowserAssumption
<1>5. ~clobbered => entry_count_all = Cardinality(Used(slots)) /\ Distinct(slots)
  BY <1>1, Zenon DEF Kept
<1> DEFINE old == Holding(slots, a)
           freed == IF old = {} THEN slots ELSE [slots EXCEPT ![First(old)] = NoApp]
           left == entry_count_all - IF old = {} THEN 0 ELSE 1
           holes == TableSlots \ Used(freed)
           added == ok /\ left < MaxEntries /\ holes # {}
<1>6. /\ slots' = IF added THEN [freed EXCEPT ![First(holes)] = a] ELSE freed
      /\ entry_count_all' = left + IF added THEN 1 ELSE 0
      /\ entries' = IF added \/ old # {} THEN app_entry_filter(slots') ELSE entries
      /\ IF added THEN mpc' = "refresh" /\ app_sel' = a /\ stale' = stale
         ELSE mpc' = "input" /\ app_sel' = NoApp /\ stale' = (stale \/ old # {})
  BY <1>2, Zenon DEF Add
<1>7. /\ freed \in [TableSlots -> Apps \union {NoApp}] /\ left \in 0..(MaxEntries + 1)
      /\ Cardinality(Used(freed)) \in Nat /\ left >= Cardinality(Used(freed))
      /\ (phase = "loading" => left <= MaxEntries)
      /\ ~clobbered => left = Cardinality(Used(freed)) /\ Distinct(freed) /\ \A j \in Used(freed) : freed[j] # a
  <2>1. CASE old = {}
    <3>1. freed = slots /\ left = entry_count_all
      BY <1>4, <2>1
    <3>2. \A j \in Used(slots) : slots[j] # a
      BY <2>1 DEF Holding, Used
    <3> HIDE DEF freed, left
    <3> QED
      BY <1>4, <1>5, <3>1, <3>2
  <2>2. CASE old # {}
    <3> DEFINE i == First(old)
               t == [slots EXCEPT ![i] = NoApp]
    <3>1. freed = t /\ left = entry_count_all - 1
      BY <2>2
    <3>2. i \in Used(slots) /\ slots[i] = a
      BY <2>2, HolderUsed
    <3> HIDE DEF i
    <3>3. /\ t \in [TableSlots -> Apps \union {NoApp}]
          /\ Used(t) = Used(slots) \ {i} /\ Cardinality(Used(t)) = Cardinality(Used(slots)) - 1
          /\ Distinct(slots) => Distinct(t) /\ \A j \in Used(t) : t[j] # slots[i]
      BY <1>4, <3>2, SlotFreed
    <3> HIDE DEF t
    <3>4. Cardinality(Used(t)) \in Nat
      BY HolderCounts
    <3>5. /\ entry_count_all - 1 \in 0..(MaxEntries + 1) /\ entry_count_all - 1 >= Cardinality(Used(t))
          /\ (phase = "loading" => entry_count_all - 1 <= MaxEntries)
          /\ ~clobbered => entry_count_all - 1 = Cardinality(Used(t))
      BY <1>4, <1>5, <3>3, <3>4
    <3> HIDE DEF freed, left
    <3> QED
      BY <1>5, <3>1, <3>2, <3>3, <3>4, <3>5, Zenon
  <2> QED
    BY <2>1, <2>2
<1>8. old = {} => freed = slots /\ left = entry_count_all
  BY <1>4
<1> HIDE DEF freed, left, old
<1>9. /\ slots' \in [TableSlots -> Apps \union {NoApp}] /\ entry_count_all' \in 0..(MaxEntries + 1)
      /\ entry_count_all' >= Cardinality(Used(slots')) /\ (phase = "loading" => entry_count_all' <= MaxEntries)
      /\ ~clobbered => entry_count_all' = Cardinality(Used(slots')) /\ Distinct(slots')
      /\ entries' = app_entry_filter(slots') \/ (entries' = entries /\ slots' = slots)
  <2>1. CASE added
    <3> DEFINE i == First(holes)
               t == [freed EXCEPT ![i] = a]
    <3>1. slots' = t /\ entry_count_all' = left + 1 /\ entries' = app_entry_filter(slots') /\ left < MaxEntries
      BY <1>6, <2>1
    <3>2. i \in TableSlots /\ i \notin Used(freed)
      <4>1. holes \subseteq Nat /\ holes # {}
        BY <2>1 DEF TableSlots, BrowserAssumption
      <4>2. i \in holes
        BY <4>1, FirstIsLeast
      <4> QED
        BY <4>2
    <3> HIDE DEF i
    <3>3. /\ t \in [TableSlots -> Apps \union {NoApp}]
          /\ i \notin Used(freed) => Cardinality(Used(t)) = Cardinality(Used(freed)) + 1
          /\ Distinct(freed) /\ (\A j \in Used(freed) : freed[j] # a) => Distinct(t)
      BY <1>7, <3>2, SlotTaken
    <3> HIDE DEF t
    <3>4. /\ left + 1 \in 0..(MaxEntries + 1) /\ left + 1 >= Cardinality(Used(t)) /\ left + 1 <= MaxEntries
          /\ ~clobbered => left + 1 = Cardinality(Used(t))
      BY <1>4, <1>7, <3>1, <3>2, <3>3
    <3> HIDE DEF holes
    <3> QED
      BY <1>7, <3>1, <3>3, <3>4, Zenon
  <2>2. CASE ~added
    <3>1. slots' = freed /\ entry_count_all' = left
      BY <1>6, <1>7, <2>2
    <3>2. entries' = app_entry_filter(slots') \/ (entries' = entries /\ slots' = slots)
      BY <1>6, <1>8, <2>2, <3>1, Zenon
    <3> HIDE DEF holes
    <3> QED
      BY <1>7, <3>1, <3>2, Zenon
  <2> QED
    BY <2>1, <2>2
<1>10. ~clobbered' => ~clobbered /\ ~Filling
  BY <1>3, Zenon
<1>11. Counted' /\ (~clobbered' => Kept') /\ entries' \in Seq(Apps)
  <2>1. entry_count_all' \in Nat /\ phase' = phase
    BY <1>3, <1>4, <1>9
  <2> QED
    BY <1>3, <1>9, <1>10, <2>1, TableChanges
<1>12. mpc' \in {"input", "refresh"} /\ app_sel' \in Apps \union {NoApp} /\ stale' \in BOOLEAN
  <2>1. CASE added
    BY <1>1, <1>6, <2>1, Zenon DEF BrowserTypeOK
  <2>2. CASE ~added
    BY <1>6, <2>2, Zenon
  <2> QED
    BY <2>1, <2>2
<1>13. BrowserTypeOK'
  <2>1. mpc' \in {"input", "slide", "switch", "delete", "refresh"} /\ app_sel' \in Pointer
    BY <1>12 DEF Pointer
  <2>2. read' \in 0..Len(Listing) /\ clobbered' \in BOOLEAN
    BY <1>1, <1>3, Zenon DEF BrowserTypeOK
  <2> QED
    BY <1>1, <1>3, <1>9, <1>11, <1>12, <2>1, <2>2
    DEF BrowserTypeOK, WidgetCount, Positions, Bank, TableSlots, Pointer
<1>14. InputOK'
  <2>1. ASSUME mpc' = "input", Fresh' PROVE Fresh /\ entries' = entries
    <3>1. ~added
      BY <1>6, <2>1
    <3>2. old = {} /\ ~stale /\ phase # "added"
      BY <1>3, <1>6, <2>1, <3>1, Zenon DEF Fresh
    <3> QED
      BY <1>6, <3>1, <3>2, Zenon DEF Fresh
  <2>2. ASSUME mpc' = "input", Fresh'
        PROVE  /\ PageDrawn' /\ PageStarts(less, more)' /\ Focused(focus)'
               /\ entries' # <<>> => columns_new' = columns_current'
    <3>1. entries' = entries /\ PageDrawn /\ PageStarts(less, more) /\ Focused(focus)
          /\ (entries # <<>> => columns_new = columns_current)
      BY <1>1, <1>3, <2>1, <2>2, Zenon DEF InputOK
    <3>2. PageDrawn'
      BY <1>3, <3>1, SamePage
    <3>3. PageStarts(less, more)'
      BY <1>3, <3>1, Zenon DEF PageStarts, Page
    <3>4. Focused(focus)'
      BY <1>3, <3>1, SameFocus
    <3> QED
      BY <1>3, <3>1, <3>2, <3>3, <3>4
  <2> QED
    BY <2>2, Zenon DEF InputOK
<1>15. Deleting' /\ SlideOK'
  BY <1>12 DEF Deleting, SlideOK
<1> QED
  BY <1>11, <1>13, <1>14, <1>15, Zenon DEF BrowserIInv

---------------------------------------------------------------------------
(* The end of a slide.                                                     *)

LEMMA SlideEndKeeps ==
    ASSUME BrowserAssumption, BrowserIInv, SlideEnd PROVE BrowserIInv'
<1>1. BrowserTypeOK /\ Counted /\ (~clobbered => Kept) /\ Deleting /\ SlideOK
  BY DEF BrowserIInv
<1>2. /\ mpc = "slide" /\ less' = gen.less /\ more' = gen.more
      /\ focus' \in {gen.focus, -1} \union Targets(gen.less, gen.more)
      /\ drawn' = [p \in Positions |-> IF p \div Bank = Shown THEN drawn[p] ELSE NoApp]
      /\ columns_current' = columns_new /\ top_offset' = (IF gen.remove THEN 0 ELSE top_offset)
      /\ gen' = NoGen /\ sort' = sort /\ read' = read /\ columns_new' = columns_new
      /\ first_set' = first_set /\ app_sel' = app_sel /\ clobbered' = clobbered /\ stale' = stale
  BY Zenon DEF SlideEnd, hist
<1>3. \/ /\ gen.then = "free" /\ slots' = Freed /\ entry_count_all' = 0 /\ entries' = <<>>
         /\ phase' = "empty" /\ mpc' = "input"
      \/ /\ gen.then # "free" /\ slots' = slots /\ entry_count_all' = entry_count_all
         /\ entries' = entries /\ phase' = phase /\ mpc' = gen.then
  BY Zenon DEF SlideEnd, app_entries_free
<1>4. /\ gen \in [remove : BOOLEAN, then : {"input", "free", "delete", "refresh"},
                  focus : 0..(WidgetCount - 1), less : BOOLEAN, more : BOOLEAN]
      /\ drawn \in [Positions -> Apps \union {NoApp}] /\ first_set \in BOOLEAN /\ top_offset \in Nat
      /\ columns_new \in {1, Columns} /\ columns_current \in {1, Columns}
  BY <1>1, Zenon DEF BrowserTypeOK
<1>5. /\ gen.remove \in BOOLEAN /\ gen.then \in {"input", "free", "delete", "refresh"}
      /\ gen.focus \in 0..(WidgetCount - 1) /\ gen.less \in BOOLEAN /\ gen.more \in BOOLEAN
  BY <1>4
<1>6. /\ gen.remove => gen.then # "input" /\ \A p \in OnScreen : drawn[p] = NoApp
      /\ ~gen.remove => gen.then = "input"
      /\ Focused(gen.focus)
      /\ (~gen.remove /\ Fresh) => PageDrawn /\ PageStarts(gen.less, gen.more)
  BY <1>1, <1>2, Zenon DEF SlideOK
<1>7. Bank \in Nat \ {0} /\ Shown \in {0, 1} /\ Shown' = Shown
  BY <1>1, <1>2, BankSizes DEF Shown
<1>8. /\ drawn' \in [Positions -> Apps \union {NoApp}]
      /\ \A p \in OnScreen : drawn'[p] = drawn[p]
  <2>1. \A p \in Positions : (IF p \div Bank = Shown THEN drawn[p] ELSE NoApp) \in Apps \union {NoApp}
    BY <1>4
  <2>2. drawn' \in [Positions -> Apps \union {NoApp}]
    BY <1>2, <2>1
  <2>3. ASSUME NEW p \in OnScreen PROVE drawn'[p] = drawn[p]
    <3>1. p \in Positions /\ p \div Bank = Shown
      BY <2>3 DEF OnScreen
    <3> QED
      BY <1>2, <3>1, Zenon
  <2> QED
    BY <2>2, <2>3
<1>9. focus' \in -1..(WidgetCount - 1) /\ Focused(focus')
  <2>1. CASE focus' = -1
    <3>1. Shown * Bank >= 0
      BY <1>7
    <3>2. ~InBank(-1, Shown)
      BY <1>7, <3>1 DEF InBank, Base, AeOffset
    <3>3. -1 \in -1..(WidgetCount - 1)
      BY <1>7 DEF WidgetCount, AeOffset
    <3> QED
      BY <2>1, <3>2, <3>3, Zenon DEF Focused
  <2>2. CASE focus' = gen.focus
    BY <1>5, <1>6, <2>2
  <2>3. CASE focus' \in Targets(gen.less, gen.more)
    <3>1. focus' \in 0..(WidgetCount - 1) /\ Focused(focus')
      BY <1>1, <2>3, TargetsTyped
    <3> QED
      BY <3>1
  <2> QED
    BY <1>2, <2>1, <2>2, <2>3
<1>10. Focused(focus)'
  <2>1. Base(Shown)' = Base(Shown) /\ (InBank(focus, Shown)' <=> InBank(focus', Shown))
    BY <1>7 DEF Base, InBank, Bank
  <2>2. ASSUME InBank(focus', Shown) PROVE focus' - AeOffset \in OnScreen
    <3> DEFINE p == focus' - AeOffset
    <3>1. p \in Int /\ focus' = p + AeOffset
      <4>1. focus' \in Int
        BY <1>7, <1>9 DEF WidgetCount, AeOffset
      <4>2. \A w, a \in Int : w - a \in Int /\ w = w - a + a
        OBVIOUS
      <4>3. AeOffset \in Int
        BY DEF AeOffset
      <4> QED
        BY <4>1, <4>2, <4>3, Zenon
    <3> HIDE DEF p
    <3>2. InBank(p + AeOffset, Shown) <=> p \in Positions /\ p \div Bank = Shown
      BY <1>1, <1>7, <3>1, Places
    <3>3. p \in OnScreen
      BY <2>2, <3>1, <3>2, Zenon DEF OnScreen
    <3> QED
      BY <3>3 DEF p
  <2>3. ASSUME InBank(focus', Shown) PROVE drawn'[focus' - AeOffset] = drawn[focus' - AeOffset]
    BY <1>8, <2>2, <2>3, Zenon
  <2> QED
    BY <1>9, <2>1, <2>3, Zenon DEF Focused, AeOffset
<1>11. OnScreen' = OnScreen
  BY <1>7, Zenon DEF OnScreen, Positions, Bank
<1>12. ASSUME mpc' = "input", Fresh'
       PROVE  /\ PageDrawn' /\ PageStarts(less, more)' /\ Focused(focus)'
              /\ entries' # <<>> => columns_new' = columns_current'
  <2>1. columns_new' = columns_current'
    BY <1>2
  <2>2. CASE gen.then = "free"
    <3>1. entries' = <<>> /\ gen.remove
      BY <1>3, <1>6, <2>2
    <3>2. ASSUME NEW p \in OnScreen PROVE EntryAt(p)' = NoApp
      <4>1. DOMAIN entries' = {}
        BY <3>1
      <4> QED
        BY <4>1, Zenon DEF EntryAt
    <3>3. PageDrawn'
      BY <1>6, <1>8, <1>11, <3>1, <3>2, Zenon DEF PageDrawn
    <3>4. PageStarts(less, more)'
      BY <3>1, Zenon DEF PageStarts
    <3> QED
      BY <1>10, <2>1, <3>3, <3>4
  <2>3. CASE gen.then # "free"
    <3>1. gen.then = "input" /\ ~gen.remove /\ entries' = entries /\ phase' = phase /\ top_offset' = top_offset
      BY <1>2, <1>3, <1>6, <1>12, <2>3, Zenon
    <3>2. Fresh
      BY <1>2, <1>12, <3>1, Zenon DEF Fresh
    <3>3. PageDrawn /\ PageStarts(gen.less, gen.more)
      BY <1>6, <3>1, <3>2
    <3>4. ASSUME NEW p PROVE EntryAt(p)' = EntryAt(p)
      BY <1>2, <1>7, <3>1 DEF EntryAt, Page, Bank
    <3>5. PageDrawn'
      BY <1>8, <1>11, <3>3, <3>4, Zenon DEF PageDrawn
    <3>6. PageStarts(less, more)'
      BY <1>2, <3>1, <3>3, Zenon DEF PageStarts, Page
    <3> QED
      BY <1>10, <2>1, <3>5, <3>6
  <2> QED
    BY <2>2, <2>3
<1>13. InputOK'
  BY <1>12, Zenon DEF InputOK
<1>14. mpc' \in {"input", "delete", "refresh"} /\ phase' \in {phase, "empty"}
  BY <1>3, <1>5
<1>15. SlideOK'
  BY <1>14 DEF SlideOK
<1>16. Deleting'
  <2>1. ASSUME mpc' = "delete" PROVE app_sel' \in Apps /\ phase' # "empty" /\ (Filling' => clobbered')
    <3>1. gen.then = "delete" /\ phase' = phase
      BY <1>3, <2>1
    <3>2. app_sel \in Apps /\ phase # "empty" /\ (Filling => clobbered)
      BY <1>1, <1>2, <3>1, Zenon DEF Deleting
    <3> QED
      BY <1>2, <3>1, <3>2 DEF Filling
  <2> QED
    BY <1>14, <2>1 DEF Deleting
<1>17. Counted' /\ (~clobbered' => Kept')
  <2>1. CASE gen.then = "free"
    <3>1. slots' = Freed /\ entry_count_all' = 0 /\ entries' = <<>> /\ phase' = "empty"
      BY <1>3, <2>1
    <3>2. Used(Freed) = {} /\ Cardinality(Used(Freed)) = 0 /\ Distinct(Freed)
      BY NoneUsed
    <3>3. Used(slots)' = Used(Freed) /\ Distinct(slots)'
      BY <3>1, <3>2, Zenon DEF Used, TableSlots, Distinct
    <3>4. DOMAIN <<>> = {}
      OBVIOUS
    <3>5. IsInjective(<<>>) /\ Range(<<>>) = {}
      BY <3>4, Zenon DEF IsInjective, Range
    <3>6. Counted'
      BY <3>1, <3>2, <3>3 DEF Counted, Freed, TableSlots
    <3>7. ~Filling'
      BY <3>1 DEF Filling
    <3> QED
      BY <3>1, <3>2, <3>3, <3>5, <3>6, <3>7 DEF Kept
  <2>2. CASE gen.then # "free"
    BY <1>1, <1>2, <1>3, <2>2, Zenon DEF Counted, Kept, Filled, Filling, Distinct, Used,
       Freed, TableSlots
  <2> QED
    BY <2>1, <2>2
<1>18. BrowserTypeOK'
  <2>1. /\ slots' \in [TableSlots -> Apps \union {NoApp}] /\ entry_count_all' \in 0..(MaxEntries + 1)
        /\ entries' \in Seq(Apps)
    <3>1. Freed \in [TableSlots -> Apps \union {NoApp}] /\ 0 \in 0..(MaxEntries + 1) /\ <<>> \in Seq(Apps)
      BY NoneUsed DEF BrowserAssumption
    <3> QED
      BY <1>1, <1>3, <3>1, Zenon DEF BrowserTypeOK
  <2>2. gen' \in [remove : BOOLEAN, then : {"input", "free", "delete", "refresh"},
                  focus : 0..(WidgetCount - 1), less : BOOLEAN, more : BOOLEAN]
    <3>1. 0 \in 0..(WidgetCount - 1)
      BY <1>7 DEF WidgetCount, AeOffset
    <3> QED
      BY <1>2, <3>1 DEF NoGen
  <2>3. top_offset' \in Nat /\ columns_current' \in {1, Columns} /\ columns_new' \in {1, Columns}
    BY <1>2, <1>4
  <2>4. mpc' \in {"input", "slide", "switch", "delete", "refresh"}
    BY <1>14
  <2>5. phase' \in {"shown", "gone", "empty", "loading", "filter", "added"}
    BY <1>1, <1>14 DEF BrowserTypeOK
  <2>6. /\ sort' \in {"NAME", "DATE"} /\ read' \in 0..Len(Listing) /\ first_set' \in BOOLEAN
        /\ app_sel' \in Pointer /\ clobbered' \in BOOLEAN /\ stale' \in BOOLEAN
    BY <1>1, <1>2, Zenon DEF BrowserTypeOK
  <2>7. less' \in BOOLEAN /\ more' \in BOOLEAN
    BY <1>2, <1>5
  <2> QED
    BY <1>8, <1>9, <2>1, <2>2, <2>3, <2>4, <2>5, <2>6, <2>7
    DEF BrowserTypeOK, WidgetCount, Positions, Bank, TableSlots, Pointer
<1> QED
  BY <1>13, <1>15, <1>16, <1>17, <1>18, Zenon DEF BrowserIInv

---------------------------------------------------------------------------
(* The thread.                                                             *)

\* What the thread does leaves the page that is shown as it is, or there is
\* something to show.
LEMMA ThreadShows ==
    ASSUME BrowserAssumption, BrowserIInv, UNCHANGED <<layout, widgets, mpc, gen>>,
           Fresh' => Fresh /\ entries' = entries, phase = "gone" => phase' = "gone"
    PROVE  InputOK' /\ SlideOK'
<1>1. InputOK /\ SlideOK
  BY DEF BrowserIInv
<1>2. /\ UNCHANGED <<top_offset, columns_current, columns_new>>
      /\ UNCHANGED <<first_set, focus, less, more, drawn>> /\ mpc' = mpc /\ gen' = gen
  BY DEF layout, widgets
<1>3. Shown' = Shown /\ (Focused(focus)' <=> Focused(focus)) /\ (Focused(gen.focus)' <=> Focused(gen.focus))
  BY <1>2, SameFocus
<1>4. ASSUME Fresh'
      PROVE  /\ Fresh /\ entries' = entries /\ (PageDrawn' <=> PageDrawn)
             /\ PageStarts(less, more)' <=> PageStarts(less, more)
             /\ PageStarts(gen.less, gen.more)' <=> PageStarts(gen.less, gen.more)
  <2>1. Fresh /\ entries' = entries
    BY <1>4
  <2>2. PageDrawn' <=> PageDrawn
    BY <1>2, <2>1, SamePage
  <2>3. /\ PageStarts(less, more)' <=> PageStarts(less, more)
        /\ PageStarts(gen.less, gen.more)' <=> PageStarts(gen.less, gen.more)
    BY <1>2, <2>1, Zenon DEF PageStarts, Page
  <2> QED
    BY <2>1, <2>2, <2>3
<1>5. InputOK'
  BY <1>1, <1>2, <1>3, <1>4, Zenon DEF InputOK
<1>6. OnScreen' = OnScreen
  BY <1>3, Zenon DEF OnScreen, Positions, Bank
<1>7. SlideOK'
  <2>1. ASSUME mpc' = "slide"
        PROVE  /\ gen'.remove => gen'.then # "input" /\ \A p \in OnScreen' : drawn'[p] = NoApp
               /\ ~gen'.remove => gen'.then = "input"
               /\ gen'.then = "free" => phase' = "gone"
               /\ Focused(gen.focus)'
               /\ (~gen'.remove /\ Fresh') => PageDrawn' /\ PageStarts(gen.less, gen.more)'
    <3>1. /\ gen.remove => gen.then # "input" /\ \A p \in OnScreen : drawn[p] = NoApp
          /\ ~gen.remove => gen.then = "input"
          /\ gen.then = "free" => phase = "gone"
          /\ Focused(gen.focus)
          /\ (~gen.remove /\ Fresh) => PageDrawn /\ PageStarts(gen.less, gen.more)
      BY <1>1, <1>2, <2>1, Zenon DEF SlideOK
    <3>2. gen'.remove => gen'.then # "input" /\ \A p \in OnScreen' : drawn'[p] = NoApp
      BY <1>2, <1>6, <3>1, Zenon
    <3>3. (~gen'.remove => gen'.then = "input") /\ (gen'.then = "free" => phase' = "gone")
      BY <1>2, <3>1, Zenon
    <3>4. Focused(gen.focus)'
      BY <1>3, <3>1, Zenon
    <3>5. (~gen'.remove /\ Fresh') => PageDrawn' /\ PageStarts(gen.less, gen.more)'
      BY <1>2, <1>4, <3>1, Zenon
    <3> QED
      BY <3>2, <3>3, <3>4, <3>5
  <2> QED
    BY <2>1, Zenon DEF SlideOK
<1> QED
  BY <1>5, <1>7

\* The rest of a step of the thread: what it leaves alone.
LEMMA ThreadTyped ==
    ASSUME BrowserAssumption, BrowserIInv, UNCHANGED <<sort, layout, widgets, mpc, gen, app_sel>>,
           slots' \in [TableSlots -> Apps \union {NoApp}], entry_count_all' \in 0..(MaxEntries + 1),
           entries' \in Seq(Apps), phase' \in {"shown", "gone", "empty", "loading", "filter", "added"},
           read' \in 0..Len(Listing), clobbered' \in BOOLEAN, stale' \in BOOLEAN
    PROVE  BrowserTypeOK'
<1>1. BrowserTypeOK
  BY DEF BrowserIInv
<1>2. /\ UNCHANGED <<top_offset, columns_current, columns_new>>
      /\ UNCHANGED <<first_set, focus, less, more, drawn>> /\ UNCHANGED <<sort, mpc, gen, app_sel>>
  BY DEF layout, widgets
<1> QED
  BY <1>1, <1>2 DEF BrowserTypeOK, WidgetCount, Positions, Bank, TableSlots, Pointer

LEMMA PullKeeps ==
    ASSUME BrowserAssumption, BrowserIInv, Pull PROVE BrowserIInv'
<1>1. BrowserTypeOK /\ Counted /\ (~clobbered => Kept) /\ Deleting
  BY DEF BrowserIInv
<1>2. /\ phase \in {"shown", "added"} /\ phase' = "gone" /\ stale' = (stale \/ phase = "added")
      /\ UNCHANGED <<slots, entry_count_all, entries, sort>>
      /\ read' = read /\ clobbered' = clobbered
      /\ UNCHANGED <<sort, layout, widgets, mpc, gen, app_sel>>
  BY Zenon DEF Pull, table
<1>3. BrowserTypeOK'
  <2>1. /\ slots' \in [TableSlots -> Apps \union {NoApp}] /\ entry_count_all' \in 0..(MaxEntries + 1)
        /\ entries' \in Seq(Apps) /\ read' \in 0..Len(Listing) /\ clobbered' \in BOOLEAN
    BY <1>1, <1>2, Zenon DEF BrowserTypeOK
  <2>2. stale' \in BOOLEAN /\ phase' \in {"shown", "gone", "empty", "loading", "filter", "added"}
    BY <1>2, Zenon
  <2> QED
    BY <1>2, <2>1, <2>2, ThreadTyped
<1>4. ~Filling /\ ~Filling'
  BY <1>2 DEF Filling
<1>5. Counted' /\ Deleting'
  BY <1>1, <1>2, <1>4 DEF Counted, Deleting, Used, TableSlots
<1>6. ~clobbered' => Kept'
  BY <1>1, <1>2, <1>4, Zenon DEF Kept, Distinct, Used, TableSlots
<1>7. InputOK' /\ SlideOK'
  <2>1. Fresh' => Fresh /\ entries' = entries
    BY <1>2, Zenon DEF Fresh
  <2>2. phase = "gone" => phase' = "gone"
    BY <1>2
  <2> QED
    BY <1>2, <2>1, <2>2, ThreadShows
<1> QED
  BY <1>3, <1>5, <1>6, <1>7, Zenon DEF BrowserIInv

LEMMA LoadFreeKeeps ==
    ASSUME BrowserAssumption, BrowserIInv, LoadFree PROVE BrowserIInv'
<1>1. BrowserTypeOK /\ Counted /\ Deleting
  BY DEF BrowserIInv
<1>2. /\ phase = "empty" /\ phase' = "loading" /\ read' = 0 /\ clobbered' = FALSE /\ stale' = stale
      /\ slots' = Freed /\ entry_count_all' = 0 /\ entries' = <<>>
      /\ UNCHANGED <<sort, layout, widgets, mpc, gen, app_sel>>
  BY Zenon DEF LoadFree, app_entries_free
<1>3. entries = <<>>
  BY <1>1, <1>2 DEF Counted
<1>4. MaxEntries \in Nat \ {0}
  BY DEF BrowserAssumption
<1>5. Used(slots)' = {} /\ Cardinality(Used(slots))' = 0 /\ Distinct(slots)'
  <2>1. Used(Freed) = {} /\ Cardinality(Used(Freed)) = 0 /\ Distinct(Freed)
    BY NoneUsed
  <2>2. Used(slots)' = Used(Freed)
    BY <1>2, Zenon DEF Used, TableSlots
  <2> QED
    BY <2>1, <2>2, Zenon DEF Distinct
<1>6. BrowserTypeOK'
  <2>1. Freed \in [TableSlots -> Apps \union {NoApp}] /\ 0 \in 0..(MaxEntries + 1) /\ <<>> \in Seq(Apps)
    BY <1>4, NoneUsed
  <2>2. read' \in 0..Len(Listing)
    BY <1>1, <1>2 DEF BrowserTypeOK
  <2>3. stale' \in BOOLEAN /\ phase' \in {"shown", "gone", "empty", "loading", "filter", "added"}
    BY <1>1, <1>2 DEF BrowserTypeOK
  <2> QED
    BY <1>2, <2>1, <2>2, <2>3, ThreadTyped
<1>7. Counted' /\ Kept'
  <2>1. 0..(0 - 1) = {}
    OBVIOUS
  <2>2. Filling'
    BY <1>2 DEF Filling
  <2>3. Counted'
    BY <1>2, <1>4, <1>5 DEF Counted
  <2>4. Filled'
    BY <1>2, <1>4, <1>5, <2>1 DEF Filled
  <2> QED
    BY <1>2, <1>5, <2>2, <2>3, <2>4 DEF Kept
<1>8. Deleting'
  BY <1>1, <1>2, Zenon DEF Deleting
<1>9. InputOK' /\ SlideOK'
  <2>1. Fresh' => Fresh /\ entries' = entries
    BY <1>2, <1>3 DEF Fresh
  <2>2. phase = "gone" => phase' = "gone"
    BY <1>2
  <2> QED
    BY <1>2, <2>1, <2>2, ThreadShows
<1> QED
  BY <1>6, <1>7, <1>8, <1>9, Zenon DEF BrowserIInv

LEMMA Listings ==
    ASSUME BrowserAssumption
    PROVE  /\ Len(Listing) \in Nat /\ \A i \in 1..Len(Listing) : Listing[i] \in Apps
           /\ \A i, j \in 1..Len(Listing) : i # j => Listing[i] # Listing[j]
<1>1. Listing \in SetToSeqs(Apps) /\ Cardinality(Apps) \in Nat
  BY FS_CardinalityType DEF BrowserAssumption
<1> DEFINE n == Cardinality(Apps)
<1>2. Listing \in [1..n -> Apps] /\ \A i, j \in 1..n : i # j => Listing[i] # Listing[j]
  BY <1>1, Zenon DEF SetToSeqs
<1> HIDE DEF n
<1>3. Len(Listing) = n /\ n \in Nat
  BY <1>1, <1>2 DEF n
<1> QED
  BY <1>2, <1>3

LEMMA LoadEntryKeeps ==
    ASSUME BrowserAssumption, BrowserIInv, LoadEntry PROVE BrowserIInv'
<1>1. BrowserTypeOK /\ Counted /\ (~clobbered => Kept) /\ Deleting
  BY DEF BrowserIInv
<1>2. PICK i \in (read + 1)..Len(Listing) :
         /\ read' = i
         /\ slots' = IF entry_count_all \in TableSlots
                     THEN [slots EXCEPT ![entry_count_all] = Listing[i]] ELSE slots
  BY Zenon DEF LoadEntry
<1>3. /\ phase = "loading" /\ entry_count_all' = entry_count_all + 1
      /\ phase' = (IF entry_count_all' >= MaxEntries THEN "filter" ELSE "loading")
      /\ entries' = entries /\ clobbered' = clobbered /\ stale' = stale
      /\ UNCHANGED <<sort, layout, widgets, mpc, gen, app_sel>>
  BY Zenon DEF LoadEntry, hist
<1>4. /\ slots \in [TableSlots -> Apps \union {NoApp}] /\ entry_count_all \in Nat
      /\ read \in 0..Len(Listing) /\ entries \in Seq(Apps)
      /\ clobbered \in BOOLEAN /\ stale \in BOOLEAN
  BY <1>1 DEF BrowserTypeOK
<1>5. MaxEntries \in Nat \ {0} /\ entry_count_all <= MaxEntries /\ entry_count_all >= Cardinality(Used(slots))
  BY <1>1, <1>3 DEF Counted, BrowserAssumption
<1>6. i \in 1..Len(Listing) /\ i \in 0..Len(Listing) /\ read <= i /\ Listing[i] \in Apps
  BY <1>4, Listings
<1>7. Cardinality(Used(slots)) \in Nat /\ Cardinality(Used(slots')) \in Nat
  BY HolderCounts
<1>8. /\ slots' \in [TableSlots -> Apps \union {NoApp}]
      /\ Cardinality(Used(slots')) <= Cardinality(Used(slots)) + 1
  <2>1. CASE entry_count_all \in TableSlots
    BY <1>2, <1>4, <1>6, <2>1, SlotTaken
  <2>2. CASE entry_count_all \notin TableSlots
    BY <1>2, <1>4, <1>7, <2>2
  <2> QED
    BY <2>1, <2>2
<1>9. phase' \in {"loading", "filter"} /\ (phase' = "loading" => entry_count_all' < MaxEntries)
  BY <1>3, <1>4, <1>5
<1>10. Filling /\ Filling'
  BY <1>3, <1>9 DEF Filling
<1>11. BrowserTypeOK'
  <2>1. entry_count_all' \in 0..(MaxEntries + 1)
    BY <1>3, <1>4, <1>5
  <2>2. phase' \in {"shown", "gone", "empty", "loading", "filter", "added"}
    BY <1>9
  <2>3. read' \in 0..Len(Listing) /\ entries' \in Seq(Apps) /\ clobbered' \in BOOLEAN /\ stale' \in BOOLEAN
    BY <1>2, <1>3, <1>4, <1>6
  <2> QED
    BY <1>3, <1>8, <2>1, <2>2, <2>3, ThreadTyped
<1>12. Counted'
  <2>1. entry_count_all' >= Cardinality(Used(slots'))
    BY <1>3, <1>4, <1>5, <1>7, <1>8
  <2>2. Cardinality(Used(slots))' = Cardinality(Used(slots'))
    BY Zenon DEF Used, TableSlots
  <2>3. phase' = "loading" => entry_count_all' <= MaxEntries
    BY <1>3, <1>4, <1>5, <1>9
  <2>4. phase' # "empty"
    BY <1>9
  <2> QED
    BY <2>1, <2>2, <2>3, <2>4, Zenon DEF Counted
<1>13. ASSUME ~clobbered PROVE Kept'
  <2>1. /\ entry_count_all = Cardinality(Used(slots)) /\ Distinct(slots)
        /\ entries = <<>> /\ entry_count_all < MaxEntries /\ Used(slots) = 0..(entry_count_all - 1)
        /\ \A k \in Used(slots) : \E j \in 1..read : slots[k] = Listing[j]
    BY <1>1, <1>3, <1>10, <1>13, Zenon DEF Kept, Filled
  <2> DEFINE e == entry_count_all
             t == [slots EXCEPT ![e] = Listing[i]]
  <2>2. e \in TableSlots /\ e \notin Used(slots)
    BY <1>4, <2>1 DEF TableSlots
  <2>3. slots' = t
    BY <1>2, <2>2
  <2>4. \A k \in Used(slots) : slots[k] # Listing[i]
    <3>1. ASSUME NEW k \in Used(slots) PROVE slots[k] # Listing[i]
      <4>1. PICK j \in 1..read : slots[k] = Listing[j]
        BY <2>1
      <4>2. j \in 1..Len(Listing) /\ j # i
        BY <1>4, <1>6
      <4> QED
        BY <1>6, <4>1, <4>2, Listings
    <3> QED
      BY <3>1
  <2> HIDE DEF e
  <2>5. /\ Used(t) = Used(slots) \union {e}
        /\ Cardinality(Used(t)) = Cardinality(Used(slots)) + 1 /\ Distinct(t)
    BY <1>4, <1>6, <2>1, <2>2, <2>4, SlotTaken
  <2>6. Used(t) = 0..e
    <3>1. e \in Nat /\ Used(t) = 0..(e - 1) \union {e}
      BY <1>4, <2>1, <2>5, Zenon DEF e
    <3> HIDE DEF t
    <3>2. 0..(e - 1) \union {e} = 0..e
      BY <3>1
    <3> QED
      BY <3>1, <3>2
  <2>7. \A k \in Used(t) : \E j \in 1..i : t[k] = Listing[j]
    <3>1. ASSUME NEW k \in Used(t) PROVE \E j \in 1..i : t[k] = Listing[j]
      <4>1. CASE k = e
        <5>1. t[k] = Listing[i] /\ i \in 1..i
          BY <1>4, <1>6, <2>2, <4>1
        <5> QED
          BY <5>1
      <4>2. CASE k # e
        <5>1. k \in Used(slots)
          BY <2>5, <4>2
        <5>2. t[k] = slots[k]
          BY <1>4, <4>2, <5>1 DEF Used
        <5>3. PICK j \in 1..read : slots[k] = Listing[j]
          BY <2>1, <5>1
        <5>4. j \in 1..i
          BY <1>4, <1>6
        <5> HIDE DEF t
        <5> QED
          BY <5>2, <5>3, <5>4
      <4> QED
        BY <4>1, <4>2
    <3> QED
      BY <3>1
  <2> HIDE DEF t
  <2>8. Used(slots)' = Used(t) /\ Distinct(slots)'
    BY <2>3, <2>5, Zenon DEF Used, Distinct, TableSlots
  <2>9. entry_count_all' = e + 1 /\ entry_count_all' - 1 = e /\ entry_count_all' <= MaxEntries
    BY <1>3, <1>4, <1>5, <2>1 DEF e
  <2>10. Filled'
    <3>1. Used(slots)' = 0..(entry_count_all' - 1)
      BY <2>6, <2>8, <2>9
    <3>2. \A k \in Used(slots)' : \E j \in 1..read' : slots'[k] = Listing[j]
      BY <1>2, <2>3, <2>7, <2>8
    <3> QED
      BY <1>3, <1>9, <2>1, <2>9, <3>1, <3>2, Zenon DEF Filled
  <2>11. entry_count_all' = Cardinality(Used(slots))'
    BY <2>1, <2>5, <2>8, <2>9 DEF e
  <2> QED
    BY <1>10, <2>8, <2>10, <2>11, Zenon DEF Kept
<1>14. Deleting'
  <2>1. phase # "empty" /\ phase' # "empty"
    BY <1>3, <1>9
  <2> QED
    BY <1>1, <1>3, <1>10, <2>1, Zenon DEF Deleting
<1>15. InputOK' /\ SlideOK'
  <2>1. Fresh' => Fresh /\ entries' = entries
    BY <1>3, <1>9 DEF Fresh
  <2>2. phase = "gone" => phase' = "gone"
    BY <1>3
  <2> QED
    BY <1>3, <2>1, <2>2, ThreadShows
<1> QED
  BY <1>3, <1>11, <1>12, <1>13, <1>14, <1>15, Zenon DEF BrowserIInv

LEMMA LoadDoneKeeps ==
    ASSUME BrowserAssumption, BrowserIInv, LoadDone PROVE BrowserIInv'
<1>1. BrowserTypeOK /\ Counted /\ (~clobbered => Kept) /\ Deleting
  BY DEF BrowserIInv
<1>2. /\ phase \in {"loading", "filter"} /\ phase' = "added" /\ read' = 0
      /\ entries' = app_entry_filter(slots) /\ slots' = slots /\ entry_count_all' = entry_count_all
      /\ clobbered' = clobbered /\ stale' = stale
      /\ UNCHANGED <<sort, layout, widgets, mpc, gen, app_sel>>
  BY Zenon DEF LoadDone, hist
<1>3. slots \in [TableSlots -> Apps \union {NoApp}] /\ sort \in {"NAME", "DATE"}
  BY <1>1 DEF BrowserTypeOK
<1>4. /\ app_entry_filter(slots) \in Seq(Apps)
      /\ Distinct(slots) => /\ IsInjective(app_entry_filter(slots))
                            /\ Range(app_entry_filter(slots)) \subseteq Range(slots)
  BY <1>3, FilterResult, Zenon
<1>5. ~Filling'
  BY <1>2 DEF Filling
<1>6. BrowserTypeOK'
  <2>1. /\ slots' \in [TableSlots -> Apps \union {NoApp}] /\ entry_count_all' \in 0..(MaxEntries + 1)
        /\ entries' \in Seq(Apps)
    BY <1>1, <1>2, <1>4, Zenon DEF BrowserTypeOK
  <2>2. read' \in 0..Len(Listing) /\ clobbered' \in BOOLEAN /\ stale' \in BOOLEAN
    BY <1>1, <1>2 DEF BrowserTypeOK
  <2>3. phase' \in {"shown", "gone", "empty", "loading", "filter", "added"}
    BY <1>2
  <2> QED
    BY <1>2, <2>1, <2>2, <2>3, ThreadTyped
<1>7. Counted' /\ Deleting'
  BY <1>1, <1>2, <1>5 DEF Counted, Deleting, Used, TableSlots
<1>8. ~clobbered' => Kept'
  BY <1>1, <1>2, <1>4, <1>5, Zenon DEF Kept, Distinct, Used, TableSlots
<1>9. InputOK' /\ SlideOK'
  <2>1. Fresh' => Fresh /\ entries' = entries
    BY <1>2 DEF Fresh
  <2>2. phase = "gone" => phase' = "gone"
    BY <1>2
  <2> QED
    BY <1>2, <2>1, <2>2, ThreadShows
<1> QED
  BY <1>6, <1>7, <1>8, <1>9, Zenon DEF BrowserIInv

---------------------------------------------------------------------------
LEMMA BrowserInitIInv ==
    ASSUME BrowserAssumption, BrowserInit PROVE BrowserIInv
<1>1. /\ slots = Freed /\ entry_count_all = 0 /\ entries = <<>>
      /\ sort \in {"NAME", "DATE"} /\ phase = "empty" /\ read = 0
      /\ top_offset = 0 /\ columns_current = 1 /\ columns_new \in {1, Columns}
      /\ first_set = TRUE /\ focus = -1 /\ less = FALSE /\ more = FALSE
      /\ drawn = [p \in Positions |-> NoApp] /\ mpc = "input" /\ app_sel = NoApp
      /\ gen = NoGen /\ clobbered = FALSE /\ stale = FALSE
  BY DEF BrowserInit
<1>2. Bank \in Nat \ {0}
  <2>1. MaxColumns \in Nat \ {0} /\ Rows \in Nat \ {0} /\ MaxColumns <= MaxColumns
    BY DEF BrowserAssumption
  <2> QED
    BY <2>1, Product, Zenon DEF Bank
<1>3. WidgetCount \in Nat /\ 0 \in 0..(WidgetCount - 1) /\ -1 \in -1..(WidgetCount - 1)
  BY <1>2 DEF WidgetCount, AeOffset
<1>4. BrowserTypeOK
  <2>1. slots \in [TableSlots -> Apps \union {NoApp}] /\ entry_count_all \in 0..(MaxEntries + 1)
    BY <1>1, NoneUsed DEF BrowserAssumption
  <2>2. gen \in [remove : BOOLEAN, then : {"input", "free", "delete", "refresh"},
                 focus : 0..(WidgetCount - 1), less : BOOLEAN, more : BOOLEAN]
    BY <1>1, <1>3 DEF NoGen
  <2>3. drawn \in [Positions -> Apps \union {NoApp}]
    BY <1>1
  <2>4. read \in 0..Len(Listing) /\ app_sel \in Pointer /\ entries \in Seq(Apps)
    BY <1>1, Listings DEF Pointer
  <2>5. focus \in -1..(WidgetCount - 1)
    BY <1>1, <1>3
  <2>6. top_offset \in Nat /\ columns_current \in {1, Columns} /\ columns_new \in {1, Columns}
    BY <1>1
  <2> QED
    BY <1>1, <2>1, <2>2, <2>3, <2>4, <2>5, <2>6 DEF BrowserTypeOK
<1>5. Used(slots) = {} /\ Cardinality(Used(slots)) = 0 /\ Distinct(slots)
  BY <1>1, NoneUsed
<1>6. Counted
  BY <1>1, <1>5 DEF Counted
<1>7. Kept
  <2>1. DOMAIN <<>> = {}
    OBVIOUS
  <2>2. IsInjective(<<>>) /\ Range(<<>>) = {}
    BY <2>1, Zenon DEF IsInjective, Range
  <2>3. ~Filling
    BY <1>1 DEF Filling
  <2> QED
    BY <1>1, <1>5, <2>2, <2>3 DEF Kept
<1>8. InputOK
  <2>1. \A p \in OnScreen : drawn[p] = NoApp
    BY <1>1 DEF OnScreen
  <2>2. \A p : EntryAt(p) = NoApp
    <3>1. DOMAIN entries = {}
      BY <1>1
    <3> QED
      BY <3>1, Zenon DEF EntryAt
  <2>3. ~InBank(focus, Shown)
    BY <1>1, <1>2 DEF InBank, Base, Shown, AeOffset
  <2> QED
    BY <1>1, <2>1, <2>2, <2>3, Zenon DEF InputOK, PageDrawn, PageStarts, Focused
<1>9. Deleting /\ SlideOK
  BY <1>1 DEF Deleting, SlideOK
<1> QED
  BY <1>4, <1>6, <1>7, <1>8, <1>9 DEF BrowserIInv

LEMMA BrowserStutters ==
    ASSUME BrowserIInv, UNCHANGED browserVars PROVE BrowserIInv'
<1>1. /\ UNCHANGED <<slots, entry_count_all, entries, sort>> /\ UNCHANGED <<phase, read>>
      /\ UNCHANGED <<top_offset, columns_current, columns_new>>
      /\ UNCHANGED <<first_set, focus, less, more, drawn>>
      /\ UNCHANGED <<mpc, gen, app_sel>> /\ UNCHANGED <<clobbered, stale>>
  BY DEF browserVars, table, thread, layout, widgets, hist
<1>2. BrowserTypeOK'
  BY <1>1 DEF BrowserIInv, BrowserTypeOK, WidgetCount, Positions, Bank, TableSlots, Pointer
<1>3. Counted' /\ (~clobbered' => Kept') /\ Deleting'
  BY <1>1, Zenon DEF BrowserIInv, Counted, Kept, Filled, Filling, Distinct, Deleting, Used,
     Freed, TableSlots
<1>4. Shown' = Shown /\ (Focused(focus)' <=> Focused(focus)) /\ (Focused(gen.focus)' <=> Focused(gen.focus))
  BY <1>1, SameFocus
<1>5. (PageDrawn' <=> PageDrawn) /\ (Fresh' <=> Fresh) /\ OnScreen' = OnScreen
  BY <1>1, <1>4, SamePage DEF Fresh, OnScreen, Positions, Bank
<1>6. /\ PageStarts(less, more)' <=> PageStarts(less, more)
      /\ PageStarts(gen.less, gen.more)' <=> PageStarts(gen.less, gen.more)
  BY <1>1, Zenon DEF PageStarts, Page
<1>7. InputOK' /\ SlideOK'
  BY <1>1, <1>4, <1>5, <1>6, Zenon DEF BrowserIInv, InputOK, SlideOK
<1> QED
  BY <1>2, <1>3, <1>7, Zenon DEF BrowserIInv

LEMMA BrowserNextIInv ==
    ASSUME BrowserAssumption, BrowserIInv, [BrowserNext]_browserVars PROVE BrowserIInv'
<1>1. CASE Thread
  BY <1>1, PullKeeps, LoadFreeKeeps, LoadEntryKeeps, LoadDoneKeeps, Zenon DEF Thread
<1>2. CASE SlideEnd
  BY <1>2, SlideEndKeeps, Zenon
<1>3. CASE Main
  BY <1>3, ActRemoveKeeps, ActAddKeeps, PagesTurn, SwitchModeKeeps, RefreshKeeps,
     PointKeeps, MoveKeeps,
     DeleteKeeps, DeletedKeeps, NewThemeKeeps, UploadKeeps, SetSortKeeps, Zenon DEF Main
<1>4. CASE UNCHANGED browserVars
  BY <1>4, BrowserStutters, Zenon
<1> QED
  BY <1>1, <1>2, <1>3, <1>4, Zenon DEF BrowserNext

\* What browser_gen_view has drawn in both banks, how far the thread has
\* filled the table and which entries each of them still has: for every set
\* of applications, size of the table, order, grid and number of rows.
THEOREM BrowserInvariance == BrowserSpec => []BrowserIInv
<1>1. BrowserInit => BrowserIInv
  BY BrowserInitIInv, BrowserAssumption
<1>2. BrowserIInv /\ [BrowserNext]_browserVars => BrowserIInv'
  BY BrowserNextIInv, BrowserAssumption
<1> QED
  BY <1>1, <1>2, PTL DEF BrowserSpec

\* TableWhole (app_entry_add, app_entry_remove and the thread): the count is
\* that of the slots in use, and no application is in the table, or on the
\* pages, twice.
THEOREM TableStaysWhole == BrowserSpec => []TableWhole
<1>1. BrowserIInv => TableWhole
  <2> SUFFICES ASSUME BrowserIInv PROVE TableWhole
    OBVIOUS
  <2>1. BrowserTypeOK /\ (~clobbered => Kept)
    BY DEF BrowserIInv
  <2> QED
    BY <2>1, Zenon DEF TableWhole, Kept, Filling, Distinct
<1> QED
  BY <1>1, BrowserInvariance, PTL

\* SelIsDrawn (browser_sel): the entry that is opened or deleted is the one
\* the focused widget draws.
THEOREM SelectionIsDrawn == BrowserSpec => []SelIsDrawn
<1>1. BrowserIInv => SelIsDrawn
  <2> SUFFICES ASSUME BrowserIInv, Settled, InBank(focus, Shown)
               PROVE  browser_sel = drawn[focus - AeOffset]
    BY DEF SelIsDrawn
  <2> DEFINE p == focus - AeOffset
             k == p - Shown * Bank
  <2>1. BrowserTypeOK /\ PageDrawn /\ PageStarts(less, more) /\ Focused(focus)
    BY Zenon DEF BrowserIInv, InputOK, Settled, Fresh
  <2>2. /\ Shown \in {0, 1} /\ Bank \in Nat \ {0} /\ Page \in Nat \ {0} /\ Page <= Bank
        /\ focus \in Int /\ top_offset \in Nat /\ entries \in Seq(Apps)
    BY <2>1, BrowserAssumption, BankSizes DEF Shown, BrowserTypeOK
  <2>3. focus >= AeOffset /\ k \in 0..(Bank - 1) /\ focus - Base(Shown) = k
    <3>1. Shown * Bank \in Nat
      BY <2>2
    <3> QED
      BY <2>2, <3>1 DEF InBank, Base, AeOffset
  <2>4. drawn[p] = EntryAt(p)
    <3>1. p \in Int /\ focus = p + AeOffset
      BY <2>2 DEF AeOffset
    <3> HIDE DEF p
    <3>2. p \in OnScreen
      BY <2>1, <2>2, <3>1, BrowserAssumption, Places DEF OnScreen
    <3> QED
      BY <2>1, <3>2 DEF PageDrawn
  <2>5. top_offset + focus - Base(Shown) = top_offset + k /\ top_offset + p - Shown * Bank + 1 = top_offset + k + 1
    <3>1. Shown * Bank \in Int /\ Base(Shown) \in Int /\ AeOffset \in Int
      BY <2>2 DEF Base, AeOffset
    <3> QED
      BY <2>2, <2>3, <3>1
  <2>6. browser_sel = IF entries = <<>> THEN NoApp
                      ELSE IF top_offset + k + 1 \in DOMAIN entries THEN entries[top_offset + k + 1] ELSE Garbage
    <3>1. ~(focus < AeOffset)
      BY <2>2, <2>3 DEF AeOffset
    <3> HIDE DEF k
    <3> QED
      BY <2>5, <3>1, Zenon DEF browser_sel
  <2>7. EntryAt(p) = IF k \in 0..(Page - 1) /\ top_offset + k + 1 \in DOMAIN entries
                     THEN entries[top_offset + k + 1] ELSE NoApp
    BY <2>5, Zenon DEF EntryAt
  <2> HIDE DEF p, k
  <2>8. CASE entries = <<>>
    BY <2>4, <2>6, <2>7, <2>8 DEF p
  <2>9. CASE entries # <<>> /\ focus = Base(Shown)
    <3>1. k = 0
      <4>1. Base(Shown) \in Int
        BY <2>2 DEF Base, AeOffset
      <4> QED
        BY <2>3, <2>9, <4>1
    <3>2. k \in 0..(Page - 1) /\ top_offset + k + 1 \in DOMAIN entries
      BY <2>1, <2>2, <2>9, <3>1 DEF PageStarts
    <3> QED
      BY <2>4, <2>6, <2>7, <2>9, <3>2, Zenon DEF p
  <2>10. CASE entries # <<>> /\ drawn[focus - AeOffset] # NoApp
    BY <2>4, <2>6, <2>7, <2>10, Zenon DEF p
  <2> QED
    BY <2>1, <2>8, <2>9, <2>10 DEF Focused
<1> QED
  BY <1>1, BrowserInvariance, PTL

\* PagesPartition (browser_set_top_offset and the page actions): every page
\* starts at a multiple of its size and none is empty.
THEOREM PagesStayPartition == BrowserSpec => []PagesPartition
<1>1. BrowserIInv => PagesPartition
  BY Zenon DEF BrowserIInv, InputOK, PageStarts, PagesPartition, Settled, Fresh
<1> QED
  BY <1>1, BrowserInvariance, PTL

-----------------------------------------------------------------------------
---------------------------------------------------------------------------
(* The screen: what its views are, at any time.                            *)

ScreenWidgets ==
    {w \in [type : DOMAIN Layers, flags : SUBSET {"VISIBLE", "ENABLED", "FOCUSABLE", "FOCUSED"}] :
        "FOCUSABLE" \in w.flags => w.type \in {"button", "app_entry"}}

DialogKinds == {"detail", "about", "none", "ok", "yesno", "progress", "options"}
ScreenViews(kinds, D) ==
    [kind : kinds, widgets : [D -> ScreenWidgets], focus : D \cup {-1},
     sub : {"none", "browser", "m_main"}, drag_btn : BOOLEAN, drag : Int]

FocusShown(v) == \A i \in DOMAIN v.widgets : "FOCUSED" \in v.widgets[i].flags => v.focus = i
Chosen(v) == v.focus # -1 => v.widgets[v.focus].type = "button"

\* Only its banks hold entries.
BrowserView(v) ==
    /\ v \in ScreenViews({"browser"}, 0..6) /\ FocusShown(v)
    /\ \A i \in 0..4 : v.widgets[i].type \notin {"app_entry", "picture"}

\* A button of the menu is one the menu has, also when its focus is the one
\* that another menu has left.
MenuView(v, menu) ==
    /\ v \in ScreenViews({"m_main"}, 0..8) /\ FocusShown(v)
    /\ \A i \in 0..8 : v.widgets[i].type \notin {"app_entry", "picture"}
    /\ \A i \in 0..8 : v.widgets[i].type = "button" => i \in Buttons(menu)
    /\ menu = "EXIT" => Chosen(v)

DialogWidgets(kind) == 0..(Len(Types(kind)) - 1)

DialogView(v) ==
    /\ v \in ScreenViews(DialogKinds, DOMAIN v.widgets) /\ FocusShown(v) /\ Chosen(v)
    /\ \/ DOMAIN v.widgets = {}
       \/ /\ DOMAIN v.widgets = DialogWidgets(v.kind)
          /\ \A i \in DialogWidgets(v.kind) : v.widgets[i].type = Types(v.kind)[i + 1]

Closed == DOMAIN views["dialog"].widgets = {} /\ ui.v_current # "dialog"
OwnsScreen == ui.v_current = "dialog"

ViewsOK ==
    /\ views = [n \in {"browser", "m_main", "dialog"} |-> views[n]]
    /\ BrowserView(views["browser"]) /\ MenuView(views["m_main"], ui.menu_index) /\ DialogView(views["dialog"])
UiOK ==
    /\ ui \in [v_current : {"browser", "m_main", "dialog"}, menu_index : {"HOME", "EXIT"},
               viewing : BOOLEAN, cursor_enabled : BOOLEAN, first_set : BOOLEAN]
    /\ OwnsScreen => views["dialog"].sub \in {"browser", "m_main"}
BubblesOK == bubble_count \in Nat /\ popped \subseteq 0..(bubble_count - 1)

ScreenTypes == ViewsOK /\ UiOK /\ BubblesOK /\ theme_gfx \in {"live", "null"} /\ apps \in BOOLEAN

---------------------------------------------------------------------------
(* What main has left to call.                                             *)

Dialogs == {<<"open", "ok", 6>>, <<"open", "none", -1>>, <<"open", "options", 12>>, <<"open", "about", -1>>,
            <<"open", "detail", 10>>, <<"open", "yesno", 6>>, <<"open", "yesno", 7>>, <<"open", "progress", -1>>}

\* What may follow a call.
Follows ==
    [plot |-> {"input"}, input |-> {"end"}, gen |-> {"slide"}, slide |-> {"half", "slid"}, half |-> {"slide"},
     slid |-> {"end", "app_entries_free", "fade", "open"},
     fade |-> {"font_clear", "gen"}, font_clear |-> {"theme_deinit"}, theme_deinit |-> {"theme_init"},
     theme_init |-> {"bubbles_theme_reinit"}, bubbles_theme_reinit |-> {"view_theme_reinit"},
     view_theme_reinit |-> {"browser_theme_reinit"}, browser_theme_reinit |-> {"m_main_theme_reinit"},
     m_main_theme_reinit |-> {"fade"},
     open |-> {"dialog_fade"}, dialog_fade |-> {"loop", "progress", "close", "end"},
     loop |-> {"dialog_fade"}, progress |-> {"dialog_fade"},
     close |-> {"end", "received", "extract", "extracted", "delete", "deleted", "gen", "open"},
     app_entries_free |-> {"end"}, app_entry_add |-> {"gen"}, app_entry_remove |-> {"gen"},
     received |-> {"end"}, extract |-> {"end"}, extracted |-> {"end"}, delete |-> {"end"}, deleted |-> {"end"}]

Ops == DOMAIN Follows
Calls == Dialogs \cup ({"gen", "half"} \X {"REMOVE", "ADD", "REFRESH"}) \cup {<<op>> : op \in Ops \ {"open", "gen", "half"}}

CallAt(s, k) == IF k \in 1..Len(s) THEN s[k][1] ELSE "end"

Ordered(s) == s \in Seq(Calls) /\ \A k \in 1..Len(s) : CallAt(s, k + 1) \in Follows[CallAt(s, k)]

\* A dialog is closed, but for one that becomes the current view.
Closes(s) ==
    \A k \in 1..Len(s) :
        /\ CallAt(s, k) \in {"loop", "progress"} => CallAt(s, k + 2) = "close"
        /\ CallAt(s, k) = "open" /\ CallAt(s, k + 2) = "end" => s[k][2] \in {"detail", "about"}

\* What frees icons, or decides to, has hidden the page before.
Frees == {"app_entries_free", "app_entry_remove", "deleted"}
Hides(s) ==
    \A j, k \in 1..Len(s) :
        j < k /\ CallAt(s, j) = "gen" /\ CallAt(s, k) \in Frees =>
            s[j][2] = "REMOVE" /\ \E i \in j..k : CallAt(s, i) = "slid"

Program(s) == Ordered(s) /\ Closes(s) /\ Hides(s)

\* The end of main.
Leaving ==
    {<<>>, <<<<"theme_deinit">>>>, <<<<"font_clear">>, <<"theme_deinit">>>>,
     <<<<"fade">>, <<"font_clear">>, <<"theme_deinit">>>>,
     <<<<"dialog_fade">>, <<"fade">>, <<"font_clear">>, <<"theme_deinit">>>>}

\* The dialog when s is left to be called: closed or not, the current view or not.
Quiet == {"end", "plot", "input"}
InDialog == {"dialog_fade", "loop", "progress", "close"}
DialogFits(s, closed, owns) ==
    /\ CallAt(s, 1) \notin Quiet \cup InDialog => closed
    /\ CallAt(s, 1) \in Quiet => closed \/ owns
    /\ CallAt(s, 1) = "dialog_fade" /\ CallAt(s, 2) = "end" => owns

\* The banks when s is left to be called: the one that is shown next, or now,
\* and the other draw nothing when an icon is freed before they are filled.
Conceals(s, new, old) ==
    \A k \in 1..Len(s) :
        CallAt(s, k) \in Frees /\ (\A j \in 1..k : CallAt(s, j) # "gen") =>
            new /\ ((\A j \in 1..k : CallAt(s, j) # "slid") => old)

Hidden(i) == views["browser"].widgets[i].type = "none"

\* Whose pointers dangle before a call.
ViewPointers == (({"browser"} \X (0..6)) \cup ({"m_main"} \X (0..8)) \cup ({"dialog"} \X Int)) \X {"theme", "glyph", "icon", "replaced"}
BubblePointers == {<<<<"tex_bubbles", 0>>, "theme">>} \cup (({"bubble", "sub_bubble"} \X Nat) \X {"theme"})

Dangles(h, op) ==
    \/ h[2] = "replaced"
    \/ op \in {"theme_deinit", "theme_init", "bubbles_theme_reinit", "view_theme_reinit", "browser_theme_reinit"}
          /\ h[1][1] = "browser"
    \/ op \in {"theme_deinit", "theme_init", "bubbles_theme_reinit", "view_theme_reinit", "browser_theme_reinit", "m_main_theme_reinit"}
          /\ h[1][1] = "m_main"
    \/ op \in {"theme_init", "bubbles_theme_reinit", "view_theme_reinit"} /\ h \in Background
    \/ op \in {"theme_init", "bubbles_theme_reinit"} /\ h \in BubblePointers

\* main has freed everything, or is about to.
Gone == exit # {} /\ (CallAt(todo, 1) = "theme_deinit" \/ (todo = <<>> /\ theme_gfx = "null"))

DanglingOK ==
    /\ dangling \subseteq ViewPointers \cup Background \cup BubblePointers
    /\ theme_gfx = "null" => (Gone /\ todo = <<>>) \/ CallAt(todo, 1) = "theme_init"
    /\ ~Gone => \A h \in dangling : Dangles(h, CallAt(todo, 1))

ProgramOK ==
    /\ exit = {} =>
          /\ Program(todo) /\ DialogFits(todo, Closed, OwnsScreen)
          /\ Conceals(todo, Hidden(NewBank), Hidden(11 - NewBank))
    /\ exit # {} => todo \in Leaving

ScreenIInv == ScreenTypes /\ ChoiceIsOffered /\ DanglingOK /\ ProgramOK

---------------------------------------------------------------------------
(* Calls in their order.                                                   *)

\* Every call is that of an operation, and of a dialog there is.
LEMMA CallOp ==
    ASSUME NEW c \in Calls
    PROVE  c[1] \in Ops /\ c[1] # "end" /\ (c[1] = "open" => c \in Dialogs)
<1>1. CASE c \in Dialogs
  BY <1>1 DEF Dialogs, Ops, Follows
<1>2. CASE c \in {"gen", "half"} \X {"REMOVE", "ADD", "REFRESH"}
  BY <1>2 DEF Ops, Follows
<1>3. CASE c \in {<<op>> : op \in Ops \ {"open", "gen", "half"}}
  BY <1>3 DEF Ops, Follows
<1> QED
  BY <1>1, <1>2, <1>3 DEF Calls

LEMMA CallsAt ==
    ASSUME NEW s \in Seq(Calls), NEW k \in Int
    PROVE  /\ k \in 1..Len(s) => s[k] \in Calls /\ CallAt(s, k) = s[k][1] /\ CallAt(s, k) \in Ops
           /\ CallAt(s, k) \in Ops \cup {"end"}
           /\ CallAt(s, k) = "end" <=> k \notin 1..Len(s)
<1>1. CASE k \in 1..Len(s)
  <2>1. s[k] \in Calls
    BY <1>1
  <2>2. s[k][1] \in Ops /\ s[k][1] # "end"
    BY <2>1, CallOp
  <2> QED
    BY <1>1, <2>1, <2>2 DEF CallAt
<1>2. CASE k \notin 1..Len(s)
  BY <1>2 DEF CallAt
<1> QED
  BY <1>1, <1>2

\* What is left when the first call has been made.
LEMMA TailCalls ==
    ASSUME NEW s \in Seq(Calls), s # <<>>
    PROVE  /\ Tail(s) \in Seq(Calls) /\ Len(Tail(s)) = Len(s) - 1 /\ Len(s) >= 1
           /\ \A k \in 1..Len(Tail(s)) : Tail(s)[k] = s[k + 1]
           /\ \A k \in Nat \ {0} : CallAt(Tail(s), k) = CallAt(s, k + 1)
           /\ Head(s) = s[1] /\ CallAt(s, 1) = Head(s)[1] /\ CallAt(s, 1) \in Ops
<1>1. Tail(s) \in Seq(Calls) /\ Len(Tail(s)) = Len(s) - 1 /\ Len(s) >= 1 /\ Head(s) = s[1]
  OBVIOUS
<1>2. \A k \in 1..Len(Tail(s)) : Tail(s)[k] = s[k + 1]
  BY <1>1
<1>3. ASSUME NEW k \in Nat \ {0} PROVE CallAt(Tail(s), k) = CallAt(s, k + 1)
  <2>1. k \in 1..Len(Tail(s)) <=> k + 1 \in 1..Len(s)
    BY <1>1
  <2> QED
    BY <1>2, <2>1 DEF CallAt
<1>4. 1 \in 1..Len(s)
  BY <1>1
<1>5. CallAt(s, 1) = s[1][1] /\ CallAt(s, 1) \in Ops
  BY <1>4, CallsAt
<1> QED
  BY <1>1, <1>2, <1>3, <1>5

LEMMA EndIsLast ==
    ASSUME NEW s \in Seq(Calls), s # <<>>, CallAt(s, 2) = "end"
    PROVE  Tail(s) = <<>>
<1>1. 2 \notin 1..Len(s)
  BY CallsAt
<1>2. Len(s) >= 1 /\ Len(s) \in Nat
  BY TailCalls
<1>3. Len(s) < 2
  BY <1>1, <1>2
<1>4. Tail(s) \in Seq(Calls) /\ Len(Tail(s)) = Len(s) - 1
  BY TailCalls
<1>5. Len(Tail(s)) = 0
  BY <1>2, <1>3, <1>4
<1> QED
  BY <1>4, <1>5, EmptySeq

LEMMA EmptyEnd ==
    ASSUME NEW s \in Seq(Calls)
    PROVE  s = <<>> <=> CallAt(s, 1) = "end"
<1>1. CallAt(s, 1) = "end" <=> 1 \notin 1..Len(s)
  BY CallsAt
<1>2. 1 \notin 1..Len(s) <=> s = <<>>
  OBVIOUS
<1> QED
  BY <1>1, <1>2

LEMMA FirstFollows ==
    ASSUME NEW s, Ordered(s), s # <<>>
    PROVE  CallAt(s, 2) \in Follows[CallAt(s, 1)]
<1>1. 1 \in 1..Len(s)
  BY DEF Ordered
<1>2. CallAt(s, 1 + 1) \in Follows[CallAt(s, 1)]
  BY <1>1, Zenon DEF Ordered
<1> QED
  BY <1>2

LEMMA TailProgram ==
    ASSUME NEW s, Program(s), s # <<>>
    PROVE  Program(Tail(s))
<1> DEFINE t == Tail(s)
<1>1. s \in Seq(Calls)
  BY DEF Program, Ordered
<1>2. /\ t \in Seq(Calls) /\ Len(t) = Len(s) - 1 /\ Len(s) \in Nat
      /\ \A k \in 1..Len(t) : t[k] = s[k + 1]
      /\ \A k \in Nat \ {0} : CallAt(t, k) = CallAt(s, k + 1)
  BY <1>1, TailCalls
<1>0. Len(t) = Len(s) - 1 /\ Len(s) \in Nat
  BY <1>2
<1> HIDE DEF t
<1>3. ASSUME NEW k \in 1..Len(t)
      PROVE  /\ k + 1 \in 1..Len(s) /\ t[k] = s[k + 1] /\ CallAt(t, k) = CallAt(s, k + 1)
             /\ CallAt(t, k + 1) = CallAt(s, k + 1 + 1) /\ CallAt(t, k + 2) = CallAt(s, k + 1 + 2)
  <2>1. k \in Nat \ {0} /\ k + 1 \in Nat \ {0} /\ k + 2 \in Nat \ {0} /\ k + 2 + 1 = k + 1 + 2 /\ k + 1 \in 1..Len(s)
    BY <1>0
  <2> QED
    BY <1>2, <2>1
<1>4. Ordered(t)
  <2>1. ASSUME NEW k \in 1..Len(t) PROVE CallAt(t, k + 1) \in Follows[CallAt(t, k)]
    <3>1. CallAt(s, k + 1 + 1) \in Follows[CallAt(s, k + 1)]
      BY <1>3 DEF Program, Ordered
    <3> QED
      BY <1>3, <3>1
  <2> QED
    BY <1>2, <2>1 DEF Ordered
<1>5. Closes(t)
  <2>1. ASSUME NEW k \in 1..Len(t)
        PROVE  /\ CallAt(t, k) \in {"loop", "progress"} => CallAt(t, k + 2) = "close"
               /\ CallAt(t, k) = "open" /\ CallAt(t, k + 2) = "end" => t[k][2] \in {"detail", "about"}
    BY <1>3, Zenon DEF Program, Closes
  <2> QED
    BY <2>1, Zenon DEF Closes
<1>6. Hides(t)
  <2>1. ASSUME NEW j \in 1..Len(t), NEW k \in 1..Len(t), j < k, CallAt(t, j) = "gen", CallAt(t, k) \in Frees
        PROVE  t[j][2] = "REMOVE" /\ \E i \in j..k : CallAt(t, i) = "slid"
    <3>1. j + 1 \in 1..Len(s) /\ k + 1 \in 1..Len(s) /\ j + 1 < k + 1
      BY <1>3, <2>1
    <3>2. CallAt(s, j + 1) = "gen" /\ CallAt(s, k + 1) \in Frees /\ t[j] = s[j + 1]
      BY <1>3, <2>1
    <3>3. s[j + 1][2] = "REMOVE" /\ \E i \in (j + 1)..(k + 1) : CallAt(s, i) = "slid"
      BY <3>1, <3>2, Zenon DEF Program, Hides
    <3>4. PICK i \in (j + 1)..(k + 1) : CallAt(s, i) = "slid"
      BY <3>3
    <3>5. i - 1 \in j..k /\ i - 1 \in Nat \ {0} /\ i - 1 + 1 = i
      BY <3>4
    <3>6. CallAt(t, i - 1) = "slid"
      BY <1>2, <3>4, <3>5
    <3> QED
      BY <3>2, <3>3, <3>5, <3>6
  <2> QED
    BY <2>1, Zenon DEF Hides
<1> QED
  BY <1>4, <1>5, <1>6 DEF t, Program

LEMMA TailFits ==
    ASSUME NEW s, Program(s), s # <<>>, NEW closed \in BOOLEAN, NEW owns \in BOOLEAN, DialogFits(s, closed, owns),
           CallAt(s, 1) \notin {"open", "close"}
    PROVE  DialogFits(Tail(s), closed, owns)
<1> DEFINE op == CallAt(s, 1)
           next == CallAt(s, 2)
<1>1. s \in Seq(Calls)
  BY DEF Program, Ordered
<1>2. CallAt(Tail(s), 1) = next /\ CallAt(Tail(s), 2) = CallAt(s, 3) /\ op \in Ops
  <2>1. 1 \in Nat \ {0} /\ 2 \in Nat \ {0} /\ 1 + 1 = 2 /\ 2 + 1 = 3
    OBVIOUS
  <2> QED
    BY <1>1, <2>1, TailCalls
<1>3. next \in Follows[op]
  BY FirstFollows DEF Program
<1>4. op \in {"loop", "progress"} => CallAt(s, 3) = "close"
  <2>1. 1 \in 1..Len(s) /\ 1 + 2 = 3
    BY <1>1
  <2> QED
    BY <2>1 DEF Program, Closes
<1> HIDE DEF op, next
<1>5. CASE op \in {"plot", "input"}
  <2>1. next \in Quiet
    BY <1>3, <1>5 DEF Follows, Quiet
  <2>2. closed \/ owns
    BY <1>5 DEF DialogFits, Quiet, op
  <2> QED
    BY <1>2, <2>1, <2>2 DEF DialogFits, Quiet, InDialog
<1>6. CASE op \in {"loop", "progress"}
  <2>1. next = "dialog_fade"
    BY <1>3, <1>6 DEF Follows
  <2> QED
    BY <1>2, <1>4, <1>6, <2>1 DEF DialogFits, Quiet, InDialog
<1>7. CASE op = "dialog_fade"
  <2>1. next \in {"loop", "progress", "close", "end"}
    BY <1>3, <1>7 DEF Follows
  <2>2. next = "end" => owns
    BY <1>7 DEF DialogFits, op, next
  <2> QED
    BY <1>2, <2>1, <2>2 DEF DialogFits, Quiet, InDialog
<1>8. CASE op \in Ops \ {"plot", "input", "loop", "progress", "dialog_fade"}
  <2>1. op \notin Quiet \cup InDialog
    BY <1>8 DEF Quiet, InDialog, op, Ops, Follows
  <2>2. closed
    BY <2>1 DEF DialogFits, op
  <2>3. next # "dialog_fade"
    BY <1>3, <1>8 DEF Ops, Follows, op
  <2> QED
    BY <1>2, <2>2, <2>3 DEF DialogFits
<1> QED
  BY <1>2, <1>5, <1>6, <1>7, <1>8

\* The banks stay what they are but where a call fills or frees one.
LEMMA TailConceals ==
    ASSUME NEW s, Program(s), s # <<>>, NEW new \in BOOLEAN, NEW old \in BOOLEAN, Conceals(s, new, old),
           CallAt(s, 1) \notin {"gen", "slid"}
    PROVE  Conceals(Tail(s), new, old)
<1> DEFINE t == Tail(s)
<1>1. s \in Seq(Calls)
  BY DEF Program, Ordered
<1>2. /\ t \in Seq(Calls) /\ Len(t) = Len(s) - 1 /\ Len(s) \in Nat
      /\ \A k \in Nat \ {0} : CallAt(t, k) = CallAt(s, k + 1)
  BY <1>1, TailCalls
<1>0. Len(t) = Len(s) - 1 /\ Len(s) \in Nat
  BY <1>2
<1> HIDE DEF t
<1>3. ASSUME NEW k \in 1..Len(t), NEW op \in {"gen", "slid"}, \A j \in 1..k : CallAt(t, j) # op
      PROVE  \A j \in 1..(k + 1) : CallAt(s, j) # op
  <2>1. ASSUME NEW j \in 1..(k + 1) PROVE CallAt(s, j) # op
    <3>1. CASE j = 1
      BY <3>1
    <3>2. CASE j # 1
      <4>1. j - 1 \in 1..k /\ j - 1 \in Nat \ {0} /\ j - 1 + 1 = j
        BY <3>2
      <4> QED
        BY <1>2, <1>3, <4>1
    <3> QED
      BY <3>1, <3>2
  <2> QED
    BY <2>1
<1>4. ASSUME NEW k \in 1..Len(t), CallAt(t, k) \in Frees, \A j \in 1..k : CallAt(t, j) # "gen"
      PROVE  new /\ ((\A j \in 1..k : CallAt(t, j) # "slid") => old)
  <2>0. k + 1 \in 1..Len(s) /\ k \in Nat \ {0}
    BY <1>0
  <2>1. k + 1 \in 1..Len(s) /\ CallAt(s, k + 1) \in Frees
    BY <1>2, <1>4, <2>0
  <2>2. \A j \in 1..(k + 1) : CallAt(s, j) # "gen"
    BY <1>3, <1>4
  <2>3. new /\ ((\A j \in 1..(k + 1) : CallAt(s, j) # "slid") => old)
    BY <2>1, <2>2, Zenon DEF Conceals
  <2> QED
    BY <1>3, <2>3
<1> QED
  BY <1>4, Zenon DEF Conceals, t

\* The new bank has been filled: when something is freed later, with nothing.
LEMMA GenConceals ==
    ASSUME NEW s, Program(s), s # <<>>, NEW new \in BOOLEAN, CallAt(s, 1) = "gen",
           s[1][2] = "REMOVE" => new
    PROVE  Conceals(Tail(s), new, FALSE)
<1> DEFINE t == Tail(s)
<1>1. s \in Seq(Calls)
  BY DEF Program, Ordered
<1>2. /\ t \in Seq(Calls) /\ Len(t) = Len(s) - 1 /\ Len(s) \in Nat
      /\ \A k \in Nat \ {0} : CallAt(t, k) = CallAt(s, k + 1)
  BY <1>1, TailCalls
<1>0. Len(t) = Len(s) - 1 /\ Len(s) \in Nat
  BY <1>2
<1> HIDE DEF t
<1>3. ASSUME NEW k \in 1..Len(t), CallAt(t, k) \in Frees
      PROVE  new /\ ~(\A j \in 1..k : CallAt(t, j) # "slid")
  <2>1. 1 \in 1..Len(s) /\ k + 1 \in 1..Len(s) /\ 1 < k + 1 /\ CallAt(s, k + 1) \in Frees
    BY <1>2, <1>3
  <2>2. s[1][2] = "REMOVE" /\ \E i \in 1..(k + 1) : CallAt(s, i) = "slid"
    BY <2>1, Zenon DEF Program, Hides
  <2>3. PICK i \in 1..(k + 1) : CallAt(s, i) = "slid"
    BY <2>2
  <2>4. i # 1
    BY <2>3
  <2>5. i - 1 \in 1..k /\ i - 1 \in Nat \ {0} /\ i - 1 + 1 = i
    BY <2>4
  <2>6. CallAt(t, i - 1) = "slid"
    BY <1>2, <2>3, <2>5
  <2> QED
    BY <2>2, <2>5, <2>6
<1> QED
  BY <1>3, Zenon DEF Conceals, t

\* The other bank has been freed.
LEMMA SlidConceals ==
    ASSUME NEW s, Program(s), s # <<>>, NEW new \in BOOLEAN, NEW old \in BOOLEAN, Conceals(s, new, old),
           CallAt(s, 1) = "slid"
    PROVE  Conceals(Tail(s), new, TRUE)
<1> DEFINE t == Tail(s)
<1>1. s \in Seq(Calls)
  BY DEF Program, Ordered
<1>2. /\ t \in Seq(Calls) /\ Len(t) = Len(s) - 1 /\ Len(s) \in Nat
      /\ \A k \in Nat \ {0} : CallAt(t, k) = CallAt(s, k + 1)
  BY <1>1, TailCalls
<1>0. Len(t) = Len(s) - 1 /\ Len(s) \in Nat
  BY <1>2
<1> HIDE DEF t
<1>4. ASSUME NEW k \in 1..Len(t), CallAt(t, k) \in Frees, \A j \in 1..k : CallAt(t, j) # "gen"
      PROVE  new
  <2>0. k + 1 \in 1..Len(s) /\ k \in Nat \ {0}
    BY <1>0
  <2>1. k + 1 \in 1..Len(s) /\ CallAt(s, k + 1) \in Frees
    BY <1>2, <1>4, <2>0
  <2>2. ASSUME NEW j \in 1..(k + 1) PROVE CallAt(s, j) # "gen"
    <3>1. CASE j = 1
      BY <3>1
    <3>2. CASE j # 1
      <4>1. j - 1 \in 1..k /\ j - 1 \in Nat \ {0} /\ j - 1 + 1 = j
        BY <3>2
      <4> QED
        BY <1>2, <1>4, <4>1
    <3> QED
      BY <3>1, <3>2
  <2> QED
    BY <2>1, <2>2, Zenon DEF Conceals
<1> QED
  BY <1>4, Zenon DEF Conceals, t

---------------------------------------------------------------------------
(* What main decides to call.                                              *)

LEMMA JoinCalls ==
    ASSUME NEW s \in Seq(Calls), NEW t \in Seq(Calls)
    PROVE  /\ s \o t \in Seq(Calls) /\ Len(s \o t) = Len(s) + Len(t) /\ Len(s) \in Nat /\ Len(t) \in Nat
           /\ \A k \in 1..Len(s) : (s \o t)[k] = s[k] /\ CallAt(s \o t, k) = CallAt(s, k)
           /\ \A k \in 1..Len(t) : (s \o t)[Len(s) + k] = t[k]
           /\ \A k \in Nat \ {0} : CallAt(s \o t, Len(s) + k) = CallAt(t, k)
<1>1. s \o t \in Seq(Calls) /\ Len(s \o t) = Len(s) + Len(t) /\ Len(s) \in Nat /\ Len(t) \in Nat
  OBVIOUS
<1>2. ASSUME NEW k \in 1..Len(s) PROVE (s \o t)[k] = s[k] /\ CallAt(s \o t, k) = CallAt(s, k)
  <2>1. (s \o t)[k] = s[k] /\ k \in 1..Len(s \o t)
    BY <1>1
  <2> QED
    BY <2>1 DEF CallAt
<1>3. ASSUME NEW k \in 1..Len(t) PROVE (s \o t)[Len(s) + k] = t[k]
  BY <1>1
<1>4. ASSUME NEW k \in Nat \ {0} PROVE CallAt(s \o t, Len(s) + k) = CallAt(t, k)
  <2>1. k \in 1..Len(t) <=> Len(s) + k \in 1..Len(s \o t)
    BY <1>1
  <2> QED
    BY <1>3, <2>1 DEF CallAt
<1> QED
  BY <1>1, <1>2, <1>3, <1>4

FreesNone(s) == \A k \in 1..Len(s) : CallAt(s, k) \notin Frees
HidesAll(s) == CallAt(s, Len(s)) = "slid" /\ \A j \in 1..Len(s) : CallAt(s, j) = "gen" => s[j][2] = "REMOVE"

LEMMA JoinPrograms ==
    ASSUME NEW s, NEW t, Program(s), Program(t), s # <<>>, t # <<>>,
           CallAt(t, 1) \in Follows[CallAt(s, Len(s))], FreesNone(t) \/ HidesAll(s)
    PROVE  Program(s \o t) /\ CallAt(s \o t, 1) = CallAt(s, 1)
<1> DEFINE m == Len(s)
           u == s \o t
<1>1. s \in Seq(Calls) /\ t \in Seq(Calls)
  BY DEF Program, Ordered
<1>2. /\ u \in Seq(Calls) /\ Len(u) = m + Len(t) /\ m \in Nat /\ Len(t) \in Nat
      /\ \A k \in 1..m : u[k] = s[k] /\ CallAt(u, k) = CallAt(s, k)
      /\ \A k \in 1..Len(t) : u[m + k] = t[k]
      /\ \A k \in Nat \ {0} : CallAt(u, m + k) = CallAt(t, k)
  BY <1>1, JoinCalls
<1>3. m >= 1
  BY <1>1
<1> HIDE DEF u
<1>0. Len(u) = m + Len(t) /\ m \in Nat /\ Len(t) \in Nat
  BY <1>2
<1>4. ASSUME NEW k \in 1..Len(u)
      PROVE  k \in Int /\ (k \in 1..m \/ (k - m \in 1..Len(t) /\ k - m \in Nat \ {0} /\ m + (k - m) = k /\ k > m))
  BY <1>0
<1>5. ASSUME NEW k \in 1..Len(t)
      PROVE  /\ u[m + k] = t[k] /\ CallAt(u, m + k) = CallAt(t, k)
             /\ CallAt(u, m + k + 1) = CallAt(t, k + 1) /\ CallAt(u, m + k + 2) = CallAt(t, k + 2)
  <2>1. k \in Nat \ {0} /\ k + 1 \in Nat \ {0} /\ k + 2 \in Nat \ {0} /\ m + (k + 1) = m + k + 1 /\ m + (k + 2) = m + k + 2
    BY <1>0
  <2> QED
    BY <1>2, <2>1
<1>6. Ordered(u)
  <2>1. ASSUME NEW k \in 1..Len(u) PROVE CallAt(u, k + 1) \in Follows[CallAt(u, k)]
    <3>1. CASE k \in 1..m /\ k < m
      <4>1. k + 1 \in 1..m
        BY <1>0, <3>1
      <4>2. CallAt(s, k + 1) \in Follows[CallAt(s, k)]
        BY <3>1, Zenon DEF Program, Ordered
      <4> QED
        BY <1>2, <3>1, <4>1, <4>2
    <3>2. CASE k = m
      <4>1. k \in 1..m /\ 1 \in Nat \ {0}
        BY <1>0, <1>3, <3>2
      <4>2. CallAt(u, k) = CallAt(s, m) /\ CallAt(u, k + 1) = CallAt(t, 1)
        BY <1>2, <3>2, <4>1
      <4> QED
        BY <4>2
    <3>3. CASE k - m \in 1..Len(t) /\ k > m
      <4>1. CallAt(t, k - m + 1) \in Follows[CallAt(t, k - m)]
        BY <3>3, Zenon DEF Program, Ordered
      <4>2. m + (k - m) = k
        BY <1>0
      <4> QED
        BY <1>5, <3>3, <4>1, <4>2
    <3> QED
      BY <1>0, <1>4, <3>1, <3>2, <3>3
  <2> QED
    BY <1>2, <2>1 DEF Ordered
<1>7. Closes(u)
  <2>1. ASSUME NEW k \in 1..Len(u)
        PROVE  /\ CallAt(u, k) \in {"loop", "progress"} => CallAt(u, k + 2) = "close"
               /\ CallAt(u, k) = "open" /\ CallAt(u, k + 2) = "end" => u[k][2] \in {"detail", "about"}
    <3>1. CASE k \in 1..m
      <4>1. /\ CallAt(s, k) \in {"loop", "progress"} => CallAt(s, k + 2) = "close"
            /\ CallAt(s, k) = "open" /\ CallAt(s, k + 2) = "end" => s[k][2] \in {"detail", "about"}
        BY <3>1, Zenon DEF Program, Closes
      <4>2. CallAt(s, k) = CallAt(u, k) /\ u[k] = s[k]
        BY <1>2, <3>1
      <4>3. CallAt(s, k + 2) \in {"end", CallAt(u, k + 2)}
        <5>1. k + 2 \in 1..m => CallAt(u, k + 2) = CallAt(s, k + 2)
          BY <1>2
        <5> QED
          BY <5>1 DEF CallAt
      <4>4. CallAt(s, k + 2) = "close" => CallAt(u, k + 2) = "close"
        BY <4>3
      <4>5. CallAt(u, k + 2) = "end" => CallAt(s, k + 2) = "end"
        BY <4>3
      <4> QED
        BY <4>1, <4>2, <4>4, <4>5
    <3>2. CASE k - m \in 1..Len(t)
      <4>1. /\ CallAt(t, k - m) \in {"loop", "progress"} => CallAt(t, k - m + 2) = "close"
            /\ CallAt(t, k - m) = "open" /\ CallAt(t, k - m + 2) = "end" => t[k - m][2] \in {"detail", "about"}
        BY <3>2, Zenon DEF Program, Closes
      <4>2. m + (k - m) = k
        BY <1>0
      <4>3. CallAt(u, k) = CallAt(t, k - m) /\ CallAt(u, k + 2) = CallAt(t, k - m + 2) /\ u[k] = t[k - m]
        BY <1>5, <3>2, <4>2
      <4> QED
        BY <4>1, <4>3
    <3> QED
      BY <1>4, <3>1, <3>2
  <2> QED
    BY <2>1, Zenon DEF Closes
<1>8. Hides(u)
  <2>1. ASSUME NEW j \in 1..Len(u), NEW k \in 1..Len(u), j < k, CallAt(u, j) = "gen", CallAt(u, k) \in Frees
        PROVE  u[j][2] = "REMOVE" /\ \E i \in j..k : CallAt(u, i) = "slid"
    <3>1. CASE k \in 1..m
      <4>1. j \in 1..m
        BY <1>0, <2>1, <3>1
      <4>2. CallAt(s, j) = "gen" /\ CallAt(s, k) \in Frees /\ u[j] = s[j]
        BY <1>2, <2>1, <3>1, <4>1
      <4>3. s[j][2] = "REMOVE" /\ \E i \in j..k : CallAt(s, i) = "slid"
        BY <2>1, <3>1, <4>1, <4>2, Zenon DEF Program, Hides
      <4>4. PICK i \in j..k : CallAt(s, i) = "slid"
        BY <4>3
      <4>5. i \in 1..m
        BY <1>0, <3>1, <4>1
      <4>6. CallAt(u, i) = "slid"
        BY <1>2, <4>4, <4>5
      <4> QED
        BY <4>2, <4>3, <4>6
    <3>2. CASE j \in 1..m /\ k - m \in 1..Len(t)
      <4>1. CallAt(t, k - m) \in Frees
        <5>1. m + (k - m) = k
          BY <1>0
        <5> QED
          BY <1>5, <2>1, <3>2, <5>1
      <4>2. HidesAll(s)
        BY <3>2, <4>1 DEF FreesNone
      <4>3. m \in j..k /\ m \in 1..m
        BY <1>0, <1>3, <3>2
      <4>4. CallAt(s, j) = "gen" /\ u[j] = s[j] /\ CallAt(u, m) = CallAt(s, m)
        BY <1>2, <2>1, <3>2, <4>3
      <4>5. s[j][2] = "REMOVE" /\ CallAt(s, m) = "slid"
        BY <3>2, <4>2, <4>4 DEF HidesAll
      <4> QED
        BY <4>3, <4>4, <4>5
    <3>3. CASE j - m \in 1..Len(t) /\ k - m \in 1..Len(t)
      <4>1. m + (k - m) = k /\ m + (j - m) = j /\ j - m < k - m
        BY <1>0, <2>1
      <4>2. CallAt(t, j - m) = "gen" /\ CallAt(t, k - m) \in Frees /\ u[j] = t[j - m]
        BY <1>5, <2>1, <3>3, <4>1
      <4>3. t[j - m][2] = "REMOVE" /\ \E i \in (j - m)..(k - m) : CallAt(t, i) = "slid"
        BY <3>3, <4>1, <4>2, Zenon DEF Program, Hides
      <4>4. PICK i \in (j - m)..(k - m) : CallAt(t, i) = "slid"
        BY <4>3
      <4>5. i \in Nat \ {0} /\ m + i \in j..k
        BY <1>0, <3>3
      <4>6. CallAt(u, m + i) = "slid"
        BY <1>2, <4>4, <4>5
      <4> QED
        BY <4>2, <4>3, <4>5, <4>6
    <3> QED
      <4>1. j \in 1..m \/ j - m \in 1..Len(t)
        BY <1>4
      <4>2. k \in 1..m \/ (k - m \in 1..Len(t) /\ k > m)
        BY <1>4
      <4> QED
        BY <3>1, <3>2, <3>3, <4>1, <4>2
  <2> QED
    BY <2>1, Zenon DEF Hides
<1>9. CallAt(u, 1) = CallAt(s, 1)
  <2>1. 1 \in 1..m
    BY <1>0, <1>3
  <2> QED
    BY <1>2, <2>1
<1> QED
  BY <1>6, <1>7, <1>8, <1>9 DEF u, Program

LEMMA JoinFrees ==
    ASSUME NEW s \in Seq(Calls), NEW t \in Seq(Calls), FreesNone(s), FreesNone(t)
    PROVE  FreesNone(s \o t)
<1>1. /\ Len(s \o t) = Len(s) + Len(t) /\ Len(s) \in Nat /\ Len(t) \in Nat
      /\ \A k \in 1..Len(s) : CallAt(s \o t, k) = CallAt(s, k)
      /\ \A k \in Nat \ {0} : CallAt(s \o t, Len(s) + k) = CallAt(t, k)
  BY JoinCalls
<1>2. ASSUME NEW k \in 1..Len(s \o t) PROVE CallAt(s \o t, k) \notin Frees
  <2>0. Len(s \o t) = Len(s) + Len(t) /\ Len(s) \in Nat /\ Len(t) \in Nat
    BY <1>1
  <2>1. CASE k \in 1..Len(s)
    BY <1>1, <2>1 DEF FreesNone
  <2>2. CASE k \notin 1..Len(s)
    <3>1. k - Len(s) \in 1..Len(t) /\ k - Len(s) \in Nat \ {0} /\ Len(s) + (k - Len(s)) = k
      BY <2>0, <2>2
    <3>2. CallAt(s \o t, k) = CallAt(t, k - Len(s))
      BY <1>1, <3>1
    <3> QED
      BY <3>1, <3>2 DEF FreesNone
  <2> QED
    BY <2>1, <2>2
<1> QED
  BY <1>2 DEF FreesNone

\* A program that can begin at a place where a bank may draw.
Starts(s, op) == Program(s) /\ s # <<>> /\ CallAt(s, 1) = op /\ Conceals(s, FALSE, FALSE)

LEMMA StartsSafely ==
    ASSUME NEW s, NEW op, Program(s), s # <<>>, CallAt(s, 1) = op, FreesNone(s) \/ op = "gen"
    PROVE  Starts(s, op)
<1>1. ASSUME NEW k \in 1..Len(s), CallAt(s, k) \in Frees, \A j \in 1..k : CallAt(s, j) # "gen"
      PROVE  FALSE
  <2>1. op = "gen"
    BY <1>1 DEF FreesNone
  <2>2. 1 \in 1..k
    OBVIOUS
  <2> QED
    BY <1>1, <2>1, <2>2
<1> QED
  BY <1>1, Zenon DEF Starts, Conceals

LEMMA CallsAre ==
    /\ \A a \in {"REMOVE", "ADD", "REFRESH"} : <<"gen", a>> \in Calls /\ <<"half", a>> \in Calls
    /\ \A op \in Ops \ {"open", "gen", "half"} : <<op>> \in Calls
    /\ Dialogs \subseteq Calls
BY DEF Calls

\* Calls that end a program.
LEMMA OneCall ==
    ASSUME NEW op \in {"app_entries_free", "received", "extract", "extracted", "delete", "deleted"}
    PROVE  /\ Program(<<<<op>>>>) /\ <<<<op>>>> \in Seq(Calls) /\ CallAt(<<<<op>>>>, 1) = op
           /\ op \notin Frees => FreesNone(<<<<op>>>>)
<1> DEFINE s == <<<<op>>>>
<1>1. <<op>> \in Calls
  <2>1. op \in Ops \ {"open", "gen", "half"}
    BY DEF Ops, Follows
  <2> QED
    BY <2>1, CallsAre
<1>2. s \in Seq(Calls) /\ Len(s) = 1 /\ s[1] = <<op>>
  BY <1>1
<1>3. CallAt(s, 1) = op /\ CallAt(s, 2) = "end" /\ CallAt(s, 3) = "end"
  BY <1>2 DEF CallAt
<1> HIDE DEF s
<1>4. Ordered(s)
  BY <1>2, <1>3 DEF Ordered, Follows
<1>5. Closes(s) /\ Hides(s) /\ (op \notin Frees => FreesNone(s))
  BY <1>2, <1>3 DEF Closes, Hides, FreesNone
<1> QED
  BY <1>2, <1>3, <1>4, <1>5 DEF s, Program

LEMMA GenCalls ==
    ASSUME NEW a \in {"REMOVE", "ADD", "REFRESH"}
    PROVE  /\ Gen(a) \in Seq(Calls) /\ Len(Gen(a)) = 5
           /\ CallAt(Gen(a), 1) = "gen" /\ CallAt(Gen(a), 2) = "slide" /\ CallAt(Gen(a), 3) = "half"
           /\ CallAt(Gen(a), 4) = "slide" /\ CallAt(Gen(a), 5) = "slid"
           /\ CallAt(Gen(a), 6) = "end" /\ CallAt(Gen(a), 7) = "end"
<1> DEFINE s == Gen(a)
<1>1. s = <<<<"gen", a>>, <<"slide">>, <<"half", a>>, <<"slide">>, <<"slid">>>>
  BY DEF Gen
<1>2. \A k \in 1..5 : s[k] \in Calls
  BY <1>1 DEF Calls, Ops, Follows
<1>3. s \in Seq(Calls) /\ Len(s) = 5
  BY <1>1, <1>2
<1>4. /\ CallAt(s, 1) = "gen" /\ CallAt(s, 2) = "slide" /\ CallAt(s, 3) = "half" /\ CallAt(s, 4) = "slide"
      /\ CallAt(s, 5) = "slid" /\ CallAt(s, 6) = "end" /\ CallAt(s, 7) = "end"
  BY <1>1, <1>3 DEF CallAt
<1> QED
  BY <1>3, <1>4, Zenon

LEMMA GenProgram ==
    ASSUME NEW a \in {"REMOVE", "ADD", "REFRESH"}
    PROVE  /\ Program(Gen(a)) /\ Gen(a) # <<>> /\ FreesNone(Gen(a)) /\ CallAt(Gen(a), 1) = "gen"
           /\ Gen(a) \in Seq(Calls) /\ CallAt(Gen(a), Len(Gen(a))) = "slid" /\ Len(Gen(a)) = 5
           /\ a = "REMOVE" => HidesAll(Gen(a))
<1> DEFINE s == Gen(a)
<1>1. s = <<<<"gen", a>>, <<"slide">>, <<"half", a>>, <<"slide">>, <<"slid">>>>
  BY DEF Gen
<1>2. \A k \in 1..5 : s[k] \in Calls
  BY <1>1 DEF Calls, Ops, Follows
<1>3. s \in Seq(Calls) /\ Len(s) = 5 /\ s[1][2] = a
  BY <1>1, <1>2
<1>4. /\ CallAt(s, 1) = "gen" /\ CallAt(s, 2) = "slide" /\ CallAt(s, 3) = "half" /\ CallAt(s, 4) = "slide"
      /\ CallAt(s, 5) = "slid" /\ CallAt(s, 6) = "end" /\ CallAt(s, 7) = "end"
  BY <1>1, <1>3 DEF CallAt
<1> HIDE DEF s
<1>5. Ordered(s)
  BY <1>3, <1>4 DEF Ordered, Follows
<1>6. Closes(s) /\ Hides(s) /\ FreesNone(s) /\ (a = "REMOVE" => HidesAll(s))
  BY <1>3, <1>4 DEF Closes, Hides, Frees, FreesNone, HidesAll
<1>7. s # <<>>
  <2>1. Len(s) # Len(<<>>)
    BY <1>3
  <2> QED
    BY <2>1, Zenon
<1> QED
  BY <1>3, <1>4, <1>5, <1>6, <1>7 DEF s, Program

LEMMA AskProgram ==
    ASSUME NEW kind, NEW f, <<"open", kind, f>> \in Dialogs
    PROVE  /\ Program(Ask(kind, f)) /\ Ask(kind, f) # <<>> /\ FreesNone(Ask(kind, f))
           /\ CallAt(Ask(kind, f), 1) = "open" /\ Ask(kind, f) \in Seq(Calls)
           /\ CallAt(Ask(kind, f), Len(Ask(kind, f))) = "close"
<1> DEFINE s == Ask(kind, f)
           o == <<"open", kind, f>>
<1>1. s = <<o, <<"dialog_fade">>, <<"loop">>, <<"dialog_fade">>, <<"close">>>>
  BY DEF Ask
<1>0. o \in Dialogs /\ o[1] = "open"
  OBVIOUS
<1> HIDE DEF o
<1>2. \A k \in 1..5 : s[k] \in Calls
  BY <1>0, <1>1 DEF Calls, Ops, Follows
<1>3. s \in Seq(Calls) /\ Len(s) = 5
  BY <1>1, <1>2
<1>4. /\ CallAt(s, 1) = "open" /\ CallAt(s, 2) = "dialog_fade" /\ CallAt(s, 3) = "loop" /\ CallAt(s, 4) = "dialog_fade"
      /\ CallAt(s, 5) = "close" /\ CallAt(s, 6) = "end" /\ CallAt(s, 7) = "end"
  BY <1>0, <1>1, <1>3 DEF CallAt
<1> HIDE DEF s
<1>5. Ordered(s)
  BY <1>3, <1>4 DEF Ordered, Follows
<1>6. Closes(s) /\ Hides(s) /\ FreesNone(s)
  BY <1>3, <1>4 DEF Closes, Hides, Frees, FreesNone
<1>7. s # <<>>
  <2>1. Len(s) # Len(<<>>)
    BY <1>3
  <2> QED
    BY <2>1, Zenon
<1> QED
  BY <1>3, <1>4, <1>5, <1>6, <1>7 DEF s, Program

LEMMA OpenProgram ==
    ASSUME NEW kind \in {"detail", "about"}, NEW f, <<"open", kind, f>> \in Dialogs
    PROVE  Starts(OpenDialog(kind, f), "open")
<1> DEFINE s == OpenDialog(kind, f)
           o == <<"open", kind, f>>
<1>1. s = <<o, <<"dialog_fade">>>>
  BY DEF OpenDialog
<1>0. o \in Dialogs /\ o[1] = "open" /\ o[2] \in {"detail", "about"}
  OBVIOUS
<1> HIDE DEF o
<1>2. \A k \in 1..2 : s[k] \in Calls
  BY <1>0, <1>1 DEF Calls, Ops, Follows
<1>3. s \in Seq(Calls) /\ Len(s) = 2 /\ s[1] = o
  BY <1>1, <1>2
<1>4. CallAt(s, 1) = "open" /\ CallAt(s, 2) = "dialog_fade" /\ CallAt(s, 3) = "end" /\ CallAt(s, 4) = "end"
  BY <1>0, <1>1, <1>3 DEF CallAt
<1> HIDE DEF s
<1>5. Ordered(s)
  BY <1>3, <1>4 DEF Ordered, Follows
<1>6. Closes(s) /\ Hides(s) /\ FreesNone(s)
  BY <1>0, <1>3, <1>4 DEF Closes, Hides, Frees, FreesNone
<1>7. s # <<>>
  <2>1. Len(s) # Len(<<>>)
    BY <1>3
  <2> QED
    BY <2>1, Zenon
<1> QED
  BY <1>4, <1>5, <1>6, <1>7, StartsSafely DEF s, Program

LEMMA CloseProgram ==
    /\ Program(CloseDialog) /\ CloseDialog # <<>> /\ FreesNone(CloseDialog) /\ CloseDialog \in Seq(Calls)
    /\ Len(CloseDialog) = 2 /\ CallAt(CloseDialog, 1) = "dialog_fade" /\ CallAt(CloseDialog, 2) = "close"
<1> DEFINE s == CloseDialog
<1>1. s = <<<<"dialog_fade">>, <<"close">>>>
  BY DEF CloseDialog
<1>2. \A k \in 1..2 : s[k] \in Calls
  BY <1>1 DEF Calls, Ops, Follows
<1>3. s \in Seq(Calls) /\ Len(s) = 2
  BY <1>1, <1>2
<1>4. CallAt(s, 1) = "dialog_fade" /\ CallAt(s, 2) = "close" /\ CallAt(s, 3) = "end" /\ CallAt(s, 4) = "end"
  BY <1>1, <1>3 DEF CallAt
<1> HIDE DEF s
<1>5. Ordered(s)
  BY <1>3, <1>4 DEF Ordered, Follows
<1>6. Closes(s) /\ Hides(s) /\ FreesNone(s)
  BY <1>3, <1>4 DEF Closes, Hides, Frees, FreesNone
<1>7. s # <<>>
  <2>1. Len(s) # Len(<<>>)
    BY <1>3
  <2> QED
    BY <2>1, Zenon
<1> QED
  BY <1>3, <1>4, <1>5, <1>6, <1>7 DEF s, Program

\* A frame of main's loop, and what follows an upload that is an application.
LEMMA FrameProgram == Starts(<<<<"plot">>, <<"input">>>>, "plot")
<1> DEFINE s == <<<<"plot">>, <<"input">>>>
<1>2. \A k \in 1..2 : s[k] \in Calls
  BY DEF Calls, Ops, Follows
<1>3. s \in Seq(Calls) /\ Len(s) = 2
  BY <1>2
<1>4. CallAt(s, 1) = "plot" /\ CallAt(s, 2) = "input" /\ CallAt(s, 3) = "end" /\ CallAt(s, 4) = "end"
  BY <1>3 DEF CallAt
<1> HIDE DEF s
<1>5. Ordered(s)
  BY <1>3, <1>4 DEF Ordered, Follows
<1>6. Closes(s) /\ Hides(s) /\ FreesNone(s)
  BY <1>3, <1>4 DEF Closes, Hides, Frees, FreesNone
<1>7. s # <<>>
  <2>1. Len(s) # Len(<<>>)
    BY <1>3
  <2> QED
    BY <2>1, Zenon
<1> QED
  BY <1>4, <1>5, <1>6, <1>7, StartsSafely DEF s, Program

LEMMA AddProgram ==
    ASSUME NEW op \in {"app_entry_add", "app_entry_remove"}
    PROVE  /\ Program(<<<<op>>>> \o Gen("REFRESH")) /\ <<<<op>>>> \o Gen("REFRESH") # <<>>
           /\ CallAt(<<<<op>>>> \o Gen("REFRESH"), 1) = op
           /\ op = "app_entry_add" => Starts(<<<<op>>>> \o Gen("REFRESH"), op)
<1> DEFINE a == <<<<op>>>>
           g == Gen("REFRESH")
           s == a \o g
<1>1. Len(a) = 1 /\ a \in Seq(Calls) /\ CallAt(a, 1) = op
  <2>1. <<op>> \in Calls
    BY DEF Calls, Ops, Follows
  <2> QED
    BY <2>1 DEF CallAt
<1>2. /\ g \in Seq(Calls) /\ Len(g) = 5 /\ CallAt(g, 1) = "gen" /\ CallAt(g, 2) = "slide" /\ CallAt(g, 3) = "half"
      /\ CallAt(g, 4) = "slide" /\ CallAt(g, 5) = "slid" /\ CallAt(g, 6) = "end" /\ CallAt(g, 7) = "end"
  BY GenCalls
<1> HIDE DEF a, g
<1>3. /\ s \in Seq(Calls) /\ Len(s) = 1 + 5
      /\ \A k \in 1..1 : CallAt(s, k) = CallAt(a, k)
      /\ \A k \in Nat \ {0} : CallAt(s, 1 + k) = CallAt(g, k)
  <2>1. /\ s \in Seq(Calls) /\ Len(s) = Len(a) + Len(g)
        /\ \A k \in 1..Len(a) : CallAt(s, k) = CallAt(a, k)
        /\ \A k \in Nat \ {0} : CallAt(s, Len(a) + k) = CallAt(g, k)
    BY <1>1, <1>2, JoinCalls
  <2> QED
    BY <1>1, <1>2, <2>1, Zenon
<1>4. /\ CallAt(s, 1) = op /\ CallAt(s, 2) = "gen" /\ CallAt(s, 3) = "slide" /\ CallAt(s, 4) = "half"
      /\ CallAt(s, 5) = "slide" /\ CallAt(s, 6) = "slid" /\ CallAt(s, 7) = "end" /\ CallAt(s, 8) = "end"
  <2> HIDE DEF s
  <2>1. CallAt(s, 1) = CallAt(a, 1)
    BY <1>3
  <2>2. \A k \in Nat \ {0} : CallAt(s, 1 + k) = CallAt(g, k)
    BY <1>3
  <2>3. /\ CallAt(s, 1 + 1) = CallAt(g, 1) /\ CallAt(s, 1 + 2) = CallAt(g, 2) /\ CallAt(s, 1 + 3) = CallAt(g, 3)
        /\ CallAt(s, 1 + 4) = CallAt(g, 4) /\ CallAt(s, 1 + 5) = CallAt(g, 5) /\ CallAt(s, 1 + 6) = CallAt(g, 6)
        /\ CallAt(s, 1 + 7) = CallAt(g, 7)
    BY <2>2
  <2> QED
    BY <1>1, <1>2, <2>1, <2>3
<1>8. s \in Seq(Calls) /\ Len(s) = 6
  BY <1>3
<1> HIDE DEF s
<1>5. Ordered(s)
  BY <1>8, <1>4 DEF Ordered, Follows
<1>6. Closes(s) /\ Hides(s) /\ (op = "app_entry_add" => FreesNone(s))
  BY <1>8, <1>4 DEF Closes, Hides, Frees, FreesNone
<1>7. s # <<>>
  BY <1>8
<1> QED
  BY <1>4, <1>5, <1>6, <1>7, StartsSafely DEF s, a, g, Program

LEMMA ProgressProgram ==
    ASSUME NEW op \in {"received", "extracted", "deleted"}
    PROVE  /\ Program(Progress(<<op>>)) /\ Progress(<<op>>) # <<>> /\ Progress(<<op>>) \in Seq(Calls)
           /\ CallAt(Progress(<<op>>), 1) = "open" /\ (op # "deleted" => FreesNone(Progress(<<op>>)))
<1> DEFINE s == Progress(<<op>>)
           o == <<"open", "progress", -1>>
           a == <<o, <<"dialog_fade">>>>
           b == <<<<"progress">>>>
           c == <<<<"dialog_fade">>, <<"close">>>>
           d == <<<<op>>>>
           ab == a \o b
           abc == ab \o c
<1>1. s = abc \o d
  BY Zenon DEF Progress, OpenDialog, CloseDialog
<1>2. o \in Calls /\ o[1] = "open" /\ <<"dialog_fade">> \in Calls /\ <<"progress">> \in Calls /\ <<"close">> \in Calls /\ <<op>> \in Calls
  BY DEF Calls, Dialogs, Ops, Follows
<1>3. a \in Seq(Calls) /\ Len(a) = 2 /\ CallAt(a, 1) = "open" /\ CallAt(a, 2) = "dialog_fade"
  <2> HIDE DEF o
  <2> QED
    BY <1>2 DEF CallAt
<1>4. b \in Seq(Calls) /\ Len(b) = 1 /\ CallAt(b, 1) = "progress"
  BY <1>2 DEF CallAt
<1>5. c \in Seq(Calls) /\ Len(c) = 2 /\ CallAt(c, 1) = "dialog_fade" /\ CallAt(c, 2) = "close"
  BY <1>2 DEF CallAt
<1>6. d \in Seq(Calls) /\ Len(d) = 1 /\ CallAt(d, 1) = op /\ CallAt(d, 2) = "end" /\ CallAt(d, 3) = "end"
  BY <1>2 DEF CallAt
<1> HIDE DEF a, b, c, d
<1>7. ab \in Seq(Calls) /\ Len(ab) = 3 /\ CallAt(ab, 1) = "open" /\ CallAt(ab, 2) = "dialog_fade" /\ CallAt(ab, 3) = "progress"
  <2>1. /\ ab \in Seq(Calls) /\ Len(ab) = 2 + 1
        /\ \A k \in 1..2 : CallAt(ab, k) = CallAt(a, k)
        /\ \A k \in Nat \ {0} : CallAt(ab, 2 + k) = CallAt(b, k)
    <3>1. /\ ab \in Seq(Calls) /\ Len(ab) = Len(a) + Len(b)
          /\ \A k \in 1..Len(a) : CallAt(ab, k) = CallAt(a, k)
          /\ \A k \in Nat \ {0} : CallAt(ab, Len(a) + k) = CallAt(b, k)
      BY <1>3, <1>4, JoinCalls
    <3> HIDE DEF ab
    <3> QED
      BY <1>3, <1>4, <3>1, Zenon
  <2>2. CallAt(ab, 1) = CallAt(a, 1) /\ CallAt(ab, 2) = CallAt(a, 2) /\ CallAt(ab, 2 + 1) = CallAt(b, 1)
    BY <2>1
  <2> QED
    BY <1>3, <1>4, <2>1, <2>2
<1> HIDE DEF ab
<1>8. /\ abc \in Seq(Calls) /\ Len(abc) = 5 /\ CallAt(abc, 1) = "open" /\ CallAt(abc, 2) = "dialog_fade"
      /\ CallAt(abc, 3) = "progress" /\ CallAt(abc, 4) = "dialog_fade" /\ CallAt(abc, 5) = "close"
  <2>1. /\ abc \in Seq(Calls) /\ Len(abc) = 3 + 2
        /\ \A k \in 1..3 : CallAt(abc, k) = CallAt(ab, k)
        /\ \A k \in Nat \ {0} : CallAt(abc, 3 + k) = CallAt(c, k)
    <3>1. /\ abc \in Seq(Calls) /\ Len(abc) = Len(ab) + Len(c)
          /\ \A k \in 1..Len(ab) : CallAt(abc, k) = CallAt(ab, k)
          /\ \A k \in Nat \ {0} : CallAt(abc, Len(ab) + k) = CallAt(c, k)
      BY <1>5, <1>7, JoinCalls
    <3> HIDE DEF abc
    <3> QED
      BY <1>5, <1>7, <3>1, Zenon
  <2>2. /\ CallAt(abc, 1) = CallAt(ab, 1) /\ CallAt(abc, 2) = CallAt(ab, 2) /\ CallAt(abc, 3) = CallAt(ab, 3)
        /\ CallAt(abc, 3 + 1) = CallAt(c, 1) /\ CallAt(abc, 3 + 2) = CallAt(c, 2)
    BY <2>1
  <2> QED
    BY <1>5, <1>7, <2>1, <2>2
<1> HIDE DEF abc
<1>9. /\ s \in Seq(Calls) /\ Len(s) = 6 /\ CallAt(s, 1) = "open" /\ CallAt(s, 2) = "dialog_fade"
      /\ CallAt(s, 3) = "progress" /\ CallAt(s, 4) = "dialog_fade" /\ CallAt(s, 5) = "close"
      /\ CallAt(s, 6) = op /\ CallAt(s, 7) = "end" /\ CallAt(s, 8) = "end"
  <2>1. /\ s \in Seq(Calls) /\ Len(s) = 5 + 1
        /\ \A k \in 1..5 : CallAt(s, k) = CallAt(abc, k)
        /\ \A k \in Nat \ {0} : CallAt(s, 5 + k) = CallAt(d, k)
    <3>1. /\ abc \o d \in Seq(Calls) /\ Len(abc \o d) = Len(abc) + Len(d)
          /\ \A k \in 1..Len(abc) : CallAt(abc \o d, k) = CallAt(abc, k)
          /\ \A k \in Nat \ {0} : CallAt(abc \o d, Len(abc) + k) = CallAt(d, k)
      BY <1>6, <1>8, JoinCalls
    <3> HIDE DEF s
    <3> QED
      BY <1>1, <1>6, <1>8, <3>1, Zenon
  <2>2. /\ CallAt(s, 1) = CallAt(abc, 1) /\ CallAt(s, 2) = CallAt(abc, 2) /\ CallAt(s, 3) = CallAt(abc, 3)
        /\ CallAt(s, 4) = CallAt(abc, 4) /\ CallAt(s, 5) = CallAt(abc, 5)
        /\ CallAt(s, 5 + 1) = CallAt(d, 1) /\ CallAt(s, 5 + 2) = CallAt(d, 2) /\ CallAt(s, 5 + 3) = CallAt(d, 3)
    <3> HIDE DEF s
    <3> QED
      BY <2>1
  <2> QED
    BY <1>6, <1>8, <2>1, <2>2
<1> HIDE DEF s
<1>10. Ordered(s)
  BY <1>9 DEF Ordered, Follows
<1>11. Closes(s) /\ Hides(s) /\ (op # "deleted" => FreesNone(s))
  BY <1>9 DEF Closes, Hides, Frees, FreesNone
<1>12. s # <<>>
  BY <1>9
<1> QED
  BY <1>9, <1>10, <1>11, <1>12 DEF s, Program

LEMMA StartsGen ==
    ASSUME NEW a \in {"REMOVE", "ADD", "REFRESH"}
    PROVE  Starts(Gen(a), "gen")
BY GenProgram, StartsSafely, Zenon

LEMMA StartsAsk ==
    ASSUME NEW kind, NEW f, <<"open", kind, f>> \in Dialogs
    PROVE  Starts(Ask(kind, f), "open")
BY AskProgram, StartsSafely, Zenon

LEMMA StartsProgress ==
    ASSUME NEW op \in {"received", "extracted"}
    PROVE  Starts(Progress(<<op>>), "open")
BY ProgressProgram, StartsSafely

LEMMA StartsClose == Starts(CloseDialog, "dialog_fade")
BY CloseProgram, StartsSafely, Zenon

LEMMA JoinNotEmpty ==
    ASSUME NEW s, NEW t, Program(s), Program(t), s # <<>>
    PROVE  s \o t # <<>>
<1>1. s \in Seq(Calls) /\ t \in Seq(Calls)
  BY DEF Program, Ordered
<1> QED
  BY <1>1

\* A program that follows one.
LEMMA StartsJoined ==
    ASSUME NEW s, NEW t, Program(s), Program(t), s # <<>>, t # <<>>, NEW op, CallAt(s, 1) = op,
           CallAt(t, 1) \in Follows[CallAt(s, Len(s))],
           (FreesNone(s) /\ FreesNone(t)) \/ (op = "gen" /\ HidesAll(s))
    PROVE  Starts(s \o t, op)
<1>1. Program(s \o t) /\ CallAt(s \o t, 1) = op
  BY JoinPrograms, Zenon
<1>2. s \o t # <<>>
  BY JoinNotEmpty
<1>3. FreesNone(s \o t) \/ op = "gen"
  <2>1. s \in Seq(Calls) /\ t \in Seq(Calls)
    BY DEF Program, Ordered
  <2> QED
    BY <2>1, JoinFrees, Zenon
<1> QED
  BY <1>1, <1>2, <1>3, StartsSafely, Zenon

LEMMA StartsClearing == Starts(Gen("REMOVE") \o <<<<"app_entries_free">>>>, "gen")
<1> DEFINE s == Gen("REMOVE")
           t == <<<<"app_entries_free">>>>
<1>1. Program(s) /\ s # <<>> /\ CallAt(s, 1) = "gen" /\ HidesAll(s) /\ CallAt(s, Len(s)) = "slid"
  BY GenProgram
<1>2. Program(t) /\ t # <<>> /\ CallAt(t, 1) = "app_entries_free"
  BY OneCall
<1>3. "app_entries_free" \in Follows["slid"]
  BY DEF Follows
<1> HIDE DEF s, t
<1>4. Starts(s \o t, "gen")
  BY <1>1, <1>2, <1>3, StartsJoined, Zenon
<1> QED
  BY <1>4 DEF s, t

LEMMA StartsDeleting == Starts(Gen("REMOVE") \o Progress(<<"deleted">>), "gen")
<1> DEFINE s == Gen("REMOVE")
           t == Progress(<<"deleted">>)
<1>1. Program(s) /\ s # <<>> /\ CallAt(s, 1) = "gen" /\ HidesAll(s) /\ CallAt(s, Len(s)) = "slid"
  BY GenProgram
<1>2. Program(t) /\ t # <<>> /\ CallAt(t, 1) = "open"
  BY ProgressProgram
<1>3. "open" \in Follows["slid"]
  BY DEF Follows
<1> HIDE DEF s, t
<1>4. Starts(s \o t, "gen")
  BY <1>1, <1>2, <1>3, StartsJoined, Zenon
<1> QED
  BY <1>4 DEF s, t

LEMMA StartsExtracting == Starts(Ask("yesno", 6) \o <<<<"extract">>>>, "open")
<1> DEFINE s == Ask("yesno", 6)
           t == <<<<"extract">>>>
<1>1. Program(s) /\ s # <<>> /\ CallAt(s, 1) = "open" /\ FreesNone(s) /\ CallAt(s, Len(s)) = "close"
  <2>1. <<"open", "yesno", 6>> \in Dialogs
    BY DEF Dialogs
  <2> QED
    BY <2>1, AskProgram
<1>2. Program(t) /\ t # <<>> /\ CallAt(t, 1) = "extract" /\ FreesNone(t)
  BY OneCall DEF Frees
<1>3. "extract" \in Follows["close"]
  BY DEF Follows
<1> HIDE DEF s, t
<1>4. Starts(s \o t, "open")
  BY <1>1, <1>2, <1>3, StartsJoined, Zenon
<1> QED
  BY <1>4 DEF s, t

LEMMA StartsSorry == Starts(Ask("ok", 6) \o Gen("REFRESH"), "open")
<1> DEFINE s == Ask("ok", 6)
           t == Gen("REFRESH")
<1>1. Program(s) /\ s # <<>> /\ CallAt(s, 1) = "open" /\ FreesNone(s) /\ CallAt(s, Len(s)) = "close"
  <2>1. <<"open", "ok", 6>> \in Dialogs
    BY DEF Dialogs
  <2> QED
    BY <2>1, AskProgram
<1>2. Program(t) /\ t # <<>> /\ CallAt(t, 1) = "gen" /\ FreesNone(t)
  BY GenProgram
<1>3. "gen" \in Follows["close"]
  BY DEF Follows
<1> HIDE DEF s, t
<1>4. Starts(s \o t, "open")
  BY <1>1, <1>2, <1>3, StartsJoined, Zenon
<1> QED
  BY <1>4 DEF s, t

LEMMA StartsUpload == Starts(CloseDialog \o Progress(<<"received">>), "dialog_fade")
<1> DEFINE s == CloseDialog
           t == Progress(<<"received">>)
<1>1. Program(s) /\ s # <<>> /\ CallAt(s, 1) = "dialog_fade" /\ FreesNone(s) /\ CallAt(s, Len(s)) = "close"
  BY CloseProgram
<1>2. Program(t) /\ t # <<>> /\ CallAt(t, 1) = "open" /\ FreesNone(t)
  BY ProgressProgram
<1>3. "open" \in Follows["close"]
  BY DEF Follows
<1> HIDE DEF s, t
<1>4. Starts(s \o t, "dialog_fade")
  BY <1>1, <1>2, <1>3, StartsJoined, Zenon
<1> QED
  BY <1>4 DEF s, t

LEMMA StartsAskDelete == Starts(CloseDialog \o Ask("yesno", 7) \o <<<<"delete">>>>, "dialog_fade")
<1> DEFINE r == CloseDialog
           s == Ask("yesno", 7)
           t == <<<<"delete">>>>
<1>0. "open" \in Follows["close"] /\ "delete" \in Follows["close"]
  BY DEF Follows
<1>1. Program(r) /\ r # <<>> /\ CallAt(r, 1) = "dialog_fade" /\ FreesNone(r) /\ CallAt(r, Len(r)) = "close"
  BY CloseProgram
<1>2. Program(s) /\ s # <<>> /\ CallAt(s, 1) = "open" /\ FreesNone(s) /\ CallAt(s, Len(s)) = "close"
  <2>1. <<"open", "yesno", 7>> \in Dialogs
    BY DEF Dialogs
  <2> QED
    BY <2>1, AskProgram
<1>3. Program(t) /\ t # <<>> /\ CallAt(t, 1) = "delete" /\ FreesNone(t)
  BY OneCall DEF Frees
<1> HIDE DEF r, s, t
<1>4. Program(r \o s) /\ CallAt(r \o s, 1) = "dialog_fade" /\ r \o s # <<>>
  BY <1>0, <1>1, <1>2, JoinPrograms, JoinNotEmpty, Zenon
<1>5. r \in Seq(Calls) /\ s \in Seq(Calls)
  BY <1>1, <1>2 DEF Program, Ordered
<1>6. FreesNone(r \o s)
  BY <1>1, <1>2, <1>5, JoinFrees, Zenon
<1>7. CallAt(r \o s, Len(r \o s)) = "close"
  <2>1. Len(r \o s) = Len(r) + Len(s) /\ Len(s) \in Nat \ {0}
    BY <1>2, <1>5
  <2>2. CallAt(r \o s, Len(r) + Len(s)) = CallAt(s, Len(s))
    BY <1>5, <2>1, JoinCalls
  <2> QED
    BY <1>2, <2>1, <2>2, Zenon
<1>8. Starts((r \o s) \o t, "dialog_fade")
  BY <1>0, <1>3, <1>4, <1>6, <1>7, StartsJoined, Zenon
<1> QED
  BY <1>8 DEF r, s, t

LEMMA StartsRefresh == Starts(refresh_theme, "gen")
<1> DEFINE q == Gen("REMOVE")
           x == <<<<"fade">>, <<"font_clear">>, <<"theme_deinit">>, <<"theme_init">>,
                  <<"bubbles_theme_reinit">>, <<"view_theme_reinit">>, <<"browser_theme_reinit">>,
                  <<"m_main_theme_reinit">>, <<"fade">>>>
           g == Gen("REFRESH")
           s == x \o g
<1>1. Program(q) /\ q # <<>> /\ CallAt(q, 1) = "gen" /\ HidesAll(q) /\ CallAt(q, Len(q)) = "slid" /\ q \in Seq(Calls)
  BY GenProgram
<1>2. x \in Seq(Calls) /\ Len(x) = 9
  <2>1. \A k \in 1..9 : x[k] \in Calls
    BY DEF Calls, Ops, Follows
  <2> QED
    BY <2>1
<1>3. /\ CallAt(x, 1) = "fade" /\ CallAt(x, 2) = "font_clear" /\ CallAt(x, 3) = "theme_deinit"
      /\ CallAt(x, 4) = "theme_init" /\ CallAt(x, 5) = "bubbles_theme_reinit" /\ CallAt(x, 6) = "view_theme_reinit"
      /\ CallAt(x, 7) = "browser_theme_reinit" /\ CallAt(x, 8) = "m_main_theme_reinit" /\ CallAt(x, 9) = "fade"
  BY <1>2 DEF CallAt
<1>4. /\ g \in Seq(Calls) /\ Len(g) = 5 /\ CallAt(g, 1) = "gen" /\ CallAt(g, 2) = "slide" /\ CallAt(g, 3) = "half"
      /\ CallAt(g, 4) = "slide" /\ CallAt(g, 5) = "slid" /\ CallAt(g, 6) = "end" /\ CallAt(g, 7) = "end"
  BY GenCalls
<1>5. refresh_theme = (q \o x) \o g
  BY Zenon DEF refresh_theme
<1> HIDE DEF q, x, g
<1>6. /\ s \in Seq(Calls) /\ Len(s) = 9 + 5
      /\ \A k \in 1..9 : CallAt(s, k) = CallAt(x, k)
      /\ \A k \in Nat \ {0} : CallAt(s, 9 + k) = CallAt(g, k)
  <2>1. /\ s \in Seq(Calls) /\ Len(s) = Len(x) + Len(g)
        /\ \A k \in 1..Len(x) : CallAt(s, k) = CallAt(x, k)
        /\ \A k \in Nat \ {0} : CallAt(s, Len(x) + k) = CallAt(g, k)
    BY <1>2, <1>4, JoinCalls
  <2> HIDE DEF s
  <2> QED
    BY <1>2, <1>4, <2>1, Zenon
<1>7. refresh_theme = q \o s
  <2>1. (q \o x) \o g = q \o (x \o g)
    <3>1. q \in Seq(Calls) /\ x \in Seq(Calls) /\ g \in Seq(Calls)
      BY <1>1, <1>2, <1>4
    <3> QED
      BY <3>1, ConcatAssociative
  <2> QED
    BY <1>5, <2>1, Zenon
<1> HIDE DEF s
<1>8. /\ CallAt(s, 1) = "fade" /\ CallAt(s, 2) = "font_clear" /\ CallAt(s, 3) = "theme_deinit"
      /\ CallAt(s, 4) = "theme_init" /\ CallAt(s, 5) = "bubbles_theme_reinit" /\ CallAt(s, 6) = "view_theme_reinit"
      /\ CallAt(s, 7) = "browser_theme_reinit" /\ CallAt(s, 8) = "m_main_theme_reinit" /\ CallAt(s, 9) = "fade"
  BY <1>3, <1>6
<1>9. /\ CallAt(s, 10) = "gen" /\ CallAt(s, 11) = "slide" /\ CallAt(s, 12) = "half"
      /\ CallAt(s, 13) = "slide" /\ CallAt(s, 14) = "slid" /\ CallAt(s, 15) = "end" /\ CallAt(s, 16) = "end"
  <2>1. /\ CallAt(s, 9 + 1) = CallAt(g, 1) /\ CallAt(s, 9 + 2) = CallAt(g, 2) /\ CallAt(s, 9 + 3) = CallAt(g, 3)
        /\ CallAt(s, 9 + 4) = CallAt(g, 4) /\ CallAt(s, 9 + 5) = CallAt(g, 5) /\ CallAt(s, 9 + 6) = CallAt(g, 6)
        /\ CallAt(s, 9 + 7) = CallAt(g, 7)
    BY <1>6
  <2> QED
    BY <1>4, <2>1
<1>10. s \in Seq(Calls) /\ Len(s) = 14
  BY <1>6
<1>11. Ordered(s)
  BY <1>8, <1>9, <1>10 DEF Ordered, Follows
<1>12. Closes(s) /\ Hides(s) /\ FreesNone(s)
  BY <1>8, <1>9, <1>10 DEF Closes, Hides, Frees, FreesNone
<1>13. s # <<>>
  BY <1>10
<1>15. "fade" \in Follows["slid"]
  BY DEF Follows
<1>14. Starts(q \o s, "gen")
  BY <1>1, <1>8, <1>11, <1>12, <1>13, <1>15, StartsJoined DEF Program
<1> QED
  BY <1>7, <1>14

LEMMA ConcealsAny ==
    ASSUME NEW s, NEW new \in BOOLEAN, NEW old \in BOOLEAN, Conceals(s, FALSE, FALSE) \/ (new /\ old)
    PROVE  Conceals(s, new, old)
BY DEF Conceals

---------------------------------------------------------------------------
(* What the focus does to a view.                                          *)

Alike(u, v) ==
    /\ u.kind = v.kind /\ u.sub = v.sub /\ u.drag_btn = v.drag_btn /\ DOMAIN u.widgets = DOMAIN v.widgets
    /\ \A i \in DOMAIN v.widgets :
          /\ u.widgets[i].type = v.widgets[i].type
          /\ "FOCUSABLE" \in u.widgets[i].flags <=> "FOCUSABLE" \in v.widgets[i].flags

\* A view of before with another focus: the old one, none or a widget that takes it.
Turned(u, v) ==
    /\ Alike(u, v)
    /\ u.focus \in {v.focus, -1} \/ u.widgets[u.focus].type \in {"button", "app_entry"}

LEMMA WidgetOf ==
    ASSUME NEW w \in ScreenWidgets
    PROVE  /\ w.type \in DOMAIN Layers /\ w.flags \in SUBSET {"VISIBLE", "ENABLED", "FOCUSABLE", "FOCUSED"}
           /\ "FOCUSABLE" \in w.flags => w.type \in {"button", "app_entry"}
           /\ \A f \in SUBSET {"VISIBLE", "ENABLED", "FOCUSABLE", "FOCUSED"} :
                 ("FOCUSABLE" \in f => w.type \in {"button", "app_entry"}) =>
                    [w EXCEPT !.flags = f] \in ScreenWidgets
BY DEF ScreenWidgets

Blurs(v, i) == Flagged(v, i, FALSE)
Marks(v, i) == Flagged(v, i, TRUE)

LEMMA FlaggedView ==
    ASSUME NEW K, NEW D \in SUBSET Nat, NEW v \in ScreenViews(K, D), NEW i \in D \cup {-1},
           NEW u, u = Blurs(v, i) \/ u = Marks(v, i)
    PROVE  /\ u \in ScreenViews(K, D) /\ Alike(u, v) /\ u.focus = v.focus /\ u.drag = v.drag
           /\ \A j \in D \ {i} : u.widgets[j] = v.widgets[j]
           /\ i # -1 /\ u = Blurs(v, i) => "FOCUSED" \notin u.widgets[i].flags
<1> DEFINE off == u = Blurs(v, i)
           new == IF off THEN v.widgets[i].flags \ {"FOCUSED"} ELSE v.widgets[i].flags \cup {"FOCUSED"}
           w == [v.widgets[i] EXCEPT !.flags = new]
           ws == [v.widgets EXCEPT ![i] = w]
<1>0. /\ v.kind \in K /\ v.widgets \in [D -> ScreenWidgets] /\ v.focus \in D \cup {-1}
      /\ v.sub \in {"none", "browser", "m_main"} /\ v.drag_btn \in BOOLEAN /\ v.drag \in Int
      /\ v = [kind |-> v.kind, widgets |-> v.widgets, focus |-> v.focus, sub |-> v.sub, drag_btn |-> v.drag_btn, drag |-> v.drag]
  BY DEF ScreenViews
<1>1. CASE i = -1
  <2>1. u = v
    BY <1>1 DEF Flagged, Blurs, Marks
  <2>2. Alike(v, v)
    BY DEF Alike
  <2> QED
    BY <1>1, <2>1, <2>2, Zenon
<1>2. CASE i # -1
  <2>0. i \in D
    BY <1>2
  <2>1. w \in ScreenWidgets /\ w.type = v.widgets[i].type /\ ("FOCUSABLE" \in w.flags <=> "FOCUSABLE" \in v.widgets[i].flags)
        /\ (off => "FOCUSED" \notin w.flags)
    <3>1. v.widgets[i] \in ScreenWidgets
      BY <1>0, <2>0
    <3>2. /\ new \in SUBSET {"VISIBLE", "ENABLED", "FOCUSABLE", "FOCUSED"}
          /\ "FOCUSABLE" \in new <=> "FOCUSABLE" \in v.widgets[i].flags
          /\ off => "FOCUSED" \notin new
      BY <3>1, WidgetOf
    <3>3. "FOCUSABLE" \in new => v.widgets[i].type \in {"button", "app_entry"}
      BY <3>1, <3>2, WidgetOf
    <3>4. w \in ScreenWidgets
      BY <3>1, <3>2, <3>3, WidgetOf
    <3>5. v.widgets[i] \in [type : DOMAIN Layers, flags : SUBSET {"VISIBLE", "ENABLED", "FOCUSABLE", "FOCUSED"}]
      BY <3>1 DEF ScreenWidgets
    <3>6. w.type = v.widgets[i].type /\ w.flags = new
      BY <3>5
    <3> QED
      BY <3>2, <3>4, <3>6
  <2>2. u = [v EXCEPT !.widgets = ws]
    BY <1>0, <1>2, <2>0 DEF Flagged, Blurs, Marks
  <2> HIDE DEF w
  <2>3. ws \in [D -> ScreenWidgets] /\ ws[i] = w /\ \A j \in D \ {i} : ws[j] = v.widgets[j]
    BY <1>0, <2>0, <2>1
  <2> HIDE DEF ws
  <2>4. u = [kind |-> v.kind, widgets |-> ws, focus |-> v.focus, sub |-> v.sub, drag_btn |-> v.drag_btn, drag |-> v.drag]
    BY <1>0, <2>2
  <2>5. u \in ScreenViews(K, D) /\ u.focus = v.focus /\ u.drag = v.drag /\ u.widgets = ws
    BY <1>0, <2>3, <2>4 DEF ScreenViews
  <2>6. Alike(u, v)
    <3>1. u.kind = v.kind /\ u.sub = v.sub /\ u.drag_btn = v.drag_btn /\ DOMAIN u.widgets = DOMAIN v.widgets
      BY <1>0, <2>3, <2>4
    <3>2. ASSUME NEW j \in D
          PROVE  /\ u.widgets[j].type = v.widgets[j].type
                 /\ "FOCUSABLE" \in u.widgets[j].flags <=> "FOCUSABLE" \in v.widgets[j].flags
      BY <2>1, <2>3, <2>5
    <3> QED
      BY <1>0, <3>1, <3>2 DEF Alike
  <2> QED
    BY <1>2, <2>0, <2>1, <2>3, <2>5, <2>6
<1> QED
  BY <1>1, <1>2

LEMMA FocusedView ==
    ASSUME NEW K, NEW D \in SUBSET Nat, NEW v \in ScreenViews(K, D), FocusShown(v), NEW f \in D \cup {-1}
    PROVE  LET u == view_set_focus(v, f) IN
           u \in ScreenViews(K, D) /\ FocusShown(u) /\ Alike(u, v) /\ u.focus = f
<1>10. PICK x : x = Blurs(v, v.focus)
  OBVIOUS
<1> DEFINE y == [x EXCEPT !.focus = f]
<1>0. v.focus \in D \cup {-1} /\ DOMAIN v.widgets = D
  BY DEF ScreenViews
<1>1. /\ x \in ScreenViews(K, D) /\ Alike(x, v)
      /\ \A j \in D \ {v.focus} : x.widgets[j] = v.widgets[j]
      /\ v.focus # -1 => "FOCUSED" \notin x.widgets[v.focus].flags
  <2>1. PICK i : i = v.focus
    OBVIOUS
  <2>2. i \in D \cup {-1} /\ x = Blurs(v, i)
    BY <1>0, <1>10, <2>1, Zenon
  <2>3. /\ x \in ScreenViews(K, D) /\ Alike(x, v)
        /\ \A j \in D \ {i} : x.widgets[j] = v.widgets[j]
        /\ i # -1 => "FOCUSED" \notin x.widgets[i].flags
    BY <2>2, FlaggedView
  <2> QED
    BY <2>1, <2>3, Zenon
<1>2. \A j \in D : "FOCUSED" \notin x.widgets[j].flags
  <2>1. \A j \in Nat : j # -1
    OBVIOUS
  <2>2. -1 \notin D
    BY <2>1, Zenon
  <2> QED
    BY <1>0, <1>1, <2>2, Zenon DEF FocusShown
<1>3. y \in ScreenViews(K, D) /\ y.focus = f /\ y.widgets = x.widgets /\ Alike(y, v)
  <2>1. x = [kind |-> x.kind, widgets |-> x.widgets, focus |-> x.focus, sub |-> x.sub, drag_btn |-> x.drag_btn, drag |-> x.drag]
    BY <1>1 DEF ScreenViews
  <2>2. y = [kind |-> x.kind, widgets |-> x.widgets, focus |-> f, sub |-> x.sub, drag_btn |-> x.drag_btn, drag |-> x.drag]
    BY <2>1
  <2>3. /\ x.kind \in K /\ x.widgets \in [D -> ScreenWidgets] /\ x.sub \in {"none", "browser", "m_main"}
        /\ x.drag_btn \in BOOLEAN /\ x.drag \in Int
    BY <1>1 DEF ScreenViews
  <2>4. y \in ScreenViews(K, D) /\ y.focus = f /\ y.widgets = x.widgets /\ y.kind = x.kind /\ y.sub = x.sub /\ y.drag_btn = x.drag_btn
    BY <2>2, <2>3 DEF ScreenViews
  <2> HIDE DEF y
  <2> QED
    BY <1>1, <2>4, Zenon DEF Alike
<1>11. PICK u : u = Marks(y, f)
  OBVIOUS
<1>12. u = view_set_focus(v, f)
  BY <1>10, <1>11 DEF view_set_focus, Blurs, Marks
<1> HIDE DEF y
<1>4. /\ u \in ScreenViews(K, D) /\ Alike(u, y) /\ u.focus = y.focus
      /\ \A j \in D \ {f} : u.widgets[j] = y.widgets[j]
  BY <1>3, <1>11, FlaggedView
<1>5. DOMAIN u.widgets = D
  BY <1>4 DEF ScreenViews
<1>6. Alike(u, v)
  BY <1>0, <1>3, <1>4, Zenon DEF Alike
<1>7. FocusShown(u)
  <2>1. ASSUME NEW i \in D, "FOCUSED" \in u.widgets[i].flags PROVE u.focus = i
    BY <1>2, <1>3, <1>4, <2>1
  <2> QED
    BY <1>5, <2>1, Zenon DEF FocusShown
<1> QED
  BY <1>3, <1>4, <1>6, <1>7, <1>12

LEMMA AlikeChain ==
    ASSUME NEW u, NEW v, NEW w, Alike(u, v), Alike(v, w)
    PROVE  Alike(u, w)
BY Zenon DEF Alike

LEMMA TurnedChain ==
    ASSUME NEW u, NEW v, NEW w, Turned(u, v), Turned(v, w), v.focus \in DOMAIN v.widgets \cup {-1}
    PROVE  Turned(u, w)
<1>1. Alike(u, w)
  BY AlikeChain DEF Turned
<1>2. CASE u.focus = -1
  BY <1>1, <1>2 DEF Turned
<1>3. CASE u.widgets[u.focus].type \in {"button", "app_entry"}
  BY <1>1, <1>3 DEF Turned
<1>4. CASE u.focus = v.focus /\ v.focus # -1 /\ v.focus # w.focus
  <2>1. v.widgets[v.focus].type \in {"button", "app_entry"} /\ v.focus \in DOMAIN v.widgets
    BY <1>4 DEF Turned
  <2>2. u.widgets[u.focus].type = v.widgets[v.focus].type
    BY <1>4, <2>1 DEF Turned, Alike
  <2> QED
    BY <1>1, <2>1, <2>2 DEF Turned
<1>5. CASE u.focus = w.focus
  BY <1>1, <1>5 DEF Turned
<1> QED
  BY <1>2, <1>3, <1>4, <1>5 DEF Turned

\* A view as it is, or with a focus it may have.
LEMMA Turns ==
    ASSUME NEW K, NEW D \in SUBSET Nat, NEW v \in ScreenViews(K, D), FocusShown(v),
           NEW f \in D \cup {-1}, f = -1 \/ TakesFocus(v.widgets[f])
    PROVE  LET u == view_set_focus(v, f) IN u \in ScreenViews(K, D) /\ FocusShown(u) /\ Turned(u, v)
<1> DEFINE u == view_set_focus(v, f)
<1>1. u \in ScreenViews(K, D) /\ FocusShown(u) /\ Alike(u, v) /\ u.focus = f
  BY FocusedView
<1> HIDE DEF u
<1>2. Turned(u, v)
  <2>1. CASE f = -1
    BY <1>1, <2>1 DEF Turned
  <2>2. CASE f # -1
    <3>1. f \in D /\ f \in DOMAIN v.widgets /\ v.widgets[f] \in ScreenWidgets
      BY <2>2 DEF ScreenViews
    <3>2. "FOCUSABLE" \in v.widgets[f].flags
      BY <2>2 DEF TakesFocus, FocusFlags
    <3>3. v.widgets[f].type \in {"button", "app_entry"}
      BY <3>1, <3>2, WidgetOf
    <3>4. u.widgets[f].type = v.widgets[f].type
      BY <1>1, <3>1 DEF Alike
    <3> QED
      BY <1>1, <3>3, <3>4 DEF Turned
  <2> QED
    BY <2>1, <2>2
<1> QED
  BY <1>1, <1>2 DEF u

LEMMA Stays ==
    ASSUME NEW v
    PROVE  Turned(v, v)
BY Zenon DEF Turned, Alike

KeptView(K, D, u, v) == u \in ScreenViews(K, D) /\ FocusShown(u) /\ Turned(u, v)

LEMMA KeptChain ==
    ASSUME NEW K, NEW D \in SUBSET Nat, NEW u, NEW v, NEW w, KeptView(K, D, v, w), KeptView(K, D, u, v)
    PROVE  KeptView(K, D, u, w)
<1>1. v.focus \in DOMAIN v.widgets \cup {-1}
  BY DEF KeptView, ScreenViews
<1> QED
  BY <1>1, TurnedChain, Zenon DEF KeptView

LEMMA KeptSame ==
    ASSUME NEW K, NEW D, NEW v \in ScreenViews(K, D), FocusShown(v)
    PROVE  KeptView(K, D, v, v)
BY Stays, Zenon DEF KeptView

LEMMA KeptFocus ==
    ASSUME NEW K, NEW D \in SUBSET Nat, NEW v \in ScreenViews(K, D), FocusShown(v),
           NEW f \in D \cup {-1}, f = -1 \/ TakesFocus(v.widgets[f])
    PROVE  KeptView(K, D, view_set_focus(v, f), v)
BY Turns, Zenon DEF KeptView

LEMMA NextKeeps ==
    ASSUME NEW K, NEW D \in SUBSET Nat, NEW v \in ScreenViews(K, D), FocusShown(v)
    PROVE  KeptView(K, D, view_set_focus_next(v), v)
<1> DEFINE S == {i \in DOMAIN v.widgets : i > v.focus /\ TakesFocus(v.widgets[i])}
           n == CHOOSE i \in S : \A j \in S : i <= j
<1>0. DOMAIN v.widgets = D
  BY DEF ScreenViews
<1>1. CASE S = {}
  BY <1>1, KeptSame DEF view_set_focus_next
<1>2. CASE S # {}
  <2>1. S \in SUBSET Nat
    BY <1>0
  <2>2. n \in S
    <3> HIDE DEF S
    <3>1. PICK i \in S : \A m \in Nat : m < i => m \notin S
      BY <1>2, <2>1, Smallest
    <3>2. \A j \in S : i <= j
      BY <2>1, <3>1
    <3> QED
      BY <3>2
  <2>3. n \in D /\ TakesFocus(v.widgets[n])
    BY <1>0, <2>2
  <2>4. view_set_focus_next(v) = view_set_focus(v, n)
    BY <1>2 DEF view_set_focus_next
  <2> HIDE DEF n
  <2> QED
    BY <2>3, <2>4, KeptFocus
<1> QED
  BY <1>1, <1>2

LEMMA PrevKeeps ==
    ASSUME NEW K, NEW D \in SUBSET Nat, NEW v \in ScreenViews(K, D), FocusShown(v)
    PROVE  KeptView(K, D, view_set_focus_prev(v), v)
<1> DEFINE S == {i \in DOMAIN v.widgets : i < v.focus /\ TakesFocus(v.widgets[i])}
           n == CHOOSE i \in S : \A j \in S : i >= j
<1>0. DOMAIN v.widgets = D /\ v.focus \in D \cup {-1}
  BY DEF ScreenViews
<1>1. CASE v.focus < 1 \/ S = {}
  BY <1>1, KeptSame DEF view_set_focus_prev
<1>2. CASE ~(v.focus < 1 \/ S = {})
  <2>5. v.focus \in Int
    <3>1. D \cup {-1} \subseteq Int
      OBVIOUS
    <3> QED
      BY <1>0, <3>1, Zenon
  <2>8. S # {}
    BY <1>2, Zenon
  <2>6. ~(v.focus < 1)
    BY <1>2
  <2>7. v.focus \in Nat
    BY <2>5, <2>6
  <2>1. S \in SUBSET Nat /\ v.focus \in Nat /\ \A j \in S : j < v.focus
    BY <1>0, <2>7
  <2>2. n \in S
    <3> HIDE DEF S
    <3>2. \E w \in S : \A z \in S : z <= w
      <4> DEFINE T == {m \in Nat : \E j \in S : m = v.focus - j}
      <4>1. PICK j \in S : TRUE
        BY <2>8
      <4>2. v.focus - j \in T
        BY <2>1
      <4>3. T \in SUBSET Nat /\ T # {}
        BY <4>2
      <4>4. PICK m \in T : \A k \in Nat : k < m => k \notin T
        BY <4>3, Smallest
      <4>5. PICK w \in S : m = v.focus - w
        BY <4>4
      <4>6. ASSUME NEW z \in S PROVE z <= w
        <5>1. v.focus - z \in T /\ v.focus - z \in Nat
          BY <2>1
        <5> QED
          BY <2>1, <4>4, <4>5, <5>1
      <4> QED
        BY <4>6
    <3>3. \E w \in S : \A j \in S : w >= j
      BY <2>1, <3>2
    <3> QED
      BY <3>3
  <2>3. n \in D /\ TakesFocus(v.widgets[n])
    BY <1>0, <2>2
  <2>4. view_set_focus_prev(v) = view_set_focus(v, n)
    BY <1>2 DEF view_set_focus_prev
  <2> HIDE DEF n
  <2> QED
    BY <2>3, <2>4, KeptFocus
<1> QED
  BY <1>1, <1>2

LEMMA FocusMoves ==
    ASSUME NEW K, NEW D \in SUBSET Nat, NEW v \in ScreenViews(K, D), FocusShown(v), NEW n \in Int
    PROVE  KeptView(K, D, view_move_focus(v, n), v)
<1>0. PICK to : to = v.focus + n
  OBVIOUS
<1>1. CASE to >= 1 /\ to \in DOMAIN v.widgets /\ TakesFocus(v.widgets[to])
  <2>1. view_move_focus(v, n) = view_set_focus(v, to)
    BY <1>0, <1>1 DEF view_move_focus
  <2>2. to \in D /\ TakesFocus(v.widgets[to])
    BY <1>1 DEF ScreenViews
  <2> QED
    BY <2>1, <2>2, KeptFocus
<1>2. CASE ~(to >= 1 /\ to \in DOMAIN v.widgets /\ TakesFocus(v.widgets[to]))
  <2>1. view_move_focus(v, n) = v
    BY <1>0, <1>2 DEF view_move_focus
  <2> QED
    BY <2>1, KeptSame
<1> QED
  BY <1>1, <1>2, Zenon

LEMMA PointedKeeps ==
    ASSUME NEW K, NEW D \in SUBSET Nat, NEW v \in ScreenViews(K, D), FocusShown(v), NEW p \in D \cup {Off, -1}
    PROVE  KeptView(K, D, Pointed(v, p), v)
<1> DEFINE b == view_set_focus(v, -1)
<1>1. CASE p = Off
  BY <1>1, KeptSame DEF Pointed
<1>2. CASE p # Off
  <2>1. KeptView(K, D, b, v)
    BY KeptFocus
  <2>2. Pointed(v, p) = IF p # -1 /\ TakesFocus(v.widgets[p]) THEN view_set_focus(b, p) ELSE b
    BY <1>2 DEF Pointed
  <2>3. CASE p # -1 /\ TakesFocus(v.widgets[p])
    <3>1. p \in D /\ b \in ScreenViews(K, D) /\ FocusShown(b) /\ DOMAIN v.widgets = D
      BY <1>2, <2>1, <2>3 DEF KeptView, ScreenViews
    <3>3. view_set_focus(b, p) \in ScreenViews(K, D) /\ FocusShown(view_set_focus(b, p))
          /\ Alike(view_set_focus(b, p), b) /\ view_set_focus(b, p).focus = p
      <4> HIDE DEF b
      <4> QED
        BY <3>1, FocusedView
    <3>4. Alike(view_set_focus(b, p), v)
      BY <2>1, <3>3, AlikeChain DEF KeptView, Turned
    <3>5. v.widgets[p] \in ScreenWidgets /\ "FOCUSABLE" \in v.widgets[p].flags
      BY <2>3, <3>1 DEF ScreenViews, TakesFocus, FocusFlags
    <3>6. view_set_focus(b, p).widgets[p].type \in {"button", "app_entry"}
      BY <3>1, <3>4, <3>5, WidgetOf DEF Alike
    <3>7. KeptView(K, D, view_set_focus(b, p), v)
      BY <3>3, <3>4, <3>6 DEF KeptView, Turned
    <3> QED
      BY <2>2, <2>3, <3>7
  <2>4. CASE ~(p # -1 /\ TakesFocus(v.widgets[p]))
    BY <2>1, <2>2, <2>4
  <2> QED
    BY <2>3, <2>4
<1> QED
  BY <1>1, <1>2

LEMMA DraggedKeeps ==
    ASSUME NEW K, NEW D \in SUBSET Nat, NEW v \in ScreenViews(K, D), FocusShown(v), NEW p \in Int, NEW b, NEW up
    PROVE  KeptView(K, D, Dragged(v, p, b, up), v)
<1> DEFINE d == IF b = "B" /\ p = Memo THEN p ELSE IF up \/ b = "B" THEN -1 ELSE v.drag
           u == [v EXCEPT !.drag = d]
<1>0. /\ v.kind \in K /\ v.widgets \in [D -> ScreenWidgets] /\ v.focus \in D \cup {-1}
      /\ v.sub \in {"none", "browser", "m_main"} /\ v.drag_btn \in BOOLEAN /\ v.drag \in Int
      /\ v = [kind |-> v.kind, widgets |-> v.widgets, focus |-> v.focus, sub |-> v.sub, drag_btn |-> v.drag_btn, drag |-> v.drag]
  BY DEF ScreenViews
<1>1. d \in {p, -1, v.drag}
  BY Zenon
<1>2. d \in Int
  <2> HIDE DEF d
  <2> QED
    BY <1>0, <1>1
<1>3. Dragged(v, p, b, up) \in {v, u}
  BY Zenon DEF Dragged
<1> HIDE DEF d
<1>4. u = [kind |-> v.kind, widgets |-> v.widgets, focus |-> v.focus, sub |-> v.sub, drag_btn |-> v.drag_btn, drag |-> d]
  BY <1>0
<1>5. u \in ScreenViews(K, D) /\ u.widgets = v.widgets /\ u.focus = v.focus /\ u.kind = v.kind /\ u.sub = v.sub /\ u.drag_btn = v.drag_btn
  BY <1>0, <1>2, <1>4 DEF ScreenViews
<1> HIDE DEF u
<1>6. KeptView(K, D, u, v)
  BY <1>5, Zenon DEF KeptView, Turned, Alike, FocusShown
<1> QED
  BY <1>3, <1>6, KeptSame

LEMMA RowKeeps ==
    ASSUME NEW K, NEW D \in SUBSET Nat, NEW v \in ScreenViews(K, D), FocusShown(v), NEW n \in Int, NEW late
    PROVE  KeptView(K, D, Row(v, n, late), v)
<1> DEFINE w == view_move_focus(v, n)
           u == view_move_focus(w, 2 * n)
<1>1. KeptView(K, D, w, v)
  BY FocusMoves
<1>2. w \in ScreenViews(K, D) /\ FocusShown(w) /\ 2 * n \in Int
  BY <1>1 DEF KeptView
<1>3. Row(v, n, late) \in {u, w}
  BY Zenon DEF Row
<1> HIDE DEF w
<1>4. KeptView(K, D, u, w)
  BY <1>2, FocusMoves
<1> HIDE DEF u
<1>5. KeptView(K, D, u, v)
  BY <1>1, <1>4, KeptChain
<1> QED
  BY <1>1, <1>3, <1>5

LEMMA MovedKeeps ==
    ASSUME NEW K, NEW D \in SUBSET Nat, NEW v \in ScreenViews(K, D), FocusShown(v), NEW b, NEW late
    PROVE  KeptView(K, D, Moved(v, b, late), v)
<1>1. Moved(v, b, late) \in {view_set_focus_prev(v), view_set_focus_next(v), Row(v, -2, late), Row(v, 2, late), v}
  BY Zenon DEF Moved
<1>2. KeptView(K, D, view_set_focus_prev(v), v)
  BY PrevKeeps, Zenon
<1>3. KeptView(K, D, view_set_focus_next(v), v)
  BY NextKeeps, Zenon
<1>4. KeptView(K, D, Row(v, -2, late), v) /\ KeptView(K, D, Row(v, 2, late), v)
  <2>1. 2 \in Int /\ -2 \in Int
    OBVIOUS
  <2> QED
    BY <2>1, RowKeeps, Zenon
<1>5. KeptView(K, D, v, v)
  BY KeptSame, Zenon
<1> QED
  BY <1>1, <1>2, <1>3, <1>4, <1>5, Zenon

---------------------------------------------------------------------------
(* The views of the channel.                                               *)

LEMMA BrowserTurned ==
    ASSUME NEW v, BrowserView(v), NEW u, KeptView({"browser"}, 0..6, u, v)
    PROVE  BrowserView(u)
<1>1. \A i \in 0..6 : u.widgets[i].type = v.widgets[i].type
  BY DEF BrowserView, KeptView, Turned, Alike, ScreenViews
<1>2. \A i \in 0..4 : u.widgets[i].type \notin {"app_entry", "picture"}
  BY <1>1 DEF BrowserView
<1> QED
  BY <1>2, Zenon DEF BrowserView, KeptView

LEMMA MenuTurned ==
    ASSUME NEW v, NEW menu, MenuView(v, menu), NEW u, KeptView({"m_main"}, 0..8, u, v)
    PROVE  MenuView(u, menu)
<1>1. u \in ScreenViews({"m_main"}, 0..8) /\ FocusShown(u) /\ Alike(u, v)
  BY DEF KeptView, Turned
<1>2. DOMAIN v.widgets = 0..8 /\ u.focus \in 0..8 \cup {-1}
  BY <1>1 DEF MenuView, ScreenViews
<1>3. \A i \in 0..8 : u.widgets[i].type = v.widgets[i].type
  BY <1>1, <1>2, Zenon DEF Alike
<1>4. \A i \in 0..8 : u.widgets[i].type \notin {"app_entry", "picture"}
  BY <1>3, Zenon DEF MenuView
<1>5. \A i \in 0..8 : u.widgets[i].type = "button" => i \in Buttons(menu)
  BY <1>3, Zenon DEF MenuView
<1>6. ASSUME menu = "EXIT" PROVE Chosen(u)
  <2>1. Chosen(v)
    BY <1>6 DEF MenuView
  <2>2. CASE u.focus \in {v.focus, -1}
    <3>1. u.focus # -1 => u.focus = v.focus /\ u.focus \in 0..8
      BY <1>2, <2>2
    <3> QED
      BY <1>3, <2>1, <3>1, Zenon DEF Chosen
  <2>3. CASE u.focus # -1 /\ u.widgets[u.focus].type \in {"button", "app_entry"}
    BY <1>2, <1>4, <2>3 DEF Chosen
  <2> QED
    BY <2>2, <2>3 DEF KeptView, Turned
<1> QED
  BY <1>1, <1>4, <1>5, <1>6, Zenon DEF MenuView

DialogTypes == {"image", "label", "picture", "memo", "button", "progress"}

At(s, k) == s[k]

LEMMA TypesJoined ==
    ASSUME NEW s \in Seq(DialogTypes), NEW t \in Seq(DialogTypes)
    PROVE  /\ s \o t \in Seq(DialogTypes) /\ Len(s \o t) = Len(s) + Len(t)
           /\ \A k \in 1..Len(s) : At(s \o t, k) = At(s, k)
           /\ \A k \in 1..Len(t) : At(s \o t, Len(s) + k) = At(t, k)
BY DEF At

LEMMA TypesLonger ==
    ASSUME NEW s \in Seq(DialogTypes), NEW e \in DialogTypes
    PROVE  /\ Append(s, e) \in Seq(DialogTypes) /\ Len(Append(s, e)) = Len(s) + 1
           /\ \A k \in 1..Len(s) : At(Append(s, e), k) = At(s, k)
           /\ At(Append(s, e), Len(s) + 1) = e
BY DEF At

LEMMA MessageTypes ==
    /\ Types("none") \in Seq(DialogTypes) /\ Len(Types("none")) = 6
    /\ Types("ok") \in Seq(DialogTypes) /\ Len(Types("ok")) = 7 /\ Types("ok")[7] = "button"
    /\ Types("yesno") \in Seq(DialogTypes) /\ Len(Types("yesno")) = 8
    /\ Types("yesno")[7] = "button" /\ Types("yesno")[8] = "button"
    /\ \A i \in 1..6 : Types("ok")[i] # "button" /\ Types("yesno")[i] # "button"
<1>1. /\ Message \in Seq(DialogTypes) /\ Len(Message) = 6 /\ \A i \in 1..6 : Message[i] # "button"
  BY DEF Message, DialogTypes
<1>2. Types("none") = Message /\ Types("ok") = Append(Message, "button") /\ Types("yesno") = Message \o <<"button", "button">>
  BY DEF Types
<1> DEFINE c == <<"button", "button">>
<1>3. "button" \in DialogTypes /\ c \in Seq(DialogTypes) /\ Len(c) = 2 /\ c[1] = "button" /\ c[2] = "button"
  BY DEF DialogTypes
<1>4. Types("yesno") = Message \o c
  BY <1>2
<1> HIDE DEF Message, c
<1> DEFINE m == Append(Message, "button")
           n == Message \o c
<1>5. /\ m \in Seq(DialogTypes) /\ Len(m) = 6 + 1
      /\ \A k \in 1..6 : At(m, k) = At(Message, k)
      /\ At(m, 6 + 1) = "button"
  <2>1. /\ m \in Seq(DialogTypes) /\ Len(m) = Len(Message) + 1
        /\ \A k \in 1..Len(Message) : At(m, k) = At(Message, k)
        /\ At(m, Len(Message) + 1) = "button"
    BY <1>1, <1>3, TypesLonger
  <2> HIDE DEF m
  <2> QED
    BY <1>1, <2>1, Zenon
<1>6. /\ n \in Seq(DialogTypes) /\ Len(n) = 6 + 2
      /\ \A k \in 1..6 : At(n, k) = At(Message, k)
      /\ \A k \in 1..2 : At(n, 6 + k) = At(c, k)
  <2>1. /\ n \in Seq(DialogTypes) /\ Len(n) = Len(Message) + Len(c)
        /\ \A k \in 1..Len(Message) : At(n, k) = At(Message, k)
        /\ \A k \in 1..Len(c) : At(n, Len(Message) + k) = At(c, k)
    BY <1>1, <1>3, TypesJoined
  <2> HIDE DEF n
  <2> QED
    BY <1>1, <1>3, <2>1, Zenon
<1> HIDE DEF m, n
<1>7. Len(m) = 7 /\ m[7] = "button" /\ \A k \in 1..6 : m[k] = Message[k]
  BY <1>5 DEF At
<1>8. n[6 + 1] = c[1] /\ n[6 + 2] = c[2]
  BY <1>6 DEF At
<1>9. Len(n) = 8 /\ n[7] = "button" /\ n[8] = "button" /\ \A k \in 1..6 : n[k] = Message[k]
  BY <1>3, <1>6, <1>8 DEF At
<1>10. Types("ok") = m /\ Types("yesno") = n
  BY <1>2, <1>4 DEF m, n
<1> QED
  BY <1>1, <1>2, <1>5, <1>6, <1>7, <1>9, <1>10, Zenon

LEMMA OtherTypes ==
    /\ Types("detail") \in Seq(DialogTypes) /\ Len(Types("detail")) = 11 /\ Types("detail")[11] = "button"
    /\ Types("about") \in Seq(DialogTypes) /\ Len(Types("about")) = 3
    /\ Types("progress") \in Seq(DialogTypes) /\ Len(Types("progress")) = 1
BY DEF Types, DialogTypes

LEMMA OptionsTypes ==
    Types("options") \in Seq(DialogTypes) /\ Len(Types("options")) = 13 /\ Types("options")[13] = "button"
<1> DEFINE a == <<"image", "label", "label", "label">>
           b == [i \in 1..9 |-> "button"]
<1>1. Types("options") = a \o b
  BY DEF Types
<1>2. a \in Seq(DialogTypes) /\ Len(a) = 4
  BY DEF DialogTypes
<1>3. b \in Seq(DialogTypes) /\ Len(b) = 9 /\ b[9] = "button"
  BY DEF DialogTypes
<1> HIDE DEF a, b
<1> DEFINE n == a \o b
<1>4. n \in Seq(DialogTypes) /\ Len(n) = 4 + 9 /\ \A k \in 1..9 : At(n, 4 + k) = At(b, k)
  <2>1. /\ n \in Seq(DialogTypes) /\ Len(n) = Len(a) + Len(b)
        /\ \A k \in 1..Len(b) : At(n, Len(a) + k) = At(b, k)
    BY <1>2, <1>3, TypesJoined
  <2> HIDE DEF n
  <2> QED
    BY <1>2, <1>3, <2>1, Zenon
<1> HIDE DEF n
<1>5. n[4 + 9] = b[9]
  BY <1>4 DEF At
<1>6. n[13] = "button" /\ Len(n) = 13
  BY <1>3, <1>4, <1>5
<1>7. Types("options") = n
  BY <1>1 DEF n
<1> QED
  BY <1>4, <1>6, <1>7, Zenon

LEMMA KindTypes ==
    ASSUME NEW kind \in DialogKinds
    PROVE  /\ Types(kind) \in Seq(DialogTypes) /\ Len(Types(kind)) \in Nat
           /\ DialogWidgets(kind) \in SUBSET Nat /\ DialogWidgets(kind) = 0..(Len(Types(kind)) - 1)
           /\ \A i \in DialogWidgets(kind) : Types(kind)[i + 1] \in DialogTypes
<1>1. Types(kind) \in Seq(DialogTypes)
  BY MessageTypes, OtherTypes, OptionsTypes DEF DialogKinds
<1>2. Len(Types(kind)) \in Nat
  BY <1>1
<1>3. DialogWidgets(kind) \in SUBSET Nat /\ DialogWidgets(kind) = 0..(Len(Types(kind)) - 1)
  BY <1>2 DEF DialogWidgets
<1> QED
  BY <1>1, <1>2, <1>3

LEMMA DialogDomain ==
    ASSUME NEW v, DialogView(v)
    PROVE  /\ v \in ScreenViews(DialogKinds, DOMAIN v.widgets) /\ FocusShown(v) /\ Chosen(v)
           /\ DOMAIN v.widgets \in SUBSET Nat /\ v.kind \in DialogKinds
           /\ \A i \in DOMAIN v.widgets : v.widgets[i].type \in DialogTypes
<1>1. v \in ScreenViews(DialogKinds, DOMAIN v.widgets) /\ FocusShown(v) /\ Chosen(v)
  BY Zenon DEF DialogView
<1>2. v.kind \in DialogKinds
  BY <1>1 DEF ScreenViews
<1> QED
  BY <1>1, <1>2, KindTypes DEF DialogView

LEMMA DialogTurned ==
    ASSUME NEW v, DialogView(v), NEW u, KeptView(DialogKinds, DOMAIN v.widgets, u, v)
    PROVE  DialogView(u)
<1> DEFINE D == DOMAIN v.widgets
<1>1. u \in ScreenViews(DialogKinds, D) /\ FocusShown(u) /\ Alike(u, v)
  BY Zenon DEF KeptView, Turned
<1>2. DOMAIN u.widgets = D /\ u.kind = v.kind /\ \A i \in D : u.widgets[i].type = v.widgets[i].type
  BY <1>1, Zenon DEF Alike
<1>3. \A i \in D : v.widgets[i].type # "app_entry"
  BY DialogDomain DEF DialogTypes
<1>4. Chosen(v)
  BY DialogDomain
<1>5. u.focus \in D \cup {-1}
  BY <1>1 DEF ScreenViews
<1>6. Chosen(u)
  <2>1. CASE u.focus \in {v.focus, -1}
    BY <1>2, <1>4, <1>5, <2>1 DEF Chosen
  <2>2. CASE u.focus # -1 /\ u.widgets[u.focus].type \in {"button", "app_entry"}
    BY <1>2, <1>3, <1>5, <2>2 DEF Chosen
  <2> QED
    BY <2>1, <2>2 DEF KeptView, Turned
<1> QED
  BY <1>1, <1>2, <1>6, Zenon DEF DialogView

LEMMA WidgetIs ==
    ASSUME NEW type \in DOMAIN Layers
    PROVE  Widget(type) \in ScreenWidgets /\ Widget(type).type = type /\ "FOCUSED" \notin Widget(type).flags
BY DEF ScreenWidgets, Widget

LEMMA NoWidgetIs ==
    NoWidget \in ScreenWidgets /\ NoWidget.type = "none" /\ NoWidget.flags = {}
<1>1. "none" \in DOMAIN Layers
  BY DEF Layers
<1> QED
  BY <1>1 DEF ScreenWidgets, NoWidget

LEMMA LayerTypes ==
    DOMAIN Layers = {"none", "label", "image", "lamp", "picture", "button", "app_entry", "progress", "memo"}
BY DEF Layers

LEMMA NewViewIs ==
    ASSUME NEW K, NEW D \in SUBSET Nat, NEW kind \in K, NEW ws \in [D -> ScreenWidgets],
           \A i \in D : "FOCUSED" \notin ws[i].flags, NEW sub \in {"none", "browser", "m_main"},
           NEW v, v.drag_btn \in BOOLEAN,
           v = [kind |-> kind, widgets |-> ws, focus |-> -1, sub |-> sub, drag_btn |-> v.drag_btn, drag |-> -1]
    PROVE  v \in ScreenViews(K, D) /\ FocusShown(v) /\ v.kind = kind /\ v.widgets = ws /\ v.sub = sub /\ v.focus = -1
<1>2. v.kind = kind /\ v.widgets = ws /\ v.sub = sub /\ v.focus = -1
  OBVIOUS
<1>3. v \in ScreenViews(K, D)
  BY DEF ScreenViews
<1>4. FocusShown(v)
  BY <1>2 DEF FocusShown
<1> QED
  BY <1>2, <1>3, <1>4

LEMMA NoViewIs == DialogView(NoView) /\ NoView.widgets = <<>> /\ DOMAIN NoView.widgets = {} /\ NoView.focus = -1
<1>1. NoView = [kind |-> "none", widgets |-> <<>>, focus |-> -1, sub |-> "none", drag_btn |-> FALSE, drag |-> -1]
  BY DEF NoView, NewView
<1>2. DOMAIN NoView.widgets = {} /\ NoView.focus = -1 /\ NoView.widgets = <<>>
  BY <1>1
<1>3. <<>> \in [{} -> ScreenWidgets]
  OBVIOUS
<1>4. NoView \in ScreenViews(DialogKinds, {})
  BY <1>1, <1>3 DEF ScreenViews, DialogKinds
<1> HIDE DEF NoView
<1> QED
  BY <1>2, <1>4 DEF DialogView, FocusShown, Chosen

LEMMA DialogOpened ==
    ASSUME NEW kind, NEW f, <<"open", kind, f>> \in Dialogs, NEW sub \in {"browser", "m_main"}
    PROVE  LET v == Dialog(kind, sub, f) IN
           DialogView(v) /\ v.kind = kind /\ v.sub = sub /\ DOMAIN v.widgets = DialogWidgets(kind)
<1> DEFINE D == DialogWidgets(kind)
           ws == [i \in D |-> Widget(Types(kind)[i + 1])]
<1>1. kind \in DialogKinds /\ f \in {-1, 6, 7, 10, 12}
  BY DEF Dialogs, DialogKinds
<1>2. f # -1 => f \in D /\ Types(kind)[f + 1] = "button"
  <2>1. \/ f = -1 \/ (kind = "ok" /\ f = 6) \/ (kind = "options" /\ f = 12) \/ (kind = "detail" /\ f = 10)
        \/ (kind = "yesno" /\ f = 6) \/ (kind = "yesno" /\ f = 7)
    BY DEF Dialogs
  <2>2. CASE f = -1
    BY <2>2
  <2>3. CASE kind = "ok" /\ f = 6
    BY <2>3, MessageTypes DEF DialogWidgets
  <2>4. CASE kind = "yesno" /\ f \in {6, 7}
    BY <2>4, MessageTypes DEF DialogWidgets
  <2>5. CASE kind = "options" /\ f = 12
    BY <2>5, OptionsTypes DEF DialogWidgets
  <2>6. CASE kind = "detail" /\ f = 10
    BY <2>6, OtherTypes DEF DialogWidgets
  <2> QED
    BY <2>1, <2>2, <2>3, <2>4, <2>5, <2>6
<1>3. D \in SUBSET Nat /\ D = 0..(Len(Types(kind)) - 1) /\ \A i \in D : Types(kind)[i + 1] \in DialogTypes
  BY <1>1, KindTypes
<1>4. \A i \in D : Types(kind)[i + 1] \in DOMAIN Layers
  BY <1>3, LayerTypes DEF DialogTypes
<1>5. /\ ws \in [D -> ScreenWidgets]
      /\ \A i \in D : "FOCUSED" \notin ws[i].flags /\ ws[i].type = Types(kind)[i + 1]
  BY <1>4, WidgetIs
<1>6. PICK v : v = NewView(kind, ws, sub, kind = "detail")
  OBVIOUS
<1>7. Dialog(kind, sub, f) = view_set_focus(v, f)
  BY <1>3, <1>6 DEF Dialog
<1>14. /\ v = [kind |-> kind, widgets |-> ws, focus |-> -1, sub |-> sub, drag_btn |-> v.drag_btn, drag |-> -1]
       /\ v.drag_btn \in BOOLEAN
  BY <1>6 DEF NewView
<1> HIDE DEF D, ws
<1>8. /\ v \in ScreenViews(DialogKinds, D) /\ FocusShown(v) /\ v.kind = kind /\ v.widgets = ws /\ v.sub = sub
  <2>1. sub \in {"none", "browser", "m_main"}
    OBVIOUS
  <2>2. \A i \in D : "FOCUSED" \notin ws[i].flags
    BY <1>5, Zenon
  <2>3. D \in SUBSET Nat /\ kind \in DialogKinds /\ ws \in [D -> ScreenWidgets]
    BY <1>1, <1>3, <1>5, Zenon
  <2> QED
    BY <1>14, <2>1, <2>2, <2>3, NewViewIs
<1>9. PICK u : u = view_set_focus(v, f)
  OBVIOUS
<1>10. f \in D \cup {-1}
  BY <1>2
<1>11. u \in ScreenViews(DialogKinds, D) /\ FocusShown(u) /\ Alike(u, v) /\ u.focus = f
  BY <1>3, <1>8, <1>9, <1>10, FocusedView
<1>12. u.kind = kind /\ u.sub = sub /\ DOMAIN u.widgets = D /\ \A i \in D : u.widgets[i].type = Types(kind)[i + 1]
  <2>1. DOMAIN v.widgets = D
    BY <1>5, <1>8
  <2> QED
    BY <1>5, <1>8, <1>11, <2>1, Zenon DEF Alike
<1>13. Chosen(u)
  BY <1>2, <1>11, <1>12 DEF Chosen
<1> QED
  BY <1>7, <1>9, <1>11, <1>12, <1>13 DEF DialogView, D

LEMMA MainWidgetsAre ==
    ASSUME NEW menu, NEW ws, ws = MainWidgets(menu, TRUE) \/ ws = MainWidgets(menu, FALSE)
    PROVE  /\ ws \in [0..8 -> ScreenWidgets]
           /\ \A i \in 0..8 : /\ ws[i].type \in {"button", "label", "none"} /\ "FOCUSED" \notin ws[i].flags
                              /\ ws[i].type = "button" <=> i \in Buttons(menu)
<1>1. "button" \in DOMAIN Layers /\ "label" \in DOMAIN Layers
  BY LayerTypes
<1>2. ASSUME NEW i \in 0..8
      PROVE  ws[i] \in {Widget("button"), Widget("label"), NoWidget} /\ (ws[i] = Widget("button") <=> i \in Buttons(menu))
  <2>1. Widget("button") # Widget("label") /\ Widget("button") # NoWidget
    BY <1>1, WidgetIs, NoWidgetIs
  <2> QED
    BY <2>1 DEF MainWidgets
<1>3. ws = [i \in 0..8 |-> ws[i]]
  BY DEF MainWidgets
<1>4. ASSUME NEW i \in 0..8
      PROVE  /\ ws[i] \in ScreenWidgets /\ ws[i].type \in {"button", "label", "none"} /\ "FOCUSED" \notin ws[i].flags
             /\ ws[i].type = "button" <=> i \in Buttons(menu)
  BY <1>1, <1>2, WidgetIs, NoWidgetIs
<1> QED
  BY <1>3, <1>4

---------------------------------------------------------------------------
(* What a step does to the program that main runs.                         *)

LEMMA LeavingCalls ==
    ASSUME NEW s \in Leaving
    PROVE  /\ s \in Seq(Calls)
           /\ s # <<>> => /\ Tail(s) \in Leaving
                          /\ CallAt(s, 1) \in {"dialog_fade", "fade", "font_clear", "theme_deinit"}
                          /\ CallAt(s, 1) = "font_clear" => CallAt(Tail(s), 1) = "theme_deinit"
                          /\ CallAt(s, 1) = "theme_deinit" => Tail(s) = <<>>
<1>0. /\ <<"dialog_fade">> \in Calls /\ <<"fade">> \in Calls /\ <<"font_clear">> \in Calls /\ <<"theme_deinit">> \in Calls
  BY DEF Calls, Ops, Follows
<1> DEFINE a == <<<<"theme_deinit">>>>
           b == <<<<"font_clear">>, <<"theme_deinit">>>>
           c == <<<<"fade">>, <<"font_clear">>, <<"theme_deinit">>>>
           d == <<<<"dialog_fade">>, <<"fade">>, <<"font_clear">>, <<"theme_deinit">>>>
<1>1. a \in Seq(Calls) /\ b \in Seq(Calls) /\ c \in Seq(Calls) /\ d \in Seq(Calls)
  BY <1>0
<1>2. Tail(a) = <<>> /\ Tail(b) = a /\ Tail(c) = b /\ Tail(d) = c
  OBVIOUS
<1>3. CallAt(a, 1) = "theme_deinit" /\ CallAt(b, 1) = "font_clear" /\ CallAt(c, 1) = "fade" /\ CallAt(d, 1) = "dialog_fade"
  BY DEF CallAt
<1>4. Leaving = {<<>>, a, b, c, d}
  BY DEF Leaving
<1>5. <<>> \in Seq(Calls)
  OBVIOUS
<1> HIDE DEF a, b, c, d
<1> QED
  BY <1>1, <1>2, <1>3, <1>4, <1>5

LEMMA ProgramCalls ==
    ASSUME ProgramOK
    PROVE  todo \in Seq(Calls)
BY LeavingCalls DEF ProgramOK, Program, Ordered

LEMMA DoesCall ==
    ASSUME ProgramOK, NEW op, Do(op)
    PROVE  todo # <<>> /\ CallAt(todo, 1) = op /\ Head(todo) = todo[1] /\ op \in Ops
BY ProgramCalls, TailCalls DEF Do

LEMMA DoneIs ==
    ASSUME ProgramOK, todo # <<>>, Done
    PROVE  todo' = Tail(todo)
<1>1. Tail(todo) \in Seq(Calls)
  BY ProgramCalls, TailCalls
<1> QED
  BY <1>1 DEF Done, Then

LEMMA LastCall ==
    ASSUME NEW s, Program(s), s # <<>>,
           CallAt(s, 1) \in {"input", "received", "extract", "extracted", "delete", "deleted", "app_entries_free"}
    PROVE  Tail(s) = <<>>
<1>1. s \in Seq(Calls)
  BY DEF Program, Ordered
<1>2. CallAt(s, 2) \in Follows[CallAt(s, 1)]
  BY FirstFollows DEF Program
<1>3. CallAt(s, 2) = "end"
  BY <1>2 DEF Follows
<1> QED
  BY <1>1, <1>3, EndIsLast

LEMMA ThenIs ==
    ASSUME ProgramOK, exit = {}, todo # <<>>, NEW steps \in Seq(Calls), Then(steps),
           CallAt(todo, 1) \in {"input", "received", "extract", "extracted", "delete", "deleted"}
    PROVE  todo' = steps
<1>1. Tail(todo) = <<>>
  BY LastCall DEF ProgramOK
<1>2. steps \o <<>> = steps
  OBVIOUS
<1>3. todo' = steps \o Tail(todo)
  BY DEF Then
<1> QED
  BY <1>1, <1>2, <1>3, Zenon

\* The views as a program sees them do not change.
SameSight ==
    /\ exit' = exit /\ Closed' = Closed /\ OwnsScreen' = OwnsScreen /\ NewBank' = NewBank
    /\ Hidden(5)' = Hidden(5) /\ Hidden(6)' = Hidden(6)

LEMMA Banked ==
    NewBank \in {5, 6} /\ 11 - NewBank \in {5, 6}
BY DEF NewBank

LEMMA DoneProgram ==
    ASSUME ProgramOK, todo # <<>>, todo' = Tail(todo), SameSight, CallAt(todo, 1) \notin {"open", "close", "gen", "slid"}
    PROVE  ProgramOK'
<1>1. ASSUME exit' = {}
      PROVE  /\ Program(todo') /\ DialogFits(todo', Closed', OwnsScreen')
             /\ Conceals(todo', Hidden(NewBank)', Hidden(11 - NewBank)')
  <2>0. exit = {} /\ Program(todo)
    BY <1>1 DEF SameSight, ProgramOK
  <2>1. Program(todo')
    BY <2>0, TailProgram
  <2>2. DialogFits(todo', Closed', OwnsScreen')
    <3>1. DialogFits(todo, Closed, OwnsScreen)
      BY <2>0 DEF ProgramOK
    <3>2. Closed \in BOOLEAN /\ OwnsScreen \in BOOLEAN
      BY DEF Closed, OwnsScreen
    <3>3. DialogFits(Tail(todo), Closed, OwnsScreen)
      BY <2>0, <3>1, <3>2, TailFits
    <3> QED
      BY <3>3 DEF SameSight
  <2>3. Conceals(todo', Hidden(NewBank)', Hidden(11 - NewBank)')
    <3>1. Conceals(todo, Hidden(NewBank), Hidden(11 - NewBank))
      BY <2>0 DEF ProgramOK
    <3>2. Hidden(NewBank) \in BOOLEAN /\ Hidden(11 - NewBank) \in BOOLEAN
      BY DEF Hidden
    <3>3. Conceals(Tail(todo), Hidden(NewBank), Hidden(11 - NewBank))
      BY <2>0, <3>1, <3>2, TailConceals
    <3>4. Hidden(NewBank)' = Hidden(NewBank) /\ Hidden(11 - NewBank)' = Hidden(11 - NewBank)
      BY Banked DEF SameSight, Hidden
    <3> QED
      BY <3>3, <3>4
  <2> QED
    BY <2>1, <2>2, <2>3
<1>2. ASSUME exit' # {} PROVE todo' \in Leaving
  BY <1>2, LeavingCalls DEF SameSight, ProgramOK
<1> QED
  BY <1>1, <1>2 DEF ProgramOK

LEMMA SameProgram ==
    ASSUME ProgramOK, todo' = todo, SameSight
    PROVE  ProgramOK'
<1>1. Hidden(NewBank)' = Hidden(NewBank) /\ Hidden(11 - NewBank)' = Hidden(11 - NewBank)
  BY Banked DEF SameSight, Hidden
<1> QED
  BY <1>1 DEF SameSight, ProgramOK

LEMMA ExitProgram ==
    ASSUME exit' # {}, todo' = <<>>
    PROVE  ProgramOK'
BY DEF ProgramOK, Leaving

LEMMA StartFits ==
    ASSUME NEW s, NEW op, CallAt(s, 1) = op, NEW closed \in BOOLEAN, NEW owns \in BOOLEAN,
           \/ closed /\ op \in {"open", "gen", "app_entry_add", "app_entry_remove", "plot"}
           \/ owns /\ op \in {"dialog_fade", "plot"}
    PROVE  DialogFits(s, closed, owns)
BY DEF DialogFits, Quiet, InDialog

LEMMA StartProgram ==
    ASSUME exit' = {}, NEW op, Starts(todo', op),
           \/ Closed' /\ op \in {"open", "gen", "app_entry_add", "plot"}
           \/ OwnsScreen' /\ op \in {"dialog_fade", "plot"}
    PROVE  ProgramOK'
<1>1. Program(todo') /\ CallAt(todo', 1) = op /\ Conceals(todo', FALSE, FALSE)
  BY DEF Starts
<1>2. Closed' \in BOOLEAN /\ OwnsScreen' \in BOOLEAN
  BY DEF Closed, OwnsScreen
<1>3. DialogFits(todo', Closed', OwnsScreen')
  BY <1>1, <1>2, StartFits
<1>4. Hidden(NewBank)' \in BOOLEAN /\ Hidden(11 - NewBank)' \in BOOLEAN
  BY DEF Hidden
<1>5. Conceals(todo', Hidden(NewBank)', Hidden(11 - NewBank)')
  BY <1>1, <1>4, ConcealsAny
<1> QED
  BY <1>1, <1>3, <1>5 DEF ProgramOK

\* The dialog before a call that is not one of its own.
LEMMA OutOfDialog ==
    ASSUME ProgramOK, exit = {}, CallAt(todo, 1) \notin InDialog
    PROVE  /\ CallAt(todo, 1) \in Quiet => Closed \/ OwnsScreen
           /\ CallAt(todo, 1) \notin Quiet => Closed
BY DEF ProgramOK, DialogFits

LEMMA FirstCall ==
    ASSUME ProgramOK
    PROVE  todo = <<>> <=> CallAt(todo, 1) = "end"
BY ProgramCalls, EmptyEnd

LEMMA GenBankProgram ==
    ASSUME ProgramOK, exit = {}, todo # <<>>, todo' = Tail(todo), CallAt(todo, 1) = "gen", exit' = exit,
           Closed' = Closed, OwnsScreen' = OwnsScreen, todo[1][2] = "REMOVE" => Hidden(NewBank)'
    PROVE  ProgramOK'
<1>0. Program(todo) /\ DialogFits(todo, Closed, OwnsScreen)
  BY DEF ProgramOK
<1>1. Closed \in BOOLEAN /\ OwnsScreen \in BOOLEAN /\ Hidden(NewBank)' \in BOOLEAN /\ Hidden(11 - NewBank)' \in BOOLEAN
  BY DEF Closed, OwnsScreen, Hidden
<1>2. DialogFits(Tail(todo), Closed, OwnsScreen)
  BY <1>0, <1>1, TailFits
<1>3. Conceals(Tail(todo), Hidden(NewBank)', FALSE)
  BY <1>0, <1>1, GenConceals
<1>4. Conceals(Tail(todo), Hidden(NewBank)', Hidden(11 - NewBank)')
  BY <1>3 DEF Conceals
<1>5. Program(Tail(todo))
  BY <1>0, TailProgram
<1> QED
  BY <1>2, <1>4, <1>5 DEF ProgramOK

LEMMA SlidProgram ==
    ASSUME ProgramOK, exit = {}, todo # <<>>, todo' = Tail(todo), CallAt(todo, 1) = "slid", exit' = exit,
           Closed' = Closed, OwnsScreen' = OwnsScreen, Hidden(NewBank)' = Hidden(NewBank), Hidden(11 - NewBank)'
    PROVE  ProgramOK'
<1>0. Program(todo) /\ DialogFits(todo, Closed, OwnsScreen) /\ Conceals(todo, Hidden(NewBank), Hidden(11 - NewBank))
  BY DEF ProgramOK
<1>1. Closed \in BOOLEAN /\ OwnsScreen \in BOOLEAN /\ Hidden(NewBank) \in BOOLEAN /\ Hidden(11 - NewBank) \in BOOLEAN
  BY DEF Closed, OwnsScreen, Hidden
<1>2. DialogFits(Tail(todo), Closed, OwnsScreen)
  BY <1>0, <1>1, TailFits
<1>3. Conceals(Tail(todo), Hidden(NewBank), TRUE)
  BY <1>0, <1>1, SlidConceals
<1>4. Conceals(Tail(todo), Hidden(NewBank)', Hidden(11 - NewBank)')
  BY <1>3 DEF Conceals
<1>5. Program(Tail(todo))
  BY <1>0, TailProgram
<1> QED
  BY <1>2, <1>4, <1>5 DEF ProgramOK

LEMMA OpenProgramOK ==
    ASSUME ProgramOK, exit = {}, todo # <<>>, todo' = Tail(todo), CallAt(todo, 1) = "open", exit' = exit,
           NewBank' = NewBank, Hidden(5)' = Hidden(5), Hidden(6)' = Hidden(6),
           todo[1][2] \in {"detail", "about"} => OwnsScreen'
    PROVE  ProgramOK'
<1>0. Program(todo) /\ Conceals(todo, Hidden(NewBank), Hidden(11 - NewBank)) /\ todo \in Seq(Calls)
  BY DEF ProgramOK, Program, Ordered
<1>1. Hidden(NewBank) \in BOOLEAN /\ Hidden(11 - NewBank) \in BOOLEAN
  BY DEF Hidden
<1>2. Conceals(Tail(todo), Hidden(NewBank), Hidden(11 - NewBank))
  BY <1>0, <1>1, TailConceals
<1>3. Hidden(NewBank)' = Hidden(NewBank) /\ Hidden(11 - NewBank)' = Hidden(11 - NewBank)
  BY Banked DEF Hidden
<1>4. CallAt(todo, 2) = "dialog_fade"
  BY <1>0, FirstFollows DEF Program, Follows
<1>5. CallAt(Tail(todo), 1) = CallAt(todo, 2) /\ CallAt(Tail(todo), 2) = CallAt(todo, 3)
  <2>1. 1 \in Nat \ {0} /\ 2 \in Nat \ {0} /\ 1 + 1 = 2 /\ 2 + 1 = 3
    OBVIOUS
  <2> QED
    BY <1>0, <2>1, TailCalls
<1>6. CallAt(todo, 3) = "end" => OwnsScreen'
  <2>1. 1 \in 1..Len(todo) /\ 1 + 2 = 3
    BY <1>0
  <2>2. CallAt(todo, 1) = "open" /\ CallAt(todo, 1 + 2) = "end" => todo[1][2] \in {"detail", "about"}
    BY <1>0, <2>1, Zenon DEF Program, Closes
  <2> QED
    BY <2>1, <2>2
<1>7. DialogFits(Tail(todo), Closed', OwnsScreen')
  BY <1>4, <1>5, <1>6 DEF DialogFits, Quiet, InDialog
<1>8. Program(Tail(todo))
  BY <1>0, TailProgram
<1> QED
  BY <1>2, <1>3, <1>7, <1>8 DEF ProgramOK

LEMMA CloseProgramOK ==
    ASSUME ProgramOK, exit = {}, todo # <<>>, todo' = Tail(todo), CallAt(todo, 1) = "close", exit' = exit,
           NewBank' = NewBank, Hidden(5)' = Hidden(5), Hidden(6)' = Hidden(6), Closed'
    PROVE  ProgramOK'
<1>0. Program(todo) /\ Conceals(todo, Hidden(NewBank), Hidden(11 - NewBank)) /\ todo \in Seq(Calls)
  BY DEF ProgramOK, Program, Ordered
<1>1. Hidden(NewBank) \in BOOLEAN /\ Hidden(11 - NewBank) \in BOOLEAN
  BY DEF Hidden
<1>2. Conceals(Tail(todo), Hidden(NewBank), Hidden(11 - NewBank))
  BY <1>0, <1>1, TailConceals
<1>3. Hidden(NewBank)' = Hidden(NewBank) /\ Hidden(11 - NewBank)' = Hidden(11 - NewBank)
  BY Banked DEF Hidden
<1>4. CallAt(todo, 2) # "dialog_fade"
  BY <1>0, FirstFollows DEF Program, Follows
<1>5. CallAt(Tail(todo), 1) = CallAt(todo, 2)
  <2>1. 1 \in Nat \ {0} /\ 1 + 1 = 2
    OBVIOUS
  <2> QED
    BY <1>0, <2>1, TailCalls
<1>7. DialogFits(Tail(todo), Closed', OwnsScreen')
  BY <1>4, <1>5 DEF DialogFits
<1>8. Program(Tail(todo))
  BY <1>0, TailProgram
<1> QED
  BY <1>2, <1>3, <1>7, <1>8 DEF ProgramOK

---------------------------------------------------------------------------
(* What a frame leaves of the views.                                       *)

Names == {"browser", "m_main", "dialog"}

LEMMA OneView ==
    ASSUME ViewsOK, NEW n \in Names, NEW v, views' = [views EXCEPT ![n] = v]
    PROVE  /\ views' = [m \in Names |-> views'[m]] /\ views'[n] = v
           /\ \A m \in Names \ {n} : views'[m] = views[m]
BY DEF ViewsOK, Names

LEMMA BubblesStep ==
    ASSUME BubblesOK, BubbleUpdate
    PROVE  BubblesOK'
<1>1. ASSUME NEW n \in Nat, NEW pop, NEW s, BubblesAs(n, pop, s)
      PROVE  BubblesOK'
  BY <1>1 DEF BubblesAs, BubblesOK
<1>2. bubble_count \in Nat /\ bubble_count + 1 \in Nat /\ (bubble_count > 0 => bubble_count - 1 \in Nat)
  BY DEF BubblesOK
<1> QED
  BY <1>1, <1>2, Zenon DEF BubbleUpdate

LEMMA PlottedKeeps ==
    ASSUME NEW K, NEW D \in SUBSET Nat, NEW v \in ScreenViews(K, D), FocusShown(v), NEW p \in D \cup {Off, -1}, NEW b, NEW up
    PROVE  KeptView(K, D, Pointed(Dragged(v, p, b, up), p), v)
<1> DEFINE u == Dragged(v, p, b, up)
<1>1. p \in Int
  BY DEF Off
<1>2. KeptView(K, D, u, v)
  BY <1>1, DraggedKeeps, Zenon
<1>3. u \in ScreenViews(K, D) /\ FocusShown(u)
  BY <1>2, Zenon DEF KeptView
<1>4. KeptView(K, D, Pointed(u, p), u)
  BY <1>3, PointedKeeps, Zenon
<1> QED
  BY <1>2, <1>4, KeptChain

\* The views with other focuses, and nothing else of them.
SameViews ==
    /\ views' = [n \in Names |-> views'[n]]
    /\ \A n \in Names : Turned(views'[n], views[n])

LEMMA TurnedOne ==
    ASSUME ViewsOK, NEW n \in Names, NEW v, views' = [views EXCEPT ![n] = v],
           LET D == DOMAIN views[n].widgets
               K == CASE n = "browser" -> {"browser"} [] n = "m_main" -> {"m_main"} [] OTHER -> DialogKinds
           IN  KeptView(K, D, v, views[n]),
           ui'.menu_index = ui.menu_index
    PROVE  ViewsOK' /\ SameViews
<1> DEFINE D == DOMAIN views[n].widgets
           K == CASE n = "browser" -> {"browser"} [] n = "m_main" -> {"m_main"} [] OTHER -> DialogKinds
<1>1. KeptView(K, D, v, views[n]) /\ Turned(v, views[n])
  BY DEF KeptView
<1>2. /\ views' = [m \in Names |-> views'[m]] /\ views'[n] = v
      /\ \A m \in Names \ {n} : views'[m] = views[m]
  BY OneView
<1>3. SameViews
  BY <1>1, <1>2, Stays DEF SameViews
<1>4. BrowserView(views["browser"]) /\ MenuView(views["m_main"], ui.menu_index) /\ DialogView(views["dialog"])
  BY DEF ViewsOK
<1>5. DOMAIN views["browser"].widgets = 0..6 /\ DOMAIN views["m_main"].widgets = 0..8
  BY <1>4 DEF BrowserView, MenuView, ScreenViews
<1>6. n = "browser" => K = {"browser"} /\ D = 0..6
  BY <1>5
<1>7. n = "m_main" => K = {"m_main"} /\ D = 0..8
  BY <1>5
<1>8. n = "dialog" => K = DialogKinds /\ D = DOMAIN views["dialog"].widgets
  OBVIOUS
<1> HIDE DEF K, D
<1>9. BrowserView(views'["browser"])
  <2>1. CASE n = "browser"
    BY <1>1, <1>2, <1>4, <1>6, <2>1, BrowserTurned
  <2>2. CASE n # "browser"
    BY <1>2, <1>4, <2>2 DEF Names
  <2> QED
    BY <2>1, <2>2
<1>10. MenuView(views'["m_main"], ui.menu_index)
  <2>1. CASE n = "m_main"
    BY <1>1, <1>2, <1>4, <1>7, <2>1, MenuTurned
  <2>2. CASE n # "m_main"
    BY <1>2, <1>4, <2>2 DEF Names
  <2> QED
    BY <2>1, <2>2
<1>11. DialogView(views'["dialog"])
  <2>1. CASE n = "dialog"
    BY <1>1, <1>2, <1>4, <1>8, <2>1, DialogTurned
  <2>2. CASE n # "dialog"
    BY <1>2, <1>4, <2>2 DEF Names
  <2> QED
    BY <2>1, <2>2
<1> QED
  BY <1>2, <1>3, <1>9, <1>10, <1>11, Zenon DEF ViewsOK, Names

LEMMA ViewDomains ==
    ASSUME ViewsOK
    PROVE  /\ DOMAIN views["browser"].widgets = 0..6 /\ DOMAIN views["m_main"].widgets = 0..8
           /\ DOMAIN views["dialog"].widgets \in SUBSET Nat
BY DialogDomain DEF ViewsOK, BrowserView, MenuView, ScreenViews

LEMMA ViewsTurned ==
    ASSUME ViewsOK, SameViews
    PROVE  /\ views'["dialog"].sub = views["dialog"].sub /\ views'["dialog"].kind = views["dialog"].kind
           /\ DOMAIN views'["dialog"].widgets = DOMAIN views["dialog"].widgets
           /\ \A n \in Names : DOMAIN views'[n].widgets = DOMAIN views[n].widgets
                               /\ \A i \in DOMAIN views[n].widgets : views'[n].widgets[i].type = views[n].widgets[i].type
           /\ Hidden(5)' = Hidden(5) /\ Hidden(6)' = Hidden(6)
<1>1. \A n \in Names : DOMAIN views'[n].widgets = DOMAIN views[n].widgets
                       /\ \A i \in DOMAIN views[n].widgets : views'[n].widgets[i].type = views[n].widgets[i].type
  BY DEF SameViews, Turned, Alike
<1>2. views'["dialog"].sub = views["dialog"].sub /\ views'["dialog"].kind = views["dialog"].kind
  BY DEF SameViews, Turned, Alike, Names
<1>3. Hidden(5)' = Hidden(5) /\ Hidden(6)' = Hidden(6)
  <2>1. 5 \in 0..6 /\ 6 \in 0..6
    OBVIOUS
  <2> QED
    BY <1>1, <2>1, ViewDomains DEF Hidden, Names
<1> QED
  BY <1>1, <1>2, <1>3 DEF Names

LEMMA SightKept ==
    ASSUME ViewsOK, SameViews, ui'.v_current = ui.v_current, ui'.first_set = ui.first_set, exit' = exit
    PROVE  SameSight
<1>1. Closed' = Closed /\ OwnsScreen' = OwnsScreen
  BY ViewsTurned DEF Closed, OwnsScreen
<1>2. NewBank' = NewBank
  BY DEF NewBank
<1> QED
  BY <1>1, <1>2, ViewsTurned DEF SameSight

LEMMA SeenIs ==
    ASSUME ViewsOK, NEW n \in Names, NEW B, NEW e \in Seen(n, B)
    PROVE  e[1] \in DOMAIN views[n].widgets \cup {Off, -1} /\ (e[2] \in B \/ e[2] = "none")
<1>1. Sized(views[n]) \subseteq DOMAIN views[n].widgets
  BY DEF Sized
<1>2. Pointers(n) \subseteq DOMAIN views[n].widgets \cup {-1}
  BY <1>1 DEF Pointers
<1>3. e \in ({Off} \X B) \cup (Pointers(n) \X {"none"}) \cup (Pointers(n) \cap {Memo}) \X (B \cap {"B"})
  BY DEF Seen
<1>4. e[1] \in {Off} \cup Pointers(n) /\ (e[2] \in B \/ e[2] = "none")
  BY <1>3
<1> QED
  BY <1>2, <1>4

LEMMA ViewKinds ==
    ASSUME ViewsOK, NEW n \in Names
    PROVE  LET D == DOMAIN views[n].widgets
               K == CASE n = "browser" -> {"browser"} [] n = "m_main" -> {"m_main"} [] OTHER -> DialogKinds
           IN  D \in SUBSET Nat /\ views[n] \in ScreenViews(K, D) /\ FocusShown(views[n])
<1>0. BrowserView(views["browser"]) /\ MenuView(views["m_main"], ui.menu_index) /\ DialogView(views["dialog"])
  BY DEF ViewsOK
<1>1. CASE n = "browser"
  <2>1. views["browser"] \in ScreenViews({"browser"}, 0..6) /\ FocusShown(views["browser"]) /\ 0..6 \in SUBSET Nat
    BY <1>0 DEF BrowserView
  <2> QED
    BY <1>1, <2>1, ViewDomains
<1>2. CASE n = "m_main"
  <2>1. views["m_main"] \in ScreenViews({"m_main"}, 0..8) /\ FocusShown(views["m_main"]) /\ 0..8 \in SUBSET Nat
    BY <1>0 DEF MenuView
  <2> QED
    BY <1>2, <2>1, ViewDomains
<1>3. CASE n = "dialog"
  BY <1>0, <1>3, DialogDomain
<1> QED
  BY <1>1, <1>2, <1>3 DEF Names

LEMMA BehindKeeps ==
    ASSUME BubblesOK, NEW e, Behind(e)
    PROVE  BubblesOK'
<1>1. CASE e = <<Off, "none">>
  BY <1>1, BubblesStep DEF Behind
<1>2. CASE e # <<Off, "none">>
  BY <1>2 DEF Behind, BubblesOK
<1> QED
  BY <1>1, <1>2

LEMMA PlotTypes ==
    ASSUME ViewsOK, UiOK, BubblesOK, NEW n \in Names, NEW B, view_plot(n, B), exit' = exit
    PROVE  ViewsOK' /\ UiOK' /\ BubblesOK' /\ SameViews /\ SameSight
           /\ (bd' \in B \/ bd' = "none") /\ (ui'.viewing # ui.viewing => bd' = "none")
<1>1. CASE /\ ui' = [ui EXCEPT !.viewing = ~@] /\ bd' = "none"
           /\ UNCHANGED <<views, bubble_count, popped, dangling>>
  <2>1. /\ ui'.v_current = ui.v_current /\ ui'.menu_index = ui.menu_index /\ ui'.first_set = ui.first_set
        /\ ui' \in [v_current : {"browser", "m_main", "dialog"}, menu_index : {"HOME", "EXIT"},
                    viewing : BOOLEAN, cursor_enabled : BOOLEAN, first_set : BOOLEAN]
    BY <1>1 DEF UiOK
  <2>2. views' = views
    BY <1>1
  <2>3. ViewsOK'
    BY <2>1, <2>2 DEF ViewsOK
  <2>4. UiOK'
    BY <2>1, <2>2 DEF UiOK, OwnsScreen
  <2>5. BubblesOK'
    BY <1>1 DEF BubblesOK
  <2>6. SameViews
    BY <2>2, Stays DEF SameViews, ViewsOK, Names
  <2> QED
    BY <1>1, <2>1, <2>3, <2>4, <2>5, <2>6, SightKept
<1>2. ASSUME NEW e \in Seen(n, B), NEW up \in BOOLEAN, Behind(e),
             views' = [views EXCEPT ![n] = IF ui.viewing THEN Pointed(Dragged(@, e[1], e[2], up), e[1]) ELSE @],
             bd' = e[2], ui' = ui
      PROVE  ViewsOK' /\ UiOK' /\ BubblesOK' /\ SameViews /\ SameSight /\ (bd' \in B \/ bd' = "none")
  <2> DEFINE v == IF ui.viewing THEN Pointed(Dragged(views[n], e[1], e[2], up), e[1]) ELSE views[n]
             D == DOMAIN views[n].widgets
             K == CASE n = "browser" -> {"browser"} [] n = "m_main" -> {"m_main"} [] OTHER -> DialogKinds
  <2>1. D \in SUBSET Nat /\ views[n] \in ScreenViews(K, D) /\ FocusShown(views[n])
    BY ViewKinds
  <2>2. e[1] \in D \cup {Off, -1} /\ (e[2] \in B \/ e[2] = "none")
    BY SeenIs
  <2>3. n \in DOMAIN views
    BY DEF ViewsOK, Names
  <2>4. views' = [views EXCEPT ![n] = v]
    BY <1>2, <2>3
  <2> HIDE DEF D, K
  <2>5. KeptView(K, D, v, views[n])
    <3>1. KeptView(K, D, Pointed(Dragged(views[n], e[1], e[2], up), e[1]), views[n])
      BY <2>1, <2>2, PlottedKeeps
    <3>2. KeptView(K, D, views[n], views[n])
      BY <2>1, KeptSame
    <3> QED
      BY <3>1, <3>2
  <2> HIDE DEF v
  <2>6. ViewsOK' /\ SameViews
    BY <1>2, <2>4, <2>5, TurnedOne DEF D, K
  <2>7. SameSight
    BY <1>2, <2>6, SightKept
  <2>8. UiOK'
    BY <1>2, <2>6, ViewsTurned DEF UiOK, OwnsScreen
  <2>9. BubblesOK'
    BY <1>2, BehindKeeps
  <2> QED
    BY <1>2, <2>2, <2>6, <2>7, <2>8, <2>9
<1> QED
  BY <1>1, <1>2 DEF view_plot

---------------------------------------------------------------------------
(* Whose pointers dangle.                                                  *)

ThemeOps == {"theme_deinit", "theme_init", "bubbles_theme_reinit", "view_theme_reinit", "browser_theme_reinit", "m_main_theme_reinit"}
PointersOK(s) == s \subseteq ViewPointers \cup Background \cup BubblePointers

\* Nothing dangles but an icon that was replaced.
Calm == theme_gfx = "live" /\ PointersOK(dangling) /\ \A h \in dangling : h[2] = "replaced"

LEMMA CalmNow ==
    ASSUME DanglingOK, CallAt(todo, 1) \notin ThemeOps, exit = {} \/ todo # <<>> \/ theme_gfx = "live", theme_gfx \in {"live", "null"}
    PROVE  Calm
<1>1. ~Gone
  BY DEF Gone, ThemeOps
<1>2. theme_gfx = "live"
  BY <1>1 DEF DanglingOK, ThemeOps
<1>3. ASSUME NEW h \in dangling
      PROVE  h[2] = "replaced"
  <2>1. Dangles(h, CallAt(todo, 1))
    BY <1>1, <1>3 DEF DanglingOK
  <2> QED
    BY <2>1 DEF Dangles, ThemeOps
<1> QED
  BY <1>2, <1>3 DEF Calm, DanglingOK, PointersOK

LEMMA CalmThen ==
    ASSUME theme_gfx' = "live", PointersOK(dangling'), \A h \in dangling' : h[2] = "replaced"
    PROVE  DanglingOK'
BY DEF DanglingOK, Dangles, PointersOK

LEMMA CalmStays ==
    ASSUME Calm, theme_gfx' = theme_gfx, dangling' \subseteq dangling
    PROVE  DanglingOK'
<1>1. PointersOK(dangling') /\ \A h \in dangling' : h[2] = "replaced"
  BY DEF Calm, PointersOK
<1> QED
  BY <1>1, CalmThen DEF Calm

LEMMA CalmPlotted ==
    ASSUME Calm, NEW S
    PROVE  Plotted(S, dangling) \subseteq dangling
<1>1. <<<<"tex_bubbles", 0>>, "theme">> \notin dangling
  BY DEF Calm
<1> QED
  BY <1>1 DEF Plotted

LEMMA CalmBubbles ==
    ASSUME Calm, BubbleUpdate
    PROVE  dangling' \subseteq dangling
<1>1. ASSUME NEW n, NEW pop, NEW s, BubblesAs(n, pop, s)
      PROVE  dangling' \subseteq s
  BY <1>1 DEF BubblesAs
<1>2. \A S : Plotted(S, dangling) \subseteq dangling
  BY CalmPlotted
<1>3. CASE BubblesAs(bubble_count, popped, dangling)
  BY <1>1, <1>3
<1>4. CASE BubblesAs(bubble_count - 1, popped, dangling)
  BY <1>1, <1>4
<1>5. CASE BubblesAs(bubble_count + 1, popped \ {bubble_count}, Plotted({<<"bubble", bubble_count>>}, dangling))
  <2>1. dangling' \subseteq Plotted({<<"bubble", bubble_count>>}, dangling)
    BY <1>1, <1>5
  <2> QED
    BY <1>2, <2>1
<1>6. ASSUME NEW i, BubblesAs(bubble_count, popped \ {i}, Plotted({<<"bubble", i>>}, dangling))
      PROVE  dangling' \subseteq dangling
  <2>1. dangling' \subseteq Plotted({<<"bubble", i>>}, dangling)
    BY <1>1, <1>6
  <2> QED
    BY <1>2, <2>1
<1>7. ASSUME NEW i, BubblesAs(bubble_count, popped \cup {i}, Plotted({<<"sub_bubble", i>>}, dangling))
      PROVE  dangling' \subseteq dangling
  <2>1. dangling' \subseteq Plotted({<<"sub_bubble", i>>}, dangling)
    BY <1>1, <1>7
  <2> QED
    BY <1>2, <2>1
<1> QED
  BY <1>3, <1>4, <1>5, <1>6, <1>7, Zenon DEF BubbleUpdate

LEMMA CalmBehind ==
    ASSUME Calm, NEW e, Behind(e)
    PROVE  dangling' \subseteq dangling
<1>1. CASE e = <<Off, "none">>
  BY <1>1, CalmBubbles DEF Behind
<1>2. CASE e # <<Off, "none">>
  BY <1>2 DEF Behind
<1> QED
  BY <1>1, <1>2

LEMMA CalmPlot ==
    ASSUME Calm, NEW n, NEW B, view_plot(n, B)
    PROVE  dangling' \subseteq dangling
<1>1. ASSUME NEW e, Behind(e)
      PROVE  dangling' \subseteq dangling
  BY <1>1, CalmBehind
<1> QED
  BY <1>1 DEF view_plot

LEMMA CalmRebuilt ==
    ASSUME Calm, NEW n, NEW ws
    PROVE  Rebuilt(n, ws, dangling) \subseteq dangling
BY DEF Rebuilt, Calm

---------------------------------------------------------------------------
(* The steps of main.  A frame that is drawn, whatever it belongs to.      *)

LEMMA InvariantParts ==
    ASSUME ScreenIInv
    PROVE  /\ ViewsOK /\ UiOK /\ BubblesOK /\ theme_gfx \in {"live", "null"} /\ apps \in BOOLEAN
           /\ ChoiceIsOffered /\ DanglingOK /\ ProgramOK
BY DEF ScreenIInv, ScreenTypes

LEMMA PlotStep ==
    ASSUME ScreenIInv, NEW n \in Names, NEW B, view_plot(n, B), GoesOn, todo # <<>>,
           CallAt(todo, 1) \notin {"open", "close", "gen", "slid"} \cup ThemeOps,
           theme_gfx' = theme_gfx, apps' = apps, exit' = exit, answer' \in 0..1
    PROVE  ScreenIInv'
<1>0. /\ ViewsOK /\ UiOK /\ BubblesOK /\ theme_gfx \in {"live", "null"} /\ apps \in BOOLEAN
      /\ ChoiceIsOffered /\ DanglingOK /\ ProgramOK
  BY InvariantParts
<1>1. ViewsOK' /\ UiOK' /\ BubblesOK' /\ SameSight
  BY <1>0, PlotTypes
<1>2. DanglingOK'
  <2>1. Calm
    BY <1>0, CalmNow
  <2> QED
    BY <2>1, CalmPlot, CalmStays
<1>3. ProgramOK'
  <2>1. CASE Done
    BY <1>0, <1>1, <2>1, DoneIs, DoneProgram
  <2>2. CASE todo' = todo
    BY <1>0, <1>1, <2>2, SameProgram
  <2> QED
    BY <2>1, <2>2 DEF GoesOn
<1>4. ChoiceIsOffered'
  BY <1>0 DEF ChoiceIsOffered
<1> QED
  BY <1>0, <1>1, <1>2, <1>3, <1>4 DEF ScreenIInv, ScreenTypes

LEMMA AnswerIs ==
    ASSUME ScreenIInv
    PROVE  answer \in 0..1
BY DEF ScreenIInv, ChoiceIsOffered

LEMMA DialogFadeKeeps ==
    ASSUME ScreenIInv, DialogFade
    PROVE  ScreenIInv'
<1>1. todo # <<>> /\ CallAt(todo, 1) = "dialog_fade"
  BY InvariantParts, DoesCall DEF DialogFade
<1>2. /\ view_plot("dialog", {"none"}) /\ GoesOn /\ theme_gfx' = theme_gfx /\ apps' = apps /\ exit' = exit /\ answer' = answer
  BY DEF DialogFade
<1> QED
  BY <1>1, <1>2, AnswerIs, PlotStep DEF ThemeOps, Names

LEMMA ProgressFramesKeep ==
    ASSUME ScreenIInv, ProgressFrames
    PROVE  ScreenIInv'
<1>1. todo # <<>> /\ CallAt(todo, 1) = "progress"
  BY InvariantParts, DoesCall DEF ProgressFrames
<1>2. /\ view_plot("dialog", {"none"}) /\ GoesOn /\ theme_gfx' = theme_gfx /\ apps' = apps /\ exit' = exit
  BY DEF ProgressFrames, GoesOn
<1>3. answer' \in 0..1
  BY AnswerIs DEF ProgressFrames
<1> QED
  BY <1>1, <1>2, <1>3, PlotStep DEF ThemeOps, Names

LEMMA SlideKeeps ==
    ASSUME ScreenIInv, Slide
    PROVE  ScreenIInv'
<1>1. todo # <<>> /\ CallAt(todo, 1) = "slide"
  BY InvariantParts, DoesCall DEF Slide
<1>2. /\ view_plot("browser", {"none"}) /\ GoesOn /\ theme_gfx' = theme_gfx /\ apps' = apps /\ exit' = exit /\ answer' = answer
  BY DEF Slide
<1> QED
  BY <1>1, <1>2, AnswerIs, PlotStep DEF ThemeOps, Names

LEMMA PlotKeeps ==
    ASSUME ScreenIInv, Plot
    PROVE  ScreenIInv'
<1>1. todo # <<>> /\ CallAt(todo, 1) = "plot"
  BY InvariantParts, DoesCall DEF Plot
<1>2. /\ view_plot(ui.v_current, Pad(Current.kind)) /\ GoesOn /\ theme_gfx' = theme_gfx /\ apps' = apps
      /\ exit' = exit /\ answer' = answer
  BY DEF Plot, GoesOn
<1>3. ui.v_current \in Names
  BY InvariantParts DEF UiOK, Names
<1> QED
  BY <1>1, <1>2, <1>3, AnswerIs, PlotStep DEF ThemeOps

LEMMA ViewFadeKeeps ==
    ASSUME ScreenIInv, ViewFade
    PROVE  ScreenIInv'
<1>0. /\ ViewsOK /\ UiOK /\ BubblesOK /\ theme_gfx \in {"live", "null"} /\ apps \in BOOLEAN
      /\ ChoiceIsOffered /\ DanglingOK /\ ProgramOK
  BY InvariantParts
<1>1. todo # <<>> /\ CallAt(todo, 1) = "fade"
  BY <1>0, DoesCall DEF ViewFade
<1>2. BubbleUpdate /\ GoesOn /\ views' = views /\ ui' = ui /\ theme_gfx' = theme_gfx /\ apps' = apps
      /\ answer' = answer /\ exit' = exit
  BY DEF ViewFade
<1>3. ViewsOK' /\ UiOK' /\ BubblesOK' /\ SameSight /\ ChoiceIsOffered'
  BY <1>0, <1>2, BubblesStep
     DEF ViewsOK, UiOK, OwnsScreen, SameSight, Closed, NewBank, Hidden, ChoiceIsOffered
<1>4. DanglingOK'
  <2>1. Calm
    BY <1>0, <1>1, CalmNow DEF ThemeOps
  <2> QED
    BY <1>2, <2>1, CalmBubbles, CalmStays
<1>5. ProgramOK'
  <2>1. CASE Done
    BY <1>0, <1>1, <1>3, <2>1, DoneIs, DoneProgram
  <2>2. CASE todo' = todo
    BY <1>0, <1>3, <2>2, SameProgram
  <2> QED
    BY <1>2, <2>1, <2>2 DEF GoesOn
<1> QED
  BY <1>0, <1>2, <1>3, <1>4, <1>5 DEF ScreenIInv, ScreenTypes

---------------------------------------------------------------------------
(* Pages: browser_gen_view.                                                *)

LEMMA Staying ==
    ASSUME ProgramOK, todo # <<>>, CallAt(todo, 1) \notin {"dialog_fade", "fade", "font_clear", "theme_deinit"}
    PROVE  exit = {}
BY LeavingCalls DEF ProgramOK

LEMMA BrowserBuilt ==
    ASSUME ViewsOK, NEW S \in SUBSET (0..6), NEW ws \in [S -> ScreenWidgets], Build("browser", ws),
           \A i \in S : "FOCUSED" \notin ws[i].flags /\ (i \in 0..4 => ws[i].type \notin {"app_entry", "picture"}),
           ui'.menu_index = ui.menu_index
    PROVE  /\ ViewsOK' /\ views'["dialog"] = views["dialog"] /\ views'["m_main"] = views["m_main"]
           /\ \A i \in S : views'["browser"].widgets[i] = ws[i]
           /\ \A i \in (0..6) \ S : views'["browser"].widgets[i] = views["browser"].widgets[i]
           /\ dangling' = Rebuilt("browser", ws, dangling)
<1> DEFINE b == views["browser"]
           new == [i \in 0..6 |-> IF i \in S THEN ws[i] ELSE b.widgets[i]]
           u == [b EXCEPT !.widgets = new]
<1>1. /\ DOMAIN views = Names /\ BrowserView(b) /\ b \in ScreenViews({"browser"}, 0..6) /\ FocusShown(b)
      /\ MenuView(views["m_main"], ui.menu_index) /\ DialogView(views["dialog"])
  BY DEF ViewsOK, BrowserView, Names
<1>2. /\ b.kind = "browser" /\ b.widgets \in [0..6 -> ScreenWidgets] /\ b.focus \in (0..6) \cup {-1}
      /\ b.sub \in {"none", "browser", "m_main"} /\ b.drag_btn \in BOOLEAN /\ b.drag \in Int
      /\ b = [kind |-> b.kind, widgets |-> b.widgets, focus |-> b.focus, sub |-> b.sub, drag_btn |-> b.drag_btn, drag |-> b.drag]
  BY <1>1 DEF ScreenViews
<1>3. DOMAIN b.widgets = 0..6 /\ DOMAIN ws = S
  BY <1>2
<1>4. views' = [views EXCEPT !["browser"] = u]
  BY <1>1, <1>3 DEF Build, Names
<1>5. new \in [0..6 -> ScreenWidgets]
  BY <1>2
<1>6. u = [kind |-> b.kind, widgets |-> new, focus |-> b.focus, sub |-> b.sub, drag_btn |-> b.drag_btn, drag |-> b.drag]
  BY <1>2
<1> HIDE DEF u
<1>7. u \in ScreenViews({"browser"}, 0..6) /\ u.widgets = new /\ u.focus = b.focus
  BY <1>2, <1>5, <1>6 DEF ScreenViews
<1>8. FocusShown(u)
  <2>1. \A i \in 0..6 : "FOCUSED" \in new[i].flags => "FOCUSED" \in b.widgets[i].flags
    OBVIOUS
  <2>2. \A i \in 0..6 : "FOCUSED" \in b.widgets[i].flags => b.focus = i
    BY <1>1, <1>3 DEF FocusShown
  <2> QED
    BY <1>7, <2>1, <2>2 DEF FocusShown
<1>9. \A i \in 0..4 : u.widgets[i].type \notin {"app_entry", "picture"}
  BY <1>1, <1>7 DEF BrowserView
<1>10. BrowserView(u)
  BY <1>7, <1>8, <1>9 DEF BrowserView
<1>11. /\ views' = [m \in Names |-> views'[m]] /\ views'["browser"] = u
       /\ \A m \in Names \ {"browser"} : views'[m] = views[m]
  BY <1>4, OneView DEF Names
<1>12. views'["dialog"] = views["dialog"] /\ views'["m_main"] = views["m_main"]
  BY <1>11 DEF Names
<1>13. ViewsOK'
  BY <1>1, <1>10, <1>11, <1>12, Zenon DEF ViewsOK, Names
<1>14. dangling' = Rebuilt("browser", ws, dangling)
  BY DEF Build
<1> QED
  BY <1>7, <1>11, <1>12, <1>13, <1>14

LEMMA GenBankKeeps ==
    ASSUME ScreenIInv, GenBank
    PROVE  ScreenIInv'
<1>0. /\ ViewsOK /\ UiOK /\ BubblesOK /\ theme_gfx \in {"live", "null"} /\ apps \in BOOLEAN
      /\ ChoiceIsOffered /\ DanglingOK /\ ProgramOK
  BY InvariantParts
<1>1. todo # <<>> /\ CallAt(todo, 1) = "gen" /\ Head(todo) = todo[1]
  BY <1>0, DoesCall DEF GenBank
<1>2. exit = {} /\ todo' = Tail(todo)
  BY <1>0, <1>1, Staying, DoneIs DEF GenBank
<1> DEFINE new == IF ui.first_set THEN 6 ELSE 5
           ws == [i \in {new} |-> IF Arg # "REMOVE" /\ apps THEN Widget("app_entry") ELSE NoWidget]
<1>3. /\ Build("browser", ws) /\ ui' = [ui EXCEPT !.first_set = ~@] /\ theme_gfx' = theme_gfx /\ bubble_count' = bubble_count
      /\ popped' = popped /\ apps' = apps /\ answer' = answer /\ exit' = exit
  BY DEF GenBank
<1>4. /\ ui'.v_current = ui.v_current /\ ui'.menu_index = ui.menu_index /\ ui'.first_set = ~ui.first_set
      /\ ui' \in [v_current : {"browser", "m_main", "dialog"}, menu_index : {"HOME", "EXIT"},
                  viewing : BOOLEAN, cursor_enabled : BOOLEAN, first_set : BOOLEAN]
  BY <1>0, <1>3 DEF UiOK
<1>5. new \in {5, 6} /\ NewBank' = new
  BY <1>0, <1>4 DEF NewBank, UiOK
<1>6. /\ ws \in [{new} -> ScreenWidgets] /\ "FOCUSED" \notin ws[new].flags
      /\ Arg = "REMOVE" => ws[new].type = "none"
  BY WidgetIs, NoWidgetIs, LayerTypes
<1> HIDE DEF ws, new
<1>7. {new} \in SUBSET (0..6) /\ new \notin 0..4 /\ new \in {new}
  BY <1>5
<1>8. /\ ViewsOK' /\ views'["dialog"] = views["dialog"]
      /\ views'["browser"].widgets[new] = ws[new] /\ dangling' = Rebuilt("browser", ws, dangling)
  BY <1>0, <1>3, <1>4, <1>6, <1>7, BrowserBuilt
<1>9. UiOK' /\ BubblesOK' /\ ChoiceIsOffered'
  BY <1>0, <1>3, <1>4, <1>8 DEF UiOK, OwnsScreen, BubblesOK, ChoiceIsOffered
<1>10. DanglingOK'
  <2>1. Calm
    BY <1>0, <1>1, CalmNow DEF ThemeOps
  <2> QED
    BY <1>3, <1>8, <2>1, CalmRebuilt, CalmStays
<1>11. ProgramOK'
  <2>1. Closed' = Closed /\ OwnsScreen' = OwnsScreen
    BY <1>4, <1>8 DEF Closed, OwnsScreen
  <2>2. todo[1][2] = "REMOVE" => Hidden(NewBank)'
    BY <1>1, <1>5, <1>6, <1>8 DEF Hidden, Arg
  <2> QED
    BY <1>0, <1>1, <1>2, <1>3, <2>1, <2>2, GenBankProgram
<1> QED
  BY <1>0, <1>3, <1>8, <1>9, <1>10, <1>11 DEF ScreenIInv, ScreenTypes

LEMMA SlidKeeps ==
    ASSUME ScreenIInv, Slid
    PROVE  ScreenIInv'
<1>0. /\ ViewsOK /\ UiOK /\ BubblesOK /\ theme_gfx \in {"live", "null"} /\ apps \in BOOLEAN
      /\ ChoiceIsOffered /\ DanglingOK /\ ProgramOK
  BY InvariantParts
<1>1. todo # <<>> /\ CallAt(todo, 1) = "slid"
  BY <1>0, DoesCall DEF Slid
<1>2. exit = {} /\ todo' = Tail(todo)
  BY <1>0, <1>1, Staying, DoneIs DEF Slid
<1> DEFINE old == 11 - NewBank
           ws == [i \in {old} |-> NoWidget]
<1>3. /\ Build("browser", ws) /\ ui' = ui /\ theme_gfx' = theme_gfx /\ bubble_count' = bubble_count
      /\ popped' = popped /\ apps' = apps /\ answer' = answer /\ exit' = exit
  BY DEF Slid
<1>5. old \in {5, 6} /\ NewBank \in {5, 6} /\ NewBank # old /\ NewBank' = NewBank
  BY <1>3 DEF NewBank
<1>6. ws \in [{old} -> ScreenWidgets] /\ "FOCUSED" \notin ws[old].flags /\ ws[old].type = "none"
  BY NoWidgetIs
<1> HIDE DEF ws
<1>7. {old} \in SUBSET (0..6) /\ old \notin 0..4 /\ old \in {old} /\ NewBank \in (0..6) \ {old}
  BY <1>5
<1>8. /\ ViewsOK' /\ views'["dialog"] = views["dialog"]
      /\ views'["browser"].widgets[old] = ws[old] /\ views'["browser"].widgets[NewBank] = views["browser"].widgets[NewBank]
      /\ dangling' = Rebuilt("browser", ws, dangling)
  BY <1>0, <1>3, <1>6, <1>7, BrowserBuilt
<1>9. UiOK' /\ BubblesOK' /\ ChoiceIsOffered'
  BY <1>0, <1>3, <1>8 DEF UiOK, OwnsScreen, BubblesOK, ChoiceIsOffered
<1>10. DanglingOK'
  <2>1. Calm
    BY <1>0, <1>1, CalmNow DEF ThemeOps
  <2> QED
    BY <1>3, <1>8, <2>1, CalmRebuilt, CalmStays
<1>11. ProgramOK'
  <2>1. Closed' = Closed /\ OwnsScreen' = OwnsScreen
    BY <1>3, <1>8 DEF Closed, OwnsScreen
  <2>2. Hidden(NewBank)' = Hidden(NewBank) /\ Hidden(11 - NewBank)'
    BY <1>5, <1>6, <1>8 DEF Hidden
  <2> QED
    BY <1>0, <1>1, <1>2, <1>3, <2>1, <2>2, SlidProgram
<1> QED
  BY <1>0, <1>3, <1>8, <1>9, <1>10, <1>11 DEF ScreenIInv, ScreenTypes

LEMMA SeenArrows ==
    ASSUME NEW v \in ScreenViews({"browser"}, 0..6), FocusShown(v), NEW w, NEW f \in [{0, 1} -> SUBSET {"VISIBLE", "ENABLED", "FOCUSABLE", "FOCUSED"}],
           \A i \in {0, 1} : f[i] \ {"VISIBLE"} = v.widgets[i].flags \ {"VISIBLE"},
           w = [v EXCEPT !.widgets = [i \in 0..6 |-> IF i \in {0, 1} THEN [v.widgets[i] EXCEPT !.flags = f[i]] ELSE v.widgets[i]]]
    PROVE  /\ w \in ScreenViews({"browser"}, 0..6) /\ FocusShown(w)
           /\ \A i \in 0..6 : w.widgets[i].type = v.widgets[i].type
<1> DEFINE new == [i \in 0..6 |-> IF i \in {0, 1} THEN [v.widgets[i] EXCEPT !.flags = f[i]] ELSE v.widgets[i]]
<1>1. /\ v.kind = "browser" /\ v.widgets \in [0..6 -> ScreenWidgets] /\ v.focus \in (0..6) \cup {-1}
      /\ v.sub \in {"none", "browser", "m_main"} /\ v.drag_btn \in BOOLEAN /\ v.drag \in Int
      /\ v = [kind |-> v.kind, widgets |-> v.widgets, focus |-> v.focus, sub |-> v.sub, drag_btn |-> v.drag_btn, drag |-> v.drag]
  BY DEF ScreenViews
<1>2. ASSUME NEW i \in 0..6
      PROVE  /\ new[i] \in ScreenWidgets /\ new[i].type = v.widgets[i].type
             /\ "FOCUSED" \in new[i].flags => "FOCUSED" \in v.widgets[i].flags
  <2>1. v.widgets[i] \in ScreenWidgets
    BY <1>1
  <2>2. CASE i \in {0, 1}
    <3>1. new[i] = [v.widgets[i] EXCEPT !.flags = f[i]]
      BY <2>2
    <3>2. f[i] \in SUBSET {"VISIBLE", "ENABLED", "FOCUSABLE", "FOCUSED"}
      BY <2>2
    <3>3. /\ "FOCUSED" \in f[i] <=> "FOCUSED" \in v.widgets[i].flags
          /\ "FOCUSABLE" \in f[i] <=> "FOCUSABLE" \in v.widgets[i].flags
      BY <2>2
    <3>4. new[i] \in ScreenWidgets
      BY <2>1, <3>1, <3>2, <3>3, WidgetOf
    <3>5. new[i].type = v.widgets[i].type /\ new[i].flags = f[i]
      BY <2>1, <3>1 DEF ScreenWidgets
    <3> QED
      BY <3>3, <3>4, <3>5
  <2>3. CASE i \notin {0, 1}
    BY <2>1, <2>3
  <2> QED
    BY <2>2, <2>3
<1>3. w = [kind |-> v.kind, widgets |-> new, focus |-> v.focus, sub |-> v.sub, drag_btn |-> v.drag_btn, drag |-> v.drag]
  BY <1>1
<1>4. new \in [0..6 -> ScreenWidgets]
  BY <1>2
<1>5. DOMAIN v.widgets = 0..6 /\ DOMAIN new = 0..6
  BY <1>1
<1> HIDE DEF new
<1>6. w.widgets = new /\ w.focus = v.focus /\ w \in ScreenViews({"browser"}, 0..6)
  BY <1>1, <1>3, <1>4 DEF ScreenViews
<1>7. FocusShown(w)
  BY <1>2, <1>5, <1>6 DEF FocusShown
<1> QED
  BY <1>2, <1>6, <1>7

LEMMA HalfKeeps ==
    ASSUME ScreenIInv, Half
    PROVE  ScreenIInv'
<1>0. /\ ViewsOK /\ UiOK /\ BubblesOK /\ theme_gfx \in {"live", "null"} /\ apps \in BOOLEAN
      /\ ChoiceIsOffered /\ DanglingOK /\ ProgramOK
  BY InvariantParts
<1>1. todo # <<>> /\ CallAt(todo, 1) = "half"
  BY <1>0, DoesCall DEF Half
<1>2. todo' = Tail(todo)
  BY <1>0, <1>1, DoneIs DEF Half
<1> DEFINE b == views["browser"]
           v == view_set_focus(b, NewBank)
           seen(w, arrows) == IF arrows /\ Arg # "REMOVE" THEN [w EXCEPT !.flags = @ \cup {"VISIBLE"}]
                              ELSE [w EXCEPT !.flags = @ \ {"VISIBLE"}]
<1>3. PICK arrows \in BOOLEAN :
         views' = [views EXCEPT !["browser"] = [v EXCEPT !.widgets[0] = seen(@, arrows), !.widgets[1] = seen(@, arrows)]]
  BY DEF Half
<1>4. /\ ui' = ui /\ theme_gfx' = theme_gfx /\ bubble_count' = bubble_count /\ dangling' = dangling
      /\ popped' = popped /\ apps' = apps /\ answer' = answer /\ exit' = exit
  BY DEF Half
<1>5. b \in ScreenViews({"browser"}, 0..6) /\ FocusShown(b) /\ BrowserView(b)
  BY <1>0 DEF ViewsOK, BrowserView
<1>6. /\ v \in ScreenViews({"browser"}, 0..6) /\ FocusShown(v) /\ Alike(v, b)
  <2>1. NewBank \in (0..6) \cup {-1} /\ 0..6 \in SUBSET Nat
    BY DEF NewBank
  <2> QED
    BY <1>5, <2>1, FocusedView
<1> HIDE DEF v
<1> DEFINE on == arrows /\ Arg # "REMOVE"
           f == [i \in {0, 1} |-> IF on THEN v.widgets[i].flags \cup {"VISIBLE"} ELSE v.widgets[i].flags \ {"VISIBLE"}]
           new == [i \in 0..6 |-> IF i \in {0, 1} THEN [v.widgets[i] EXCEPT !.flags = f[i]] ELSE v.widgets[i]]
           u == [v EXCEPT !.widgets = new]
<1>7. v.widgets \in [0..6 -> ScreenWidgets] /\ v.widgets[0] \in ScreenWidgets /\ v.widgets[1] \in ScreenWidgets
  BY <1>6 DEF ScreenViews
<1>8. /\ f \in [{0, 1} -> SUBSET {"VISIBLE", "ENABLED", "FOCUSABLE", "FOCUSED"}]
      /\ \A i \in {0, 1} : f[i] \ {"VISIBLE"} = v.widgets[i].flags \ {"VISIBLE"}
  <2>1. \A i \in {0, 1} : v.widgets[i].flags \in SUBSET {"VISIBLE", "ENABLED", "FOCUSABLE", "FOCUSED"}
    BY <1>7, WidgetOf
  <2> QED
    BY <2>1
<1>9. [v EXCEPT !.widgets[0] = seen(@, arrows), !.widgets[1] = seen(@, arrows)] = u
  <2>1. \A i \in {0, 1} : seen(v.widgets[i], arrows) = [v.widgets[i] EXCEPT !.flags = f[i]]
    OBVIOUS
  <2>2. [v.widgets EXCEPT ![0] = seen(v.widgets[0], arrows), ![1] = seen(v.widgets[1], arrows)] = new
    BY <1>7, <2>1
  <2>3. /\ v.kind = "browser" /\ v = [kind |-> v.kind, widgets |-> v.widgets, focus |-> v.focus, sub |-> v.sub, drag_btn |-> v.drag_btn, drag |-> v.drag]
    BY <1>6 DEF ScreenViews
  <2> HIDE DEF seen, new
  <2>4. [v EXCEPT !.widgets[0] = seen(@, arrows), !.widgets[1] = seen(@, arrows)]
           = [v EXCEPT !.widgets = [v.widgets EXCEPT ![0] = seen(v.widgets[0], arrows), ![1] = seen(v.widgets[1], arrows)]]
    BY <1>7, <2>3
  <2> QED
    BY <2>2, <2>4, Zenon
<1> HIDE DEF f
<1>10. u \in ScreenViews({"browser"}, 0..6) /\ FocusShown(u) /\ \A i \in 0..6 : u.widgets[i].type = v.widgets[i].type
  <2>1. u = [v EXCEPT !.widgets = [i \in 0..6 |-> IF i \in {0, 1} THEN [v.widgets[i] EXCEPT !.flags = f[i]] ELSE v.widgets[i]]]
    OBVIOUS
  <2> HIDE DEF u
  <2> QED
    BY <1>6, <1>8, <2>1, SeenArrows
<1> HIDE DEF seen, u
<1>11. \A i \in 0..6 : u.widgets[i].type = b.widgets[i].type
  BY <1>5, <1>6, <1>10 DEF Alike, ScreenViews
<1>12. BrowserView(u)
  BY <1>5, <1>10, <1>11 DEF BrowserView
<1>13. views' = [views EXCEPT !["browser"] = u]
  BY <1>3, <1>9
<1>14. /\ views' = [m \in Names |-> views'[m]] /\ views'["browser"] = u
       /\ \A m \in Names \ {"browser"} : views'[m] = views[m]
  BY <1>0, <1>13, OneView DEF Names
<1>15. views'["dialog"] = views["dialog"] /\ views'["m_main"] = views["m_main"]
  BY <1>14 DEF Names
<1>16. ViewsOK'
  BY <1>0, <1>4, <1>12, <1>14, <1>15, Zenon DEF ViewsOK, Names
<1>17. UiOK' /\ BubblesOK' /\ ChoiceIsOffered'
  BY <1>0, <1>4, <1>15 DEF UiOK, OwnsScreen, BubblesOK, ChoiceIsOffered
<1>18. DanglingOK'
  <2>1. Calm
    BY <1>0, <1>1, CalmNow DEF ThemeOps
  <2> QED
    BY <1>4, <2>1, CalmStays
<1>19. SameSight
  BY <1>4, <1>11, <1>14, <1>15 DEF SameSight, Closed, OwnsScreen, NewBank, Hidden
<1>20. ProgramOK'
  BY <1>0, <1>1, <1>2, <1>19, DoneProgram
<1> QED
  BY <1>0, <1>4, <1>16, <1>17, <1>18, <1>20 DEF ScreenIInv, ScreenTypes

---------------------------------------------------------------------------
(* Dialogs: they are opened, looped in and closed.                         *)

LEMMA OpenCalls ==
    ASSUME ProgramOK, Do("open")
    PROVE  /\ todo[1] \in Dialogs /\ todo[1] = <<"open", todo[1][2], todo[1][3]>>
           /\ todo[1][2] \in DialogKinds
<1>1. todo # <<>> /\ CallAt(todo, 1) = "open" /\ todo \in Seq(Calls)
  BY DoesCall, ProgramCalls
<1>2. todo[1] \in Calls /\ todo[1][1] = "open"
  BY <1>1, CallsAt DEF CallAt
<1>3. todo[1] \in Dialogs
  BY <1>2 DEF Calls
<1> QED
  BY <1>3 DEF Dialogs, DialogKinds

LEMMA OpenKeeps ==
    ASSUME ScreenIInv, Open
    PROVE  ScreenIInv'
<1>0. /\ ViewsOK /\ UiOK /\ BubblesOK /\ theme_gfx \in {"live", "null"} /\ apps \in BOOLEAN
      /\ ChoiceIsOffered /\ DanglingOK /\ ProgramOK
  BY InvariantParts
<1>1. todo # <<>> /\ CallAt(todo, 1) = "open" /\ Head(todo) = todo[1]
  BY <1>0, DoesCall DEF Open
<1>2. exit = {} /\ todo' = Tail(todo)
  BY <1>0, <1>1, Staying, DoneIs DEF Open
<1>3. Closed
  BY <1>0, <1>1, <1>2, OutOfDialog DEF Quiet, InDialog
<1>4. ui.v_current \in {"browser", "m_main"}
  BY <1>0, <1>3 DEF Closed, UiOK
<1> DEFINE kind == todo[1][2]
           f == todo[1][3]
           v == Dialog(kind, ui.v_current, f)
<1>5. <<"open", kind, f>> \in Dialogs
  BY <1>0, OpenCalls DEF Open
<1>6. DialogView(v) /\ v.sub = ui.v_current
  BY <1>4, <1>5, DialogOpened
<1>7. /\ views' = [views EXCEPT !["dialog"] = v] /\ dangling' = Rebuilt("dialog", v.widgets, dangling)
      /\ ui' = [ui EXCEPT !.v_current = IF kind \in {"detail", "about"} THEN "dialog" ELSE @,
                          !.cursor_enabled = IF kind = "about" THEN FALSE ELSE @]
      /\ answer' = 0 /\ theme_gfx' = theme_gfx /\ bubble_count' = bubble_count /\ popped' = popped /\ apps' = apps
      /\ exit' = exit
  BY <1>1 DEF Open, Arg
<1> HIDE DEF v
<1>8. /\ ui'.v_current = (IF kind \in {"detail", "about"} THEN "dialog" ELSE ui.v_current)
      /\ ui'.menu_index = ui.menu_index /\ ui'.first_set = ui.first_set
      /\ ui' \in [v_current : {"browser", "m_main", "dialog"}, menu_index : {"HOME", "EXIT"},
                  viewing : BOOLEAN, cursor_enabled : BOOLEAN, first_set : BOOLEAN]
  BY <1>0, <1>7 DEF UiOK
<1>9. /\ views' = [m \in Names |-> views'[m]] /\ views'["dialog"] = v
      /\ views'["browser"] = views["browser"] /\ views'["m_main"] = views["m_main"]
  BY <1>0, <1>7, OneView DEF Names
<1>10. ViewsOK'
  BY <1>0, <1>6, <1>8, <1>9, Zenon DEF ViewsOK, Names
<1>11. UiOK' /\ BubblesOK' /\ ChoiceIsOffered'
  BY <1>0, <1>4, <1>6, <1>7, <1>8, <1>9 DEF UiOK, OwnsScreen, BubblesOK, ChoiceIsOffered
<1>12. DanglingOK'
  <2>1. Calm
    BY <1>0, <1>1, CalmNow DEF ThemeOps
  <2> QED
    BY <1>7, <2>1, CalmRebuilt, CalmStays
<1>13. ProgramOK'
  <2>1. NewBank' = NewBank /\ Hidden(5)' = Hidden(5) /\ Hidden(6)' = Hidden(6)
    BY <1>8, <1>9 DEF NewBank, Hidden
  <2>2. kind \in {"detail", "about"} => OwnsScreen'
    BY <1>8 DEF OwnsScreen
  <2> QED
    BY <1>0, <1>1, <1>2, <1>7, <2>1, <2>2, OpenProgramOK
<1> QED
  BY <1>0, <1>7, <1>10, <1>11, <1>12, <1>13 DEF ScreenIInv, ScreenTypes

LEMMA CloseKeeps ==
    ASSUME ScreenIInv, Close
    PROVE  ScreenIInv'
<1>0. /\ ViewsOK /\ UiOK /\ BubblesOK /\ theme_gfx \in {"live", "null"} /\ apps \in BOOLEAN
      /\ ChoiceIsOffered /\ DanglingOK /\ ProgramOK
  BY InvariantParts
<1>1. todo # <<>> /\ CallAt(todo, 1) = "close"
  BY <1>0, DoesCall DEF Close
<1>2. exit = {} /\ todo' = Tail(todo)
  BY <1>0, <1>1, Staying, DoneIs DEF Close
<1>3. /\ views' = [views EXCEPT !["dialog"] = NoView] /\ dangling' = {h \in dangling : h[1][1] # "dialog"}
      /\ ui' = [ui EXCEPT !.v_current = IF @ = "dialog" THEN views["dialog"].sub ELSE @,
                          !.cursor_enabled = IF views["dialog"].kind = "about" THEN TRUE ELSE @]
      /\ answer' = answer /\ theme_gfx' = theme_gfx /\ bubble_count' = bubble_count /\ popped' = popped
      /\ apps' = apps /\ exit' = exit
  BY DEF Close
<1>4. (IF ui.v_current = "dialog" THEN views["dialog"].sub ELSE ui.v_current) \in {"browser", "m_main"}
  BY <1>0 DEF UiOK, OwnsScreen
<1>5. /\ ui'.v_current \in {"browser", "m_main"} /\ ui'.menu_index = ui.menu_index /\ ui'.first_set = ui.first_set
      /\ ui' \in [v_current : {"browser", "m_main", "dialog"}, menu_index : {"HOME", "EXIT"},
                  viewing : BOOLEAN, cursor_enabled : BOOLEAN, first_set : BOOLEAN]
  BY <1>0, <1>3, <1>4 DEF UiOK
<1>6. /\ views' = [m \in Names |-> views'[m]] /\ views'["dialog"] = NoView
      /\ views'["browser"] = views["browser"] /\ views'["m_main"] = views["m_main"]
  BY <1>0, <1>3, OneView DEF Names
<1>7. ViewsOK'
  BY <1>0, <1>5, <1>6, NoViewIs, Zenon DEF ViewsOK, Names
<1>8. UiOK' /\ BubblesOK' /\ ChoiceIsOffered'
  BY <1>0, <1>3, <1>5 DEF UiOK, OwnsScreen, BubblesOK, ChoiceIsOffered
<1>9. DanglingOK'
  <2>1. Calm
    BY <1>0, <1>1, CalmNow DEF ThemeOps
  <2>2. dangling' \subseteq dangling
    BY <1>3
  <2> QED
    BY <1>3, <2>1, <2>2, CalmStays
<1>10. ProgramOK'
  <2>1. NewBank' = NewBank /\ Hidden(5)' = Hidden(5) /\ Hidden(6)' = Hidden(6)
    BY <1>5, <1>6 DEF NewBank, Hidden
  <2>2. Closed'
    BY <1>5, <1>6, NoViewIs DEF Closed
  <2> QED
    BY <1>0, <1>1, <1>2, <1>3, <2>1, <2>2, CloseProgramOK
<1> QED
  BY <1>0, <1>3, <1>7, <1>8, <1>9, <1>10 DEF ScreenIInv, ScreenTypes

LEMMA EnabledKeeps ==
    ASSUME NEW K, NEW D \in SUBSET Nat, NEW v \in ScreenViews(K, D), FocusShown(v), NEW i \in Nat, NEW f,
           f = v.widgets[i].flags \cup {"ENABLED"} \/ f = v.widgets[i].flags \ {"ENABLED"},
           NEW u, u = [v EXCEPT !.widgets[i] = [v.widgets[i] EXCEPT !.flags = f]]
    PROVE  KeptView(K, D, u, v)
<1> DEFINE w == [v.widgets[i] EXCEPT !.flags = f]
           ws == [v.widgets EXCEPT ![i] = w]
<1>1. /\ v.kind \in K /\ v.widgets \in [D -> ScreenWidgets] /\ v.focus \in D \cup {-1}
      /\ v.sub \in {"none", "browser", "m_main"} /\ v.drag_btn \in BOOLEAN /\ v.drag \in Int
      /\ v = [kind |-> v.kind, widgets |-> v.widgets, focus |-> v.focus, sub |-> v.sub, drag_btn |-> v.drag_btn, drag |-> v.drag]
  BY DEF ScreenViews
<1>2. CASE i \in D
  <2>1. v.widgets[i] \in ScreenWidgets
    BY <1>1, <1>2
  <2>2. /\ f \in SUBSET {"VISIBLE", "ENABLED", "FOCUSABLE", "FOCUSED"}
        /\ "FOCUSED" \in f <=> "FOCUSED" \in v.widgets[i].flags
        /\ "FOCUSABLE" \in f <=> "FOCUSABLE" \in v.widgets[i].flags
    BY <2>1, WidgetOf
  <2>3. w \in ScreenWidgets
    BY <2>1, <2>2, WidgetOf
  <2>4. w.type = v.widgets[i].type /\ w.flags = f
    BY <2>1 DEF ScreenWidgets
  <2>5. u = [kind |-> v.kind, widgets |-> ws, focus |-> v.focus, sub |-> v.sub, drag_btn |-> v.drag_btn, drag |-> v.drag]
    BY <1>1
  <2> HIDE DEF w
  <2>6. ws \in [D -> ScreenWidgets] /\ ws[i] = w /\ \A j \in D \ {i} : ws[j] = v.widgets[j]
    BY <1>1, <1>2, <2>3
  <2>7. DOMAIN v.widgets = D /\ DOMAIN ws = D
    BY <1>1
  <2> HIDE DEF ws
  <2>8. u \in ScreenViews(K, D) /\ u.widgets = ws /\ u.focus = v.focus /\ u.kind = v.kind /\ u.sub = v.sub /\ u.drag_btn = v.drag_btn
    BY <1>1, <2>5, <2>6 DEF ScreenViews
  <2>9. ASSUME NEW j \in D
        PROVE  /\ ws[j].type = v.widgets[j].type
               /\ "FOCUSABLE" \in ws[j].flags <=> "FOCUSABLE" \in v.widgets[j].flags
               /\ "FOCUSED" \in ws[j].flags <=> "FOCUSED" \in v.widgets[j].flags
    BY <2>2, <2>4, <2>6
  <2>10. Alike(u, v)
    BY <2>7, <2>8, <2>9 DEF Alike
  <2>11. FocusShown(u)
    BY <2>7, <2>8, <2>9 DEF FocusShown
  <2> QED
    BY <2>8, <2>10, <2>11 DEF KeptView, Turned
<1>3. CASE i \notin D
  <2>1. ws = v.widgets
    BY <1>1, <1>3
  <2> HIDE DEF ws
  <2>2. u = [kind |-> v.kind, widgets |-> ws, focus |-> v.focus, sub |-> v.sub, drag_btn |-> v.drag_btn, drag |-> v.drag]
    BY <1>1 DEF ws
  <2>3. u = v
    BY <1>1, <2>1, <2>2, Zenon
  <2> QED
    BY <2>3, KeptSame
<1> QED
  BY <1>2, <1>3

\* A message that ends returns one of its buttons.
LEMMA AnswerOffered ==
    ASSUME NEW v, DialogView(v), v.kind \in {"ok", "yesno"}, NEW b, Ends(v, b)
    PROVE  v.focus - Memo \in 0..1
<1>1. v.focus # -1
  BY DEF Ends
<1>2. v \in ScreenViews(DialogKinds, DOMAIN v.widgets) /\ Chosen(v)
  BY DialogDomain
<1>3. v.focus \in DOMAIN v.widgets /\ v.widgets[v.focus].type = "button"
  BY <1>1, <1>2 DEF ScreenViews, Chosen
<1>4. v.focus \in DialogWidgets(v.kind) /\ Types(v.kind)[v.focus + 1] = "button"
  BY <1>3 DEF DialogView
<1>5. v.focus \in 0..(Len(Types(v.kind)) - 1)
  BY <1>4 DEF DialogWidgets
<1>6. CASE v.kind = "ok"
  <2>0. Len(Types("ok")) - 1 = 6
    BY MessageTypes
  <2>1. \A i \in 1..6 : Types("ok")[i] # "button"
    BY MessageTypes
  <2>2. v.focus \in 0..6 /\ Types("ok")[v.focus + 1] = "button"
    <3>1. v.focus \in 0..(Len(Types("ok")) - 1) /\ Types("ok")[v.focus + 1] = "button"
      BY <1>4, <1>5, <1>6, Zenon
    <3> QED
      BY <2>0, <3>1, Zenon
  <2>3. v.focus + 1 \notin 1..6
    BY <2>1, <2>2
  <2> QED
    BY <2>2, <2>3 DEF Memo
<1>7. CASE v.kind = "yesno"
  <2>0. Len(Types("yesno")) - 1 = 7
    BY MessageTypes
  <2>1. \A i \in 1..6 : Types("yesno")[i] # "button"
    BY MessageTypes
  <2>2. v.focus \in 0..7 /\ Types("yesno")[v.focus + 1] = "button"
    <3>1. v.focus \in 0..(Len(Types("yesno")) - 1) /\ Types("yesno")[v.focus + 1] = "button"
      BY <1>4, <1>5, <1>7, Zenon
    <3> QED
      BY <2>0, <3>1, Zenon
  <2>3. v.focus + 1 \notin 1..6
    BY <2>1, <2>2
  <2> QED
    BY <2>2, <2>3 DEF Memo
<1> QED
  BY <1>6, <1>7

LEMMA LoopKeeps ==
    ASSUME ScreenIInv, Loop
    PROVE  ScreenIInv'
<1>0. /\ ViewsOK /\ UiOK /\ BubblesOK /\ theme_gfx \in {"live", "null"} /\ apps \in BOOLEAN
      /\ ChoiceIsOffered /\ DanglingOK /\ ProgramOK
  BY InvariantParts
<1>1. todo # <<>> /\ CallAt(todo, 1) = "loop"
  BY <1>0, DoesCall DEF Loop
<1>2. ui' = ui /\ theme_gfx' = theme_gfx /\ apps' = apps /\ exit' = exit
  BY DEF Loop
<1> DEFINE d == views["dialog"]
           Frame_(e, late) == Moved(Pointed(d, e[1]), e[2], late)
<1>3. PICK e \in Seen("dialog", Pad(d.kind)), late \in BOOLEAN :
         /\ Behind(e)
         /\ \/ views' = [views EXCEPT !["dialog"] = Frame_(e, late)]
            \/ \E i \in {4, 5}, on \in BOOLEAN : views' = [views EXCEPT !["dialog"].widgets[i] = Enabled(@, on)]
         /\ IF Ends(Frame_(e, late), e[2])
            THEN Done /\ answer' = (IF Frame_(e, late).kind \in {"ok", "yesno"} THEN Frame_(e, late).focus - Memo ELSE 0)
            ELSE UNCHANGED <<todo, answer>>
  BY DEF Loop
<1> DEFINE v == Frame_(e, late)
           D == DOMAIN d.widgets
<1>4. DialogView(d) /\ d \in ScreenViews(DialogKinds, D) /\ FocusShown(d) /\ D \in SUBSET Nat
  BY <1>0, DialogDomain DEF ViewsOK
<1>5. e[1] \in D \cup {Off, -1}
  BY <1>0, SeenIs DEF Names
<1> HIDE DEF D
<1>6. KeptView(DialogKinds, D, v, d)
  <2> DEFINE p == Pointed(d, e[1])
  <2>1. KeptView(DialogKinds, D, p, d)
    BY <1>4, <1>5, PointedKeeps
  <2>2. p \in ScreenViews(DialogKinds, D) /\ FocusShown(p)
    BY <2>1 DEF KeptView
  <2> HIDE DEF p
  <2>3. KeptView(DialogKinds, D, Moved(p, e[2], late), p)
    BY <1>4, <2>2, MovedKeeps
  <2>4. KeptView(DialogKinds, D, Moved(p, e[2], late), d)
    BY <1>4, <2>1, <2>3, KeptChain
  <2> QED
    BY <2>4 DEF p
<1> HIDE DEF Frame_
<1>7. DialogView(v)
  BY <1>4, <1>6, DialogTurned DEF D
<1>8. \E w : KeptView(DialogKinds, D, w, d) /\ views' = [views EXCEPT !["dialog"] = w]
  <2>1. CASE views' = [views EXCEPT !["dialog"] = v]
    BY <1>6, <2>1
  <2>2. ASSUME NEW i \in {4, 5}, NEW on \in BOOLEAN, views' = [views EXCEPT !["dialog"].widgets[i] = Enabled(@, on)]
        PROVE  \E w : KeptView(DialogKinds, D, w, d) /\ views' = [views EXCEPT !["dialog"] = w]
    <3> DEFINE f == IF on THEN d.widgets[i].flags \cup {"ENABLED"} ELSE d.widgets[i].flags \ {"ENABLED"}
               w == [d EXCEPT !.widgets[i] = [d.widgets[i] EXCEPT !.flags = f]]
    <3>1. KeptView(DialogKinds, D, w, d)
      <4>1. f = d.widgets[i].flags \cup {"ENABLED"} \/ f = d.widgets[i].flags \ {"ENABLED"}
        OBVIOUS
      <4> HIDE DEF f
      <4>2. i \in Nat
        OBVIOUS
      <4> QED
        BY <1>4, <4>1, <4>2, EnabledKeeps
    <3>2. views' = [views EXCEPT !["dialog"] = w]
      <4>1. "dialog" \in DOMAIN views
        BY <1>0 DEF ViewsOK
      <4>2. views' = [views EXCEPT !["dialog"] = [d EXCEPT !.widgets[i] = Enabled(d.widgets[i], on)]]
        BY <2>2, <4>1, <1>4 DEF ScreenViews
      <4>3. Enabled(d.widgets[i], on) = [d.widgets[i] EXCEPT !.flags = f]
        BY DEF Enabled
      <4> QED
        BY <4>2, <4>3
    <3> QED
      BY <3>1, <3>2
  <2> QED
    BY <1>3, <2>1, <2>2
<1>9. PICK w : KeptView(DialogKinds, D, w, d) /\ views' = [views EXCEPT !["dialog"] = w]
  BY <1>8
<1>10. ViewsOK' /\ SameViews
  BY <1>0, <1>2, <1>9, TurnedOne DEF D, Names
<1>11. SameSight
  BY <1>0, <1>2, <1>10, SightKept
<1>12. BubblesOK'
  BY <1>0, <1>3, BehindKeeps
<1>13. UiOK'
  BY <1>0, <1>2, <1>10, ViewsTurned DEF UiOK, OwnsScreen
<1>14. ChoiceIsOffered'
  <2>1. answer \in 0..1
    BY AnswerIs
  <2>2. answer' \in 0..1
    BY <1>3, <1>7, <2>1, AnswerOffered
  <2> QED
    BY <1>0, <1>2, <2>2 DEF ChoiceIsOffered
<1>15. DanglingOK'
  <2>1. Calm
    BY <1>0, <1>1, CalmNow DEF ThemeOps
  <2> QED
    BY <1>2, <1>3, <2>1, CalmBehind, CalmStays
<1>16. ProgramOK'
  <2>1. CASE Done
    BY <1>0, <1>1, <1>11, <2>1, DoneIs, DoneProgram
  <2>2. CASE todo' = todo
    BY <1>0, <1>11, <2>2, SameProgram
  <2> QED
    BY <1>3, <2>1, <2>2
<1> QED
  BY <1>0, <1>2, <1>10, <1>12, <1>13, <1>14, <1>15, <1>16 DEF ScreenIInv, ScreenTypes

---------------------------------------------------------------------------
(* What is freed, and what pointed to it.                                  *)

LEMMA NeedsOne ==
    ASSUME NEW type \in DOMAIN Layers, NEW S, \A i \in DOMAIN Layers[type] : Layers[type][i].needs \subseteq S
    PROVE  Needs(type) \subseteq S
BY DEF Needs

LEMMA FourLayers ==
    ASSUME NEW x, NEW y, NEW z, NEW a
    PROVE  Append(<<x, y, z>>, a) = <<x, y, z, a>>
<1> DEFINE S == {x, y, z, a}
           s == <<x, y, z>>
           t == <<x, y, z, a>>
<1>1. s \in Seq(S) /\ t \in Seq(S) /\ a \in S
  OBVIOUS
<1>2. Append(s, a) \in Seq(S) /\ Len(Append(s, a)) = 4 /\ Len(t) = 4
  BY <1>1
<1>3. \A i \in 1..4 : Append(s, a)[i] = t[i]
  BY <1>1
<1> HIDE DEF s, t, S
<1>4. Len(Append(s, a)) = Len(t) /\ \A i \in 1..Len(Append(s, a)) : Append(s, a)[i] = t[i]
  BY <1>2, <1>3
<1>5. Append(s, a) = t
  BY <1>1, <1>2, <1>4, SeqEqual
<1> QED
  BY <1>5 DEF s, t

LEMMA NeedsAre ==
    ASSUME NEW type \in DOMAIN Layers
    PROVE  "icon" \in Needs(type) => type \in {"picture", "app_entry"}
<1> DEFINE S == {"theme", "glyph"}
<1>3. \A flags, invert, op, needs : Layer(flags, invert, op, needs).needs = needs
  BY DEF Layer
<1>4. \A op, needs : Always(op, needs).needs = needs
  BY <1>3 DEF Always
<1>5. CASE type = "none"
  <2>1. Layers[type] = <<>>
    BY <1>5 DEF Layers
  <2>2. \A i \in DOMAIN Layers[type] : Layers[type][i].needs \subseteq S
    BY <2>1
  <2> QED
    BY <2>2, NeedsOne
<1>6. CASE type = "label"
  <2>1. Layers[type] = <<Always("entity", {"glyph"})>>
    BY <1>6 DEF Layers
  <2>2. \A i \in DOMAIN Layers[type] : Layers[type][i].needs \subseteq S
    BY <1>4, <2>1
  <2> QED
    BY <2>2, NeedsOne
<1>7. CASE type = "image"
  <2>1. Layers[type] = <<Layer({"ENABLED"}, {}, "entity", {"theme"})>>
    BY <1>7 DEF Layers
  <2>2. \A i \in DOMAIN Layers[type] : Layers[type][i].needs \subseteq S
    BY <1>3, <2>1
  <2> QED
    BY <2>2, NeedsOne
<1>8. CASE type = "lamp"
  <2>1. Layers[type] = <<Layer({"ENABLED"}, {}, "entity", {"theme"}), Layer({"ENABLED"}, {"ENABLED"}, "entity", {"theme"})>>
    BY <1>8 DEF Layers
  <2>2. \A i \in DOMAIN Layers[type] : Layers[type][i].needs \subseteq S
    BY <1>3, <2>1
  <2> QED
    BY <2>2, NeedsOne
<1>9. CASE type = "button"
  <2>1. Layers[type] = Append(Faces, Always("entity", {"glyph"}))
    BY <1>9 DEF Layers
  <2> DEFINE a == Always("entity", {"glyph"})
    <2>2. a.needs = {"glyph"}
    BY <1>4
  <2> HIDE DEF a
  <2>4. Append(Faces, a) = <<Layer({"FOCUSED", "ENABLED"}, {"FOCUSED"}, "entity", {"theme"}),
                             Layer({"ENABLED"}, {"ENABLED"}, "entity", {"theme"}),
                             Layer({"FOCUSED", "ENABLED"}, {}, "entity", {"theme"}), a>>
    BY FourLayers DEF Faces
  <2>6. \A i \in DOMAIN Layers[type] : Layers[type][i].needs \subseteq S
    <3> DEFINE t == <<Layer({"FOCUSED", "ENABLED"}, {"FOCUSED"}, "entity", {"theme"}),
                      Layer({"ENABLED"}, {"ENABLED"}, "entity", {"theme"}),
                      Layer({"FOCUSED", "ENABLED"}, {}, "entity", {"theme"}), a>>
    <3>1. \A i \in DOMAIN t : t[i].needs \subseteq S
      BY <1>3, <2>2
    <3> HIDE DEF t
    <3>2. Layers[type] = t
      BY <2>1, <2>4, Zenon DEF a, t
    <3> QED
      BY <3>1, <3>2
  <2> QED
    BY <2>6, NeedsOne
<1>10. CASE type = "progress"
  <2>1. Layers[type] = <<Always("entity", {}), Always("entity", {"theme"}), Always("entity", {"glyph"})>>
    BY <1>10 DEF Layers
  <2>2. \A i \in DOMAIN Layers[type] : Layers[type][i].needs \subseteq S
    BY <1>4, <2>1
  <2> QED
    BY <2>2, NeedsOne
<1>11. CASE type = "memo"
  <2>1. Layers[type] = <<Always("scissor", {}), Always("entity", {"glyph"}), Always("scissor_reset", {})>>
    BY <1>11 DEF Layers
  <2>2. \A i \in DOMAIN Layers[type] : Layers[type][i].needs \subseteq S
    BY <1>4, <2>1
  <2> QED
    BY <2>2, NeedsOne
<1> QED
  BY <1>5, <1>6, <1>7, <1>8, <1>9, <1>10, <1>11, LayerTypes

LEMMA ViewHolders ==
    ASSUME ViewsOK, NEW kind \in {"theme", "glyph", "icon"}, NEW h \in Holders(kind), kind # "theme" \/ h \notin Fixtures
    PROVE  \E n \in Names : \E i \in DOMAIN views[n].widgets :
              h = <<<<n, i>>, kind>> /\ kind \in Needs(views[n].widgets[i].type)
<1>1. DOMAIN views = Names
  BY DEF ViewsOK, Names
<1> DEFINE A(n) == {<<<<n, i>>, kind>> : i \in {j \in DOMAIN views[n].widgets : kind \in Needs(views[n].widgets[j].type)}}
           B == UNION {A(n) : n \in DOMAIN views}
<1>2. h \in B \/ (kind = "theme" /\ h \in Fixtures)
  <2>1. Holders(kind) = B \cup IF kind = "theme" THEN Fixtures ELSE {}
    BY Zenon DEF Holders
  <2> HIDE DEF B
  <2> QED
    BY <2>1
<1>3. PICK n \in Names : h \in A(n)
  BY <1>1, <1>2
<1>4. PICK i \in {j \in DOMAIN views[n].widgets : kind \in Needs(views[n].widgets[j].type)} : h = <<<<n, i>>, kind>>
  BY <1>3
<1> QED
  BY <1>4

LEMMA HoldersOf ==
    ASSUME ViewsOK, BubblesOK, NEW kind \in {"theme", "glyph", "icon"}
    PROVE  PointersOK(Holders(kind))
<1>1. ASSUME NEW h \in Holders(kind), kind # "theme" \/ h \notin Fixtures
      PROVE  h \in ViewPointers
  <2>1. PICK n \in Names : \E i \in DOMAIN views[n].widgets : h = <<<<n, i>>, kind>>
    BY <1>1, ViewHolders
  <2>2. PICK i \in DOMAIN views[n].widgets : h = <<<<n, i>>, kind>>
    BY <2>1
  <2>3. <<n, i>> \in ({"browser"} \X (0..6)) \cup ({"m_main"} \X (0..8)) \cup ({"dialog"} \X Int)
    BY <2>2, ViewDomains DEF Names
  <2> QED
    BY <2>2, <2>3 DEF ViewPointers
<1>2. ASSUME NEW h \in Fixtures
      PROVE  h \in Background \cup BubblePointers
  <2>1. BubbleRefs \subseteq BubblePointers
    BY DEF BubbleRefs, BubblePointers, BubblesOK
  <2> QED
    BY <1>2, <2>1 DEF Fixtures, BubblePointers
<1> QED
  BY <1>1, <1>2 DEF PointersOK

LEMMA NoIcons ==
    ASSUME ViewsOK, Hidden(5), Hidden(6), Closed
    PROVE  Holders("icon") = {}
<1>1. ASSUME NEW h \in Holders("icon") PROVE FALSE
  <2>1. PICK n \in Names : \E i \in DOMAIN views[n].widgets :
              h = <<<<n, i>>, "icon">> /\ "icon" \in Needs(views[n].widgets[i].type)
    BY <1>1, ViewHolders
  <2>2. PICK i \in DOMAIN views[n].widgets : "icon" \in Needs(views[n].widgets[i].type)
    BY <2>1
  <2>3. views[n].widgets[i].type \in DOMAIN Layers
    <3>1. views[n].widgets \in [DOMAIN views[n].widgets -> ScreenWidgets]
      BY ViewKinds DEF ScreenViews
    <3> QED
      BY <3>1 DEF ScreenWidgets
  <2>4. views[n].widgets[i].type \in {"picture", "app_entry"}
    BY <2>2, <2>3, NeedsAre
  <2>5. n # "dialog"
    BY DEF Closed
  <2>6. n # "m_main"
    BY <2>4, ViewDomains DEF ViewsOK, MenuView
  <2>7. n # "browser"
    <3>1. SUFFICES ASSUME n = "browser" PROVE FALSE
      OBVIOUS
    <3>2. i \in 0..6
      BY <3>1, ViewDomains
    <3>3. i \notin 0..4
      BY <2>4, <3>1 DEF ViewsOK, BrowserView
    <3> QED
      BY <2>4, <3>1, <3>2, <3>3 DEF Hidden
  <2> QED
    BY <2>5, <2>6, <2>7 DEF Names
<1> QED
  BY <1>1

\* A call that leaves the views as they are.
LEMMA QuietCall ==
    ASSUME ScreenIInv, todo # <<>>, todo' = Tail(todo), CallAt(todo, 1) \notin {"open", "close", "gen", "slid"},
           views' = views, ui' = ui, answer' = answer, exit' = exit, bubble_count' \in Nat,
           popped' \subseteq 0..(bubble_count' - 1), theme_gfx' \in {"live", "null"}, apps' \in BOOLEAN, DanglingOK'
    PROVE  ScreenIInv'
<1>0. ViewsOK /\ UiOK /\ ChoiceIsOffered /\ ProgramOK
  BY InvariantParts
<1>1. ViewsOK' /\ UiOK' /\ BubblesOK' /\ SameSight /\ ChoiceIsOffered'
  BY <1>0 DEF ViewsOK, UiOK, OwnsScreen, SameSight, Closed, NewBank, Hidden, BubblesOK,
     ChoiceIsOffered
<1>2. ProgramOK'
  BY <1>0, <1>1, DoneProgram
<1> QED
  BY <1>1, <1>2 DEF ScreenIInv, ScreenTypes

\* Before an icon is freed the page and the dialog are gone.
LEMMA PageIsHidden ==
    ASSUME ScreenIInv, todo # <<>>, CallAt(todo, 1) \in {"app_entries_free", "app_entry_remove"}
    PROVE  Hidden(5) /\ Hidden(6) /\ Closed
<1>0. ViewsOK /\ ProgramOK
  BY InvariantParts
<1>1. exit = {}
  BY <1>0, Staying
<1>2. Closed
  BY <1>0, <1>1, OutOfDialog DEF Quiet, InDialog
<1>3. Conceals(todo, Hidden(NewBank), Hidden(11 - NewBank)) /\ 1 \in 1..Len(todo)
  BY <1>0, <1>1, ProgramCalls DEF ProgramOK
<1>4. Hidden(NewBank) /\ Hidden(11 - NewBank)
  BY <1>3 DEF Conceals, Frees
<1>5. (NewBank = 5 /\ 11 - NewBank = 6) \/ (NewBank = 6 /\ 11 - NewBank = 5)
  BY DEF NewBank
<1> QED
  BY <1>2, <1>4, <1>5

\* What the call after this one is.
LEMMA NextCall ==
    ASSUME ScreenIInv, todo # <<>>, exit = {}, todo' = Tail(todo)
    PROVE  CallAt(todo', 1) \in Follows[CallAt(todo, 1)]
<1>1. Program(todo) /\ todo \in Seq(Calls)
  BY InvariantParts, ProgramCalls DEF ProgramOK
<1>2. 1 \in Nat \ {0} /\ 1 + 1 = 2
  OBVIOUS
<1>3. CallAt(Tail(todo), 1) = CallAt(todo, 2)
  BY <1>1, <1>2, TailCalls
<1> QED
  BY <1>1, <1>3, FirstFollows DEF Program

LEMMA FreeIcons ==
    ASSUME ScreenIInv, todo # <<>>, todo' = Tail(todo), CallAt(todo, 1) \in {"app_entries_free", "app_entry_remove"},
           dangling' = dangling \cup Holders("icon"), theme_gfx' = theme_gfx
    PROVE  DanglingOK'
<1>1. Calm
  BY InvariantParts, CalmNow DEF ThemeOps
<1>2. Holders("icon") = {}
  BY PageIsHidden, NoIcons, InvariantParts
<1> QED
  BY <1>1, <1>2, CalmStays

LEMMA FreeGlyphs ==
    ASSUME ScreenIInv, todo # <<>>, todo' = Tail(todo), CallAt(todo, 1) = "font_clear",
           dangling' = dangling \cup Holders("glyph"), theme_gfx' = theme_gfx, exit' = exit
    PROVE  DanglingOK'
<1>0. ViewsOK /\ BubblesOK /\ ProgramOK
  BY InvariantParts
<1>1. Calm
  BY InvariantParts, CalmNow DEF ThemeOps
<1>2. PointersOK(dangling')
  BY <1>0, <1>1, HoldersOf DEF Calm, PointersOK
<1>3. CallAt(todo', 1) = "theme_deinit"
  <2>1. CASE exit = {}
    BY <2>1, NextCall DEF Follows
  <2>2. CASE exit # {}
    BY <1>0, <2>2, LeavingCalls DEF ProgramOK
  <2> QED
    BY <2>1, <2>2
<1>4. ASSUME exit = {}, NEW h \in dangling'
      PROVE  Dangles(h, "theme_deinit")
  <2>1. Closed
    BY <1>0, <1>4, OutOfDialog DEF Quiet, InDialog
  <2>2. CASE h \in dangling
    BY <1>1, <2>2 DEF Calm, Dangles
  <2>3. CASE h \in Holders("glyph")
    <3>1. PICK n \in Names : \E i \in DOMAIN views[n].widgets : h = <<<<n, i>>, "glyph">>
      BY <1>0, <2>3, ViewHolders
    <3>2. n \in {"browser", "m_main"}
      BY <2>1, <3>1 DEF Names, Closed
    <3>3. h[1][1] = n
      BY <3>1
    <3> QED
      BY <3>2, <3>3 DEF Dangles
  <2> QED
    BY <1>4, <2>2, <2>3
<1> QED
  BY <1>1, <1>2, <1>3, <1>4 DEF DanglingOK, PointersOK, Calm, Gone

LEMMA FreeTextures ==
    ASSUME ScreenIInv, todo # <<>>, todo' = Tail(todo), CallAt(todo, 1) = "theme_deinit",
           dangling' = dangling \cup Holders("theme"), theme_gfx' = "null", exit' = exit
    PROVE  DanglingOK'
<1>0. ViewsOK /\ BubblesOK /\ ProgramOK /\ DanglingOK
  BY InvariantParts
<1>2. PointersOK(dangling')
  BY <1>0, HoldersOf DEF DanglingOK, PointersOK
<1>3. CASE exit = {}
  <2>1. CallAt(todo', 1) = "theme_init"
    BY <1>3, NextCall DEF Follows
  <2>2. Closed
    BY <1>0, <1>3, OutOfDialog DEF Quiet, InDialog
  <2>3. ASSUME NEW h \in dangling'
        PROVE  Dangles(h, "theme_init")
    <3>1. CASE h \in dangling
      <4>1. ~Gone
        BY <1>3 DEF Gone
      <4>2. Dangles(h, "theme_deinit")
        BY <1>0, <3>1, <4>1 DEF DanglingOK
      <4> QED
        BY <4>2 DEF Dangles
    <3>2. CASE h \in Fixtures
      <4>1. h \in Background \/ h \in BubblePointers
        BY <1>0, <3>2 DEF Fixtures, BubbleRefs, BubblePointers, BubblesOK
      <4> QED
        BY <4>1 DEF Dangles
    <3>3. CASE h \in Holders("theme") /\ h \notin Fixtures
      <4>1. PICK n \in Names : \E i \in DOMAIN views[n].widgets : h = <<<<n, i>>, "theme">>
        BY <1>0, <3>3, ViewHolders
      <4>2. n \in {"browser", "m_main"}
        BY <2>2, <4>1 DEF Names, Closed
      <4>3. h[1][1] = n
        BY <4>1
      <4> QED
        BY <4>2, <4>3 DEF Dangles
    <3> QED
      BY <2>3, <3>1, <3>2, <3>3
  <2> QED
    BY <1>2, <2>1, <2>3 DEF DanglingOK, PointersOK
<1>4. CASE exit # {}
  <2>1. todo' = <<>>
    BY <1>0, <1>4, LeavingCalls DEF ProgramOK
  <2>2. Gone'
    BY <1>4, <2>1 DEF Gone
  <2> QED
    BY <1>2, <2>1, <2>2 DEF DanglingOK, PointersOK
<1> QED
  BY <1>3, <1>4

LEMMA FreeKeeps ==
    ASSUME ScreenIInv, Free
    PROVE  ScreenIInv'
<1>0. /\ ViewsOK /\ UiOK /\ BubblesOK /\ theme_gfx \in {"live", "null"} /\ apps \in BOOLEAN
      /\ ChoiceIsOffered /\ DanglingOK /\ ProgramOK
  BY InvariantParts
<1>1. Done /\ views' = views /\ bubble_count' = bubble_count /\ popped' = popped /\ ui' = ui /\ answer' = answer /\ exit' = exit
  BY DEF Free
<1>2. PICK op \in {"font_clear", "theme_deinit", "app_entries_free", "app_entry_remove"} : Do(op)
  BY DEF Free
<1>3. todo # <<>> /\ CallAt(todo, 1) = op /\ todo' = Tail(todo)
  BY <1>0, <1>1, <1>2, DoesCall, DoneIs
<1>4. \A x : Do(x) => x = op
  BY <1>2 DEF Do
<1>5. DanglingOK' /\ theme_gfx' \in {"live", "null"} /\ apps' \in BOOLEAN
  <2>1. CASE op = "font_clear"
    <3>1. dangling' = dangling \cup Holders("glyph") /\ theme_gfx' = theme_gfx /\ apps' = apps
      BY <1>4, <2>1 DEF Free
    <3> QED
      BY <1>0, <1>1, <1>3, <2>1, <3>1, FreeGlyphs
  <2>2. CASE op = "theme_deinit"
    <3>1. dangling' = dangling \cup Holders("theme") /\ theme_gfx' = "null" /\ apps' = apps
      BY <1>4, <2>2 DEF Free
    <3> QED
      BY <1>0, <1>1, <1>3, <2>2, <3>1, FreeTextures
  <2>3. CASE op \in {"app_entries_free", "app_entry_remove"}
    <3>1. dangling' = dangling \cup Holders("icon") /\ theme_gfx' = theme_gfx /\ apps' \in BOOLEAN
      BY <1>4, <2>3 DEF Free
    <3> QED
      BY <1>0, <1>3, <2>3, <3>1, FreeIcons
  <2> QED
    BY <2>1, <2>2, <2>3
<1>6. bubble_count' \in Nat /\ popped' \subseteq 0..(bubble_count' - 1)
  BY <1>0, <1>1 DEF BubblesOK
<1> QED
  BY <1>1, <1>3, <1>5, <1>6, QuietCall

LEMMA AddEntryKeeps ==
    ASSUME ScreenIInv, AddEntry
    PROVE  ScreenIInv'
<1>0. /\ ViewsOK /\ UiOK /\ BubblesOK /\ theme_gfx \in {"live", "null"} /\ apps \in BOOLEAN
      /\ ChoiceIsOffered /\ DanglingOK /\ ProgramOK
  BY InvariantParts
<1>1. todo # <<>> /\ CallAt(todo, 1) = "app_entry_add" /\ todo' = Tail(todo)
  BY <1>0, DoesCall, DoneIs DEF AddEntry
<1>2. /\ views' = views /\ bubble_count' = bubble_count /\ popped' = popped /\ ui' = ui /\ answer' = answer
      /\ exit' = exit /\ theme_gfx' = theme_gfx /\ apps' = TRUE
      /\ dangling' \in {dangling, dangling \cup {<<h[1], "replaced">> : h \in Holders("icon")}}
  BY DEF AddEntry
<1>3. Calm
  BY <1>0, <1>1, CalmNow DEF ThemeOps
<1>4. ASSUME NEW h \in Holders("icon")
      PROVE  <<h[1], "replaced">> \in ViewPointers
  <2>1. PICK n \in Names : \E i \in DOMAIN views[n].widgets : h = <<<<n, i>>, "icon">>
    BY <1>0, <1>4, ViewHolders
  <2>2. PICK i \in DOMAIN views[n].widgets : h = <<<<n, i>>, "icon">>
    BY <2>1
  <2>3. <<n, i>> \in ({"browser"} \X (0..6)) \cup ({"m_main"} \X (0..8)) \cup ({"dialog"} \X Int)
    BY <1>0, <2>2, ViewDomains DEF Names
  <2> QED
    BY <2>2, <2>3 DEF ViewPointers
<1>5. PointersOK(dangling') /\ \A h \in dangling' : h[2] = "replaced"
  BY <1>2, <1>3, <1>4 DEF Calm, PointersOK
<1>6. DanglingOK'
  BY <1>2, <1>3, <1>5, CalmThen DEF Calm
<1> QED
  BY <1>0, <1>1, <1>2, <1>6, QuietCall DEF BubblesOK

\* The calls of refresh_theme: main does not leave, and textures are there again.
LEMMA InTheme ==
    ASSUME ScreenIInv, todo # <<>>,
           CallAt(todo, 1) \in {"theme_init", "bubbles_theme_reinit", "view_theme_reinit", "browser_theme_reinit", "m_main_theme_reinit"}
    PROVE  /\ exit = {} /\ \A h \in dangling : Dangles(h, CallAt(todo, 1))
           /\ PointersOK(dangling) /\ (CallAt(todo, 1) # "theme_init" => theme_gfx = "live")
<1>1. exit = {} /\ DanglingOK /\ theme_gfx \in {"live", "null"}
  BY InvariantParts, Staying
<1> QED
  BY <1>1 DEF DanglingOK, Gone, PointersOK

LEMMA LiveNext ==
    ASSUME theme_gfx' = "live", PointersOK(dangling'), exit' = {}, \A h \in dangling' : Dangles(h, CallAt(todo', 1))
    PROVE  DanglingOK'
BY DEF DanglingOK, PointersOK

LEMMA KindsOfPointers ==
    ASSUME NEW s, PointersOK(s), NEW h \in s
    PROVE  /\ h[1][1] = "browser" => h[1] \in {"browser"} \X (0..6)
           /\ h[1][1] = "m_main" => h[1] \in {"m_main"} \X (0..8)
           /\ h[1][1] \in {"bubble", "sub_bubble"} => h[1][2] \in Nat /\ h = <<<<h[1][1], h[1][2]>>, "theme">>
           /\ h \in BubblePointers => h = <<<<"tex_bubbles", 0>>, "theme">> \/ h[1][1] \in {"bubble", "sub_bubble"}
<1>1. h \in ViewPointers \/ h \in Background \/ h \in BubblePointers
  BY DEF PointersOK
<1>2. CASE h \in ViewPointers
  <2>1. h \notin BubblePointers /\ h[1][1] \in {"browser", "m_main", "dialog"}
    BY <1>2 DEF ViewPointers, BubblePointers
  <2>2. h[1][1] = "browser" => h[1] \in {"browser"} \X (0..6)
    BY <1>2 DEF ViewPointers
  <2>3. h[1][1] = "m_main" => h[1] \in {"m_main"} \X (0..8)
    BY <1>2 DEF ViewPointers
  <2> QED
    BY <2>1, <2>2, <2>3
<1>3. CASE h \in Background
  BY <1>3 DEF Background, BubblePointers
<1>4. CASE h \in BubblePointers
  BY <1>4 DEF BubblePointers
<1> QED
  BY <1>1, <1>2, <1>3, <1>4

LEMMA BubblesReinitKeeps ==
    ASSUME ScreenIInv, BubblesReinit
    PROVE  ScreenIInv'
<1>0. /\ ViewsOK /\ UiOK /\ BubblesOK /\ theme_gfx \in {"live", "null"} /\ apps \in BOOLEAN
      /\ ChoiceIsOffered /\ DanglingOK /\ ProgramOK
  BY InvariantParts
<1>1. todo # <<>> /\ CallAt(todo, 1) = "bubbles_theme_reinit" /\ todo' = Tail(todo)
  BY <1>0, DoesCall, DoneIs DEF BubblesReinit
<1>2. /\ views' = views /\ ui' = ui /\ answer' = answer /\ exit' = exit /\ theme_gfx' = theme_gfx /\ apps' = apps
  BY DEF BubblesReinit
<1> DEFINE fresh == dangling \ {<<<<"tex_bubbles", 0>>, "theme">>}
<1>3. PICK n \in 0..MaxBubbles : BubblesAs(n, popped \ 0..(n - 1), Plotted({<<"bubble", i>> : i \in 0..(n - 1)}, fresh))
  BY DEF BubblesReinit
<1>4. n \in Nat
  BY ScreenAssumption
<1> DEFINE refs == {<<d, "theme">> : d \in {<<"bubble", i>> : i \in 0..(n - 1)}}
<1>5. Plotted({<<"bubble", i>> : i \in 0..(n - 1)}, fresh) = fresh \ refs
  BY DEF Plotted
<1>6. bubble_count' = n /\ popped' = {}
  BY <1>3 DEF BubblesAs
<1>7. dangling' = {h \in fresh \ refs : (h[1][1] = "bubble" => h[1][2] < n) /\ (h[1][1] = "sub_bubble" => h[1][2] \in popped')}
  BY <1>3, <1>5 DEF BubblesAs
<1>8. /\ exit = {} /\ \A h \in dangling : Dangles(h, "bubbles_theme_reinit")
      /\ PointersOK(dangling) /\ theme_gfx = "live"
  BY <1>1, InTheme
<1>9. CallAt(todo', 1) = "view_theme_reinit"
  BY <1>1, <1>8, NextCall DEF Follows
<1>10. PointersOK(dangling')
  BY <1>7, <1>8 DEF PointersOK
<1>11. ASSUME NEW h \in dangling'
       PROVE  Dangles(h, "view_theme_reinit")
  <2>1. h \in dangling /\ h # <<<<"tex_bubbles", 0>>, "theme">> /\ h \notin refs
        /\ (h[1][1] = "bubble" => h[1][2] < n) /\ h[1][1] # "sub_bubble"
    BY <1>6, <1>7, <1>11
  <2>2. h[1][1] # "bubble"
    <3>1. SUFFICES ASSUME h[1][1] = "bubble" PROVE FALSE
      OBVIOUS
    <3>2. h[1][2] \in Nat /\ h = <<<<"bubble", h[1][2]>>, "theme">>
      BY <1>8, <2>1, <3>1, KindsOfPointers
    <3>3. h[1][2] \in 0..(n - 1)
      BY <1>4, <2>1, <3>1, <3>2
    <3> QED
      BY <2>1, <3>2, <3>3
  <2>3. h \notin BubblePointers
    BY <1>8, <2>1, <2>2, KindsOfPointers
  <2>4. Dangles(h, "bubbles_theme_reinit")
    BY <1>8, <2>1
  <2> QED
    BY <2>3, <2>4 DEF Dangles
<1>12. DanglingOK'
  BY <1>2, <1>8, <1>9, <1>10, <1>11, LiveNext
<1> QED
  BY <1>0, <1>1, <1>2, <1>4, <1>6, <1>12, QuietCall

LEMMA RefillProgram ==
    ASSUME ProgramOK, exit = {}, todo # <<>>, todo' = Tail(todo), CallAt(todo, 1) \notin {"open", "close"}, exit' = exit,
           Closed' = Closed, OwnsScreen' = OwnsScreen, Hidden(5)', Hidden(6)'
    PROVE  ProgramOK'
<1>0. Program(todo) /\ DialogFits(todo, Closed, OwnsScreen)
  BY DEF ProgramOK
<1>1. Closed \in BOOLEAN /\ OwnsScreen \in BOOLEAN
  BY DEF Closed, OwnsScreen
<1>2. DialogFits(Tail(todo), Closed, OwnsScreen)
  BY <1>0, <1>1, TailFits
<1>3. Hidden(NewBank)' /\ Hidden(11 - NewBank)'
  BY DEF Hidden, NewBank
<1>4. Conceals(Tail(todo), Hidden(NewBank)', Hidden(11 - NewBank)')
  BY <1>3 DEF Conceals
<1>5. Program(Tail(todo))
  BY <1>0, TailProgram
<1> QED
  BY <1>2, <1>4, <1>5 DEF ProgramOK

LEMMA BrowserWidgetsAre ==
    /\ BrowserWidgets \in [0..6 -> ScreenWidgets]
    /\ \A i \in 0..6 : "FOCUSED" \notin BrowserWidgets[i].flags /\ (i \in 0..4 => BrowserWidgets[i].type \notin {"app_entry", "picture"})
    /\ BrowserWidgets[5].type = "none" /\ BrowserWidgets[6].type = "none"
<1> DEFINE a == [Widget("image") EXCEPT !.flags = @ \ {"VISIBLE"}]
           b == [Widget("lamp") EXCEPT !.flags = @ \ {"ENABLED"}]
           c == Widget("lamp")
<1>1. /\ Widget("image") \in ScreenWidgets /\ Widget("image").type = "image" /\ "FOCUSED" \notin Widget("image").flags
      /\ c \in ScreenWidgets /\ c.type = "lamp" /\ "FOCUSED" \notin c.flags
  BY WidgetIs, LayerTypes
<1>2. a \in ScreenWidgets /\ a.type = "image" /\ "FOCUSED" \notin a.flags
  BY <1>1 DEF ScreenWidgets
<1>3. b \in ScreenWidgets /\ b.type = "lamp" /\ "FOCUSED" \notin b.flags
  BY <1>1 DEF ScreenWidgets
<1>4. BrowserWidgets = [i \in 0..6 |-> IF i \in 0..1 THEN a ELSE IF i \in 2..3 THEN b ELSE IF i = 4 THEN c ELSE NoWidget]
  BY DEF BrowserWidgets
<1> HIDE DEF a, b, c
<1> QED
  BY <1>1, <1>2, <1>3, <1>4, NoWidgetIs

LEMMA MenuMade ==
    ASSUME NEW v \in ScreenViews({"m_main"}, 0..8), NEW menu, NEW ws, ws = MainWidgets(menu, TRUE) \/ ws = MainWidgets(menu, FALSE),
           menu = "EXIT" => v.focus = -1 \/ v.focus \in Buttons(menu), NEW u, u = [v EXCEPT !.widgets = ws]
    PROVE  MenuView(u, menu) /\ u.widgets = ws /\ u.focus = v.focus
<1>1. /\ v.kind = "m_main" /\ v.widgets \in [0..8 -> ScreenWidgets] /\ v.focus \in (0..8) \cup {-1}
      /\ v.sub \in {"none", "browser", "m_main"} /\ v.drag_btn \in BOOLEAN /\ v.drag \in Int
      /\ v = [kind |-> v.kind, widgets |-> v.widgets, focus |-> v.focus, sub |-> v.sub, drag_btn |-> v.drag_btn, drag |-> v.drag]
  BY DEF ScreenViews
<1>2. /\ ws \in [0..8 -> ScreenWidgets]
      /\ \A i \in 0..8 : /\ ws[i].type \in {"button", "label", "none"} /\ "FOCUSED" \notin ws[i].flags
                         /\ ws[i].type = "button" <=> i \in Buttons(menu)
  BY MainWidgetsAre
<1>3. u = [kind |-> v.kind, widgets |-> ws, focus |-> v.focus, sub |-> v.sub, drag_btn |-> v.drag_btn, drag |-> v.drag]
  BY <1>1
<1>4. u \in ScreenViews({"m_main"}, 0..8) /\ u.widgets = ws /\ u.focus = v.focus
  BY <1>1, <1>2, <1>3 DEF ScreenViews
<1>5. FocusShown(u)
  BY <1>2, <1>4 DEF FocusShown
<1>6. menu = "EXIT" => Chosen(u)
  BY <1>1, <1>2, <1>4 DEF Chosen
<1> QED
  BY <1>2, <1>4, <1>5, <1>6 DEF MenuView

\* Another view of the menu, and the others as they are.
LEMMA MenuSet ==
    ASSUME ViewsOK, NEW u, NEW menu, MenuView(u, menu), ui'.menu_index = menu, views' = [views EXCEPT !["m_main"] = u]
    PROVE  /\ ViewsOK' /\ views'["dialog"] = views["dialog"] /\ views'["browser"] = views["browser"]
           /\ views'["m_main"] = u /\ Hidden(5)' = Hidden(5) /\ Hidden(6)' = Hidden(6)
<1>1. /\ views' = [m \in Names |-> views'[m]] /\ views'["m_main"] = u
      /\ views'["browser"] = views["browser"] /\ views'["dialog"] = views["dialog"]
  BY OneView DEF Names
<1>2. ViewsOK'
  BY <1>1, Zenon DEF ViewsOK, Names
<1> QED
  BY <1>1, <1>2 DEF Hidden

LEMMA ReinitTheme ==
    ASSUME ScreenIInv, Do("theme_init"), theme_gfx' = "live", views' = views, dangling' = dangling, todo' = Tail(todo),
           UNCHANGED <<bubble_count, popped, ui, apps, bd, answer, exit>>
    PROVE  ScreenIInv'
<1>0. BubblesOK /\ apps \in BOOLEAN /\ todo # <<>> /\ CallAt(todo, 1) = "theme_init"
  BY InvariantParts, DoesCall
<1>1. exit = {} /\ PointersOK(dangling) /\ \A h \in dangling : Dangles(h, "theme_init")
  BY <1>0, InTheme
<1>2. CallAt(todo', 1) = "bubbles_theme_reinit"
  BY <1>0, <1>1, NextCall DEF Follows
<1>3. \A h \in dangling : Dangles(h, "bubbles_theme_reinit")
  BY <1>1 DEF Dangles
<1>4. DanglingOK'
  BY <1>1, <1>2, <1>3, LiveNext
<1> QED
  BY <1>0, <1>4, QuietCall DEF BubblesOK

LEMMA ReinitBackground ==
    ASSUME ScreenIInv, Do("view_theme_reinit"), theme_gfx' = theme_gfx, views' = views, todo' = Tail(todo),
           dangling' = IF theme_gfx = "live" THEN dangling \ Background ELSE dangling \cup Background,
           UNCHANGED <<bubble_count, popped, ui, apps, bd, answer, exit>>
    PROVE  ScreenIInv'
<1>0. BubblesOK /\ apps \in BOOLEAN /\ todo # <<>> /\ CallAt(todo, 1) = "view_theme_reinit"
  BY InvariantParts, DoesCall
<1>1. exit = {} /\ theme_gfx = "live" /\ PointersOK(dangling) /\ \A h \in dangling : Dangles(h, "view_theme_reinit")
  BY <1>0, InTheme
<1>2. CallAt(todo', 1) = "browser_theme_reinit"
  BY <1>0, <1>1, NextCall DEF Follows
<1>3. dangling' = dangling \ Background
  BY <1>1
<1>4. \A h \in dangling' : Dangles(h, "browser_theme_reinit")
  BY <1>1, <1>3 DEF Dangles
<1>5. PointersOK(dangling')
  BY <1>1, <1>3 DEF PointersOK
<1>6. DanglingOK'
  BY <1>1, <1>2, <1>4, <1>5, LiveNext
<1> QED
  BY <1>0, <1>1, <1>6, QuietCall DEF BubblesOK

LEMMA ReinitBrowser ==
    ASSUME ScreenIInv, Do("browser_theme_reinit"), theme_gfx' = theme_gfx, Build("browser", BrowserWidgets), todo' = Tail(todo),
           UNCHANGED <<bubble_count, popped, ui, apps, bd, answer, exit>>
    PROVE  ScreenIInv'
<1>0. /\ ViewsOK /\ UiOK /\ BubblesOK /\ apps \in BOOLEAN /\ ChoiceIsOffered /\ ProgramOK
      /\ todo # <<>> /\ CallAt(todo, 1) = "browser_theme_reinit"
  BY InvariantParts, DoesCall
<1>1. exit = {} /\ theme_gfx = "live" /\ PointersOK(dangling) /\ \A h \in dangling : Dangles(h, "browser_theme_reinit")
  BY <1>0, InTheme
<1>2. CallAt(todo', 1) = "m_main_theme_reinit"
  BY <1>0, <1>1, NextCall DEF Follows
<1>3. /\ ViewsOK' /\ views'["dialog"] = views["dialog"]
      /\ \A i \in 0..6 : views'["browser"].widgets[i] = BrowserWidgets[i]
      /\ dangling' = Rebuilt("browser", BrowserWidgets, dangling)
  <2>1. 0..6 \in SUBSET (0..6)
    OBVIOUS
  <2> QED
    BY <1>0, <2>1, BrowserWidgetsAre, BrowserBuilt
<1>4. Hidden(5)' /\ Hidden(6)'
  BY <1>3, BrowserWidgetsAre DEF Hidden
<1>5. dangling' = {h \in dangling : h[1] \notin {<<"browser", i>> : i \in 0..6}}
  <2>1. DOMAIN BrowserWidgets = 0..6
    BY BrowserWidgetsAre
  <2> QED
    BY <1>1, <1>3, <2>1 DEF Rebuilt
<1>6. ASSUME NEW h \in dangling'
      PROVE  Dangles(h, "m_main_theme_reinit")
  <2>1. h \in dangling /\ h[1] \notin {<<"browser", i>> : i \in 0..6}
    BY <1>5, <1>6
  <2>2. h[1][1] # "browser"
    BY <1>1, <2>1, KindsOfPointers
  <2>3. Dangles(h, "browser_theme_reinit")
    BY <1>1, <2>1
  <2> QED
    BY <2>2, <2>3 DEF Dangles
<1>7. PointersOK(dangling')
  BY <1>1, <1>5 DEF PointersOK
<1>8. DanglingOK'
  BY <1>1, <1>2, <1>6, <1>7, LiveNext
<1>9. UiOK' /\ BubblesOK' /\ ChoiceIsOffered'
  BY <1>0, <1>3 DEF UiOK, OwnsScreen, BubblesOK, ChoiceIsOffered
<1>10. ProgramOK'
  <2>1. Closed' = Closed /\ OwnsScreen' = OwnsScreen
    BY <1>3 DEF Closed, OwnsScreen
  <2> QED
    BY <1>0, <1>1, <1>4, <2>1, RefillProgram
<1> QED
  BY <1>0, <1>1, <1>3, <1>8, <1>9, <1>10 DEF ScreenIInv, ScreenTypes

LEMMA ReinitMenu ==
    ASSUME ScreenIInv, Do("m_main_theme_reinit"), theme_gfx' = theme_gfx, Build("m_main", MainWidgets(ui.menu_index, FALSE)),
           todo' = Tail(todo), UNCHANGED <<bubble_count, popped, ui, apps, bd, answer, exit>>
    PROVE  ScreenIInv'
<1>0. /\ ViewsOK /\ UiOK /\ BubblesOK /\ apps \in BOOLEAN /\ ChoiceIsOffered /\ ProgramOK
      /\ todo # <<>> /\ CallAt(todo, 1) = "m_main_theme_reinit"
  BY InvariantParts, DoesCall
<1>1. exit = {} /\ theme_gfx = "live" /\ PointersOK(dangling) /\ \A h \in dangling : Dangles(h, "m_main_theme_reinit")
  BY <1>0, InTheme
<1>2. CallAt(todo', 1) = "fade"
  BY <1>0, <1>1, NextCall DEF Follows
<1> DEFINE m == views["m_main"]
           ws == MainWidgets(ui.menu_index, FALSE)
           u == [m EXCEPT !.widgets = ws]
<1>3. DOMAIN ws = 0..8 /\ ws = [i \in 0..8 |-> ws[i]]
  BY DEF MainWidgets
<1>4. MenuView(m, ui.menu_index) /\ m \in ScreenViews({"m_main"}, 0..8) /\ DOMAIN m.widgets = 0..8 /\ DOMAIN views = Names
  BY <1>0, ViewDomains DEF ViewsOK, MenuView, Names
<1> HIDE DEF ws
<1>5. views' = [views EXCEPT !["m_main"] = u]
  <2>1. views' = [views EXCEPT !["m_main"].widgets = [i \in DOMAIN @ |-> IF i \in DOMAIN ws THEN ws[i] ELSE @[i]]]
    BY DEF Build, ws
  <2>2. [i \in DOMAIN m.widgets |-> IF i \in DOMAIN ws THEN ws[i] ELSE m.widgets[i]] = ws
    BY <1>3, <1>4
  <2>3. views' = [views EXCEPT !["m_main"] = [m EXCEPT !.widgets = [i \in DOMAIN m.widgets |-> IF i \in DOMAIN ws THEN ws[i] ELSE m.widgets[i]]]]
    BY <1>4, <2>1 DEF ScreenViews, Names
  <2> QED
    BY <2>2, <2>3, Zenon
<1>6. ui.menu_index = "EXIT" => m.focus = -1 \/ m.focus \in Buttons("EXIT")
  BY <1>4 DEF MenuView, Chosen, ScreenViews
<1>7. MenuView(u, ui.menu_index)
  <2>1. PICK x : x = u
    OBVIOUS
  <2>2. ws = MainWidgets(ui.menu_index, FALSE)
    BY DEF ws
  <2> HIDE DEF u
  <2>3. x = [m EXCEPT !.widgets = ws]
    BY <2>1, Zenon DEF u
  <2>4. MenuView(x, ui.menu_index)
    BY <1>4, <1>6, <2>2, <2>3, MenuMade, Zenon
  <2> QED
    BY <2>1, <2>4, Zenon
<1> HIDE DEF u
<1>8. /\ ViewsOK' /\ views'["dialog"] = views["dialog"] /\ Hidden(5)' = Hidden(5) /\ Hidden(6)' = Hidden(6)
  BY <1>0, <1>5, <1>7, MenuSet
<1>9. dangling' = {h \in dangling : h[1] \notin {<<"m_main", i>> : i \in 0..8}}
  BY <1>1, <1>3 DEF Build, Rebuilt, ws
<1>10. ASSUME NEW h \in dangling'
       PROVE  Dangles(h, "fade")
  <2>1. h \in dangling /\ h[1] \notin {<<"m_main", i>> : i \in 0..8}
    BY <1>9, <1>10
  <2>2. h[1][1] # "m_main"
    BY <1>1, <2>1, KindsOfPointers
  <2>3. Dangles(h, "m_main_theme_reinit")
    BY <1>1, <2>1
  <2> QED
    BY <2>2, <2>3 DEF Dangles
<1>11. PointersOK(dangling')
  BY <1>1, <1>9 DEF PointersOK
<1>12. DanglingOK'
  BY <1>1, <1>2, <1>10, <1>11, LiveNext
<1>13. UiOK' /\ BubblesOK' /\ ChoiceIsOffered'
  BY <1>0, <1>8 DEF UiOK, OwnsScreen, BubblesOK, ChoiceIsOffered
<1>14. ProgramOK'
  <2>1. SameSight
    BY <1>8 DEF SameSight, Closed, OwnsScreen, NewBank
  <2> QED
    BY <1>0, <2>1, DoneProgram
<1> QED
  BY <1>0, <1>1, <1>8, <1>12, <1>13, <1>14 DEF ScreenIInv, ScreenTypes

LEMMA ReinitKeeps ==
    ASSUME ScreenIInv, Reinit
    PROVE  ScreenIInv'
<1>1. Done /\ UNCHANGED <<bubble_count, popped, ui, apps, bd, answer, exit>>
  BY DEF Reinit
<1>2. ASSUME NEW op, Do(op) PROVE todo' = Tail(todo)
  BY <1>1, <1>2, InvariantParts, DoesCall, DoneIs
<1>3. CASE Do("theme_init") /\ theme_gfx' = "live" /\ UNCHANGED <<views, dangling>>
  BY <1>1, <1>2, <1>3, ReinitTheme
<1>4. CASE /\ Do("view_theme_reinit")
           /\ dangling' = IF theme_gfx = "live" THEN dangling \ Background ELSE dangling \cup Background
           /\ UNCHANGED <<views, theme_gfx>>
  BY <1>1, <1>2, <1>4, ReinitBackground
<1>5. CASE Do("browser_theme_reinit") /\ Build("browser", BrowserWidgets) /\ UNCHANGED theme_gfx
  BY <1>1, <1>2, <1>5, ReinitBrowser
<1>6. CASE Do("m_main_theme_reinit") /\ Build("m_main", MainWidgets(ui.menu_index, FALSE)) /\ UNCHANGED theme_gfx
  BY <1>1, <1>2, <1>6, ReinitMenu
<1> QED
  BY <1>3, <1>4, <1>5, <1>6 DEF Reinit

---------------------------------------------------------------------------
(* What main decides.                                                      *)

\* A step that touches neither the views nor what the user sees.
LEMMA Decides ==
    ASSUME ScreenIInv, CallAt(todo, 1) \notin ThemeOps, exit = {} \/ theme_gfx = "live", views' = views,
           ui'.v_current = ui.v_current, ui'.menu_index = ui.menu_index, UiOK', dangling' \subseteq dangling, theme_gfx' = theme_gfx,
           apps' \in BOOLEAN, BubblesOK', ChoiceIsOffered', ProgramOK'
    PROVE  ScreenIInv'
<1>0. ViewsOK /\ DanglingOK /\ theme_gfx \in {"live", "null"}
  BY InvariantParts
<1>1. ViewsOK'
  BY <1>0 DEF ViewsOK
<1>2. DanglingOK'
  BY <1>0, CalmNow, CalmStays
<1> QED
  BY <1>0, <1>1, <1>2 DEF ScreenIInv, ScreenTypes

LEMMA IdleCall ==
    ASSUME ProgramOK, todo = <<>>, exit = {}
    PROVE  CallAt(todo, 1) = "end" /\ (Closed \/ OwnsScreen)
BY FirstCall, OutOfDialog DEF Quiet, InDialog

LEMMA AppEntryActionKeeps ==
    ASSUME ScreenIInv, AppEntryAction
    PROVE  ScreenIInv'
<1>0. /\ ViewsOK /\ UiOK /\ BubblesOK /\ theme_gfx \in {"live", "null"} /\ apps \in BOOLEAN
      /\ ChoiceIsOffered /\ DanglingOK /\ ProgramOK
  BY InvariantParts
<1>1. /\ todo = <<>> /\ exit = {} /\ ui.v_current = "browser" /\ views' = views /\ theme_gfx' = theme_gfx
      /\ bubble_count' = bubble_count /\ ui' = ui /\ answer' = answer /\ exit' = exit
  BY DEF AppEntryAction
<1>2. CallAt(todo, 1) = "end" /\ Closed
  BY <1>0, <1>1, IdleCall DEF OwnsScreen
<1>3. Calm
  BY <1>0, <1>1, <1>2, CalmNow DEF ThemeOps
<1>4. apps' \in BOOLEAN /\ BubblesOK'
  BY <1>0, <1>1 DEF AppEntryAction, BubblesOK
<1>5. dangling' \subseteq dangling
  BY <1>3, CalmPlotted DEF AppEntryAction
<1>6. Starts(todo', "gen")
  BY StartsClearing, StartsGen DEF AppEntryAction
<1>7. UiOK' /\ ChoiceIsOffered' /\ Closed'
  BY <1>0, <1>1, <1>2 DEF UiOK, OwnsScreen, ChoiceIsOffered, Closed
<1>8. ProgramOK'
  BY <1>1, <1>6, <1>7, StartProgram
<1> QED
  BY <1>1, <1>2, <1>4, <1>5, <1>7, <1>8, Decides DEF ThemeOps

LEMMA FrameKeeps ==
    ASSUME ScreenIInv, Frame
    PROVE  ScreenIInv'
<1>0. /\ UiOK /\ BubblesOK /\ apps \in BOOLEAN /\ ChoiceIsOffered /\ ProgramOK
  BY InvariantParts
<1>1. /\ todo = <<>> /\ exit = {} /\ views' = views /\ theme_gfx' = theme_gfx /\ dangling' = dangling /\ apps' = apps
      /\ bubble_count' = bubble_count /\ popped' = popped /\ ui' = ui /\ answer' = 0 /\ exit' = exit
      /\ todo' = <<<<"plot">>, <<"input">>>>
  BY DEF Frame
<1>2. CallAt(todo, 1) = "end" /\ (Closed \/ OwnsScreen)
  BY <1>0, <1>1, IdleCall
<1>3. UiOK' /\ ChoiceIsOffered' /\ (Closed' \/ OwnsScreen') /\ BubblesOK'
  BY <1>0, <1>1, <1>2 DEF UiOK, OwnsScreen, ChoiceIsOffered, Closed, BubblesOK
<1>4. Starts(todo', "plot")
  BY <1>1, FrameProgram
<1>5. ProgramOK'
  BY <1>1, <1>3, <1>4, StartProgram
<1> QED
  BY <1>0, <1>1, <1>2, <1>3, <1>5, Decides DEF ThemeOps

LEMMA PowerButtonKeeps ==
    ASSUME ScreenIInv, PowerButton
    PROVE  ScreenIInv'
<1>0. /\ UiOK /\ BubblesOK /\ apps \in BOOLEAN /\ ChoiceIsOffered /\ ProgramOK
  BY InvariantParts
<1>1. /\ todo = <<>> /\ exit = {} /\ views' = views /\ theme_gfx' = theme_gfx /\ dangling' = dangling /\ apps' = apps
      /\ bubble_count' = bubble_count /\ popped' = popped /\ ui' = ui /\ answer' = answer /\ todo' = todo
      /\ exit' \in {{"exit"}, {"shutdown"}}
  BY DEF PowerButton
<1>2. CallAt(todo, 1) = "end"
  BY <1>0, <1>1, IdleCall
<1>3. UiOK' /\ ChoiceIsOffered' /\ BubblesOK'
  BY <1>0, <1>1 DEF UiOK, OwnsScreen, ChoiceIsOffered, BubblesOK
<1>4. ProgramOK'
  BY <1>1, ExitProgram
<1> QED
  BY <1>0, <1>1, <1>2, <1>3, <1>4, Decides DEF ThemeOps

LEMMA LeaveKeeps ==
    ASSUME ScreenIInv, Leave
    PROVE  ScreenIInv'
<1>0. /\ UiOK /\ BubblesOK /\ apps \in BOOLEAN /\ ChoiceIsOffered /\ ProgramOK
  BY InvariantParts
<1>1. /\ todo = <<>> /\ exit # {} /\ theme_gfx = "live" /\ views' = views /\ theme_gfx' = theme_gfx /\ dangling' = dangling
      /\ bubble_count' = bubble_count /\ popped' = popped /\ answer' = answer /\ exit' = exit /\ apps' = apps
      /\ ui' = [ui EXCEPT !.cursor_enabled = FALSE]
  BY DEF Leave
<1>2. CallAt(todo, 1) = "end"
  BY <1>0, <1>1, FirstCall
<1>3. ui'.v_current = ui.v_current /\ ui'.menu_index = ui.menu_index /\ UiOK' /\ ChoiceIsOffered' /\ BubblesOK'
  BY <1>0, <1>1 DEF UiOK, OwnsScreen, ChoiceIsOffered, BubblesOK
<1> DEFINE rest == <<<<"fade">>, <<"font_clear">>, <<"theme_deinit">>>>
           fade == <<<<"dialog_fade">>>>
<1>4. todo' = (IF Current.sub # "none" THEN fade ELSE <<>>) \o rest
  BY DEF Leave
<1>5. <<>> \o rest = rest /\ fade \o rest = <<<<"dialog_fade">>, <<"fade">>, <<"font_clear">>, <<"theme_deinit">>>>
  <2>1. <<"dialog_fade">> \in Calls /\ <<"fade">> \in Calls /\ <<"font_clear">> \in Calls /\ <<"theme_deinit">> \in Calls
    BY DEF Calls, Ops, Follows
  <2> DEFINE all == <<<<"dialog_fade">>, <<"fade">>, <<"font_clear">>, <<"theme_deinit">>>>
  <2>2. rest \in Seq(Calls) /\ fade \in Seq(Calls) /\ all \in Seq(Calls)
    BY <2>1
  <2>3. Len(fade \o rest) = 4 /\ Len(all) = 4 /\ fade \o rest \in Seq(Calls)
    BY <2>2
  <2>4. (fade \o rest)[1] = all[1] /\ (fade \o rest)[2] = all[2] /\ (fade \o rest)[3] = all[3] /\ (fade \o rest)[4] = all[4]
    BY <2>2
  <2>5. \A i \in 1..4 : (fade \o rest)[i] = all[i]
    BY <2>4
  <2>6. <<>> \o rest = rest
    BY <2>2
  <2> HIDE DEF all, fade, rest
  <2>7. Len(fade \o rest) = Len(all) /\ \A i \in 1..Len(fade \o rest) : (fade \o rest)[i] = all[i]
    BY <2>3, <2>5
  <2>8. fade \o rest = all
    BY <2>2, <2>3, <2>7, SeqEqual
  <2> QED
    BY <2>6, <2>8 DEF all
<1>6. todo' \in Leaving
  BY <1>4, <1>5 DEF Leaving
<1>7. ProgramOK'
  BY <1>1, <1>6 DEF ProgramOK
<1> QED
  BY <1>0, <1>1, <1>2, <1>3, <1>7, Decides DEF ThemeOps

\* What the program may go on with: what a closed dialog allows, or the end of the one on the screen.
Follow(steps) ==
    \/ steps = <<>>
    \/ Closed /\ (Starts(steps, "open") \/ Starts(steps, "gen") \/ Starts(steps, "app_entry_add"))
    \/ OwnsScreen /\ Starts(steps, "dialog_fade")

LEMMA GoesProgram ==
    ASSUME ProgramOK, exit = {}, exit' = {}, Closed' = Closed, OwnsScreen' = OwnsScreen, NewBank' = NewBank,
           Hidden(5)' = Hidden(5), Hidden(6)' = Hidden(6), todo # <<>>,
           CallAt(todo, 1) \in {"input", "received", "extract", "extracted", "delete", "deleted"},
           NEW steps, Then(steps), Follow(steps)
    PROVE  ProgramOK'
<1>0. <<>> \in Seq(Calls)
  OBVIOUS
<1>1. steps \in Seq(Calls)
  BY <1>0, Zenon DEF Follow, Starts, Program, Ordered
<1>2. todo' = steps
  BY <1>1, ThenIs
<1>3. CASE steps = <<>>
  <2>1. Tail(todo) = <<>>
    BY LastCall DEF ProgramOK
  <2>2. SameSight
    BY DEF SameSight
  <2> QED
    BY <1>2, <1>3, <2>1, <2>2, DoneProgram
<1>4. CASE Closed /\ (Starts(steps, "open") \/ Starts(steps, "gen") \/ Starts(steps, "app_entry_add"))
  BY <1>2, <1>4, StartProgram
<1>5. CASE OwnsScreen /\ Starts(steps, "dialog_fade")
  BY <1>2, <1>5, StartProgram
<1> QED
  BY <1>3, <1>4, <1>5 DEF Follow

LEMMA InputIs ==
    ASSUME ScreenIInv, Input
    PROVE  /\ ViewsOK /\ UiOK /\ BubblesOK /\ theme_gfx \in {"live", "null"} /\ apps \in BOOLEAN
           /\ ChoiceIsOffered /\ DanglingOK /\ ProgramOK /\ BubblesOK' /\ apps' = apps /\ theme_gfx' = theme_gfx /\ answer' = answer
           /\ todo # <<>> /\ CallAt(todo, 1) = "input" /\ exit = {} /\ Calm /\ (Closed \/ OwnsScreen) /\ Tail(todo) = <<>>
<1>0. /\ ViewsOK /\ UiOK /\ BubblesOK /\ theme_gfx \in {"live", "null"} /\ apps \in BOOLEAN
      /\ ChoiceIsOffered /\ DanglingOK /\ ProgramOK
  BY InvariantParts
<1>1. todo # <<>> /\ CallAt(todo, 1) = "input"
  BY <1>0, DoesCall DEF Input
<1>2. exit = {}
  BY <1>0, <1>1, Staying
<1>3. Calm
  BY <1>0, <1>1, CalmNow DEF ThemeOps
<1>4. Closed \/ OwnsScreen
  BY <1>0, <1>1, <1>2, OutOfDialog DEF Quiet, InDialog
<1>5. Tail(todo) = <<>>
  BY <1>0, <1>1, <1>2, LastCall DEF ProgramOK
<1>6. BubblesOK' /\ apps' = apps /\ theme_gfx' = theme_gfx /\ answer' = answer
  BY <1>0 DEF Input, BubblesOK
<1> QED
  BY <1>0, <1>1, <1>2, <1>3, <1>4, <1>5, <1>6

LEMMA GoesKeeps ==
    ASSUME ScreenIInv, Input, NEW steps, Goes(steps), Follow(steps)
    PROVE  ScreenIInv'
<1>0. /\ UiOK /\ BubblesOK' /\ apps \in BOOLEAN /\ apps' = apps /\ theme_gfx' = theme_gfx /\ answer' = answer /\ ChoiceIsOffered
      /\ ProgramOK /\ todo # <<>> /\ CallAt(todo, 1) = "input" /\ exit = {}
  BY InputIs
<1>1. Then(steps) /\ views' = views /\ dangling' = dangling /\ ui' = ui /\ exit' = exit
  BY DEF Goes
<1>2. UiOK' /\ ChoiceIsOffered'
  BY <1>0, <1>1 DEF UiOK, OwnsScreen, ChoiceIsOffered
<1>3. ProgramOK'
  BY <1>0, <1>1, GoesProgram DEF Closed, OwnsScreen, NewBank, Hidden
<1> QED
  BY <1>0, <1>1, <1>2, <1>3, Decides DEF ThemeOps

LEMMA RefocusedKeeps ==
    ASSUME ScreenIInv, Input, NEW v, Refocused(v), v = view_set_focus_prev(Current) \/ v = view_set_focus_next(Current)
    PROVE  ScreenIInv'
<1>0. /\ ViewsOK /\ UiOK /\ BubblesOK' /\ apps \in BOOLEAN /\ apps' = apps /\ theme_gfx' = theme_gfx /\ answer' = answer
      /\ ChoiceIsOffered /\ ProgramOK /\ todo # <<>> /\ CallAt(todo, 1) = "input" /\ exit = {} /\ Calm /\ theme_gfx \in {"live", "null"}
  BY InputIs
<1>1. Done /\ views' = [views EXCEPT ![ui.v_current] = v] /\ dangling' = dangling /\ ui' = ui /\ exit' = exit
  BY DEF Refocused
<1> DEFINE n == ui.v_current
           D == DOMAIN views[n].widgets
           K == CASE n = "browser" -> {"browser"} [] n = "m_main" -> {"m_main"} [] OTHER -> DialogKinds
<1>2. n \in Names
  BY <1>0 DEF UiOK, Names
<1>3. D \in SUBSET Nat /\ views[n] \in ScreenViews(K, D) /\ FocusShown(views[n])
  BY <1>0, <1>2, ViewKinds
<1> HIDE DEF D, K
<1>4. KeptView(K, D, v, views[n])
  BY <1>3, NextKeeps, PrevKeeps DEF Current
<1>5. ViewsOK' /\ SameViews
  BY <1>0, <1>1, <1>2, <1>4, TurnedOne DEF D, K
<1>6. SameSight
  BY <1>0, <1>1, <1>5, SightKept
<1>7. UiOK'
  BY <1>0, <1>1, <1>5, ViewsTurned DEF UiOK, OwnsScreen
<1>8. ChoiceIsOffered'
  BY <1>0, <1>1 DEF ChoiceIsOffered
<1>9. DanglingOK'
  BY <1>0, <1>1, CalmStays
<1>10. ProgramOK'
  BY <1>0, <1>1, <1>6, DoneIs, DoneProgram
<1> QED
  BY <1>0, <1>5, <1>7, <1>8, <1>9, <1>10 DEF ScreenIInv, ScreenTypes

LEMMA MenuHiddenKeeps ==
    ASSUME ScreenIInv, MenuHidden
    PROVE  ScreenIInv'
BY GoesKeeps DEF MenuHidden, Follow

LEMMA TakeUploadKeeps ==
    ASSUME ScreenIInv, TakeUpload
    PROVE  ScreenIInv'
<1>1. Input /\ ui.v_current = "browser" /\ (Goes(Progress(<<"received">>)) \/ Goes(<<>>))
  BY DEF TakeUpload
<1>2. Closed
  BY <1>1, InputIs DEF OwnsScreen
<1>3. Starts(Progress(<<"received">>), "open")
  BY StartsProgress
<1>4. Follow(Progress(<<"received">>)) /\ Follow(<<>>)
  BY <1>2, <1>3 DEF Follow
<1> QED
  BY <1>1, <1>4, GoesKeeps

LEMMA AboutPadKeeps ==
    ASSUME ScreenIInv, AboutPad
    PROVE  ScreenIInv'
<1>1. Input /\ ui.v_current = "dialog" /\ (Goes(CloseDialog) \/ Goes(<<>>))
  BY DEF AboutPad
<1>2. Follow(CloseDialog) /\ Follow(<<>>)
  BY <1>1, StartsClose DEF Follow, OwnsScreen
<1> QED
  BY <1>1, <1>2, GoesKeeps

LEMMA DetailPadKeeps ==
    ASSUME ScreenIInv, DetailPad
    PROVE  ScreenIInv'
<1> DEFINE a == CloseDialog \o Ask("yesno", 7) \o <<<<"delete">>>>
           b == CloseDialog \o Progress(<<"received">>)
<1>1. Input /\ ui.v_current = "dialog"
  BY DEF DetailPad
<1>2. \/ Goes(<<>>) \/ Goes(CloseDialog) \/ Goes(a) \/ Goes(b)
      \/ Refocused(view_set_focus_prev(Current)) \/ Refocused(view_set_focus_next(Current))
  BY Zenon DEF DetailPad
<1>3. Follow(<<>>) /\ Follow(CloseDialog) /\ Follow(a) /\ Follow(b)
  BY <1>1, StartsClose, StartsAskDelete, StartsUpload, Zenon DEF Follow, OwnsScreen
<1> HIDE DEF a, b
<1> QED
  BY <1>1, <1>2, <1>3, GoesKeeps, RefocusedKeeps

LEMMA BrowserPadKeeps ==
    ASSUME ScreenIInv, BrowserPad
    PROVE  ScreenIInv'
<1>1. Input /\ ui.v_current = "browser"
  BY DEF BrowserPad
<1>2. \/ Goes(<<>>) \/ Goes(Ask("options", 12)) \/ Goes(Gen("REFRESH")) \/ Goes(OpenDialog("detail", 10))
      \/ Refocused(view_set_focus_prev(Current)) \/ Refocused(view_set_focus_next(Current))
  BY Zenon DEF BrowserPad
<1>3. Closed
  BY <1>1, InputIs DEF OwnsScreen
<1>4. <<"open", "options", 12>> \in Dialogs /\ <<"open", "detail", 10>> \in Dialogs
  BY DEF Dialogs
<1>5. Starts(Ask("options", 12), "open") /\ Starts(Gen("REFRESH"), "gen") /\ Starts(OpenDialog("detail", 10), "open")
  BY <1>4, StartsAsk, StartsGen, OpenProgram
<1>6. Follow(<<>>) /\ Follow(Ask("options", 12)) /\ Follow(Gen("REFRESH")) /\ Follow(OpenDialog("detail", 10))
  BY <1>3, <1>5 DEF Follow
<1> QED
  BY <1>1, <1>2, <1>6, GoesKeeps, RefocusedKeeps

LEMMA PickedOffered ==
    ASSUME ScreenIInv, ui.v_current = "m_main", ui.menu_index = "EXIT", Current.focus \in 0..4
    PROVE  {<<"bootmii", "priiloader", "exit", "reboot", "shutdown">>[Current.focus + 1]} \cap {"bootmii", "priiloader"} \subseteq Installed
<1> DEFINE m == views["m_main"]
           names == <<"bootmii", "priiloader", "exit", "reboot", "shutdown">>
<1>1. MenuView(m, "EXIT")
  BY InvariantParts DEF ViewsOK
<1>2. Current = m
  BY DEF Current
<1>3. m.focus \in Buttons("EXIT")
  <2>1. m \in ScreenViews({"m_main"}, 0..8) /\ Chosen(m)
    BY <1>1 DEF MenuView
  <2>2. m.focus \in 0..8 /\ m.focus # -1
    BY <1>2
  <2>3. m.widgets[m.focus].type = "button"
    BY <2>1, <2>2 DEF Chosen
  <2> QED
    BY <1>1, <2>2, <2>3 DEF MenuView
<1>4. m.focus \in ExitButtons
  BY <1>3 DEF Buttons
<1>5. CASE m.focus = 0
  BY <1>2, <1>4, <1>5 DEF ExitButtons
<1>6. CASE m.focus = 1
  BY <1>2, <1>4, <1>6 DEF ExitButtons
<1>7. CASE m.focus \in {2, 3, 4}
  BY <1>2, <1>7
<1> QED
  BY <1>2, <1>5, <1>6, <1>7

\* The menu is shown in another form, or left.
LEMMA MenuChanges ==
    ASSUME ScreenIInv, Input, Done, exit' = exit, NEW u, NEW menu \in {"HOME", "EXIT"}, MenuView(u, menu),
           views' = [views EXCEPT !["m_main"] = u], ui'.menu_index = menu, ui'.v_current \in {"browser", "m_main"},
           ui' \in [v_current : {"browser", "m_main", "dialog"}, menu_index : {"HOME", "EXIT"},
                    viewing : BOOLEAN, cursor_enabled : BOOLEAN, first_set : BOOLEAN],
           ui'.first_set = ui.first_set, ui.v_current # "dialog", NEW ws, dangling' = Rebuilt("m_main", ws, dangling)
    PROVE  ScreenIInv'
<1>0. /\ ViewsOK /\ UiOK /\ BubblesOK' /\ apps \in BOOLEAN /\ apps' = apps /\ theme_gfx' = theme_gfx /\ answer' = answer
      /\ ChoiceIsOffered /\ ProgramOK /\ todo # <<>> /\ CallAt(todo, 1) = "input" /\ exit = {} /\ Calm /\ theme_gfx \in {"live", "null"}
  BY InputIs
<1>1. /\ ViewsOK' /\ views'["dialog"] = views["dialog"] /\ Hidden(5)' = Hidden(5) /\ Hidden(6)' = Hidden(6)
  BY <1>0, MenuSet
<1>2. UiOK' /\ ChoiceIsOffered'
  BY <1>0 DEF UiOK, OwnsScreen, ChoiceIsOffered
<1>3. SameSight
  BY <1>1 DEF SameSight, Closed, OwnsScreen, NewBank
<1>4. DanglingOK'
  BY <1>0, CalmRebuilt, CalmStays
<1>5. ProgramOK'
  BY <1>0, <1>3, DoneIs, DoneProgram
<1> QED
  BY <1>0, <1>1, <1>2, <1>4, <1>5 DEF ScreenIInv, ScreenTypes

LEMMA MenuIs ==
    ASSUME ViewsOK
    PROVE  /\ views["m_main"] \in ScreenViews({"m_main"}, 0..8) /\ MenuView(views["m_main"], ui.menu_index)
           /\ views["m_main"].focus \in (0..8) \cup {-1}
BY DEF ViewsOK, MenuView, ScreenViews

\* m_main as HOME opens it.
LEMMA MenuAnew ==
    ASSUME ViewsOK, MainAnew
    PROVE  \E u : MenuView(u, "HOME") /\ views' = [views EXCEPT !["m_main"] = u]
                  /\ dangling' = Rebuilt("m_main", MainWidgets("HOME", TRUE), dangling)
<1> DEFINE v == [views["m_main"] EXCEPT !.widgets = MainWidgets("HOME", TRUE)]
           u == view_set_focus(v, 0)
<1>1. views' = [views EXCEPT !["m_main"] = u] /\ dangling' = Rebuilt("m_main", MainWidgets("HOME", TRUE), dangling)
  BY DEF MainAnew
<1>2. MenuView(v, "HOME")
  BY MenuIs, MenuMade
<1> HIDE DEF v
<1>3. v \in ScreenViews({"m_main"}, 0..8) /\ FocusShown(v)
  BY <1>2 DEF MenuView
<1>4. u \in ScreenViews({"m_main"}, 0..8) /\ FocusShown(u) /\ Alike(u, v)
  <2>1. 0 \in (0..8) \cup {-1} /\ 0..8 \in SUBSET Nat
    OBVIOUS
  <2> QED
    BY <1>3, <2>1, FocusedView
<1> HIDE DEF u
<1>5. \A i \in 0..8 : u.widgets[i].type = v.widgets[i].type
  BY <1>3, <1>4 DEF Alike, ScreenViews
<1>6. MenuView(u, "HOME")
  BY <1>2, <1>4, <1>5 DEF MenuView
<1> QED
  BY <1>1, <1>6

LEMMA ToBrowserKeeps ==
    ASSUME ScreenIInv, Input, ToBrowser, ui.v_current = "m_main"
    PROVE  ScreenIInv'
<1>1. ViewsOK /\ UiOK
  BY InvariantParts
<1>2. MainAnew /\ Done /\ exit' = exit /\ ui' = [ui EXCEPT !.v_current = "browser", !.menu_index = "HOME"]
  BY DEF ToBrowser
<1>3. PICK u : MenuView(u, "HOME") /\ views' = [views EXCEPT !["m_main"] = u]
               /\ dangling' = Rebuilt("m_main", MainWidgets("HOME", TRUE), dangling)
  BY <1>1, <1>2, MenuAnew
<1>4. /\ ui'.v_current = "browser" /\ ui'.menu_index = "HOME" /\ ui'.first_set = ui.first_set
      /\ ui' \in [v_current : {"browser", "m_main", "dialog"}, menu_index : {"HOME", "EXIT"},
                  viewing : BOOLEAN, cursor_enabled : BOOLEAN, first_set : BOOLEAN]
  BY <1>1, <1>2 DEF UiOK
<1> QED
  BY <1>2, <1>3, <1>4, MenuChanges

LEMMA InputHomeKeeps ==
    ASSUME ScreenIInv, InputHome
    PROVE  ScreenIInv'
<1>1. Input /\ ViewsOK /\ UiOK
  BY InvariantParts DEF InputHome
<1>2. CASE /\ ui.v_current = "browser" /\ ui' = [ui EXCEPT !.menu_index = "HOME", !.v_current = "m_main"]
           /\ MainAnew /\ Done /\ exit' = exit
  <2>1. PICK u : MenuView(u, "HOME") /\ views' = [views EXCEPT !["m_main"] = u]
                 /\ dangling' = Rebuilt("m_main", MainWidgets("HOME", TRUE), dangling)
    BY <1>1, <1>2, MenuAnew
  <2>2. /\ ui'.v_current = "m_main" /\ ui'.menu_index = "HOME" /\ ui'.first_set = ui.first_set
        /\ ui' \in [v_current : {"browser", "m_main", "dialog"}, menu_index : {"HOME", "EXIT"},
                    viewing : BOOLEAN, cursor_enabled : BOOLEAN, first_set : BOOLEAN]
    BY <1>1, <1>2 DEF UiOK
  <2> QED
    BY <1>1, <1>2, <2>1, <2>2, MenuChanges
<1>3. CASE ui.v_current = "m_main" /\ ToBrowser
  BY <1>1, <1>3, ToBrowserKeeps
<1>4. CASE ui.v_current = "dialog" /\ Goes(<<>>)
  BY <1>1, <1>4, GoesKeeps DEF Follow
<1> QED
  BY <1>2, <1>3, <1>4 DEF InputHome

LEMMA ToMenuKeeps ==
    ASSUME ScreenIInv, Input, NEW menu \in {"HOME", "EXIT"}, ToMenu(menu, Current), ui.v_current = "m_main",
           ui' = [ui EXCEPT !.menu_index = menu], menu = "EXIT" => Current.focus \in Buttons("EXIT")
    PROVE  ScreenIInv'
<1> DEFINE u == [Current EXCEPT !.widgets = MainWidgets(menu, TRUE)]
<1>1. ViewsOK /\ UiOK /\ Current = views["m_main"]
  BY InvariantParts DEF Current
<1>2. Done /\ exit' = exit /\ views' = [views EXCEPT !["m_main"] = u] /\ dangling' = Rebuilt("m_main", MainWidgets(menu, TRUE), dangling)
  BY DEF ToMenu
<1>3. MenuView(u, menu)
  BY <1>1, MenuIs, MenuMade
<1> HIDE DEF u
<1>4. /\ ui'.v_current = "m_main" /\ ui'.menu_index = menu /\ ui'.first_set = ui.first_set
      /\ ui' \in [v_current : {"browser", "m_main", "dialog"}, menu_index : {"HOME", "EXIT"},
                  viewing : BOOLEAN, cursor_enabled : BOOLEAN, first_set : BOOLEAN]
  BY <1>1 DEF UiOK
<1> QED
  BY <1>2, <1>3, <1>4, MenuChanges

LEMMA MenuPickKeeps ==
    ASSUME ScreenIInv, MenuPick
    PROVE  ScreenIInv'
<1>1. Input /\ ui.v_current = "m_main"
  BY DEF MenuPick
<1>2. Closed
  BY <1>1, InputIs DEF OwnsScreen
<1>3. <<"open", "ok", 6>> \in Dialogs /\ <<"open", "none", -1>> \in Dialogs /\ <<"open", "about", -1>> \in Dialogs
  BY DEF Dialogs
<1>4. Starts(Ask("ok", 6), "open") /\ Starts(Ask("none", -1), "open") /\ Starts(OpenDialog("about", -1), "open")
  BY <1>3, StartsAsk, OpenProgram
<1>5. Follow(<<>>) /\ Follow(Ask("ok", 6)) /\ Follow(Ask("none", -1)) /\ Follow(OpenDialog("about", -1))
  BY <1>2, <1>4 DEF Follow
<1>6. \/ Goes(<<>>) \/ Goes(Ask("ok", 6)) \/ Goes(Ask("none", -1)) \/ Goes(OpenDialog("about", -1))
      \/ Current.focus = 3 /\ ToMenu("EXIT", Current) /\ ui' = [ui EXCEPT !.menu_index = "EXIT"]
      \/ ui.menu_index = "EXIT" /\ Current.focus \in 0..4
         /\ Exits({<<"bootmii", "priiloader", "exit", "reboot", "shutdown">>[Current.focus + 1]})
  BY Zenon DEF MenuPick
<1>7. CASE Goes(<<>>) \/ Goes(Ask("ok", 6)) \/ Goes(Ask("none", -1)) \/ Goes(OpenDialog("about", -1))
  BY <1>1, <1>5, <1>7, GoesKeeps
<1>8. CASE Current.focus = 3 /\ ToMenu("EXIT", Current) /\ ui' = [ui EXCEPT !.menu_index = "EXIT"]
  <2>1. Current.focus \in Buttons("EXIT")
    BY <1>8 DEF Buttons, ExitButtons
  <2> QED
    BY <1>1, <1>8, <2>1, ToMenuKeeps
<1>9. CASE ui.menu_index = "EXIT" /\ Current.focus \in 0..4
           /\ Exits({<<"bootmii", "priiloader", "exit", "reboot", "shutdown">>[Current.focus + 1]})
  <2> DEFINE name == <<"bootmii", "priiloader", "exit", "reboot", "shutdown">>[Current.focus + 1]
  <2>1. {name} \cap {"bootmii", "priiloader"} \subseteq Installed
    BY <1>1, <1>9, PickedOffered
  <2> HIDE DEF name
  <2>2. exit' = {name} /\ Done /\ views' = views /\ dangling' = dangling /\ ui' = ui
    BY <1>9 DEF Exits, name
  <2>3. /\ UiOK /\ BubblesOK' /\ apps \in BOOLEAN /\ apps' = apps /\ theme_gfx' = theme_gfx /\ answer' = answer
        /\ ChoiceIsOffered /\ ProgramOK /\ todo # <<>> /\ CallAt(todo, 1) = "input" /\ exit = {} /\ Tail(todo) = <<>>
    BY <1>1, InputIs
  <2>4. todo' = <<>>
    BY <2>2, <2>3, DoneIs
  <2>5. ProgramOK'
    BY <2>2, <2>4, ExitProgram
  <2>6. UiOK' /\ ChoiceIsOffered'
    BY <2>1, <2>2, <2>3 DEF UiOK, OwnsScreen, ChoiceIsOffered
  <2> QED
    BY <2>2, <2>3, <2>5, <2>6, Decides DEF ThemeOps
<1> QED
  BY <1>6, <1>7, <1>8, <1>9

LEMMA MenuMoveKeeps ==
    ASSUME ScreenIInv, MenuMove
    PROVE  ScreenIInv'
<1>1. Input /\ ui.v_current = "m_main"
  BY DEF MenuMove
<1>2. \/ ToBrowser \/ (ToMenu("HOME", Current) /\ ui' = [ui EXCEPT !.menu_index = "HOME"]) \/ Goes(<<>>)
      \/ Refocused(view_set_focus_prev(Current)) \/ Refocused(view_set_focus_next(Current))
  BY Zenon DEF MenuMove
<1>3. CASE ToBrowser
  BY <1>1, <1>3, ToBrowserKeeps
<1>4. CASE ToMenu("HOME", Current) /\ ui' = [ui EXCEPT !.menu_index = "HOME"]
  BY <1>1, <1>4, ToMenuKeeps
<1>5. CASE Goes(<<>>)
  BY <1>1, <1>5, GoesKeeps DEF Follow
<1>6. CASE Refocused(view_set_focus_prev(Current)) \/ Refocused(view_set_focus_next(Current))
  BY <1>1, <1>6, RefocusedKeeps
<1> QED
  BY <1>2, <1>3, <1>4, <1>5, <1>6

\* Between two dialogs nothing is on the screen but the page.
Between == {"received", "extract", "extracted", "delete", "deleted"}

LEMMA BetweenIs ==
    ASSUME ScreenIInv, NEW op \in Between, Do(op)
    PROVE  /\ UiOK /\ BubblesOK /\ apps \in BOOLEAN /\ ChoiceIsOffered /\ ProgramOK /\ todo # <<>> /\ CallAt(todo, 1) = op
           /\ exit = {} /\ Closed /\ Tail(todo) = <<>>
<1>0. UiOK /\ BubblesOK /\ apps \in BOOLEAN /\ ChoiceIsOffered /\ ProgramOK
  BY InvariantParts
<1>1. todo # <<>> /\ CallAt(todo, 1) = op
  BY <1>0, DoesCall
<1>2. exit = {}
  BY <1>0, <1>1, Staying DEF Between
<1>3. Closed
  BY <1>0, <1>1, <1>2, OutOfDialog DEF Quiet, InDialog, Between
<1>4. Tail(todo) = <<>>
  BY <1>0, <1>1, <1>2, LastCall DEF ProgramOK, Between
<1> QED
  BY <1>0, <1>1, <1>2, <1>3, <1>4

LEMMA BetweenKeeps ==
    ASSUME ScreenIInv, NEW op \in Between, Do(op), ProgramOK', exit' \cap {"bootmii", "priiloader"} = {},
           UNCHANGED <<views, dangling, theme_gfx, bubble_count, popped, ui, apps, bd, answer>>
    PROVE  ScreenIInv'
<1>0. /\ UiOK /\ BubblesOK /\ apps \in BOOLEAN /\ ChoiceIsOffered /\ ProgramOK /\ CallAt(todo, 1) = op /\ exit = {}
  BY BetweenIs
<1>1. UiOK' /\ BubblesOK' /\ ChoiceIsOffered'
  BY <1>0 DEF UiOK, OwnsScreen, BubblesOK, ChoiceIsOffered
<1> QED
  BY <1>0, <1>1, Decides DEF ThemeOps, Between

LEMMA ThenFollows ==
    ASSUME ScreenIInv, NEW op \in Between, Do(op), exit' = exit, NEW steps, Then(steps), Follow(steps),
           UNCHANGED <<views, dangling, theme_gfx, bubble_count, popped, ui, apps, bd, answer>>
    PROVE  ScreenIInv'
<1>0. ProgramOK /\ exit = {} /\ todo # <<>> /\ CallAt(todo, 1) = op
  BY BetweenIs
<1>1. ProgramOK'
  BY <1>0, GoesProgram DEF Closed, OwnsScreen, NewBank, Hidden, Between
<1> QED
  BY <1>0, <1>1, BetweenKeeps

LEMMA ReceivedKeeps ==
    ASSUME ScreenIInv, Received
    PROVE  ScreenIInv'
<1>1. Do("received") /\ UNCHANGED <<views, dangling, theme_gfx, bubble_count, popped, ui, apps, bd, answer>>
  BY DEF Received
<1>2. Closed /\ exit = {} /\ Tail(todo) = <<>> /\ ProgramOK /\ todo # <<>>
  BY <1>1, BetweenIs DEF Between
<1>3. <<"open", "ok", 6>> \in Dialogs
  BY DEF Dialogs
<1>4. /\ Follow(Ask("yesno", 6) \o <<<<"extract">>>>) /\ Follow(refresh_theme) /\ Follow(Ask("ok", 6)) /\ Follow(<<>>)
  BY <1>2, <1>3, StartsExtracting, StartsRefresh, StartsAsk DEF Follow
<1>5. CASE exit' = exit /\ (Then(Ask("yesno", 6) \o <<<<"extract">>>>) \/ Then(refresh_theme) \/ Then(<<>>) \/ Then(Ask("ok", 6)))
  BY <1>1, <1>4, <1>5, ThenFollows DEF Between
<1>6. CASE exit' = {"executable"} /\ Done
  <2>1. todo' = <<>>
    BY <1>2, <1>6, DoneIs
  <2>2. ProgramOK'
    BY <1>6, <2>1, ExitProgram
  <2> QED
    BY <1>1, <1>6, <2>2, BetweenKeeps DEF Between
<1> QED
  BY <1>5, <1>6, Zenon DEF Received, Done

LEMMA AnsweredKeeps ==
    ASSUME ScreenIInv, Answered
    PROVE  ScreenIInv'
<1> DEFINE same == UNCHANGED <<views, dangling, theme_gfx, bubble_count, popped, ui, apps, bd, answer>> /\ exit' = exit
<1>0. same
  BY DEF Answered
<1>1. CASE Do("extract") /\ (Then(Progress(<<"extracted">>)) \/ Then(<<>>))
  <2>1. Closed
    BY <1>1, BetweenIs DEF Between
  <2>2. Follow(Progress(<<"extracted">>)) /\ Follow(<<>>)
    BY <2>1, StartsProgress DEF Follow
  <2> QED
    BY <1>0, <1>1, <2>2, ThenFollows DEF Between
<1>2. CASE Do("extracted") /\ (Then(<<<<"app_entry_add">>>> \o Gen("REFRESH")) \/ Then(Ask("ok", 6)))
  <2>1. Closed
    BY <1>2, BetweenIs DEF Between
  <2>2. <<"open", "ok", 6>> \in Dialogs
    BY DEF Dialogs
  <2>3. Follow(<<<<"app_entry_add">>>> \o Gen("REFRESH")) /\ Follow(Ask("ok", 6))
    BY <2>1, <2>2, AddProgram, StartsAsk DEF Follow
  <2> QED
    BY <1>0, <1>2, <2>3, ThenFollows DEF Between
<1>3. CASE Do("delete") /\ (Then(<<>>) \/ Then(Gen("REMOVE") \o Progress(<<"deleted">>)))
  <2>1. Closed
    BY <1>3, BetweenIs DEF Between
  <2>2. Follow(<<>>) /\ Follow(Gen("REMOVE") \o Progress(<<"deleted">>))
    BY <2>1, StartsDeleting DEF Follow
  <2> QED
    BY <1>0, <1>3, <2>2, ThenFollows DEF Between
<1>4. CASE Do("deleted") /\ Then(Ask("ok", 6) \o Gen("REFRESH"))
  <2>1. Closed
    BY <1>4, BetweenIs DEF Between
  <2>2. Follow(Ask("ok", 6) \o Gen("REFRESH"))
    BY <2>1, StartsSorry DEF Follow
  <2> QED
    BY <1>0, <1>4, <2>2, ThenFollows DEF Between
<1>5. CASE Do("deleted") /\ Then(<<<<"app_entry_remove">>>> \o Gen("REFRESH"))
  <2> DEFINE s == <<<<"app_entry_remove">>>> \o Gen("REFRESH")
  <2>1. Closed /\ ProgramOK /\ exit = {} /\ todo # <<>> /\ CallAt(todo, 1) = "deleted"
    BY <1>5, BetweenIs DEF Between
  <2>2. Program(s) /\ s # <<>> /\ CallAt(s, 1) = "app_entry_remove"
    BY AddProgram
  <2> HIDE DEF s
  <2>3. s \in Seq(Calls)
    BY <2>2 DEF Program, Ordered
  <2>4. todo' = s
    BY <1>5, <2>1, <2>3, ThenIs DEF s
  <2>5. Hidden(NewBank) /\ Hidden(11 - NewBank)
    <3>1. Conceals(todo, Hidden(NewBank), Hidden(11 - NewBank)) /\ 1 \in 1..Len(todo)
      BY <2>1, ProgramCalls DEF ProgramOK
    <3> QED
      BY <2>1, <3>1 DEF Conceals, Frees
  <2>6. Hidden(NewBank)' /\ Hidden(11 - NewBank)' /\ Closed' /\ exit' = {}
    BY <1>0, <2>1, <2>5 DEF Hidden, NewBank, Closed
  <2>7. Conceals(todo', Hidden(NewBank)', Hidden(11 - NewBank)')
    BY <2>6 DEF Conceals
  <2>8. DialogFits(todo', Closed', OwnsScreen')
    BY <2>2, <2>4, <2>6 DEF DialogFits, Quiet, InDialog
  <2>9. ProgramOK'
    BY <2>2, <2>4, <2>6, <2>7, <2>8 DEF ProgramOK
  <2> QED
    BY <1>0, <1>5, <2>1, <2>9, BetweenKeeps DEF Between
<1> HIDE DEF same
<1> QED
  BY <1>1, <1>2, <1>3, <1>4, <1>5, Zenon DEF Answered, Done

---------------------------------------------------------------------------
(* The theorems.                                                           *)

LEMMA ScreenStarts ==
    ASSUME ScreenInit
    PROVE  ScreenIInv
<1> DEFINE b == NewView("browser", BrowserWidgets, "none", FALSE)
           n == NewView("m_main", MainWidgets("HOME", TRUE), "none", FALSE)
           m == view_set_focus(n, 0)
<1>1. /\ theme_gfx = "live" /\ dangling = {} /\ bubble_count = 0 /\ popped = {} /\ apps = FALSE
      /\ views = [browser |-> b, m_main |-> m, dialog |-> NoView]
      /\ ui = [v_current |-> "browser", menu_index |-> "HOME", viewing |-> TRUE, cursor_enabled |-> TRUE, first_set |-> TRUE]
      /\ todo = <<>> /\ answer = 0 /\ exit = {}
  BY DEF ScreenInit
<1>2. /\ b = [kind |-> "browser", widgets |-> BrowserWidgets, focus |-> -1, sub |-> "none", drag_btn |-> FALSE, drag |-> -1]
      /\ n = [kind |-> "m_main", widgets |-> MainWidgets("HOME", TRUE), focus |-> -1, sub |-> "none", drag_btn |-> FALSE, drag |-> -1]
  BY DEF NewView
<1>21. PICK w : w = MainWidgets("HOME", TRUE)
  OBVIOUS
<1> HIDE DEF b, n
<1>22. n = [kind |-> "m_main", widgets |-> w, focus |-> -1, sub |-> "none", drag_btn |-> FALSE, drag |-> -1]
  BY <1>2, <1>21, Zenon
<1>3. BrowserView(b)
  <2>1. b.drag_btn \in BOOLEAN /\ b.drag_btn = FALSE
    BY <1>2
  <2>2. 0..6 \in SUBSET Nat /\ \A i \in 0..6 : "FOCUSED" \notin BrowserWidgets[i].flags
    BY BrowserWidgetsAre
  <2>3. b \in ScreenViews({"browser"}, 0..6) /\ FocusShown(b) /\ b.widgets = BrowserWidgets
    <3>1. b = [kind |-> "browser", widgets |-> BrowserWidgets, focus |-> -1, sub |-> "none", drag_btn |-> b.drag_btn, drag |-> -1]
      BY <1>2, <2>1, Zenon
    <3>2. "browser" \in {"browser"} /\ "none" \in {"none", "browser", "m_main"}
      OBVIOUS
    <3> QED
      BY <2>1, <2>2, <3>1, <3>2, BrowserWidgetsAre, NewViewIs
  <2> QED
    BY <2>3, BrowserWidgetsAre DEF BrowserView
<1>4. MenuView(n, "HOME")
  <2>1. n.drag_btn \in BOOLEAN /\ n.drag_btn = FALSE
    BY <1>22
  <2>2. /\ w \in [0..8 -> ScreenWidgets]
        /\ \A i \in 0..8 : /\ w[i].type \in {"button", "label", "none"} /\ "FOCUSED" \notin w[i].flags
                           /\ w[i].type = "button" <=> i \in Buttons("HOME")
    BY <1>21, MainWidgetsAre
  <2>3. n \in ScreenViews({"m_main"}, 0..8) /\ FocusShown(n) /\ n.widgets = w
    <3>1. 0..8 \in SUBSET Nat
      OBVIOUS
    <3>2. n = [kind |-> "m_main", widgets |-> w, focus |-> -1, sub |-> "none", drag_btn |-> n.drag_btn, drag |-> -1]
      BY <1>22, <2>1, Zenon
    <3>3. "m_main" \in {"m_main"} /\ "none" \in {"none", "browser", "m_main"}
      OBVIOUS
    <3> QED
      BY <2>1, <2>2, <3>1, <3>2, <3>3, NewViewIs
  <2> QED
    BY <2>2, <2>3 DEF MenuView
<1>5. MenuView(m, "HOME")
  <2>1. n \in ScreenViews({"m_main"}, 0..8) /\ FocusShown(n)
    BY <1>4 DEF MenuView
  <2>2. 0 \in (0..8) \cup {-1} /\ 0..8 \in SUBSET Nat
    OBVIOUS
  <2>3. m \in ScreenViews({"m_main"}, 0..8) /\ FocusShown(m) /\ Alike(m, n)
    BY <2>1, <2>2, FocusedView
  <2> HIDE DEF m
  <2>4. \A i \in 0..8 : m.widgets[i].type = n.widgets[i].type
    BY <2>1, <2>3 DEF Alike, ScreenViews
  <2> QED
    BY <1>4, <2>3, <2>4 DEF MenuView
<1> HIDE DEF b, m
<1>6. /\ views = [k \in {"browser", "m_main", "dialog"} |-> views[k]]
      /\ views["browser"] = b /\ views["m_main"] = m /\ views["dialog"] = NoView
  BY <1>1
<1>7. ui.menu_index = "HOME" /\ ui.v_current = "browser"
  BY <1>1
<1>8. ViewsOK
  BY <1>3, <1>5, <1>6, <1>7, NoViewIs, Zenon DEF ViewsOK
<1>9. UiOK /\ BubblesOK /\ ChoiceIsOffered /\ DanglingOK
  BY <1>1, <1>7 DEF UiOK, OwnsScreen, BubblesOK, ChoiceIsOffered, DanglingOK
<1>10. ProgramOK
  <2>1. Closed
    BY <1>6, <1>7, NoViewIs DEF Closed
  <2>2. todo \in Seq(Calls) /\ Len(todo) = 0
    BY <1>1
  <2>3. Program(todo) /\ Conceals(todo, Hidden(NewBank), Hidden(11 - NewBank))
    BY <2>2 DEF Program, Ordered, Closes, Hides, Conceals
  <2>4. CallAt(todo, 1) = "end"
    BY <2>2 DEF CallAt
  <2>5. DialogFits(todo, Closed, OwnsScreen)
    BY <2>1, <2>4 DEF DialogFits, Quiet, InDialog
  <2> QED
    BY <1>1, <2>3, <2>5 DEF ProgramOK
<1> QED
  BY <1>1, <1>8, <1>9, <1>10 DEF ScreenIInv, ScreenTypes

LEMMA ScreenSteps ==
    ASSUME ScreenIInv, ScreenNext
    PROVE  ScreenIInv'
BY DialogFadeKeeps, ProgressFramesKeep, ViewFadeKeeps, GenBankKeeps, SlideKeeps, HalfKeeps,
   SlidKeeps, OpenKeeps,
   CloseKeeps, LoopKeeps, FreeKeeps, AddEntryKeeps, BubblesReinitKeeps, ReinitKeeps, AppEntryActionKeeps, FrameKeeps,
   PlotKeeps, InputHomeKeeps, MenuPickKeeps, MenuMoveKeeps, BrowserPadKeeps, TakeUploadKeeps, ReceivedKeeps,
   AnsweredKeeps, DetailPadKeeps, AboutPadKeeps, MenuHiddenKeeps, PowerButtonKeeps, LeaveKeeps DEF ScreenNext

LEMMA ScreenStutters ==
    ASSUME ScreenIInv, UNCHANGED screenVars
    PROVE  ScreenIInv'
<1>0. /\ ViewsOK /\ UiOK /\ BubblesOK /\ theme_gfx \in {"live", "null"} /\ apps \in BOOLEAN
      /\ ChoiceIsOffered /\ DanglingOK /\ ProgramOK
  BY InvariantParts
<1>1. UNCHANGED <<views, dangling, theme_gfx, bubble_count, popped, ui, apps, todo, bd, answer, exit>>
  BY DEF screenVars
<1>2. ViewsOK' /\ UiOK' /\ BubblesOK' /\ ChoiceIsOffered'
  BY <1>0, <1>1 DEF ViewsOK, UiOK, OwnsScreen, BubblesOK, ChoiceIsOffered
<1>3. DanglingOK'
  BY <1>0, <1>1 DEF DanglingOK, Gone
<1>4. ProgramOK'
  BY <1>0, <1>1, SameProgram DEF SameSight, Closed, OwnsScreen, NewBank, Hidden
<1> QED
  BY <1>0, <1>1, <1>2, <1>3, <1>4 DEF ScreenIInv, ScreenTypes

\* The inductive invariant of the screen: what its views are, what main has
\* left to call and in which state that finds the page and the dialog, and
\* whose pointers may dangle before each call.
THEOREM ScreenInvariance == ScreenSpec => []ScreenIInv
<1>1. ScreenInit => ScreenIInv
  BY ScreenStarts
<1>2. ScreenIInv /\ [ScreenNext]_screenVars => ScreenIInv'
  BY ScreenSteps, ScreenStutters
<1> QED
  BY <1>1, <1>2, PTL DEF ScreenSpec

\* What looks focused is what A acts on, whatever has moved the focus, and
\* main does only what the screen offered: it leaves for a program that is
\* installed, and a message returns one of its buttons.
THEOREM ChoicesAreShown == ScreenSpec => []ChoiceIsShown
<1>1. ASSUME ScreenIInv
      PROVE  ChoiceIsShown
  <2>1. ViewsOK /\ ChoiceIsOffered
    BY <1>1, InvariantParts
  <2>2. \A n \in Names : FocusShown(views[n])
    BY <2>1, ViewKinds
  <2>3. DOMAIN views = Names
    BY <2>1 DEF ViewsOK, Names
  <2>4. FocusIsShown
    BY <2>2, <2>3 DEF FocusIsShown, FocusShown
  <2> QED
    BY <2>1, <2>4 DEF ChoiceIsShown
<1>2. ScreenIInv => ChoiceIsShown
  BY <1>1
<1> QED
  BY <1>2, ScreenInvariance, PTL

---------------------------------------------------------------------------
(* The queue of a frame: a run of gfx_frame_push along it, and sets of     *)
(* states between which a queue leads.                                     *)

Events == {"push", "pop", "entity", "scissor", "scissor_reset"}
GfxStates == [depth : Nat, most : Nat, scissor : BOOLEAN]

Runs(q, f) ==
    /\ f = [i \in 0..Len(q) |-> f[i]]
    /\ \A i \in 1..Len(q) : f[i] = gfx_frame_push(f[i - 1], q[i])
Leads(q, g, h) == \E f : Runs(q, f) /\ f[0] = g /\ f[Len(q)] = h
Carries(q, A, B) == q \in Seq(Events) /\ \A g \in A : \E h \in B : Leads(q, g, h)

LEMMA CarriesOne ==
    ASSUME NEW e \in Events, NEW A, NEW B, \A g \in A : gfx_frame_push(g, e) \in B
    PROVE  Carries(<<e>>, A, B)
<1>1. <<e>> \in Seq(Events) /\ Len(<<e>>) = 1 /\ <<e>>[1] = e
  OBVIOUS
<1>2. ASSUME NEW g \in A
      PROVE  Leads(<<e>>, g, gfx_frame_push(g, e))
  <2> DEFINE f == [i \in 0..1 |-> IF i = 0 THEN g ELSE gfx_frame_push(g, e)]
  <2>1. f[0] = g /\ f[1] = gfx_frame_push(g, e) /\ f = [i \in 0..1 |-> f[i]]
    OBVIOUS
  <2>2. \A i \in 1..1 : f[i] = gfx_frame_push(f[i - 1], <<e>>[i])
    <3>1. \A i \in 1..1 : i = 1 /\ i - 1 = 0
      OBVIOUS
    <3> HIDE DEF f
    <3> QED
      BY <1>1, <2>1, <3>1, Zenon
  <2> HIDE DEF f
  <2> QED
    BY <1>1, <2>1, <2>2, Zenon DEF Leads, Runs
<1> QED
  BY <1>1, <1>2, Zenon DEF Carries

LEMMA CarriesNothing ==
    ASSUME NEW A
    PROVE  Carries(<<>>, A, A)
<1>1. <<>> \in Seq(Events) /\ Len(<<>>) = 0
  OBVIOUS
<1>2. ASSUME NEW g \in A
      PROVE  Leads(<<>>, g, g)
  <2> DEFINE f == [i \in 0..0 |-> g]
  <2>1. f[0] = g /\ f = [i \in 0..0 |-> f[i]] /\ \A i \in 1..0 : FALSE
    OBVIOUS
  <2> HIDE DEF f
  <2> QED
    BY <1>1, <2>1, Zenon DEF Leads, Runs
<1> QED
  BY <1>1, <1>2, Zenon DEF Carries

LEMMA LeadsOn ==
    ASSUME NEW p \in Seq(Events), NEW q \in Seq(Events), NEW a, NEW b, NEW c, Leads(p, a, b), Leads(q, b, c)
    PROVE  Leads(p \o q, a, c)
<1>1. PICK f : Runs(p, f) /\ f[0] = a /\ f[Len(p)] = b
  BY Zenon DEF Leads
<1>2. PICK g : Runs(q, g) /\ g[0] = b /\ g[Len(q)] = c
  BY Zenon DEF Leads
<1> DEFINE m == Len(p)
           n == Len(q)
           h == [i \in 0..(m + n) |-> IF i <= m THEN f[i] ELSE g[i - m]]
<1>3. /\ m \in Nat /\ n \in Nat /\ p \o q \in Seq(Events) /\ Len(p \o q) = m + n
      /\ \A i \in 1..m : (p \o q)[i] = p[i]
      /\ \A i \in 1..n : (p \o q)[m + i] = q[i]
  OBVIOUS
<1>4. \A i \in 1..m : f[i] = gfx_frame_push(f[i - 1], p[i])
  BY <1>1, Zenon DEF Runs
<1>5. \A i \in 1..n : g[i] = gfx_frame_push(g[i - 1], q[i])
  BY <1>2, Zenon DEF Runs
<1> DEFINE r == p \o q
<1> HIDE DEF m, n, r
<1>6. /\ h = [i \in 0..(m + n) |-> h[i]]
      /\ \A i \in 0..m : h[i] = f[i]
      /\ \A i \in 1..n : h[m + i] = g[i]
      /\ h[m] = g[0]
  <2>1. f[m] = g[0]
    BY <1>1, <1>2 DEF m
  <2> QED
    BY <1>3, <2>1
<1> HIDE DEF h
<1>7. ASSUME NEW i \in 1..(m + n)
      PROVE  h[i] = gfx_frame_push(h[i - 1], r[i])
  <2>1. CASE i <= m
    <3>1. i \in 1..m /\ i \in 0..m /\ i - 1 \in 0..m
      BY <1>3, <2>1
    <3>2. r[i] = p[i]
      BY <1>3, <3>1 DEF r
    <3> QED
      BY <1>4, <1>6, <3>1, <3>2, Zenon
  <2>2. CASE i > m
    <3>1. PICK j \in 1..n : i = m + j
      <4>1. i - m \in 1..n /\ i = m + (i - m)
        BY <1>3, <2>2
      <4> QED
        BY <4>1, Zenon
    <3>2. r[i] = q[j] /\ h[i] = g[j]
      BY <1>3, <1>6, <3>1, Zenon DEF r
    <3>3. h[i - 1] = g[j - 1]
      <4>1. CASE j = 1
        <5>1. i - 1 = m /\ j - 1 = 0
          BY <1>3, <3>1, <4>1
        <5> QED
          BY <1>6, <5>1, Zenon
      <4>2. CASE j # 1
        <5>1. j - 1 \in 1..n /\ i - 1 = m + (j - 1)
          BY <1>3, <3>1, <4>2
        <5> QED
          BY <1>6, <5>1, Zenon
      <4> QED
        BY <4>1, <4>2
    <3> QED
      BY <1>5, <3>1, <3>2, <3>3, Zenon
  <2> QED
    BY <1>3, <2>1, <2>2
<1>8. h[0] = a /\ h[m + n] = c
  <2>1. 0 \in 0..m /\ (n = 0 \/ n \in 1..n) /\ (n = 0 => m + n = m)
    BY <1>3
  <2>2. g[n] = c
    BY <1>2 DEF n
  <2> QED
    BY <1>1, <1>6, <2>1, <2>2, Zenon
<1>9. Len(r) = m + n
  BY <1>3 DEF r
<1> QED
  <2>1. Runs(r, h) /\ h[0] = a /\ h[Len(r)] = c
    BY <1>6, <1>7, <1>8, <1>9, Zenon DEF Runs
  <2> QED
    BY <2>1, Zenon DEF Leads, r

LEMMA CarriesOn ==
    ASSUME NEW p, NEW q, NEW A, NEW B, NEW C, Carries(p, A, B), Carries(q, B, C)
    PROVE  Carries(p \o q, A, C)
<1>1. p \in Seq(Events) /\ q \in Seq(Events)
  BY Zenon DEF Carries
<1>2. p \o q \in Seq(Events)
  BY <1>1
<1>3. ASSUME NEW a \in A
      PROVE  \E c \in C : Leads(p \o q, a, c)
  <2>1. PICK b \in B : Leads(p, a, b)
    BY Zenon DEF Carries
  <2>2. PICK c \in C : Leads(q, b, c)
    BY Zenon DEF Carries
  <2> QED
    BY <1>1, <2>1, <2>2, LeadsOn
<1> QED
  BY <1>2, <1>3, Zenon DEF Carries

\* Sequences that lead on from each other, joined.
LEMMA CarriesAll ==
    ASSUME NEW n \in Nat, NEW u, Len(u) = n, n = 0 => u = <<>>,
           NEW G, \A i \in 1..n : Carries(u[i], G[i - 1], G[i])
    PROVE  Carries(FlattenSeq(u), G[0], G[n])
<1>1. CASE n = 0
  <2>1. FlattenSeq(u) = <<>>
    BY <1>1, Zenon DEF FlattenSeq
  <2> QED
    BY <1>1, <2>1, CarriesNothing, Zenon
<1>2. CASE n # 0
  <2>1. \A i \in 1..n : u[i] \in Seq(Events)
    BY Zenon DEF Carries
  <2>2. PICK s : Joins(u, n, s) /\ FlattenSeq(u) = s[n]
    BY <1>2, <2>1, Flattened
  <2>3. \A i \in 1..n : s[i] = IF i = 1 THEN u[i] ELSE s[i - 1] \o u[i]
    BY <2>2, Zenon DEF Joins
  <2> DEFINE Fails == {i \in 1..n : ~Carries(s[i], G[0], G[i])}
  <2>4. Fails \subseteq Nat
    OBVIOUS
  <2>5. ASSUME Fails # {} PROVE FALSE
    <3> HIDE DEF Fails
    <3>1. PICK k \in Fails : \A m \in Nat : m < k => m \notin Fails
      BY <2>4, <2>5, Smallest
    <3>2. k \in 1..n /\ ~Carries(s[k], G[0], G[k])
      BY <3>1 DEF Fails
    <3>3. Carries(u[k], G[k - 1], G[k])
      BY <3>2, Zenon
    <3>4. CASE k = 1
      <4>1. s[k] = u[k] /\ G[k - 1] = G[0]
        <5>1. k - 1 = 0
          BY <3>4
        <5> QED
          BY <2>3, <3>2, <3>4, <5>1, Zenon
      <4> QED
        BY <3>2, <3>3, <4>1, Zenon
    <3>5. CASE k # 1
      <4>1. k - 1 \in Nat /\ k - 1 < k /\ k - 1 \in 1..n
        BY <3>2, <3>5
      <4>2. k - 1 \notin Fails
        BY <3>1, <4>1, Zenon
      <4>3. Carries(s[k - 1], G[0], G[k - 1])
        BY <4>1, <4>2, Zenon DEF Fails
      <4>4. s[k] = s[k - 1] \o u[k]
        BY <2>3, <3>2, <3>5, Zenon
      <4>5. Carries(s[k - 1] \o u[k], G[0], G[k])
        BY <3>3, <4>3, CarriesOn
      <4> QED
        BY <3>2, <4>4, <4>5, Zenon
    <3> QED
      BY <3>4, <3>5
  <2>6. n \in 1..n
    BY <1>2
  <2> QED
    BY <2>2, <2>5, <2>6, Zenon
<1> QED
  BY <1>1, <1>2

AtDepth(d) == {g \in GfxStates : g.depth = d /\ g.most <= 2 /\ ~g.scissor}
Cutting(d) == {g \in GfxStates : g.depth = d /\ g.most <= 2 /\ g.scissor}

LEMMA Pushed ==
    ASSUME NEW d \in 0..1, NEW g \in AtDepth(d)
    PROVE  gfx_frame_push(g, "push") \in AtDepth(d + 1)
BY DEF AtDepth, GfxStates, gfx_frame_push

LEMMA Popped ==
    ASSUME NEW d \in 0..1, NEW g \in AtDepth(d + 1)
    PROVE  gfx_frame_push(g, "pop") \in AtDepth(d)
BY DEF AtDepth, GfxStates, gfx_frame_push

LEMMA Painted ==
    ASSUME NEW d \in 0..2
    PROVE  /\ \A g \in AtDepth(d) : gfx_frame_push(g, "entity") \in AtDepth(d)
           /\ \A g \in Cutting(d) : gfx_frame_push(g, "entity") \in Cutting(d)
BY DEF AtDepth, Cutting, GfxStates, gfx_frame_push

LEMMA Cut ==
    ASSUME NEW d \in 0..2
    PROVE  /\ \A g \in AtDepth(d) : gfx_frame_push(g, "scissor") \in Cutting(d)
           /\ \A g \in Cutting(d) : gfx_frame_push(g, "scissor_reset") \in AtDepth(d)
BY DEF AtDepth, Cutting, GfxStates, gfx_frame_push

LEMMA EventSteps ==
    /\ \A d \in 0..1 : Carries(<<"push">>, AtDepth(d), AtDepth(d + 1)) /\ Carries(<<"pop">>, AtDepth(d + 1), AtDepth(d))
    /\ \A d \in 0..2 : /\ Carries(<<"entity">>, AtDepth(d), AtDepth(d)) /\ Carries(<<"entity">>, Cutting(d), Cutting(d))
                       /\ Carries(<<"scissor">>, AtDepth(d), Cutting(d)) /\ Carries(<<"scissor_reset">>, Cutting(d), AtDepth(d))
<1>1. "push" \in Events /\ "pop" \in Events /\ "entity" \in Events /\ "scissor" \in Events /\ "scissor_reset" \in Events
  BY DEF Events
<1>2. ASSUME NEW d \in 0..1
      PROVE  Carries(<<"push">>, AtDepth(d), AtDepth(d + 1)) /\ Carries(<<"pop">>, AtDepth(d + 1), AtDepth(d))
  <2>1. \A g \in AtDepth(d) : gfx_frame_push(g, "push") \in AtDepth(d + 1)
    BY Pushed, Zenon
  <2>2. \A g \in AtDepth(d + 1) : gfx_frame_push(g, "pop") \in AtDepth(d)
    BY Popped, Zenon
  <2> QED
    BY <1>1, <2>1, <2>2, CarriesOne, Zenon
<1>3. ASSUME NEW d \in 0..2
      PROVE  /\ Carries(<<"entity">>, AtDepth(d), AtDepth(d)) /\ Carries(<<"entity">>, Cutting(d), Cutting(d))
             /\ Carries(<<"scissor">>, AtDepth(d), Cutting(d)) /\ Carries(<<"scissor_reset">>, Cutting(d), AtDepth(d))
  BY <1>1, Painted, Cut, CarriesOne, Zenon
<1> QED
  BY <1>2, <1>3

\* Where a queue leads that is gone through as DrawnIsLive does.
LEMMA QueueRun ==
    ASSUME NEW q, NEW B, Carries(q, {gfx_frame_start}, B),
           NEW after, after = CHOOSE f : f = [i \in 0..Len(q) |-> IF i = 0 THEN gfx_frame_start ELSE gfx_frame_push(f[i - 1], q[i])]
    PROVE  after[Len(q)] \in B
<1>0. gfx_frame_start \in {gfx_frame_start} /\ q \in Seq(Events)
  BY Zenon DEF Carries
<1>1. PICK h \in B : Leads(q, gfx_frame_start, h)
  BY <1>0, Zenon DEF Carries
<1>2. PICK f : Runs(q, f) /\ f[0] = gfx_frame_start /\ f[Len(q)] = h
  BY <1>1, Zenon DEF Leads
<1>3. Len(q) \in Nat
  BY <1>0
<1> DEFINE n == Len(q)
<1> HIDE DEF n
<1>4. f = [i \in 0..n |-> f[i]] /\ (\A i \in 1..n : f[i] = gfx_frame_push(f[i - 1], q[i])) /\ n \in Nat
  BY <1>2, <1>3, Zenon DEF Runs, n
<1>5. f = [i \in 0..n |-> IF i = 0 THEN gfx_frame_start ELSE gfx_frame_push(f[i - 1], q[i])]
  <2>1. \A i \in 0..n : f[i] = IF i = 0 THEN gfx_frame_start ELSE gfx_frame_push(f[i - 1], q[i])
    <3>1. \A i \in 0..n : i = 0 \/ i \in 1..n
      BY <1>4
    <3> QED
      BY <1>2, <1>4, <3>1, Zenon
  <2>2. [i \in 0..n |-> f[i]] = [i \in 0..n |-> IF i = 0 THEN gfx_frame_start ELSE gfx_frame_push(f[i - 1], q[i])]
    BY <2>1, Zenon
  <2> QED
    BY <1>4, <2>2, Zenon
<1>6. after = [i \in 0..n |-> IF i = 0 THEN gfx_frame_start ELSE gfx_frame_push(after[i - 1], q[i])]
  BY <1>5, Zenon DEF n
<1>7. \A i \in 0..n : after[i] = IF i = 0 THEN gfx_frame_start ELSE gfx_frame_push(after[i - 1], q[i])
  BY <1>6, Zenon
<1> DEFINE Differs == {i \in 0..n : after[i] # f[i]}
<1>8. Differs \subseteq Nat
  BY <1>4
<1>9. ASSUME Differs # {} PROVE FALSE
  <2> HIDE DEF Differs
  <2>1. PICK k \in Differs : \A m \in Nat : m < k => m \notin Differs
    BY <1>8, <1>9, Smallest
  <2>2. k \in 0..n /\ after[k] # f[k]
    BY <2>1 DEF Differs
  <2>3. k # 0
    <3>1. 0 \in 0..n
      BY <1>4
    <3> QED
      BY <1>2, <1>7, <2>2, <3>1, Zenon
  <2>4. k - 1 \in Nat /\ k - 1 < k /\ k - 1 \in 0..n /\ k \in 1..n
    BY <1>4, <2>2, <2>3
  <2>5. after[k - 1] = f[k - 1]
    BY <2>1, <2>4, Zenon DEF Differs
  <2> QED
    BY <1>4, <1>7, <2>2, <2>3, <2>4, <2>5, Zenon
<1>10. after[n] = f[n]
  <2>1. n \in 0..n
    BY <1>4
  <2> QED
    BY <1>9, <2>1, Zenon
<1> QED
  BY <1>1, <1>2, <1>10, Zenon DEF n

Needed == {"theme", "glyph", "icon"}
Plain == {l \in [flags : SUBSET {"FOCUSED", "ENABLED"}, invert : SUBSET {"FOCUSED", "ENABLED"}, op : Events, needs : SUBSET Needed] :
             l.op = "entity"}

LEMMA PlainLayer ==
    /\ \A flags, invert \in SUBSET {"FOCUSED", "ENABLED"}, needs \in SUBSET Needed : Layer(flags, invert, "entity", needs) \in Plain
    /\ \A needs \in SUBSET Needed : Always("entity", needs) \in Plain
BY DEF Layer, Always, Plain, Events

LEMMA PlainFaces == Faces \in Seq(Plain)
<1>1. \A flags, invert \in SUBSET {"FOCUSED", "ENABLED"} : Layer(flags, invert, "entity", {"theme"}) \in Plain
  BY PlainLayer DEF Needed
<1>2. /\ Layer({"FOCUSED", "ENABLED"}, {"FOCUSED"}, "entity", {"theme"}) \in Plain
      /\ Layer({"ENABLED"}, {"ENABLED"}, "entity", {"theme"}) \in Plain
      /\ Layer({"FOCUSED", "ENABLED"}, {}, "entity", {"theme"}) \in Plain
  BY <1>1
<1> QED
  BY <1>2 DEF Faces

\* All widgets but the text are drawn by entities alone.
LEMMA PlainLayers ==
    ASSUME NEW type \in DOMAIN Layers, type # "memo"
    PROVE  Layers[type] \in Seq(Plain)
<1>1. /\ \A needs \in SUBSET Needed : Always("entity", needs) \in Plain
      /\ \A flags, invert \in SUBSET {"FOCUSED", "ENABLED"} : Layer(flags, invert, "entity", {"theme"}) \in Plain
      /\ Layer({"ENABLED"}, {}, "entity", {"icon"}) \in Plain
  BY PlainLayer DEF Needed
<1>2. /\ Always("entity", {}) \in Plain /\ Always("entity", {"theme"}) \in Plain /\ Always("entity", {"glyph"}) \in Plain
      /\ Always("entity", {"glyph", "icon"}) \in Plain
      /\ Layer({"ENABLED"}, {}, "entity", {"theme"}) \in Plain
      /\ Layer({"ENABLED"}, {"ENABLED"}, "entity", {"theme"}) \in Plain
  BY <1>1 DEF Needed
<1>3. CASE type = "none"
  <2>1. Layers[type] = <<>>
    BY <1>3 DEF Layers
  <2> QED
    BY <2>1
<1>4. CASE type = "label"
  <2>1. Layers[type] = <<Always("entity", {"glyph"})>>
    BY <1>4 DEF Layers
  <2> QED
    BY <1>2, <2>1
<1>5. CASE type = "image"
  <2>1. Layers[type] = <<Layer({"ENABLED"}, {}, "entity", {"theme"})>>
    BY <1>5 DEF Layers
  <2> QED
    BY <1>2, <2>1
<1>6. CASE type = "lamp"
  <2>1. Layers[type] = <<Layer({"ENABLED"}, {}, "entity", {"theme"}), Layer({"ENABLED"}, {"ENABLED"}, "entity", {"theme"})>>
    BY <1>6 DEF Layers
  <2> QED
    BY <1>2, <2>1
<1>7. CASE type = "picture"
  <2>1. Layers[type] = <<Layer({"ENABLED"}, {}, "entity", {"icon"})>>
    BY <1>7 DEF Layers
  <2> QED
    BY <1>1, <2>1
<1>8. CASE type = "button"
  <2>1. Layers[type] = Append(Faces, Always("entity", {"glyph"}))
    BY <1>8 DEF Layers
  <2> QED
    BY <1>2, <2>1, PlainFaces
<1>9. CASE type = "app_entry"
  <2>1. Layers[type] = Append(Faces, Always("entity", {"glyph", "icon"}))
    BY <1>9 DEF Layers
  <2> QED
    BY <1>2, <2>1, PlainFaces
<1>10. CASE type = "progress"
  <2>1. Layers[type] = <<Always("entity", {}), Always("entity", {"theme"}), Always("entity", {"glyph"})>>
    BY <1>10 DEF Layers
  <2> QED
    BY <1>2, <2>1
<1> QED
  BY <1>3, <1>4, <1>5, <1>6, <1>7, <1>8, <1>9, <1>10, LayerTypes

LEMMA MemoLayers ==
    /\ DOMAIN Layers["memo"] = 1..3
    /\ Layers["memo"][1].op = "scissor" /\ Layers["memo"][2].op = "entity" /\ Layers["memo"][3].op = "scissor_reset"
    /\ \A k \in 1..3 : Layers["memo"][k].flags = {} /\ Layers["memo"][k].invert = {} /\ Layers["memo"][k].needs \subseteq Needed
<1>1. Layers["memo"] = <<Always("scissor", {}), Always("entity", {"glyph"}), Always("scissor_reset", {})>>
  BY DEF Layers
<1> QED
  BY <1>1 DEF Always, Layer, Needed

LEMMA TakesNeeded ==
    ASSUME NEW w, w.type \in DOMAIN Layers
    PROVE  Takes(w) \subseteq Needed
<1>1. ASSUME NEW k \in DOMAIN Layers[w.type]
      PROVE  Layers[w.type][k].needs \subseteq Needed
  <2>1. CASE w.type = "memo"
    BY <1>1, <2>1, MemoLayers
  <2>2. CASE w.type # "memo"
    <3>1. Layers[w.type] \in Seq(Plain)
      BY <2>2, PlainLayers
    <3>2. Layers[w.type][k] \in Plain
      BY <1>1, <3>1
    <3> QED
      BY <3>2 DEF Plain
  <2> QED
    BY <2>1, <2>2
<1> QED
  BY <1>1 DEF Takes, LayersShown

LEMMA WidgetCarries ==
    ASSUME NEW w, w.type \in DOMAIN Layers
    PROVE  Carries(WidgetQueue(w), AtDepth(1), AtDepth(1))
<1> DEFINE u == [k \in DOMAIN Layers[w.type] |-> IF k \in LayersShown(w) THEN <<Layers[w.type][k].op>> ELSE <<>>]
<1>1. Carries(FlattenSeq(u), AtDepth(2), AtDepth(2))
  <2>1. CASE w.type = "memo"
    <3>1. DOMAIN Layers[w.type] = 1..3 /\ LayersShown(w) = 1..3
      BY <2>1, MemoLayers DEF LayersShown, Shows
    <3>2. Len(u) = 3 /\ u[1] = <<"scissor">> /\ u[2] = <<"entity">> /\ u[3] = <<"scissor_reset">>
      BY <2>1, <3>1, MemoLayers
    <3> DEFINE G == [i \in 0..3 |-> IF i \in {0, 3} THEN AtDepth(2) ELSE Cutting(2)]
    <3>3. G[0] = AtDepth(2) /\ G[1] = Cutting(2) /\ G[2] = Cutting(2) /\ G[3] = AtDepth(2)
      OBVIOUS
    <3> HIDE DEF u, G
    <3>4. /\ Carries(<<"scissor">>, AtDepth(2), Cutting(2)) /\ Carries(<<"entity">>, Cutting(2), Cutting(2))
          /\ Carries(<<"scissor_reset">>, Cutting(2), AtDepth(2))
      <4>1. 2 \in 0..2
        OBVIOUS
      <4> QED
        BY <4>1, EventSteps, Zenon
    <3>5. ASSUME NEW i \in 1..3
          PROVE  Carries(u[i], G[i - 1], G[i])
      <4>1. \/ i = 1 /\ i - 1 = 0
            \/ i = 2 /\ i - 1 = 1
            \/ i = 3 /\ i - 1 = 2
        OBVIOUS
      <4> QED
        BY <3>2, <3>3, <3>4, <4>1, Zenon
    <3>6. Carries(FlattenSeq(u), G[0], G[3])
      <4>1. 3 \in Nat /\ 3 # 0
        OBVIOUS
      <4> QED
        BY <3>2, <3>5, <4>1, CarriesAll, Zenon
    <3> QED
      BY <3>3, <3>6, Zenon
  <2>2. CASE w.type # "memo"
    <3>1. Layers[w.type] \in Seq(Plain)
      BY <2>2, PlainLayers
    <3>2. PICK n \in Nat : DOMAIN Layers[w.type] = 1..n
      BY <3>1
    <3>3. Len(u) = n /\ DOMAIN u = 1..n /\ (n = 0 => u = <<>>)
      BY <3>2
    <3>4. \A k \in 1..n : u[k] = <<"entity">> \/ u[k] = <<>>
      <4>1. \A k \in 1..n : Layers[w.type][k] \in Plain
        BY <3>1, <3>2
      <4>2. \A k \in 1..n : Layers[w.type][k].op = "entity"
        BY <4>1 DEF Plain
      <4> QED
        BY <3>2, <4>2, Zenon
    <3> DEFINE G == [i \in 0..n |-> AtDepth(2)]
    <3> HIDE DEF u
    <3>5. /\ Carries(<<"entity">>, AtDepth(2), AtDepth(2)) /\ Carries(<<>>, AtDepth(2), AtDepth(2))
      <4>1. 2 \in 0..2
        OBVIOUS
      <4> QED
        BY <4>1, EventSteps, CarriesNothing, Zenon
    <3>6. \A i \in 1..n : G[i - 1] = AtDepth(2) /\ G[i] = AtDepth(2)
      OBVIOUS
    <3>7. G[0] = AtDepth(2) /\ G[n] = AtDepth(2)
      OBVIOUS
    <3> HIDE DEF G
    <3>8. \A i \in 1..n : Carries(u[i], G[i - 1], G[i])
      BY <3>4, <3>5, <3>6, Zenon
    <3>9. Carries(FlattenSeq(u), G[0], G[n])
      BY <3>3, <3>8, CarriesAll, Zenon
    <3> QED
      BY <3>7, <3>9, Zenon
  <2> QED
    BY <2>1, <2>2
<1>2. Carries(<<"push">>, AtDepth(1), AtDepth(2)) /\ Carries(<<"pop">>, AtDepth(2), AtDepth(1))
  <2>1. 1 \in 0..1 /\ 1 + 1 = 2
    OBVIOUS
  <2> QED
    BY <2>1, EventSteps, Zenon
<1>3. WidgetQueue(w) = (<<"push">> \o FlattenSeq(u)) \o <<"pop">>
  BY Zenon DEF WidgetQueue
<1> HIDE DEF u
<1>4. Carries((<<"push">> \o FlattenSeq(u)) \o <<"pop">>, AtDepth(1), AtDepth(1))
  <2>1. Carries(<<"push">> \o FlattenSeq(u), AtDepth(1), AtDepth(2))
    BY <1>1, <1>2, CarriesOn, Zenon
  <2> QED
    BY <1>2, <2>1, CarriesOn, Zenon
<1> QED
  BY <1>3, <1>4, Zenon

\* The widgets of a view are numbered from 0.
LEMMA WidgetsFinite ==
    ASSUME ViewsOK, NEW n \in Names
    PROVE  \E m \in Nat : DOMAIN views[n].widgets = 0..(m - 1)
<1>1. CASE n = "browser"
  <2>1. DOMAIN views[n].widgets = 0..(7 - 1)
    BY <1>1, ViewDomains
  <2> QED
    BY <2>1
<1>2. CASE n = "m_main"
  <2>1. DOMAIN views[n].widgets = 0..(9 - 1)
    BY <1>2, ViewDomains
  <2> QED
    BY <2>1
<1>3. CASE n = "dialog"
  <2>1. DialogView(views[n])
    BY <1>3 DEF ViewsOK
  <2> DEFINE ws == views[n].widgets
  <2>2. CASE DOMAIN ws = {}
    <3>1. 0..(0 - 1) = {} /\ 0 \in Nat
      OBVIOUS
    <3> QED
      BY <2>2, <3>1, Zenon
  <2>3. CASE DOMAIN ws = DialogWidgets(views[n].kind)
    <3>1. views[n].kind \in DialogKinds
      BY <2>1, DialogDomain
    <3>2. Len(Types(views[n].kind)) \in Nat
      BY <3>1, KindTypes
    <3> QED
      BY <2>3, <3>2, Zenon DEF DialogWidgets
  <2> QED
    BY <2>1, <2>2, <2>3, Zenon DEF DialogView
<1> QED
  BY <1>1, <1>2, <1>3 DEF Names

LEMMA WidgetTyped ==
    ASSUME ViewsOK, NEW n \in Names, NEW i \in DOMAIN views[n].widgets
    PROVE  views[n].widgets[i].type \in DOMAIN Layers
<1>1. PICK K, D : views[n] \in ScreenViews(K, D)
  BY ViewKinds
<1> QED
  BY <1>1 DEF ScreenViews, ScreenWidgets

LEMMA ViewCarries ==
    ASSUME ViewsOK, NEW n \in Names
    PROVE  Carries(ViewQueue(views[n]), AtDepth(0), AtDepth(0))
<1>0. PICK v : v = views[n]
  OBVIOUS
<1>1. PICK m \in Nat : DOMAIN v.widgets = 0..(m - 1)
  BY <1>0, WidgetsFinite, Zenon
<1>2. Cardinality(DOMAIN v.widgets) = m
  <2>1. Cardinality(0..(m - 1)) = m
    BY FS_Interval
  <2> QED
    BY <1>1, <2>1, Zenon
<1> DEFINE u == [k \in 1..Cardinality(DOMAIN v.widgets) |-> IF k - 1 \in VisibleIn(v) THEN WidgetQueue(v.widgets[k - 1]) ELSE <<>>]
<1>3. Len(u) = m /\ (m = 0 => u = <<>>)
  BY <1>2
<1>4. \A k \in 1..m : u[k] = WidgetQueue(v.widgets[k - 1]) \/ u[k] = <<>>
  BY <1>2, Zenon
<1>5. ViewQueue(v) = (<<"push">> \o FlattenSeq(u)) \o <<"pop">>
  BY Zenon DEF ViewQueue
<1> DEFINE G == [i \in 0..m |-> AtDepth(1)]
<1>6. (\A i \in 1..m : G[i - 1] = AtDepth(1) /\ G[i] = AtDepth(1)) /\ G[0] = AtDepth(1) /\ G[m] = AtDepth(1)
  OBVIOUS
<1> HIDE DEF u, G
<1>7. ASSUME NEW k \in 1..m
      PROVE  Carries(u[k], G[k - 1], G[k])
  <2>1. k - 1 \in DOMAIN v.widgets
    BY <1>1
  <2>2. v.widgets[k - 1].type \in DOMAIN Layers
    BY <1>0, <2>1, WidgetTyped, Zenon
  <2>3. Carries(WidgetQueue(v.widgets[k - 1]), AtDepth(1), AtDepth(1))
    BY <2>2, WidgetCarries, Zenon
  <2>4. Carries(<<>>, AtDepth(1), AtDepth(1))
    BY CarriesNothing
  <2> QED
    BY <1>4, <1>6, <2>3, <2>4, Zenon
<1>8. Carries(FlattenSeq(u), AtDepth(1), AtDepth(1))
  <2>1. Carries(FlattenSeq(u), G[0], G[m])
    BY <1>3, <1>7, CarriesAll, Zenon
  <2> QED
    BY <1>6, <2>1, Zenon
<1>9. Carries(<<"push">>, AtDepth(0), AtDepth(1)) /\ Carries(<<"pop">>, AtDepth(1), AtDepth(0))
  <2>1. 0 \in 0..1 /\ 0 + 1 = 1
    OBVIOUS
  <2> QED
    BY <2>1, EventSteps, Zenon
<1>10. Carries((<<"push">> \o FlattenSeq(u)) \o <<"pop">>, AtDepth(0), AtDepth(0))
  <2>1. Carries(<<"push">> \o FlattenSeq(u), AtDepth(0), AtDepth(1))
    BY <1>8, <1>9, CarriesOn, Zenon
  <2> QED
    BY <1>9, <2>1, CarriesOn, Zenon
<1> QED
  BY <1>0, <1>5, <1>10, Zenon

LEMMA FramesAre ==
    ASSUME ViewsOK, NEW n \in Names
    PROVE  \E k \in 1..2 : /\ Len(Frames(n)) = k /\ DOMAIN Frames(n) = 1..k
                           /\ \A i \in 1..k : Frames(n)[i] \in Names
<1>1. views[n].sub \in {"none", "browser", "m_main"}
  <2>1. PICK K, D : views[n] \in ScreenViews(K, D)
    BY ViewKinds
  <2> QED
    BY <2>1 DEF ScreenViews
<1>2. CASE views[n].sub = "none"
  <2>1. Frames(n) = <<n>>
    BY <1>2 DEF Frames
  <2> QED
    BY <2>1
<1>3. CASE views[n].sub # "none"
  <2>1. Frames(n) = <<views[n].sub, n>> /\ views[n].sub \in Names
    BY <1>1, <1>3 DEF Frames, Names
  <2> QED
    BY <2>1
<1> QED
  BY <1>2, <1>3

\* A frame puts each widget at its own origin and leaves no scissor behind.
LEMMA FrameCarries ==
    ASSUME ViewsOK, NEW n \in Names
    PROVE  Carries(view_push_view(n), AtDepth(0), AtDepth(0))
<1>1. PICK k \in 1..2 : /\ Len(Frames(n)) = k /\ DOMAIN Frames(n) = 1..k
                        /\ \A i \in 1..k : Frames(n)[i] \in Names
  BY FramesAre
<1>2. k \in Nat /\ k # 0
  BY <1>1
<1> DEFINE u == [i \in DOMAIN Frames(n) |-> Append(ViewQueue(views[Frames(n)[i]]), "entity")]
<1>3. Len(u) = k /\ \A i \in 1..k : u[i] = Append(ViewQueue(views[Frames(n)[i]]), "entity")
  BY <1>1
<1>4. view_push_view(n) = <<"entity">> \o FlattenSeq(u)
  BY Zenon DEF view_push_view
<1> HIDE DEF u
<1>5. Carries(<<"entity">>, AtDepth(0), AtDepth(0))
  <2>1. 0 \in 0..2
    OBVIOUS
  <2> QED
    BY <2>1, EventSteps, Zenon
<1>6. ASSUME NEW i \in 1..k
      PROVE  Carries(u[i], AtDepth(0), AtDepth(0))
  <2>1. PICK q : q = ViewQueue(views[Frames(n)[i]])
    OBVIOUS
  <2>2. Carries(q, AtDepth(0), AtDepth(0))
    BY <1>1, <2>1, ViewCarries, Zenon
  <2>3. Carries(q \o <<"entity">>, AtDepth(0), AtDepth(0))
    BY <1>5, <2>2, CarriesOn, Zenon
  <2>4. Append(q, "entity") = q \o <<"entity">>
    <3>1. q \in Seq(Events) /\ "entity" \in Events
      BY <2>2, Zenon DEF Carries, Events
    <3> QED
      BY <3>1
  <2> QED
    BY <1>3, <2>1, <2>3, <2>4, Zenon
<1> DEFINE G == [i \in 0..k |-> AtDepth(0)]
<1>7. (\A i \in 1..k : G[i - 1] = AtDepth(0) /\ G[i] = AtDepth(0)) /\ G[0] = AtDepth(0) /\ G[k] = AtDepth(0)
  BY <1>1
<1> HIDE DEF G
<1>8. Carries(FlattenSeq(u), AtDepth(0), AtDepth(0))
  <2>1. \A i \in 1..k : Carries(u[i], G[i - 1], G[i])
    BY <1>6, <1>7, Zenon
  <2>2. Carries(FlattenSeq(u), G[0], G[k])
    BY <1>2, <1>3, <2>1, CarriesAll, Zenon
  <2> QED
    BY <1>7, <2>2, Zenon
<1>9. Carries(<<"entity">> \o FlattenSeq(u), AtDepth(0), AtDepth(0))
  BY <1>5, <1>8, CarriesOn, Zenon
<1> QED
  BY <1>4, <1>9, Zenon

\* A frame takes pointers to textures, glyphs and icons.
LEMMA RefsNeeded ==
    ASSUME ViewsOK, NEW n \in Names, NEW h \in Refs(n)
    PROVE  h[2] \in Needed
<1>1. CASE h \in Background \cup BubbleRefs
  BY <1>1 DEF Background, BubbleRefs, Needed
<1>2. CASE h \in UNION {ViewRefs(m) : m \in ToSet(Frames(n))}
  <2>1. PICK m \in ToSet(Frames(n)) : h \in ViewRefs(m)
    BY <1>2, Zenon
  <2>2. m \in Names
    BY <2>1, FramesAre DEF ToSet
  <2>3. PICK i \in VisibleIn(views[m]) : h \in {<<<<m, i>>, kind>> : kind \in Takes(views[m].widgets[i])}
    BY <2>1, Zenon DEF ViewRefs
  <2>4. views[m].widgets[i].type \in DOMAIN Layers
    BY <2>2, <2>3, WidgetTyped DEF VisibleIn
  <2>5. Takes(views[m].widgets[i]) \subseteq Needed
    BY <2>4, TakesNeeded, Zenon
  <2> QED
    BY <2>3, <2>5
<1> QED
  BY <1>1, <1>2, Zenon DEF Refs

LEMMA DrawnLive ==
    ASSUME ScreenIInv
    PROVE  DrawnIsLive
<1>0. ViewsOK /\ UiOK /\ DanglingOK /\ ProgramOK /\ theme_gfx \in {"live", "null"}
  BY InvariantParts
<1>1. SUFFICES ASSUME todo # <<>>, Head(todo)[1] \in Draws
      PROVE  LET q == view_push_view(Drawn)
                 after[i \in 0..Len(q)] == IF i = 0 THEN gfx_frame_start ELSE gfx_frame_push(after[i - 1], q[i])
                 g == after[Len(q)]
             IN  /\ Refs(Drawn) \cap dangling = {}
                 /\ g.depth = 0 /\ g.most <= OriginStack /\ ~g.scissor
  BY Zenon DEF DrawnIsLive
<1>2. Drawn \in Names
  BY <1>0, <1>1 DEF Drawn, Names, UiOK
<1>3. Refs(Drawn) \cap dangling = {}
  <2>1. CallAt(todo, 1) \in Draws
    BY <1>0, <1>1, DoesCall DEF Do
  <2>2. Calm
    BY <1>0, <1>1, <2>1, CalmNow DEF Draws, ThemeOps
  <2>3. \A h \in dangling : h[2] \notin Needed
    BY <2>2 DEF Calm, Needed
  <2>4. \A h \in Refs(Drawn) : h[2] \in Needed
    BY <1>0, <1>2, RefsNeeded, Zenon
  <2> QED
    BY <2>3, <2>4, Zenon
<1> DEFINE q == view_push_view(Drawn)
           a == CHOOSE f : f = [i \in 0..Len(q) |-> IF i = 0 THEN gfx_frame_start ELSE gfx_frame_push(f[i - 1], q[i])]
<1>4. Carries(q, {gfx_frame_start}, AtDepth(0))
  <2>1. gfx_frame_start \in AtDepth(0)
    BY DEF gfx_frame_start, AtDepth, GfxStates
  <2>2. Carries(q, AtDepth(0), AtDepth(0))
    BY <1>0, <1>2, FrameCarries, Zenon
  <2> QED
    BY <2>1, <2>2, Zenon DEF Carries
<1>5. a[Len(q)] \in AtDepth(0)
  <2> HIDE DEF q
  <2> QED
    BY <1>4, QueueRun, Zenon
<1>6. \A g \in AtDepth(0) : g.depth = 0 /\ g.most <= OriginStack /\ ~g.scissor
  BY ScreenAssumption DEF AtDepth, GfxStates
<1> QED
  BY <1>3, <1>5, <1>6, Zenon

\* In the middle of a change of theme, of a deletion or of a slide, and with
\* a dialog open: what a frame draws is there, each widget is put at its own
\* origin and the frame leaves no scissor behind.
THEOREM FramesAreLive == ScreenSpec => []DrawnIsLive
<1>1. ScreenIInv => DrawnIsLive
  BY DrawnLive
<1> QED
  BY <1>1, ScreenInvariance, PTL
=============================================================================
