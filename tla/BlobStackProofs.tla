------------------------- MODULE BlobStackProofs -------------------------
(***************************************************************************)
(* Proofs about BlobStack, for every arena, alignment, slack and set of    *)
(* sizes.  IInv is inductive: Disjoint alone is not, because a free puts   *)
(* the arena back to the old_arena2hi of the popped slot, so that slot's   *)
(* value (Chained) and the present top (ArenaTop) must be known too.       *)
(***************************************************************************)
EXTENDS BlobStack, TLAPS

Core == Disjoint /\ ArenaTop /\ HeldIsLive /\ Chained
IInv == TypeOK /\ Core /\ ReachablePanics

\* What "& ~0x1f" does to an address: it never raises it.
LEMMA ModBound ==
    ASSUME NEW a \in Nat, NEW m \in Nat \ {0}
    PROVE  a % m \in 0..(m - 1) /\ a % m <= a
  OBVIOUS

\* u32 arithmetic that does not wrap.
LEMMA ModSmall ==
    ASSUME NEW a \in Nat, NEW m \in Nat, a < m
    PROVE  a % m = a
  OBVIOUS

\* An address blob_alloc computes is below the arena's top by at least the
\* size asked for: no request wraps around.
LEMMA BlobAddrBound ==
    ASSUME NEW hi \in Addr, NEW size \in Sizes, Lo0 <= hi
    PROVE  /\ BlobAddr(hi, size) \in Addr
           /\ BlobAddr(hi, size) + size <= hi
<1> DEFINE a == hi - size
           r == a % Align
<1>1. size \in Nat /\ 0 < size /\ size < Lo0 /\ Lo0 \in Nat
  BY SizesAssumption, ArenaAssumption
<1>2. a \in Nat /\ a < Word /\ Word \in Nat /\ hi \in Nat /\ hi < Word
  BY <1>1, ArenaAssumption DEF Addr
<1>3. a % Word = a
  BY <1>2, ModSmall
<1>4. r \in Nat /\ r <= a
  <2>1. Align \in Nat \ {0} /\ a \in Nat
    BY <1>2, ArenaAssumption
  <2>2. r \in 0..(Align - 1) /\ r <= a
    BY ONLY <2>1, ModBound
  <2> HIDE DEF r
  <2> QED
    BY <2>1, <2>2
<1>5. BlobAddr(hi, size) = a - r
  BY <1>3 DEF BlobAddr
<1> HIDE DEF r
<1>6. a - r \in Nat /\ a - r < Word /\ (a - r) + size <= hi
  BY <1>1, <1>2, <1>4
<1> QED
  BY <1>5, <1>6, <1>2 DEF Addr

\* The fields of a table slot are numbers.
LEMMA BlobFields ==
    ASSUME NEW b \in Blob
    PROVE  b.the_blob \in Nat /\ b.blob_size \in Nat /\ b.old_arena2hi \in Addr
<1>1. b.the_blob \in Addr /\ b.blob_size \in Sizes \union {0} /\ b.old_arena2hi \in Addr
  BY DEF Blob
<1>2. Addr \subseteq Nat
  BY ArenaAssumption DEF Addr
<1>3. Sizes \subseteq Nat
  BY SizesAssumption, ArenaAssumption
<1>4. b.the_blob \in Nat
  BY <1>1, <1>2
<1>5. b.blob_size \in Nat
  <2>1. CASE b.blob_size \in Sizes
    BY <2>1, <1>3
  <2>2. CASE b.blob_size = 0
    BY <2>2
  <2> QED
    BY <1>1, <2>1, <2>2
<1> QED
  BY <1>1, <1>4, <1>5

\* At boot the table is empty and the arena whole.
LEMMA InitIInv == Init => IInv
<1> SUFFICES ASSUME Init PROVE IInv
  OBVIOUS
<1> USE ArenaAssumption DEF Init
<1>1. TypeOK
  BY DEF TypeOK, Addr, Slots, Blob, Panics
<1>2. Live = {}
  BY DEF Live
<1>3. Core /\ ReachablePanics
  BY <1>2 DEF Core, Disjoint, ArenaTop, HeldIsLive, Chained, ReachablePanics
<1> QED
  BY <1>1, <1>3 DEF IInv

\* An allocation that fits puts the new blob under every older one.
LEMMA AllocKeepsIInv ==
    ASSUME IInv, panicked = "no", NEW size \in Sizes, AllocDone(size)
    PROVE  IInv'
<1> DEFINE addr == BlobAddr(arena2hi, size)
           new == [the_blob |-> addr, blob_size |-> size, old_arena2hi |-> arena2hi]
           n == num_blobs
<1>1. /\ n \in Nat /\ n < MAX_BLOBS /\ MAX_BLOBS \in Nat
      /\ blobs \in [Slots -> Blob] /\ n \in Slots
      /\ arena2hi \in Addr /\ arena2lo \in Addr /\ held \subseteq Addr
  BY ArenaAssumption DEF IInv, TypeOK, AllocDone, Slots
<1>2. /\ Lo0 <= arena2lo /\ arena2lo <= arena2hi
      /\ Lo0 \in Nat /\ Hi0 \in Nat /\ Word \in Nat /\ BLOB_MINSLACK \in Nat
  BY ArenaAssumption DEF IInv, Core, Chained
<1>3. addr \in Addr /\ addr + size <= arena2hi /\ size \in Nat /\ arena2hi \in Nat
      /\ arena2lo \in Nat /\ addr \in Nat
  <2>1. Lo0 <= arena2hi
    BY <1>1, <1>2 DEF Addr
  <2> QED
    BY <2>1, <1>1, BlobAddrBound, SizesAssumption, ArenaAssumption DEF Addr
<1>4. arena2lo <= addr
  BY <1>2, <1>3 DEF AllocDone, Fits
<1>5. /\ blobs' = [blobs EXCEPT ![n] = new] /\ num_blobs' = n + 1
      /\ arena2hi' = addr /\ arena2lo' = arena2lo /\ panicked' = panicked
      /\ held' = held \union {addr}
  BY DEF AllocDone
<1> HIDE DEF addr
<1>6. /\ blobs'[n] = new
      /\ \A i \in Live : i \in Slots /\ i # n /\ blobs'[i] = blobs[i] /\ blobs[i] \in Blob
  BY <1>1, <1>5 DEF Live, Slots
<1>7. \A i \in Live' : i = n \/ i \in Live
  BY <1>1, <1>5 DEF Live
<1>8. TypeOK'
  <2>1. new \in Blob
    BY <1>1, <1>3 DEF Blob
  <2>2. panicked' \in Panics
    BY <1>5 DEF IInv, TypeOK
  <2> QED
    BY <2>1, <2>2, <1>1, <1>3, <1>5 DEF TypeOK
<1>9. Chained'
  <2>1. ASSUME NEW i \in Live'
        PROVE blobs'[i].old_arena2hi = IF i = 0 THEN Hi0 ELSE blobs'[i - 1].the_blob
    <3>1. CASE i \in Live
      <4>1. i = 0 \/ i - 1 \in Live
        BY <3>1, <1>1 DEF Live
      <4> QED
        BY <4>1, <3>1, <1>6 DEF IInv, Core, Chained
    <3>2. CASE i = n
      <4>1. n = 0 \/ n - 1 \in Live
        BY <1>1 DEF Live
      <4>2. arena2hi = IF n = 0 THEN Hi0 ELSE blobs[n - 1].the_blob
        BY DEF IInv, Core, ArenaTop
      <4> QED
        BY <3>2, <4>1, <4>2, <1>6
    <3> QED
      BY <3>1, <3>2, <1>7
  <2> QED
    BY <2>1, <1>2, <1>4, <1>5 DEF Chained
<1>10. Disjoint'
  <2>1. ASSUME NEW i \in Live PROVE arena2hi <= blobs[i].the_blob
    <3>1. n - 1 \in Live /\ arena2hi = blobs[n - 1].the_blob
      BY <1>1 DEF Live, IInv, Core, ArenaTop
    <3>2. CASE i = n - 1
      BY <3>1, <3>2, <1>3
    <3>3. CASE i # n - 1
      <4>1. i < n - 1
        BY <3>3, <1>1 DEF Live
      <4>2. blobs[n - 1].the_blob + blobs[n - 1].blob_size <= blobs[i].the_blob
        BY <4>1, <3>1 DEF IInv, Core, Disjoint
      <4>3. blobs[n - 1].blob_size \in Nat /\ blobs[i].the_blob \in Nat
        BY <3>1, <1>6, SizesAssumption DEF Blob, Addr
      <4> QED
        BY <4>2, <4>3, <3>1, <1>3
    <3> QED
      BY <3>2, <3>3
  <2>2. ASSUME NEW i \in Live', NEW j \in Live', i < j
        PROVE  blobs'[j].the_blob + blobs'[j].blob_size <= blobs'[i].the_blob
    <3>1. i \in Live
      BY <2>2, <1>7, <1>1, <1>5 DEF Live
    <3>2. CASE j \in Live
      BY <3>1, <3>2, <2>2, <1>6 DEF IInv, Core, Disjoint
    <3>3. CASE j = n
      <4>1. blobs'[j].the_blob = addr /\ blobs'[j].blob_size = size
        BY <3>3, <1>6
      <4>2. blobs'[i].the_blob = blobs[i].the_blob /\ blobs[i].the_blob \in Nat
        BY <3>1, <1>6 DEF Blob, Addr
      <4> QED
        BY <4>1, <4>2, <3>1, <2>1, <1>3
    <3> QED
      BY <3>2, <3>3, <1>7
  <2>3. ASSUME NEW i \in Live'
        PROVE /\ arena2lo' <= blobs'[i].the_blob
              /\ blobs'[i].the_blob + blobs'[i].blob_size <= Hi0
    <3>1. CASE i \in Live
      BY <3>1, <1>5, <1>6 DEF IInv, Core, Disjoint
    <3>2. CASE i = n
      <4>1. arena2hi <= Hi0
        <5>1. CASE n = 0
          BY <5>1, <1>2 DEF IInv, Core, ArenaTop
        <5>2. CASE n # 0
          <6>1. n - 1 \in Live
            BY <5>2, <1>1 DEF Live
          <6>2. blobs[n - 1].the_blob + blobs[n - 1].blob_size <= Hi0
            BY <6>1 DEF IInv, Core, Disjoint
          <6>3. blobs[n - 1].blob_size \in Nat /\ blobs[n - 1].the_blob \in Nat
            BY <6>1, <1>6, SizesAssumption DEF Blob, Addr
          <6> QED
            BY <6>1, <6>2, <6>3, <2>1, <1>2, <1>3
        <5> QED
          BY <5>1, <5>2
      <4> QED
        BY <4>1, <3>2, <1>2, <1>3, <1>4, <1>5, <1>6
    <3> QED
      BY <3>1, <3>2, <1>7
  <2> QED
    BY <2>2, <2>3 DEF Disjoint
<1>11. ArenaTop'
  BY <1>1, <1>5, <1>6 DEF ArenaTop
<1>12. HeldIsLive'
  <2>1. ASSUME NEW p \in held' PROVE \E i \in Live' : p = blobs'[i].the_blob
    <3>1. CASE p \in held
      <4>1. PICK i \in Live : p = blobs[i].the_blob
        BY <3>1 DEF IInv, Core, HeldIsLive
      <4>2. i \in Live'
        BY <1>1, <1>5 DEF Live
      <4> QED
        BY <4>1, <4>2, <1>6
    <3>2. CASE p = addr
      <4>1. n \in Live'
        BY <1>1, <1>5 DEF Live
      <4> QED
        BY <3>2, <4>1, <1>6
    <3> QED
      BY <3>1, <3>2, <1>5
  <2> QED
    BY <2>1 DEF HeldIsLive
<1>13. ReachablePanics'
  BY <1>5 DEF IInv, ReachablePanics
<1> QED
  BY <1>8, <1>9, <1>10, <1>11, <1>12, <1>13 DEF IInv, Core

\* A free pops the newest blob and gives the arena back to the one below it.
LEMMA FreeKeepsIInv ==
    ASSUME IInv, panicked = "no", NEW p \in held, blob_free(p)
    PROVE  IInv'
<1> DEFINE n == num_blobs
           top == blobs[n - 1]
<1>1. /\ n \in 0..MAX_BLOBS /\ MAX_BLOBS \in Nat /\ blobs \in [Slots -> Blob]
      /\ arena2hi \in Addr /\ arena2lo \in Addr /\ held \subseteq Addr
  BY ArenaAssumption DEF IInv, TypeOK
<1>2. PICK k \in Live : p = blobs[k].the_blob
  BY DEF IInv, Core, HeldIsLive
<1>3. n # 0 /\ n - 1 \in Live /\ n - 1 \in Nat /\ n \in Nat /\ k <= n - 1 /\ k \in Nat
  BY <1>1, <1>2 DEF Live
<1>4. \A i \in Live : i \in Slots /\ blobs[i] \in Blob
  BY <1>1 DEF Live, Slots
<1>5. /\ num_blobs' = n - 1 /\ blobs' = blobs /\ arena2lo' = arena2lo
      /\ held' = held \ {p}
      /\ panicked' = IF p # top.the_blob THEN "mismatched blob_free"
                     ELSE IF arena2hi # p THEN "someone else used MEM2"
                     ELSE panicked
      /\ arena2hi' = IF p = top.the_blob /\ arena2hi = p
                     THEN top.old_arena2hi ELSE arena2hi
  BY <1>3 DEF blob_free
<1>6. arena2hi = top.the_blob
  BY <1>3 DEF IInv, Core, ArenaTop
<1>7. Live' \subseteq Live /\ \A i \in Live : i # n - 1 => i \in Live'
  <2>1. Live' = 0..((n - 1) - 1)
    BY <1>5 DEF Live
  <2>2. Live = 0..(n - 1)
    BY DEF Live
  <2> QED
    BY <2>1, <2>2, <1>3
<1>8. top \in Blob /\ top.old_arena2hi \in Addr
  BY <1>3, <1>4 DEF Blob
<1>9. panicked' \in {"no", "mismatched blob_free"}
  BY <1>5, <1>6
<1>10. TypeOK'
  <2>1. num_blobs' \in 0..MAX_BLOBS
    <3>1. n \in 0..MAX_BLOBS /\ n # 0 /\ MAX_BLOBS \in Nat /\ num_blobs' = n - 1
      BY <1>1, <1>3, <1>5
    <3> HIDE DEF n
    <3> QED
      BY <3>1
  <2>2. arena2hi' \in Addr /\ held' \subseteq Addr
    BY <1>1, <1>5, <1>8
  <2>3. panicked' \in Panics
    BY <1>9 DEF Panics
  <2> QED
    BY <2>1, <2>2, <2>3, <1>1, <1>5 DEF TypeOK
<1>11. ReachablePanics'
  BY <1>9 DEF ReachablePanics
<1>12. CASE panicked' # "no"
  BY <1>10, <1>11, <1>12 DEF IInv, Core, Disjoint, ArenaTop, HeldIsLive, Chained
<1>13. CASE panicked' = "no"
  <2>1. p = top.the_blob /\ arena2hi' = top.old_arena2hi
    BY <1>5, <1>6, <1>13
  <2>2. arena2hi' = IF n - 1 = 0 THEN Hi0 ELSE blobs[n - 2].the_blob
    <3>1. (n - 1) - 1 = n - 2
      BY <1>3
    <3> QED
      BY <3>1, <2>1, <1>3 DEF IInv, Core, Chained
  <2>3. ArenaTop'
    <3>1. (n - 1) - 1 = n - 2
      BY <1>3
    <3> QED
      BY <3>1, <2>2, <1>5 DEF ArenaTop
  <2>4. Disjoint'
    BY <1>5, <1>7 DEF IInv, Core, Disjoint
  <2>5. Chained'
    <3>1. \A i \in Live' : blobs'[i].old_arena2hi =
              IF i = 0 THEN Hi0 ELSE blobs'[i - 1].the_blob
      BY <1>5, <1>7 DEF IInv, Core, Chained
    <3>2. arena2lo' <= arena2hi'
      <4>1. CASE n - 1 = 0
        <5>1. arena2hi <= Hi0
          <6>1. top.the_blob + top.blob_size <= Hi0
            BY <1>3 DEF IInv, Core, Disjoint
          <6>2. top.blob_size \in Nat /\ top.the_blob \in Nat
            BY <1>8, BlobFields
          <6> QED
            BY <6>1, <6>2, <1>6, ArenaAssumption
        <5>2. arena2lo <= arena2hi
          BY DEF IInv, Core, Chained
        <5> QED
          <6>1. arena2hi' = Hi0 /\ arena2lo' = arena2lo
            BY <4>1, <2>2, <1>5
          <6>2. arena2lo \in Nat /\ arena2hi \in Nat /\ Hi0 \in Nat
            BY <1>1, ArenaAssumption DEF Addr
          <6> QED
            BY <5>1, <5>2, <6>1, <6>2
      <4>2. CASE n - 1 # 0
        <5>1. n - 2 \in Live
          BY <4>2, <1>3 DEF Live
        <5>2. arena2lo <= blobs[n - 2].the_blob
          BY <5>1 DEF IInv, Core, Disjoint
        <5> QED
          BY <5>2, <4>2, <2>2, <1>5
      <4> QED
        BY <4>1, <4>2
    <3>3. Lo0 <= arena2lo'
      BY <1>5 DEF IInv, Core, Chained
    <3> QED
      BY <3>1, <3>2, <3>3 DEF Chained
  <2>6. HeldIsLive'
    <3>1. ASSUME NEW q \in held' PROVE \E i \in Live' : q = blobs'[i].the_blob
      <4>1. q \in held /\ q # p
        BY <1>5
      <4>2. PICK i \in Live : q = blobs[i].the_blob
        BY <4>1 DEF IInv, Core, HeldIsLive
      <4>3. i # n - 1
        BY <4>1, <4>2, <2>1
      <4> QED
        BY <4>2, <4>3, <1>5, <1>7
    <3> QED
      BY <3>1 DEF HeldIsLive
  <2> QED
    BY <1>10, <1>11, <2>3, <2>4, <2>5, <2>6 DEF IInv, Core
<1> QED
  BY <1>12, <1>13

\* Every step of the allocator and of its callers keeps IInv: one case for
\* each disjunct of Next.
LEMMA NextIInv == IInv /\ [Next]_vars => IInv'
<1> SUFFICES ASSUME IInv, [Next]_vars PROVE IInv'
  OBVIOUS
<1>1. CASE UNCHANGED vars
  BY <1>1 DEF vars, IInv, TypeOK, Core, Disjoint, ArenaTop, HeldIsLive, Chained,
              ReachablePanics, Live
<1>2. ASSUME panicked = "no", NEW size \in Sizes, blob_alloc(size) PROVE IInv'
  <2>1. CASE AllocPanic
    BY <2>1 DEF AllocPanic, IInv, TypeOK, Core, Disjoint, ArenaTop, HeldIsLive,
                Chained, ReachablePanics, Panics
  <2>2. CASE AllocFail(size)
    BY <2>2, <1>1 DEF AllocFail
  <2>3. CASE AllocDone(size)
    BY <2>3, <1>2, AllocKeepsIInv
  <2> QED
    BY <1>2, <2>1, <2>2, <2>3 DEF blob_alloc
<1>3. ASSUME panicked = "no", NEW p \in held, blob_free(p) PROVE IInv'
  BY <1>3, FreeKeepsIInv
<1>4. ASSUME NEW p \in held, LosePointer(p) PROVE IInv'
  BY <1>4 DEF LosePointer, IInv, TypeOK, Core, Disjoint, ArenaTop, HeldIsLive,
              Chained, ReachablePanics, Live
<1>5. ASSUME panicked = "no", HeapGrow PROVE IInv'
  <2>1. PICK lo \in (arena2lo + 1)..arena2hi : arena2lo' = lo
    BY <1>5 DEF HeapGrow
  <2>2. UNCHANGED <<arena2hi, blobs, num_blobs, panicked, held>>
    BY <1>5 DEF HeapGrow
  <2>3. /\ arena2lo \in Addr /\ arena2hi \in Addr /\ num_blobs \in Nat
        /\ blobs \in [Slots -> Blob] /\ num_blobs \in 0..MAX_BLOBS /\ MAX_BLOBS \in Nat
        /\ Lo0 <= arena2lo /\ Lo0 \in Nat /\ Word \in Nat
    BY <1>5, ArenaAssumption DEF IInv, TypeOK, Core, Chained
  <2>4. arena2lo' \in Addr /\ arena2lo <= arena2lo' /\ arena2lo' <= arena2hi
    BY <2>1, <2>3 DEF Addr
  <2>5. ASSUME NEW i \in Live PROVE arena2hi <= blobs[i].the_blob
    <3>1. /\ num_blobs # 0 /\ num_blobs - 1 \in Live /\ i <= num_blobs - 1
          /\ i \in Slots /\ num_blobs - 1 \in Slots
      BY <2>3 DEF Live, Slots
    <3>2. arena2hi = blobs[num_blobs - 1].the_blob
      BY <1>5, <3>1 DEF IInv, Core, ArenaTop
    <3>3. CASE i = num_blobs - 1
      BY <3>2, <3>3, <2>3 DEF Addr
    <3>4. CASE i < num_blobs - 1
      <4>1. blobs[num_blobs - 1].the_blob + blobs[num_blobs - 1].blob_size
              <= blobs[i].the_blob
        BY <1>5, <3>1, <3>4 DEF IInv, Core, Disjoint
      <4>2. blobs[num_blobs - 1].blob_size \in Nat /\ blobs[i].the_blob \in Nat
        <5>1. blobs[num_blobs - 1] \in Blob /\ blobs[i] \in Blob
          BY <3>1, <2>3
        <5> QED
          BY <5>1, BlobFields
      <4> QED
        BY <4>1, <4>2, <3>2, <2>3 DEF Addr
    <3> QED
      BY <3>1, <3>3, <3>4, <2>3 DEF Live
  <2>6. Disjoint'
    <3>1. ASSUME NEW i \in Live PROVE arena2lo' <= blobs[i].the_blob
      <4>1. blobs[i].the_blob \in Nat
        BY <2>3 DEF Live, Slots, Blob, Addr
      <4> QED
        BY <4>1, <2>3, <2>4, <2>5 DEF Addr
    <3> QED
      BY <3>1, <2>2, <1>5 DEF IInv, Core, Disjoint, Live
  <2>7. Lo0 <= arena2lo'
    BY <2>3, <2>4 DEF Addr
  <2> QED
    BY <2>2, <2>3, <2>4, <2>6, <2>7, <1>5 DEF IInv, TypeOK, Core, ArenaTop, HeldIsLive,
       Chained, ReachablePanics, Live
<1> QED
  BY <1>1, <1>2, <1>3, <1>4, <1>5 DEF Next

\* blob_alloc and blob_free keep IInv whatever their callers do.
THEOREM Invariance == Spec => []IInv
<1>1. Init => IInv
  BY InitIInv
<1>2. IInv /\ [Next]_vars => IInv'
  BY NextIInv
<1> QED
  BY <1>1, <1>2, PTL DEF Spec

\* Type correctness of the table and of the arena's bounds.
THEOREM TypeCorrect == Spec => []TypeOK
<1>1. IInv => TypeOK
  BY DEF IInv
<1> QED
  BY <1>1, Invariance, PTL

\* No two blobs in use overlap, and the heap never reaches one, for every
\* order of blob_alloc, blob_free and heap growth.
THEOREM BlobsDisjoint == Spec => []Disjoint
<1>1. IInv => Disjoint
  BY DEF IInv, Core
<1> QED
  BY <1>1, Invariance, PTL

\* The arena is exactly what the blobs in use leave: nothing is lost to
\* rounding once they are freed.
THEOREM ArenaIsWhole == Spec => []ArenaTop
<1>1. IInv => ArenaTop
  BY DEF IInv, Core
<1> QED
  BY <1>1, Invariance, PTL

\* Every pointer a caller still has to free is a blob in use.
THEOREM PointersLive == Spec => []HeldIsLive
<1>1. IInv => HeldIsLive
  BY DEF IInv, Core
<1> QED
  BY <1>1, Invariance, PTL

\* The table and the arena are whole in every state of a console that has not
\* panicked: blob.c's "supports only stack-type allocs" is all it asks for.
THEOREM ArenaStaysWhole == Spec => []ArenaWhole
<1>1. IInv => ArenaWhole
  BY DEF IInv, Core, ArenaWhole
<1> QED
  BY <1>1, Invariance, PTL

\* blob_free's "no blobs" and "someone else used MEM2" panics are dead code
\* for callers that free what they were given.
THEOREM OnlyTwoPanics == Spec => []ReachablePanics
<1>1. IInv => ReachablePanics
  BY DEF IInv
<1> QED
  BY <1>1, Invariance, PTL
=============================================================================
