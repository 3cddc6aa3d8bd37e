----------------------------- MODULE BlobStack -----------------------------
(***************************************************************************)
(* blob.c: the allocator that carves large buffers (uploads, themes) off   *)
(* the top of the MEM2 arena.  The C heap grows the arena from below, so   *)
(* the allocator keeps a slack between the two, and it can only take back  *)
(* the blob it handed out last.  Both functions run with interrupts        *)
(* disabled, hence one atomic action each.                                 *)
(*                                                                         *)
(* The environment is every caller: it may free the pointers it holds in   *)
(* any order, or lose one (isfs_get passes a blob to libc's free() when a  *)
(* NAND read fails, which the allocator never hears of).                   *)
(***************************************************************************)
EXTENDS Integers

CONSTANTS
    Sizes,         \* the sizes callers ask for
    MAX_BLOBS,     \* slots of the table
    BLOB_MINSLACK, \* room left to the heap by an allocation
    Align,         \* granularity of a blob's address (0x20)
    Word,          \* addresses are u32: 2^32
    Lo0, Hi0       \* bounds of MEM2 at boot

\* MEM2 starts at 0x90000000, far above LD_MAX_SIZE and MAX_THEME_ZIP_SIZE,
\* so no request can make "old_arena2hi - size" wrap around.
ASSUME SizesAssumption == Sizes \subseteq 1..(Lo0 - 1)
ASSUME ArenaAssumption ==
    /\ MAX_BLOBS \in Nat \ {0} /\ BLOB_MINSLACK \in Nat \ {0}
    /\ Align \in Nat \ {0} /\ Word \in Nat
    /\ Lo0 \in Nat /\ Hi0 \in Nat /\ Lo0 <= Hi0 /\ Hi0 < Word

VARIABLES
    arena2lo, arena2hi, \* SYS_GetArena2Lo(), SYS_GetArena2Hi()
    blobs,              \* the table; slots at and above num_blobs are stale
    num_blobs,
    panicked,           \* "no", or the message printed before panic()
    held                \* the pointers callers still have to free

vars == <<arena2lo, arena2hi, blobs, num_blobs, panicked, held>>

Addr == 0..(Word - 1)
Slots == 0..(MAX_BLOBS - 1)
Live == 0..(num_blobs - 1)
Blob == [the_blob : Addr, blob_size : Sizes \union {0}, old_arena2hi : Addr]
Panics == {"no", "too many blobs", "blob_free with no blobs",
           "mismatched blob_free", "someone else used MEM2"}

\* A faulty version of BlobAddr, which rounds up.
BlobAddrUp(hi, size) ==
    LET a == (hi - size) % Word IN a + ((Align - (a % Align)) % Align)

\* The pointer arithmetic of blob_alloc: u32 subtraction, then "& ~0x1f".
BlobAddr(hi, size) ==
    LET a == (hi - size) % Word IN a - (a % Align)

Init ==
    /\ arena2lo = Lo0 /\ arena2hi = Hi0
    /\ blobs = [i \in Slots |-> [the_blob |-> 0, blob_size |-> 0, old_arena2hi |-> 0]]
    /\ num_blobs = 0
    /\ panicked = "no"
    /\ held = {}

---------------------------------------------------------------------------
AllocPanic ==
    /\ num_blobs >= MAX_BLOBS
    /\ panicked' = "too many blobs"
    /\ UNCHANGED <<arena2lo, arena2hi, blobs, num_blobs, held>>

Fits(size) == BlobAddr(arena2hi, size) >= BLOB_MINSLACK + arena2lo

\* blob_alloc returns NULL: nothing changes.
AllocFail(size) ==
    /\ num_blobs < MAX_BLOBS
    /\ ~Fits(size)
    /\ UNCHANGED vars

AllocDone(size) ==
    /\ num_blobs < MAX_BLOBS
    /\ Fits(size)
    /\ LET addr == BlobAddr(arena2hi, size) IN
        /\ blobs' = [blobs EXCEPT ![num_blobs] =
              [the_blob |-> addr, blob_size |-> size, old_arena2hi |-> arena2hi]]
        /\ arena2hi' = addr
        /\ held' = held \union {addr}
    /\ num_blobs' = num_blobs + 1
    /\ UNCHANGED <<arena2lo, panicked>>

blob_alloc(size) == AllocPanic \/ AllocFail(size) \/ AllocDone(size)

\* A faulty version of blob_free: pops whatever blob is on top.
BlobFreePops(p) ==
    /\ num_blobs > 0
    /\ held' = held \ {p} /\ num_blobs' = num_blobs - 1
    /\ arena2hi' = blobs[num_blobs - 1].old_arena2hi
    /\ UNCHANGED <<arena2lo, blobs, panicked>>

\* num_blobs is decremented before the two checks that can panic; a null
\* pointer returns at once and is left out.
blob_free(p) ==
    /\ held' = held \ {p}
    /\ IF num_blobs = 0
       THEN /\ panicked' = "blob_free with no blobs"
            /\ UNCHANGED <<arena2hi, num_blobs>>
       ELSE LET top == blobs[num_blobs - 1] IN
            /\ num_blobs' = num_blobs - 1
            /\ panicked' = IF p # top.the_blob THEN "mismatched blob_free"
                           ELSE IF arena2hi # p THEN "someone else used MEM2"
                           ELSE panicked
            /\ arena2hi' = IF p = top.the_blob /\ arena2hi = p
                           THEN top.old_arena2hi ELSE arena2hi
    /\ UNCHANGED <<arena2lo, blobs>>

\* isfs_get: free(__buf) on a blob.
LosePointer(p) ==
    /\ held' = held \ {p}
    /\ UNCHANGED <<arena2lo, arena2hi, blobs, num_blobs, panicked>>

\* libogc's sbrk: the heap takes MEM2 from below and never passes arena2hi.
HeapGrow ==
    /\ \E lo \in (arena2lo + 1)..arena2hi : arena2lo' = lo
    /\ UNCHANGED <<arena2hi, blobs, num_blobs, panicked, held>>

\* panic() does not return.
Next ==
    /\ panicked = "no"
    /\ \/ \E size \in Sizes : blob_alloc(size)
       \/ \E p \in held : blob_free(p)
       \/ \E p \in held : LosePointer(p)
       \/ HeapGrow

Spec == Init /\ [][Next]_vars

---------------------------------------------------------------------------
TypeOK ==
    /\ arena2lo \in Addr /\ arena2hi \in Addr
    /\ blobs \in [Slots -> Blob]
    /\ num_blobs \in 0..MAX_BLOBS
    /\ panicked \in Panics
    /\ held \subseteq Addr

\* The blobs in use never share a byte with each other or with the heap,
\* in whatever order callers allocate and free (blob_alloc, blob_free).
Disjoint ==
    panicked = "no" =>
        /\ \A i, j \in Live : i < j =>
              blobs[j].the_blob + blobs[j].blob_size <= blobs[i].the_blob
        /\ \A i \in Live :
              /\ arena2lo <= blobs[i].the_blob
              /\ blobs[i].the_blob + blobs[i].blob_size <= Hi0

\* The arena ends at the newest blob, and is whole again once the table is
\* empty: a freed blob gives back the rounding it took as well.
ArenaTop ==
    panicked = "no" =>
        arena2hi = IF num_blobs = 0 THEN Hi0 ELSE blobs[num_blobs - 1].the_blob

\* The table and the arena of a console that has not panicked: what the
\* comment of blob.c promises ("supports only stack-type allocs").
ArenaWhole == TypeOK /\ Disjoint /\ ArenaTop

\* A pointer a caller holds is a blob in use, and two callers never hold
\* the same one: an older pointer stays valid across the frees of others.
HeldIsLive ==
    panicked = "no" => held \subseteq {blobs[i].the_blob : i \in Live}

\* Of the four panics only two can be reached by callers that free what
\* they hold: the table overflowing and a free out of stack order.
ReachablePanics ==
    panicked \in {"no", "too many blobs", "mismatched blob_free"}

\* Where each blob's old_arena2hi points: what makes popping restore the arena.
Chained ==
    panicked = "no" =>
        /\ Lo0 <= arena2lo /\ arena2lo <= arena2hi
        /\ \A i \in Live : blobs[i].old_arena2hi =
              IF i = 0 THEN Hi0 ELSE blobs[i - 1].the_blob
=============================================================================
