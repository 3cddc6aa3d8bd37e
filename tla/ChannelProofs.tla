--------------------------- MODULE ChannelProofs ---------------------------
(***************************************************************************)
(* Proofs about the loader, the motors of the drive and of a remote, the   *)
(* fonts, and where an executable goes.                                    *)
(*                                                                         *)
(* LoaderLoad, for every set of uploads and every arena: that the loader   *)
(* frees its blobs in stack order cannot be proved without knowing, at     *)
(* each place of main, which blobs are on the stack and in which order:    *)
(* Stack says so.  That the payload is complete and nothing stays open     *)
(* rests on how far the loading thread is: Progress and Files.  Where the  *)
(* addresses of two blobs differ is the allocator's invariant, which is    *)
(* taken from BlobStackProofs.                                             *)
(*                                                                         *)
(* DvdMotor, for every set of handles that opening /dev/di may give: the   *)
(* chain and WiiDVD_ShutDown share _dvd_fd and _state without a lock.      *)
(* Main only goes on with a handle above zero, so the first callback of    *)
(* the chain is behind it; from then on a handle that is open is the one   *)
(* main has copied, and once main has set the state to DONE a callback     *)
(* that is still due does nothing.                                         *)
(*                                                                         *)
(* Controls, for any number of remotes and any times: a motor that runs is *)
(* that of the owner of the pointer, who points and so is not off, and     *)
(* what rumbling says of it is true while the time is counted down.        *)
(*                                                                         *)
(* Fonts, for any number of ids, any themes and texts: what is shared      *)
(* belongs to an id that owns its font_face, so the rounds of font_clear   *)
(* and theme_deinit free each face and file once.  That a look-up finds    *)
(* what is in a cache rests on its links: every slot behind the roots is   *)
(* linked from a lower one of the same root.                               *)
(*                                                                         *)
(* Reloc, for every executable whose sections end below 2^32 and all       *)
(* arguments that fit: section after section, what lies outside the range  *)
(* of a program is the channel's, and what an address of the range holds   *)
(* is as the last section that reaches it says.                            *)
(***************************************************************************)
EXTENDS LoaderLoad, DvdMotor, Controls, Fonts, Reloc, FiniteSetTheorems, WellFoundedInduction, TLAPS

BP == INSTANCE BlobStackProofs

HandedOn == {"executable", "zipapp", "theme", "badzip"}

NoBlob == num_blobs = 0 /\ held = {} /\ arena2hi = Hi0

OneBlob(p) ==
    /\ num_blobs = 1 /\ held = {p} /\ arena2hi = p
    /\ blobs[0].the_blob = p /\ blobs[0].old_arena2hi = Hi0

TwoBlobs(p, q) ==
    /\ num_blobs = 2 /\ held = {p, q} /\ p # q /\ arena2hi = q
    /\ blobs[0].the_blob = p /\ blobs[0].old_arena2hi = Hi0
    /\ blobs[1].the_blob = q /\ blobs[1].old_arena2hi = p

Stack ==
    /\ panicked = "no"
    /\ mpc \in {"frame", "exit", "allocun"} => NoBlob
    /\ mpc = "allocun" => UnLen(up) # 0 /\ data_un = Null
    /\ mpc = "allocdata" =>
          IF UnLen(up) = 0 THEN NoBlob /\ data_un = Null
                           ELSE OneBlob(data_un) /\ data_un # Null
    /\ mpc = "freeun" => OneBlob(data_un)
    /\ mpc = "load" =>
          IF UnLen(up) = 0 THEN OneBlob(data) /\ data_un = Null
                           ELSE TwoBlobs(data_un, data)
    /\ mpc \in HandedOn \union {"outcome"} => OneBlob(data) /\ data_un = Null

Progress ==
    /\ lState = "RUNNING" <=> lPc \in {"run", "uncompress"}
    /\ lPc \in {"run", "uncompress"} => mpc = "load"
    /\ lPc = "uncompress" => received = Total(up)
    /\ mpc \in {"load", "outcome"} /\ lState = "SUCCESS" => received = Total(up)
    /\ mpc \in HandedOn => received = Total(up) /\ lState = "SUCCESS"

Files ==
    /\ files = leaks + (IF up.kind = "FILE" /\ (mpc \in {"allocun", "allocdata"} \/ lPc = "run")
                        THEN 1 ELSE 0)
    /\ socket => up.kind = "TCP" /\ (mpc \in {"allocun", "allocdata"} \/ lPc \in {"run", "hangup"})
    /\ mpc \in {"allocun", "allocdata", "freeun"} => lPc = "none"

Own == LoaderTypes /\ Stack /\ Progress /\ Files
IInv == BP!IInv /\ Own

---------------------------------------------------------------------------
(* What the allocator does for its one user.                               *)

\* The constants of LoaderLoad are lawful constants of BlobStack.
LEMMA BlobAssumptions ==
    /\ Sizes \subseteq 1..(Lo0 - 1)
    /\ MAX_BLOBS \in Nat \ {0} /\ BLOB_MINSLACK \in Nat \ {0}
    /\ Align \in Nat \ {0} /\ Word \in Nat
    /\ Lo0 \in Nat /\ Hi0 \in Nat /\ Lo0 <= Hi0 /\ Hi0 < Word
  BY MemoryAssumption

\* Every size the loader asks for is one of Sizes.
LEMMA UploadSizes ==
    ASSUME NEW u \in Uploads
    PROVE  /\ Total(u) \in Sizes
           /\ UnLen(u) # 0 => UnLen(u) \in Sizes
           /\ u.kind = "FILE" => UnLen(u) = 0
           /\ u.kind \in {"FILE", "GECKO", "TCP"} /\ Total(u) \in Nat
<1>1. Total(u) \in Sizes /\ (UnLen(u) # 0 => UnLen(u) \in Sizes)
  BY DEF Sizes
<1>2. u.kind = "FILE" => UnLen(u) = 0
  BY UploadsAssumption DEF UnLen
<1>3. u.kind \in {"FILE", "GECKO", "TCP"} /\ Total(u) \in Nat
  BY UploadsAssumption DEF Total
<1> QED
  BY <1>1, <1>2, <1>3

\* The address a new blob gets lies below the arena's top.
LEMMA NewAddress ==
    ASSUME BP!IInv, panicked = "no", NEW size \in Sizes, B!AllocDone(size)
    PROVE  /\ arena2hi' \in Nat /\ arena2hi \in Nat /\ arena2hi' < arena2hi
           /\ arena2hi' \in B!Addr
<1>1. arena2hi \in BP!Addr /\ arena2lo \in BP!Addr /\ Lo0 <= arena2lo /\ arena2lo <= arena2hi
  BY DEF BP!IInv, BP!TypeOK, BP!Core, BP!Chained
<1>2. Lo0 <= arena2hi /\ size \in Nat /\ size > 0
  BY <1>1, MemoryAssumption DEF BP!Addr
<1>3. BP!BlobAddr(arena2hi, size) \in BP!Addr
      /\ BP!BlobAddr(arena2hi, size) + size <= arena2hi
  BY <1>1, <1>2, BP!BlobAddrBound, BlobAssumptions
<1>4. arena2hi' = BP!BlobAddr(arena2hi, size)
  BY DEF B!AllocDone, B!BlobAddr, BP!BlobAddr
<1> QED
  BY <1>1, <1>2, <1>3, <1>4, MemoryAssumption DEF BP!Addr, B!Addr

\* A first blob is alone on the stack.
LEMMA AllocFirst ==
    ASSUME BP!IInv, panicked = "no", NoBlob, NEW size \in Sizes, B!AllocDone(size)
    PROVE  /\ num_blobs' = 1 /\ held' = {arena2hi'}
           /\ blobs'[0].the_blob = arena2hi' /\ blobs'[0].old_arena2hi = Hi0
           /\ panicked' = "no"
<1>1. blobs \in [BP!Slots -> BP!Blob] /\ 0 \in BP!Slots
  BY MemoryAssumption DEF BP!IInv, BP!TypeOK, BP!Slots
<1> QED
  BY <1>1 DEF NoBlob, B!AllocDone

\* A second one lies on top of it.
LEMMA AllocSecond ==
    ASSUME BP!IInv, panicked = "no", NEW p, OneBlob(p), NEW size \in Sizes, B!AllocDone(size)
    PROVE  /\ num_blobs' = 2 /\ held' = {p, arena2hi'} /\ p # arena2hi'
           /\ blobs'[0].the_blob = p /\ blobs'[0].old_arena2hi = Hi0
           /\ blobs'[1].the_blob = arena2hi' /\ blobs'[1].old_arena2hi = p
           /\ panicked' = "no"
<1>1. blobs \in [BP!Slots -> BP!Blob] /\ 0 \in BP!Slots /\ 1 \in BP!Slots
  BY MemoryAssumption DEF BP!IInv, BP!TypeOK, BP!Slots
<1>2. p # arena2hi'
  BY NewAddress DEF OneBlob
<1>3. blobs'[0] = blobs[0] /\ blobs'[1].the_blob = arena2hi' /\ blobs'[1].old_arena2hi = p
  BY <1>1 DEF OneBlob, B!AllocDone
<1> QED
  BY <1>2, <1>3 DEF OneBlob, B!AllocDone

\* Freeing the only blob empties the stack.
LEMMA FreeLast ==
    ASSUME panicked = "no", NEW p, OneBlob(p), B!blob_free(p)
    PROVE  num_blobs' = 0 /\ held' = {} /\ arena2hi' = Hi0 /\ panicked' = "no"
<1>1. num_blobs = 1 /\ num_blobs - 1 = 0 /\ num_blobs # 0
  BY DEF OneBlob
<1>2. num_blobs' = 0 /\ panicked' = "no" /\ arena2hi' = Hi0
  BY <1>1 DEF OneBlob, B!blob_free
<1>3. held' = {}
  BY DEF OneBlob, B!blob_free
<1> QED
  BY <1>2, <1>3

\* Freeing the newer of two leaves the older.
LEMMA FreeNewer ==
    ASSUME panicked = "no", NEW p, NEW q, TwoBlobs(p, q), B!blob_free(q)
    PROVE  /\ num_blobs' = 1 /\ held' = {p} /\ arena2hi' = p
           /\ blobs' = blobs /\ panicked' = "no"
<1>1. num_blobs = 2 /\ num_blobs - 1 = 1 /\ num_blobs # 0
  BY DEF TwoBlobs
<1>2. num_blobs' = 1 /\ panicked' = "no" /\ arena2hi' = p /\ blobs' = blobs
  BY <1>1 DEF TwoBlobs, B!blob_free
<1>3. held' = {p}
  BY DEF TwoBlobs, B!blob_free
<1> QED
  BY <1>2, <1>3

---------------------------------------------------------------------------
(* The inductive invariant.                                                *)

\* At the start nothing is allocated, loading or open.
LEMMA InitIInv == Init => IInv
<1> SUFFICES ASSUME Init PROVE IInv
  OBVIOUS
<1>1. BP!IInv
  <2>1. BP!Init
    BY DEF Init, B!Init, BP!Init, B!Slots, BP!Slots
  <2> QED
    BY <2>1, BP!InitIInv, BlobAssumptions
<1>2. LoaderTypes
  <2>1. MaxFiles \in Nat /\ 0 \in 0..MaxFiles
    BY UploadsAssumption
  <2> QED
    BY <2>1 DEF Init, LoaderTypes, Pointer
<1>3. Stack
  BY DEF Init, B!Init, Stack, NoBlob, HandedOn
<1>4. Progress /\ Files
  BY UploadsAssumption DEF Init, Progress, Files, HandedOn
<1> QED
  BY <1>1, <1>2, <1>3, <1>4 DEF IInv, Own

\* loader_load opens its source.
LEMMA BeginKeeps ==
    ASSUME IInv, Begin
    PROVE  Own'
<1>1. PICK u \in Uploads :
        /\ up' = u /\ mpc' = AfterOpen(u) /\ socket' = (u.kind = "TCP")
        /\ u.kind = "FILE" => files < MaxFiles
        /\ files' = IF u.kind = "FILE" THEN files + 1 ELSE files
  BY DEF Begin
<1>2. /\ mpc = "frame" /\ lPc = "none" /\ data' = Null /\ data_un' = Null /\ args' = "none"
      /\ lPc' = lPc /\ lState' = lState /\ received' = received /\ progress' = progress
      /\ leaks' = leaks /\ UNCHANGED blobVars
  BY DEF Begin, thread
<1>3. mpc' \in {"allocun", "allocdata"} /\ (mpc' = "allocun" <=> UnLen(u) # 0)
  BY <1>1 DEF AfterOpen
<1>4. LoaderTypes'
  BY <1>1, <1>2, <1>3, UploadsAssumption DEF IInv, Own, LoaderTypes, Pointer, B!Addr
<1>5. Stack'
  BY <1>1, <1>2, <1>3 DEF IInv, Own, Stack, NoBlob, HandedOn, blobVars
<1>6. Progress'
  BY <1>2, <1>3 DEF IInv, Own, Progress, HandedOn
<1>7. Files'
  BY <1>1, <1>2, <1>3, UploadsAssumption DEF IInv, Own, Files, LoaderTypes
<1> QED
  BY <1>4, <1>5, <1>6, <1>7 DEF Own
\* The buffer for the uncompressed data comes first.
LEMMA AllocUnKeeps ==
    ASSUME IInv, AllocUn
    PROVE  Own'
<1> DEFINE size == UnLen(up)
<1>1. /\ mpc = "allocun" /\ lPc = "none" /\ up \in Uploads /\ size # 0 /\ size \in Sizes
      /\ panicked = "no" /\ NoBlob /\ data_un = Null /\ up.kind # "FILE"
  BY UploadSizes DEF IInv, Own, Stack, Files, LoaderTypes, AllocUn
<1>2. /\ up' = up /\ data' = data /\ args' = args /\ lPc' = lPc /\ lState' = lState
      /\ received' = received /\ progress' = progress
  BY DEF AllocUn, thread
<1>3. CASE B!AllocDone(size) /\ data_un' = arena2hi' /\ mpc' = "allocdata" /\ UNCHANGED <<fds, leaks>>
  <2>1. arena2hi' \in Nat /\ arena2hi' \in B!Addr
    BY <1>1, <1>3, NewAddress DEF IInv
  <2>2. OneBlob(data_un)' /\ panicked' = "no" /\ data_un' # Null
    BY <1>1, <1>3, <2>1, AllocFirst DEF IInv, OneBlob, Null
  <2>3. LoaderTypes'
    BY <1>1, <1>2, <1>3, <2>1 DEF IInv, Own, LoaderTypes, Pointer, fds, B!Addr
  <2>4. Stack'
    BY <1>1, <1>2, <1>3, <2>2 DEF Stack, HandedOn, UnLen
  <2>5. Progress' /\ Files'
    BY <1>1, <1>2, <1>3 DEF IInv, Own, Progress, Files, HandedOn, fds, Total
  <2> QED
    BY <2>3, <2>4, <2>5 DEF Own
<1>4. CASE B!AllocFail(size) /\ HangUp /\ mpc' = "frame" /\ UNCHANGED data_un
  <2>1. UNCHANGED blobVars
    BY <1>4 DEF B!AllocFail, B!vars, blobVars
  <2>2. socket' = FALSE /\ leaks' = leaks /\ files' = files
    BY <1>1, <1>4 DEF HangUp
  <2>3. LoaderTypes'
    BY <1>1, <1>2, <1>4, <2>2 DEF IInv, Own, LoaderTypes
  <2>4. Stack'
    BY <1>1, <1>4, <2>1 DEF Stack, NoBlob, HandedOn, blobVars
  <2>5. Progress' /\ Files'
    BY <1>1, <1>2, <1>4, <2>2 DEF IInv, Own, Progress, Files, HandedOn, Total
  <2> QED
    BY <2>3, <2>4, <2>5 DEF Own
<1> QED
  BY <1>3, <1>4 DEF AllocUn

\* The buffer for what is received comes second, and the thread starts.
LEMMA AllocDataKeeps ==
    ASSUME IInv, AllocData
    PROVE  Own'
<1> DEFINE size == Total(up)
<1>1. /\ mpc = "allocdata" /\ lPc = "none" /\ up \in Uploads /\ size \in Sizes
      /\ panicked = "no" /\ (up.kind = "FILE" => UnLen(up) = 0)
      /\ IF UnLen(up) = 0 THEN NoBlob /\ data_un = Null ELSE OneBlob(data_un) /\ data_un # Null
  BY UploadSizes DEF IInv, Own, Stack, Files, LoaderTypes, AllocData
<1>2. up' = up /\ data_un' = data_un /\ args' = args
  BY DEF AllocData
<1>3. CASE /\ B!AllocDone(size) /\ data' = arena2hi' /\ mpc' = "load"
           /\ lPc' = "run" /\ lState' = "RUNNING" /\ received' = 0 /\ progress' = 0
           /\ UNCHANGED <<fds, leaks>>
  <2>1. arena2hi' \in Nat /\ arena2hi' \in B!Addr
    BY <1>1, <1>3, NewAddress DEF IInv
  <2>2. UnLen(up) = 0 => OneBlob(data)' /\ panicked' = "no"
    BY <1>1, <1>3, AllocFirst DEF IInv, OneBlob
  <2>3. UnLen(up) # 0 => TwoBlobs(data_un, data)' /\ panicked' = "no"
    <3> SUFFICES ASSUME UnLen(up) # 0 PROVE TwoBlobs(data_un, data)' /\ panicked' = "no"
      OBVIOUS
    <3>1. OneBlob(data_un)
      BY <1>1
    <3>2. /\ num_blobs' = 2 /\ held' = {data_un, arena2hi'} /\ data_un # arena2hi'
          /\ blobs'[0].the_blob = data_un /\ blobs'[0].old_arena2hi = Hi0
          /\ blobs'[1].the_blob = arena2hi' /\ blobs'[1].old_arena2hi = data_un
          /\ panicked' = "no"
      BY <1>1, <1>3, <3>1, AllocSecond DEF IInv
    <3> QED
      BY <1>2, <1>3, <3>2 DEF TwoBlobs
  <2>4. LoaderTypes'
    BY <1>1, <1>2, <1>3, <2>1 DEF IInv, Own, LoaderTypes, Pointer, fds, B!Addr
  <2>5. Stack'
    BY <1>1, <1>2, <1>3, <2>2, <2>3 DEF Stack, HandedOn, UnLen
  <2>6. Progress' /\ Files'
    BY <1>1, <1>2, <1>3 DEF IInv, Own, Progress, Files, HandedOn, fds
  <2> QED
    BY <2>4, <2>5, <2>6 DEF Own
<1>4. CASE /\ B!AllocFail(size) /\ HangUp
           /\ mpc' = IF data_un = Null THEN "frame" ELSE "freeun"
           /\ UNCHANGED <<data, thread>>
  <2>1. UNCHANGED blobVars
    BY <1>4 DEF B!AllocFail, B!vars, blobVars
  <2>2. socket' = FALSE /\ files' = files /\ lPc' = lPc /\ lState' = lState
        /\ received' = received /\ progress' = progress /\ data' = data
        /\ leaks' = IF up.kind = "FILE" THEN leaks + 1 ELSE leaks
    BY <1>4 DEF HangUp, thread
  <2>3. Files'
    BY <1>1, <1>2, <1>4, <2>2 DEF IInv, Own, LoaderTypes, Files
  <2>4. LoaderTypes'
    <3>1. files = leaks' \/ leaks' = leaks
      BY <1>1, <2>2 DEF IInv, Own, Files
    <3> QED
      BY <1>1, <1>2, <1>4, <2>2, <3>1 DEF IInv, Own, LoaderTypes
  <2>5. Stack'
    <3>1. mpc' = "frame" => NoBlob
      BY <1>1, <1>4
    <3>2. mpc' = "freeun" => OneBlob(data_un)
      BY <1>1, <1>4
    <3>3. mpc' \in {"frame", "freeun"}
      BY <1>4
    <3> QED
      BY <1>1, <1>2, <2>1, <3>1, <3>2, <3>3 DEF Stack, NoBlob, OneBlob, HandedOn, blobVars
  <2>6. Progress'
    BY <1>1, <1>2, <1>4, <2>2 DEF IInv, Own, Progress, HandedOn
  <2> QED
    BY <2>3, <2>4, <2>5, <2>6 DEF Own
<1> QED
  BY <1>3, <1>4 DEF AllocData

\* Without the second buffer the first is given back.
LEMMA FreeUnKeeps ==
    ASSUME IInv, FreeUn
    PROVE  Own'
<1>1. mpc = "freeun" /\ OneBlob(data_un) /\ panicked = "no" /\ lPc = "none"
  BY DEF IInv, Own, Stack, Files, FreeUn
<1>2. num_blobs' = 0 /\ held' = {} /\ arena2hi' = Hi0 /\ panicked' = "no"
  BY <1>1, FreeLast DEF FreeUn
<1>3. LoaderTypes'
  BY DEF IInv, Own, LoaderTypes, FreeUn, thread, fds
<1>4. Stack'
  BY <1>2 DEF Stack, NoBlob, HandedOn, FreeUn
<1>5. Progress' /\ Files'
  BY <1>1 DEF IInv, Own, Progress, Files, HandedOn, FreeUn, thread, fds
<1> QED
  BY <1>3, <1>4, <1>5 DEF Own
\* The loading thread leaves main's variables and the blobs alone.
LEMMA ThreadKeeps ==
    ASSUME IInv, Thread
    PROVE  Own'
<1>1. UNCHANGED blobVars /\ UNCHANGED main /\ leaks' = leaks
  BY DEF Thread, Receive, ReceiveFails, HangUpLate, Received, Uncompress, fds
<1>2. Stack'
  BY <1>1 DEF IInv, Own, Stack, HandedOn, NoBlob, OneBlob, TwoBlobs, blobVars, main, UnLen
<1>3. /\ Total(up) \in Nat /\ up.kind \in {"FILE", "GECKO", "TCP"} /\ received \in Nat
      /\ files \in 0..MaxFiles /\ leaks \in 0..MaxFiles /\ MaxFiles \in Nat
  BY UploadSizes, UploadsAssumption DEF IInv, Own, LoaderTypes
<1>4. CASE Receive
  <2>1. lPc = "run" /\ lPc' = lPc /\ lState' = lState /\ UNCHANGED fds
    BY <1>4 DEF Receive
  <2>2. received' \in Nat /\ progress' \in Nat
    <3>1. PICK n \in 1..Left : received' = received + n
      BY <1>4 DEF Receive
    <3>2. received' \in Nat
      BY <1>3, <3>1
    <3> QED
      BY <1>4, <3>2 DEF IInv, Own, LoaderTypes, Receive
  <2>3. LoaderTypes' /\ Files'
    BY <1>1, <2>1, <2>2 DEF IInv, Own, LoaderTypes, Files, main, fds
  <2>4. Progress'
    BY <1>1, <2>1 DEF IInv, Own, Progress, HandedOn, main
  <2> QED
    BY <1>2, <2>3, <2>4 DEF Own
<1>5. CASE ReceiveFails
  <2>1. /\ lPc = "run" /\ mpc = "load" /\ received' = received /\ progress' = progress
        /\ socket' = socket /\ lState' \in {"ERR_READ", "ERR_RECEIVE"}
        /\ lPc' = IF up.kind = "TCP" THEN "hangup" ELSE "none"
        /\ files' = IF up.kind = "FILE" THEN files - 1 ELSE files
    BY <1>5 DEF IInv, Own, Progress, ReceiveFails
  <2>2. Files'
    BY <1>1, <1>3, <2>1 DEF IInv, Own, Files, main
  <2>3. LoaderTypes'
    <3>1. files' \in 0..MaxFiles
      BY <1>1, <1>3, <2>1 DEF IInv, Own, Files
    <3> QED
      BY <1>1, <2>1, <3>1 DEF IInv, Own, LoaderTypes, main
  <2>4. Progress'
    BY <1>1, <2>1 DEF IInv, Own, Progress, HandedOn, main
  <2> QED
    BY <1>2, <2>2, <2>3, <2>4 DEF Own
<1>6. CASE HangUpLate
  <2>1. /\ lPc = "hangup" /\ lPc' = "none" /\ socket' = FALSE /\ files' = files
        /\ lState' = lState /\ received' = received /\ progress' = progress
    BY <1>6 DEF HangUpLate
  <2>2. LoaderTypes' /\ Files'
    BY <1>1, <2>1 DEF IInv, Own, LoaderTypes, Files, main
  <2>3. Progress'
    BY <1>1, <2>1 DEF IInv, Own, Progress, HandedOn, main
  <2> QED
    BY <1>2, <2>2, <2>3 DEF Own
<1>7. CASE Received
  <2>1. /\ lPc = "run" /\ mpc = "load" /\ lPc' = "uncompress" /\ socket' = FALSE
        /\ lState' = lState /\ received' = received /\ progress' = progress
        /\ received = Total(up)
        /\ files' = IF up.kind = "FILE" THEN files - 1 ELSE files
    BY <1>3, <1>7 DEF IInv, Own, Progress, Received, Left
  <2>2. Files'
    BY <1>1, <1>3, <2>1 DEF IInv, Own, Files, main
  <2>3. LoaderTypes'
    <3>1. files' \in 0..MaxFiles
      BY <1>1, <1>3, <2>1 DEF IInv, Own, Files
    <3> QED
      BY <1>1, <2>1, <3>1 DEF IInv, Own, LoaderTypes, main
  <2>4. Progress'
    BY <1>1, <2>1 DEF IInv, Own, Progress, HandedOn, main, Total
  <2> QED
    BY <1>2, <2>2, <2>3, <2>4 DEF Own
<1>8. CASE Uncompress
  <2>1. /\ lPc = "uncompress" /\ lPc' = "none" /\ lState' \in {"SUCCESS", "ERR_UNCOMPRESS"}
        /\ received' = received /\ progress' = progress /\ UNCHANGED fds
    BY <1>8 DEF Uncompress
  <2>2. LoaderTypes' /\ Files'
    BY <1>1, <2>1 DEF IInv, Own, LoaderTypes, Files, main, fds
  <2>3. Progress'
    BY <1>1, <2>1 DEF IInv, Own, Progress, HandedOn, main, Total
  <2> QED
    BY <1>2, <2>2, <2>3 DEF Own
<1> QED
  BY <1>4, <1>5, <1>6, <1>7, <1>8 DEF Thread

\* Main takes the outcome, and gives the compressed data back first.
LEMMA LoadedKeeps ==
    ASSUME IInv, Loaded
    PROVE  Own'
<1>1. /\ mpc = "load" /\ lState # "RUNNING" /\ panicked = "no" /\ mpc' = "outcome"
      /\ up' = up /\ lPc' = lPc /\ lState' = lState /\ received' = received
      /\ progress' = progress /\ leaks' = leaks /\ files' = files /\ socket' = socket
  BY DEF IInv, Own, Stack, Loaded, thread, fds
<1>2. CASE UnLen(up) = 0
  <2>1. OneBlob(data) /\ data_un = Null /\ UNCHANGED <<blobVars, data, data_un, args>>
    BY <1>1, <1>2 DEF IInv, Own, Stack, Loaded
  <2>2. Stack'
    BY <1>1, <2>1 DEF Stack, HandedOn, OneBlob, blobVars
  <2>3. LoaderTypes' /\ Progress' /\ Files'
    BY <1>1, <2>1 DEF IInv, Own, LoaderTypes, Progress, Files, HandedOn, Total
  <2> QED
    BY <2>2, <2>3 DEF Own
<1>3. CASE UnLen(up) # 0
  <2>1. /\ TwoBlobs(data_un, data) /\ B!blob_free(data) /\ data' = data_un /\ data_un' = Null
        /\ args' = IF up.args > 0 THEN "sent" ELSE args
    BY <1>1, <1>3 DEF IInv, Own, Stack, Loaded
  <2>2. /\ num_blobs' = 1 /\ held' = {data_un} /\ arena2hi' = data_un
        /\ blobs' = blobs /\ panicked' = "no"
    BY <1>1, <2>1, FreeNewer
  <2>3. OneBlob(data)'
    BY <2>1, <2>2 DEF OneBlob, TwoBlobs
  <2>4. Stack'
    BY <1>1, <2>1, <2>2, <2>3 DEF Stack, HandedOn
  <2>5. LoaderTypes' /\ Progress' /\ Files'
    BY <1>1, <2>1 DEF IInv, Own, LoaderTypes, Progress, Files, HandedOn, Total, Pointer, B!Addr
  <2> QED
    BY <2>4, <2>5 DEF Own
<1> QED
  BY <1>2, <1>3

\* A load that failed frees what is left.
LEMMA LoadFailedKeeps ==
    ASSUME IInv, LoadFailed
    PROVE  Own'
<1>1. /\ mpc = "outcome" /\ OneBlob(data) /\ panicked = "no" /\ lState # "SUCCESS"
      /\ lPc \notin {"run", "uncompress"}
  BY DEF IInv, Own, Stack, Progress, LoadFailed
<1>2. num_blobs' = 0 /\ held' = {} /\ arena2hi' = Hi0 /\ panicked' = "no"
  BY <1>1, FreeLast DEF LoadFailed
<1>3. LoaderTypes'
  BY DEF IInv, Own, LoaderTypes, LoadFailed, thread, fds, Pointer
<1>4. Stack'
  BY <1>2 DEF Stack, NoBlob, HandedOn, LoadFailed
<1>5. Progress' /\ Files'
  BY <1>1 DEF IInv, Own, Progress, Files, HandedOn, LoadFailed, thread, fds, Total
<1> QED
  BY <1>3, <1>4, <1>5 DEF Own

\* The payload is sorted out but stays where it is.
LEMMA SortKeeps ==
    ASSUME IInv, Sort
    PROVE  Own'
<1>1. /\ mpc = "outcome" /\ lState = "SUCCESS" /\ mpc' \in HandedOn /\ up' = up
      /\ UNCHANGED <<data, data_un, blobVars, thread, fds, leaks>>
      /\ args' \in {"filename", args}
  BY DEF Sort, HandedOn
<1>2. Stack'
  BY <1>1 DEF IInv, Own, Stack, HandedOn, OneBlob, blobVars
<1>3. LoaderTypes'
  BY <1>1 DEF IInv, Own, LoaderTypes, thread, fds, HandedOn
<1>4. Progress' /\ Files'
  BY <1>1 DEF IInv, Own, Progress, Files, HandedOn, thread, fds, Total
<1> QED
  BY <1>2, <1>3, <1>4 DEF Own

\* Whatever the payload was, its blob goes.
LEMMA UseKeeps ==
    ASSUME IInv, Use
    PROVE  Own'
<1>1. /\ mpc \in HandedOn /\ OneBlob(data) /\ panicked = "no" /\ lState = "SUCCESS"
      /\ lPc \notin {"run", "uncompress"} /\ mpc' \in {"frame", "exit"}
  BY DEF IInv, Own, Stack, Progress, Use, HandedOn
<1>2. num_blobs' = 0 /\ held' = {} /\ arena2hi' = Hi0 /\ panicked' = "no"
  BY <1>1, FreeLast DEF Use
<1>3. LoaderTypes'
  BY <1>1 DEF IInv, Own, LoaderTypes, Use, thread, fds, Pointer
<1>4. Stack'
  BY <1>1, <1>2 DEF Stack, NoBlob, HandedOn, Use
<1>5. Progress' /\ Files'
  BY <1>1 DEF IInv, Own, Progress, Files, HandedOn, Use, thread, fds, Total
<1> QED
  BY <1>3, <1>4, <1>5 DEF Own

\* The heap grows below the blobs.
LEMMA HeapGrowKeeps ==
    ASSUME IInv, HeapGrow
    PROVE  Own'
<1>1. UNCHANGED <<arena2hi, blobs, num_blobs, panicked, held, main, thread, fds, leaks>>
  BY DEF HeapGrow, B!HeapGrow
<1>2. Stack'
  BY <1>1 DEF IInv, Own, Stack, NoBlob, OneBlob, TwoBlobs, HandedOn, main, UnLen
<1>3. LoaderTypes' /\ Progress' /\ Files'
  BY <1>1 DEF IInv, Own, LoaderTypes, Progress, Files, HandedOn, main, thread, fds, Total
<1> QED
  BY <1>2, <1>3 DEF Own
\* Every step of the loader is a step of the allocator's specification or
\* leaves the allocator alone.
LEMMA StepSimulates == IInv /\ [Next]_vars => [B!Next]_(B!vars)
<1> SUFFICES ASSUME IInv, [Next]_vars PROVE B!Next \/ UNCHANGED B!vars
  OBVIOUS
<1> USE DEF blobVars, B!vars
<1>1. panicked = "no" /\ up \in Uploads
  BY DEF IInv, Own, Stack, LoaderTypes
<1>2. CASE AllocUn
  <2>1. UnLen(up) \in Sizes
    BY <1>1, <1>2, UploadSizes DEF IInv, Own, Stack, AllocUn
  <2>2. B!AllocDone(UnLen(up)) \/ B!AllocFail(UnLen(up))
    BY <1>2 DEF AllocUn
  <2> QED
    BY <1>1, <2>1, <2>2 DEF B!Next, B!blob_alloc
<1>3. CASE AllocData
  <2>1. Total(up) \in Sizes
    BY <1>1, UploadSizes
  <2>2. B!AllocDone(Total(up)) \/ B!AllocFail(Total(up))
    BY <1>3 DEF AllocData
  <2> QED
    BY <1>1, <2>1, <2>2 DEF B!Next, B!blob_alloc
<1>4. CASE FreeUn
  <2>1. data_un \in held /\ B!blob_free(data_un)
    BY <1>4 DEF IInv, Own, Stack, OneBlob, FreeUn
  <2> QED
    BY <1>1, <2>1 DEF B!Next
<1>5. CASE Loaded
  <2>1. UnLen(up) = 0 => UNCHANGED blobVars
    BY <1>5 DEF Loaded
  <2>2. UnLen(up) # 0 => data \in held /\ B!blob_free(data)
    BY <1>5 DEF IInv, Own, Stack, TwoBlobs, Loaded
  <2> QED
    BY <1>1, <2>1, <2>2 DEF B!Next
<1>6. CASE LoadFailed \/ Use
  <2>1. data \in held /\ B!blob_free(data)
    BY <1>6 DEF IInv, Own, Stack, OneBlob, HandedOn, LoadFailed, Use
  <2> QED
    BY <1>1, <2>1 DEF B!Next
<1>7. CASE HeapGrow
  BY <1>1, <1>7 DEF HeapGrow, B!Next
<1>8. CASE Begin \/ Sort \/ Thread \/ Exited \/ UNCHANGED vars
  BY <1>8 DEF Begin, Sort, Thread, Receive, ReceiveFails, HangUpLate, Received, Uncompress,
              Exited, vars
<1> QED
  BY <1>2, <1>3, <1>4, <1>5, <1>6, <1>7, <1>8 DEF Next, Main

\* IInv is inductive.
LEMMA NextIInv == IInv /\ [Next]_vars => IInv'
<1> SUFFICES ASSUME IInv, [Next]_vars PROVE IInv'
  OBVIOUS
<1>1. BP!IInv'
  <2>1. [BP!Next]_(BP!vars)
    BY StepSimulates
       DEF B!Next, B!vars, B!blob_alloc, B!AllocPanic, B!AllocFail, B!AllocDone, B!blob_free,
           B!LosePointer, B!HeapGrow, B!Fits, B!BlobAddr,
           BP!Next, BP!vars, BP!blob_alloc, BP!AllocPanic, BP!AllocFail, BP!AllocDone,
           BP!blob_free, BP!LosePointer, BP!HeapGrow, BP!Fits, BP!BlobAddr
  <2> QED
    BY <2>1, BP!NextIInv, BlobAssumptions DEF IInv
<1>2. Own'
  <2>1. CASE UNCHANGED vars
    BY <2>1 DEF IInv, Own, LoaderTypes, Stack, Progress, Files, NoBlob, OneBlob, TwoBlobs,
                HandedOn, UnLen, Total, vars, blobVars, main, thread, fds
  <2>2. CASE Exited
    BY <2>1, <2>2 DEF Exited
  <2> QED
    BY <2>1, <2>2, BeginKeeps, AllocUnKeeps, AllocDataKeeps, FreeUnKeeps, ThreadKeeps,
       LoadedKeeps, LoadFailedKeeps, SortKeeps, UseKeeps, HeapGrowKeeps DEF Next, Main
<1> QED
  BY <1>1, <1>2 DEF IInv

---------------------------------------------------------------------------
(* The theorems.                                                           *)

\* IInv holds of every load, however it ends.
THEOREM Invariance == Spec => []IInv
<1>1. Init => IInv
  BY InitIInv
<1>2. IInv /\ [Next]_vars => IInv'
  BY NextIInv
<1> QED
  BY <1>1, <1>2, PTL DEF Spec

\* loader_load and its callers use blob_alloc and blob_free only as BlobStack
\* allows: they free what they hold, and ask for sizes it is proved for.
THEOREM LoaderUsesBlobs == Spec => UsesBlobs
<1>1. Init => B!Init
  BY DEF Init
<1>2. IInv /\ [Next]_vars => [B!Next]_(B!vars)
  BY StepSimulates
<1> QED
  BY <1>1, <1>2, Invariance, PTL DEF Spec, UsesBlobs, B!Spec

\* Types, with the number of open files bounded by what Begin allows.
THEOREM TypeCorrect == Spec => []TypeOK
<1>1. IInv => TypeOK
  BY DEF IInv, Own, TypeOK, BP!IInv, BP!TypeOK, B!TypeOK, BP!Addr, B!Addr, BP!Slots, B!Slots,
         BP!Blob, B!Blob, BP!Panics, B!Panics
<1> QED
  BY <1>1, Invariance, PTL

\* No load makes the allocator panic: over every path of loader_load, its
\* thread and its callers the blobs go back newest first.
THEOREM LoaderNeverPanics == Spec => []NeverPanics
<1>1. IInv => NeverPanics
  BY DEF IInv, Own, Stack, NeverPanics
<1> QED
  BY <1>1, Invariance, PTL

\* The thread writes only to memory main has not freed.
THEOREM ThreadBuffersHeld == Spec => []BuffersHeld
<1>1. IInv => BuffersHeld
  BY DEF IInv, Own, Stack, Progress, OneBlob, TwoBlobs, BuffersHeld
<1> QED
  BY <1>1, Invariance, PTL

\* The memory of every load is in order, from its first buffer to the last
\* blob_free of loader_load and its callers.
THEOREM MemoryStaysInOrder == Spec => []MemoryInOrder
<1>1. TypeOK /\ NeverPanics /\ BuffersHeld => MemoryInOrder
  BY DEF MemoryInOrder
<1> QED
  BY <1>1, TypeCorrect, LoaderNeverPanics, ThreadBuffersHeld, PTL

\* Only complete payloads in allocated memory are run, unpacked or installed.
THEOREM PayloadsWhole == Spec => []PayloadWhole
<1>1. IInv => PayloadWhole
  BY DEF IInv, Own, Stack, Progress, OneBlob, HandedOn, PayloadWhole
<1> QED
  BY <1>1, Invariance, PTL

\* Between loads no blob and no socket is left, and a file only where memory
\* ran out.
THEOREM LoadsLeaveNothing == Spec => []NothingLeft
<1>1. IInv => NothingLeft
  <2> SUFFICES ASSUME IInv, mpc \in {"frame", "exit"} PROVE
          /\ num_blobs = 0 /\ held = {} /\ arena2hi = Hi0
          /\ socket => lPc = "hangup"
          /\ files = leaks
    BY DEF NothingLeft
  <2>1. num_blobs = 0 /\ held = {} /\ arena2hi = Hi0
    BY DEF IInv, Own, Stack, NoBlob
  <2>2. lPc # "run"
    BY DEF IInv, Own, Progress
  <2>3. (socket => lPc = "hangup") /\ files = leaks
    BY <2>2 DEF IInv, Own, Files, LoaderTypes
  <2> QED
    BY <2>1, <2>3
<1> QED
  BY <1>1, Invariance, PTL

---------------------------------------------------------------------------
(* The drive.                                                              *)

\* While the drive is being opened there is no handle, and main has either
\* not begun to shut down or has found nothing to shut down.
Opening ==
    \A r \in asked_dvd : r.op = "open" =>
        dvd_state = "OPEN" /\ dvd_fd = -1 /\ open_dvd = {} /\ dPc \in {"up", "gone"}

\* Left alone, the chain closes the handle it has.
Alone ==
    dPc \in {"up", "gone"} =>
        open_dvd \subseteq {dvd_fd} /\ \A r \in asked_dvd : r.op = "close" => r.fd = dvd_fd

\* How far WiiDVD_ShutDown is.
Killing ==
    /\ dPc \notin {"up", "gone"} => open_dvd \subseteq {fd}
    /\ dPc \in {"kill", "close", "killed"} => dvd_fd = -1
    /\ dPc \in {"close", "killed"} => dvd_state = "DONE"
    /\ dPc = "killed" => open_dvd = {}

DvdIInv == DvdTypeOK /\ ~late_stop /\ Opening /\ Alone /\ Killing

---------------------------------------------------------------------------
\* The channel has just started, the drive is closed.
LEMMA InitDvdIInv == DvdInit => DvdIInv
<1> SUFFICES ASSUME DvdInit PROVE DvdIInv
  OBVIOUS
<1>1. DvdTypeOK /\ ~late_stop
  <2>1. [op |-> "open", fd |-> -1] \in [op : {"open", "stop", "close"}, fd : DvdFds \cup {-1}]
    OBVIOUS
  <2>2. asked_dvd \subseteq [op : {"open", "stop", "close"}, fd : DvdFds \cup {-1}]
    BY <2>1 DEF DvdInit
  <2> QED
    BY <2>2 DEF DvdInit, DvdTypeOK
<1>2. Opening /\ Alone /\ Killing
  BY DEF DvdInit, Opening, Alone, Killing
<1> QED
  BY <1>1, <1>2 DEF DvdIInv

\* A request that IOS queued is the only one there is.
LEMMA SendTyped ==
    ASSUME NEW op \in {"stop", "close"}, NEW f \in DvdFds \cup {-1}, Send(op, f)
    PROVE  /\ asked_dvd' \in SUBSET [op : {"open", "stop", "close"}, fd : DvdFds \cup {-1}]
           /\ \A r \in asked_dvd' : r.op = op /\ r.fd = f
  BY DEF Send

\* The callback that learns of the handle.
LEMMA OpenedKeepsIInv == DvdIInv /\ Opened => DvdIInv'
<1> SUFFICES ASSUME DvdIInv, Opened PROVE DvdIInv'
  OBVIOUS
<1>1. dvd_fd = -1 /\ open_dvd = {} /\ dPc \in {"up", "gone"}
  BY DEF DvdIInv, Opening, Opened
<1>2. CASE dvd_fd' = -1 /\ asked_dvd' = {} /\ UNCHANGED <<open_dvd, dvd_state, late_stop>>
  BY <1>1, <1>2 DEF DvdIInv, DvdTypeOK, Opening, Alone, Killing, Opened
<1>3. ASSUME NEW f \in DvdFds,
             open_dvd' = open_dvd \cup {f} /\ dvd_fd' = f /\ dvd_state' = "STOP" /\ Send("stop", f),
             late_stop' = (late_stop \/ dPc \in {"close", "killed"})
      PROVE  DvdIInv'
  <2>1. /\ asked_dvd' \in SUBSET [op : {"open", "stop", "close"}, fd : DvdFds \cup {-1}]
        /\ \A r \in asked_dvd' : r.op = "stop"
    BY <1>3, SendTyped
  <2>2. ~late_stop'
    BY <1>1, <1>3 DEF DvdIInv
  <2>3. UNCHANGED <<dPc, fd>>
    BY DEF Opened
  <2>4. open_dvd' = {f}
    BY <1>1, <1>3
  <2>5. DvdTypeOK'
    BY <1>3, <2>1, <2>2, <2>3, <2>4 DEF DvdIInv, DvdTypeOK
  <2>6. Opening' /\ Alone' /\ Killing'
    BY <1>1, <1>3, <2>1, <2>3, <2>4 DEF Opening, Alone, Killing
  <2> QED
    BY <2>2, <2>5, <2>6 DEF DvdIInv
<1> QED
  BY <1>2, <1>3 DEF Opened

\* The motor has stopped: the close that follows is of the handle as it is now.
LEMMA StoppedKeepsIInv == DvdIInv /\ Stopped => DvdIInv'
<1> SUFFICES ASSUME DvdIInv, Stopped PROVE DvdIInv'
  OBVIOUS
<1>1. /\ UNCHANGED <<dvd_fd, open_dvd, dPc, fd, late_stop>>
      /\ dvd_fd \in DvdFds \cup {-1}
  BY DEF DvdIInv, DvdTypeOK, Stopped
<1>2. CASE dvd_state = "STOP"
  <2>1. dvd_state' = "CLOSE" /\ Send("close", dvd_fd)
    BY <1>2 DEF Stopped
  <2>2. /\ asked_dvd' \in SUBSET [op : {"open", "stop", "close"}, fd : DvdFds \cup {-1}]
        /\ \A r \in asked_dvd' : r.op = "close" /\ r.fd = dvd_fd
    BY <1>1, <2>1, SendTyped
  <2>3. dPc \notin {"close", "killed"}
    BY <1>2 DEF DvdIInv, Killing
  <2> QED
    BY <1>1, <2>1, <2>2, <2>3 DEF DvdIInv, DvdTypeOK, Opening, Alone, Killing
<1>3. CASE dvd_state # "STOP"
  BY <1>1, <1>3 DEF DvdIInv, DvdTypeOK, Opening, Alone, Killing, Stopped
<1> QED
  BY <1>2, <1>3

\* The handle is closed, by the chain.
LEMMA ClosedKeepsIInv == DvdIInv /\ Closed => DvdIInv'
<1> SUFFICES ASSUME DvdIInv, Closed PROVE DvdIInv'
  OBVIOUS
<1> PICK r \in asked_dvd : r.op = "close" /\ open_dvd' = open_dvd \ {r.fd}
  BY DEF Closed
<1>1. asked_dvd' = {} /\ UNCHANGED <<dPc, fd, late_stop>> /\ open_dvd' \subseteq open_dvd
  BY DEF Closed
<1>2. CASE dvd_state = "CLOSE"
  <2>1. dvd_fd' = -1 /\ dvd_state' = "DONE"
    BY <1>2 DEF Closed
  <2>2. dPc \in {"up", "gone"} => open_dvd' = {}
    BY DEF DvdIInv, Alone
  <2> QED
    BY <1>1, <2>1, <2>2 DEF DvdIInv, DvdTypeOK, Opening, Alone, Killing
<1>3. CASE dvd_state # "CLOSE"
  <2>1. UNCHANGED <<dvd_fd, dvd_state>>
    BY <1>3 DEF Closed
  <2> QED
    BY <1>1, <2>1 DEF DvdIInv, DvdTypeOK, Opening, Alone, Killing
<1> QED
  BY <1>2, <1>3

\* main copies a handle above zero only when nothing is being opened any more.
LEMMA ShutDownKeepsIInv == DvdIInv /\ ShutDown => DvdIInv'
<1> SUFFICES ASSUME DvdIInv, ShutDown PROVE DvdIInv'
  OBVIOUS
<1>1. CASE dvd_fd > 0
  <2>1. \A r \in asked_dvd : r.op # "open"
    BY <1>1 DEF DvdIInv, Opening
  <2> QED
    BY <1>1, <2>1 DEF DvdIInv, DvdTypeOK, Opening, Alone, Killing, ShutDown
<1>2. CASE ~(dvd_fd > 0)
  BY <1>2 DEF DvdIInv, DvdTypeOK, Opening, Alone, Killing, ShutDown
<1> QED
  BY <1>1, <1>2

\* The three steps that kill the chain.
LEMMA KillKeepsIInv == DvdIInv /\ (ClearFd \/ SetDone \/ CloseFd) => DvdIInv'
<1>1. DvdIInv /\ ClearFd => DvdIInv'
  BY DEF DvdIInv, DvdTypeOK, Opening, Alone, Killing, ClearFd
<1>2. DvdIInv /\ SetDone => DvdIInv'
  BY DEF DvdIInv, DvdTypeOK, Opening, Alone, Killing, SetDone
<1>3. DvdIInv /\ CloseFd => DvdIInv'
  BY DEF DvdIInv, DvdTypeOK, Opening, Alone, Killing, CloseFd
<1> QED
  BY <1>1, <1>2, <1>3

\* Every step of IOS, of the callbacks and of WiiDVD_ShutDown.
LEMMA NextDvdIInv == DvdIInv /\ [DvdNext]_dvdVars => DvdIInv'
<1> SUFFICES ASSUME DvdIInv, [DvdNext]_dvdVars PROVE DvdIInv'
  OBVIOUS
<1>1. CASE UNCHANGED dvdVars
  BY <1>1 DEF DvdIInv, DvdTypeOK, Opening, Alone, Killing, dvdVars
<1>2. CASE DvdOver
  BY <1>2 DEF DvdOver, DvdIInv, DvdTypeOK, Opening, Alone, Killing, dvdVars
<1> QED
  BY <1>1, <1>2, OpenedKeepsIInv, StoppedKeepsIInv, ClosedKeepsIInv, ShutDownKeepsIInv,
     KillKeepsIInv
     DEF DvdNext, DvdChain

---------------------------------------------------------------------------
\* The callbacks and WiiDVD_ShutDown keep DvdIInv in every order.
THEOREM DvdInvariance == DvdSpec => []DvdIInv
<1> QED
  BY InitDvdIInv, NextDvdIInv, PTL DEF DvdSpec

\* Whatever the callbacks find in _dvd_fd and _state, WiiDVD_ShutDown leaves
\* the drive closed and its motor alone.
THEOREM DriveIsLeftQuiet == DvdSpec => []DvdQuiet
<1>1. DvdIInv => DvdQuiet
  BY DEF DvdIInv, Alone, Killing, DvdQuiet
<1> QED
  BY <1>1, DvdInvariance, PTL

---------------------------------------------------------------------------
(* The remotes.                                                            *)

\* Types of the variables, and the range of the timeout.
RumbleTypeOK ==
    /\ wpads \in Probed /\ pointer_owner \in Remotes \union {Nobody}
    /\ rumbling \in BOOLEAN /\ motor \in [Remotes -> BOOLEAN]

\* A motor that is on belongs to the owner, and has frames left.
RumbleIInv == RumbleTypeOK /\ RumbleEnds /\ (rumbling => rumble_timeout >= 1)

\* There is a first remote in any set of them.
LEMMA FirstRemote ==
    ASSUME NEW T \in SUBSET Remotes, T # {}
    PROVE  \E r \in T : \A q \in T : r <= q
<1>1. Remotes \subseteq Nat
  BY ControlsAssumption DEF Remotes
<1>2. PICK r \in T : \A q \in T : ~(<<q, r>> \in OpToRel(<, Nat))
  BY <1>1, WFMin, NatLessThanWellFounded
<1>3. ASSUME NEW q \in T PROVE r <= q
  <2>1. q \in Nat /\ r \in Nat /\ ~(<<q, r>> \in OpToRel(<, Nat))
    BY <1>1, <1>2
  <2>2. ~(q < r)
    BY <2>1 DEF OpToRel
  <2>3. \A a, b \in Nat : ~(a < b) => b <= a
    OBVIOUS
  <2> QED
    BY <2>1, <2>2, <2>3
<1> QED
  BY <1>3

\* Who has the pointer points.
LEMMA OwnerPoints ==
    ASSUME NEW w \in Probed, RumbleTypeOK
    PROVE  /\ Owner_(w) \in Remotes \union {Nobody}
           /\ Owner_(w) # Nobody => w[Owner_(w)] = "pointing"
<1> DEFINE pointing == {r \in Remotes : Points(w, r)}
<1>1. CASE Points(w, pointer_owner)
  BY <1>1 DEF Owner_, Points, RumbleTypeOK
<1>2. CASE ~Points(w, pointer_owner) /\ pointing = {}
  BY <1>2 DEF Owner_
<1>3. CASE ~Points(w, pointer_owner) /\ pointing # {}
  <2>1. Owner_(w) = CHOOSE r \in pointing : \A q \in pointing : r <= q
    BY <1>3 DEF Owner_
  <2>2. \E r \in pointing : \A q \in pointing : r <= q
    <3>1. pointing \in SUBSET Remotes
      OBVIOUS
    <3> HIDE DEF pointing
    <3> QED
      BY <1>3, <3>1, FirstRemote
  <2>3. Owner_(w) \in pointing
    <3> HIDE DEF pointing
    <3> QED
      BY <2>1, <2>2
  <2> QED
    BY <2>3 DEF Points
<1> QED
  BY <1>1, <1>2, <1>3

\* What WPAD_Rumble leaves of each motor when it starts one ...
LEMMA RumbleStarts ==
    ASSUME NEW m \in [Remotes -> BOOLEAN], NEW w \in Probed, NEW r
    PROVE  /\ WPAD_Rumble(m, w, r, TRUE) \in [Remotes -> BOOLEAN]
           /\ \A q \in Remotes :
                WPAD_Rumble(m, w, r, TRUE)[q] <=> (q = r /\ w[q] # "off") \/ m[q]
  BY DEF WPAD_Rumble

\* ... and when it stops one.
LEMMA RumbleStops ==
    ASSUME NEW m \in [Remotes -> BOOLEAN], NEW w \in Probed, NEW r
    PROVE  /\ WPAD_Rumble(m, w, r, FALSE) \in [Remotes -> BOOLEAN]
           /\ \A q \in Remotes :
                WPAD_Rumble(m, w, r, FALSE)[q] <=> ~(q = r /\ w[q] # "off") /\ m[q]
  BY DEF WPAD_Rumble

\* No remote is on at first.
LEMMA InitRumbleIInv == ControlsInit => RumbleIInv
<1> SUFFICES ASSUME ControlsInit PROVE RumbleIInv
  OBVIOUS
<1>1. RumbleTypeOK
  BY DEF ControlsInit, RumbleTypeOK, Probed
<1>2. RumbleEnds
  BY ControlsAssumption DEF ControlsInit, RumbleEnds
<1> QED
  BY <1>1, <1>2 DEF RumbleIInv, ControlsInit

\* A frame.
LEMMA FrameKeepsIInv == RumbleIInv /\ Frame => RumbleIInv'
<1> SUFFICES ASSUME RumbleIInv, Frame PROVE RumbleIInv'
  OBVIOUS
<1> PICK w \in Probed, upon \in BOOLEAN :
      LET o == Owner_(w)
          left == [r \in Remotes |-> motor[r] /\ w[r] # "off"]
          scanned == IF pointer_owner \notin {Nobody, o} /\ rumbling THEN Handed(left, w, o) ELSE left
          starts == upon /\ controls_ir(w, o) /\ rumble_timeout = -RUMBLE_DELAY
          time == IF starts THEN RUMBLE_TIME ELSE rumble_timeout
          next == IF time > -RUMBLE_DELAY THEN time - 1 ELSE time
          started == IF starts THEN controls_rumble(scanned, w, o, TRUE) ELSE scanned
      IN  /\ wpads' = w /\ pointer_owner' = o
          /\ rumble_timeout' = next
          /\ rumbling' = ((rumbling \/ starts) /\ next >= 1)
          /\ motor' = IF next < 1 THEN controls_rumble(started, w, o, FALSE) ELSE started
  BY DEF Frame
<1> DEFINE o == Owner_(w)
           left == [r \in Remotes |-> motor[r] /\ w[r] # "off"]
           scanned == IF pointer_owner \notin {Nobody, o} /\ rumbling THEN Handed(left, w, o) ELSE left
           starts == upon /\ controls_ir(w, o) /\ rumble_timeout = -RUMBLE_DELAY
           time == IF starts THEN RUMBLE_TIME ELSE rumble_timeout
           next == IF time > -RUMBLE_DELAY THEN time - 1 ELSE time
           started == IF starts THEN controls_rumble(scanned, w, o, TRUE) ELSE scanned
<1>1. o \in Remotes \union {Nobody} /\ (o # Nobody => w[o] = "pointing")
  BY OwnerPoints DEF RumbleIInv
<1>2. /\ left \in [Remotes -> BOOLEAN]
      /\ \A r \in Remotes : left[r] => r = pointer_owner /\ rumbling /\ rumble_timeout >= 1 /\ w[r] # "off"
  BY DEF RumbleIInv, RumbleTypeOK, RumbleEnds
<1>3. /\ rumbling \in BOOLEAN /\ rumbling => rumble_timeout >= 1
      /\ rumble_timeout \in (-RUMBLE_DELAY)..RUMBLE_TIME /\ pointer_owner \in Remotes \union {Nobody}
  BY DEF RumbleIInv, RumbleTypeOK, RumbleEnds
<1>4. /\ scanned \in [Remotes -> BOOLEAN]
      /\ \A r \in Remotes : scanned[r] => r = o /\ rumbling
  <2> HIDE DEF o, left
  <2>1. CASE pointer_owner \notin {Nobody, o} /\ rumbling
    <3> DEFINE stopped == WPAD_Rumble(left, w, pointer_owner, FALSE)
    <3>1. /\ stopped \in [Remotes -> BOOLEAN]
          /\ \A q \in Remotes : ~stopped[q]
      BY <1>2, RumbleStops
    <3> HIDE DEF stopped
    <3>2. /\ WPAD_Rumble(stopped, w, o, TRUE) \in [Remotes -> BOOLEAN]
          /\ \A q \in Remotes : WPAD_Rumble(stopped, w, o, TRUE)[q] => q = o
      BY <3>1, RumbleStarts
    <3>3. scanned = WPAD_Rumble(stopped, w, o, TRUE)
      BY <2>1 DEF Handed, stopped
    <3> QED
      BY <2>1, <3>2, <3>3
  <2>2. CASE ~(pointer_owner \notin {Nobody, o} /\ rumbling)
    BY <1>2, <2>2 DEF Nobody, Remotes
  <2> QED
    BY <2>1, <2>2
<1>5. /\ starts \in BOOLEAN /\ time \in (-RUMBLE_DELAY)..RUMBLE_TIME
      /\ next \in (-RUMBLE_DELAY)..RUMBLE_TIME
      /\ starts => o # Nobody
  <2> HIDE DEF o
  <2> QED
    BY <1>3, ControlsAssumption DEF controls_ir, Points
<1>6. /\ started \in [Remotes -> BOOLEAN]
      /\ \A r \in Remotes : started[r] => r = o /\ (rumbling \/ starts)
  <2> HIDE DEF o, scanned, starts
  <2>1. /\ controls_rumble(scanned, w, o, TRUE) \in [Remotes -> BOOLEAN]
        /\ \A q \in Remotes :
             controls_rumble(scanned, w, o, TRUE)[q] <=> (q = o /\ w[q] # "off") \/ scanned[q]
    BY <1>4, RumbleStarts DEF controls_rumble
  <2> QED
    BY <1>4, <1>5, <2>1
<1>7. /\ wpads' = w /\ pointer_owner' = o /\ rumble_timeout' = next
      /\ rumbling' = ((rumbling \/ starts) /\ next >= 1)
      /\ motor' = IF next < 1 THEN controls_rumble(started, w, o, FALSE) ELSE started
  OBVIOUS
<1> HIDE DEF o, left, scanned, starts, time, next, started
<1>8. /\ motor' \in [Remotes -> BOOLEAN]
      /\ \A r \in Remotes : motor'[r] => r = o /\ next >= 1 /\ (rumbling \/ starts)
  <2>1. CASE next < 1
    <3>1. /\ controls_rumble(started, w, o, FALSE) \in [Remotes -> BOOLEAN]
          /\ \A q \in Remotes :
               controls_rumble(started, w, o, FALSE)[q] <=> ~(q = o /\ w[q] # "off") /\ started[q]
      BY <1>6, RumbleStops DEF controls_rumble
    <3>2. \A q \in Remotes : q = o => w[q] # "off"
      <4>1. Nobody \notin Remotes
        BY ControlsAssumption DEF Nobody, Remotes
      <4> QED
        BY <1>1, <4>1
    <3> QED
      BY <1>6, <1>7, <2>1, <3>1, <3>2
  <2>2. CASE ~(next < 1)
    <3>1. next >= 1
      BY <1>5, <2>2, ControlsAssumption
    <3> QED
      BY <1>6, <1>7, <2>2, <3>1
  <2> QED
    BY <2>1, <2>2
<1>9. RumbleTypeOK'
  BY <1>1, <1>5, <1>7, <1>8 DEF RumbleTypeOK
<1>10. RumbleEnds'
  <2>1. Nobody \notin Remotes
    BY ControlsAssumption DEF Nobody, Remotes
  <2>2. ASSUME NEW r \in Remotes, motor'[r]
        PROVE  r = pointer_owner' /\ wpads'[r] = "pointing" /\ rumbling' /\ rumble_timeout' >= 1
    BY <1>1, <1>7, <1>8, <2>1, <2>2
  <2> QED
    BY <1>5, <1>7, <2>2 DEF RumbleEnds
<1>11. rumbling' => rumble_timeout' >= 1
  BY <1>7
<1> QED
  BY <1>9, <1>10, <1>11 DEF RumbleIInv

\* Nothing changes between two frames.
LEMMA StutterKeepsIInv == RumbleIInv /\ UNCHANGED controlsVars => RumbleIInv'
  BY DEF RumbleIInv, RumbleTypeOK, RumbleEnds, controlsVars

\* Turned, switched off and on as they may be, no remote is left rumbling.
THEOREM MotorsStop == ControlsSpec => []RumbleEnds
<1>1. RumbleIInv => RumbleEnds
  BY DEF RumbleIInv
<1> QED
  BY <1>1, InitRumbleIInv, FrameKeepsIInv, StutterKeepsIInv, PTL DEF ControlsSpec


---------------------------------------------------------------------------
(* Loops.                                                                  *)

\* Counting from 0, one after the other.
LEMMA CountUp ==
    ASSUME NEW n \in Nat, NEW S, 0 \in S, \A i \in 1..n : i - 1 \in S => i \in S
    PROVE  \A i \in 0..n : i \in S
<1> DEFINE Out == {i \in 0..n : i \notin S}
<1>1. Out \subseteq Nat
  OBVIOUS
<1>2. ASSUME Out # {} PROVE FALSE
  <2>1. PICK k \in Out : \A m \in Out : ~(<<m, k>> \in OpToRel(<, Nat))
    BY <1>1, <1>2, WFMin, NatLessThanWellFounded
  <2>0. k \in 0..n /\ k \notin S
    BY <2>1
  <2>2. k \in 1..n /\ k - 1 \in 0..n /\ k - 1 \in Nat /\ k \in Nat /\ k - 1 < k
    <3>1. k # 0
      BY <2>0
    <3> QED
      BY <2>0, <3>1
  <2>3. k - 1 \notin Out
    BY <2>1, <2>2 DEF OpToRel
  <2>4. k - 1 \in S
    BY <2>2, <2>3
  <2> QED
    BY <2>0, <2>2, <2>4
<1> QED
  BY <1>2

\* The rounds of the loops over the fonts, and of the one over the sections.
Round(loop, st, i, t) ==
    CASE loop = "clear" -> ClearOne(st, i) [] loop = "deinit" -> DeinitOne(st, i) [] loop = "load" -> LoadOne(st, i, t)
      [] loop = "place" -> PlaceOne(st, t, Sections(t)[i], TRUE)

Rounds(loop, t, first, n, after) ==
    /\ after = [i \in 0..n |-> after[i]]
    /\ \A i \in 0..n : after[i] = IF i = 0 THEN first ELSE Round(loop, after[i - 1], i, t)

\* Such a loop has a state after each of its rounds.
LEMMA RoundsRun ==
    ASSUME NEW loop, NEW t, NEW first, NEW n \in Nat
    PROVE  \E after : Rounds(loop, t, first, n, after)
<1> DEFINE Runs(after, k) == /\ after = [i \in 0..k |-> after[i]] /\ after[0] = first
                             /\ \A i \in 1..k : after[i] = Round(loop, after[i - 1], i, t)
           S == {k \in 0..n : \E after : Runs(after, k)}
<1>1. 0 \in S
  <2> DEFINE after == [i \in 0..0 |-> first]
  <2>1. after = [i \in 0..0 |-> after[i]] /\ after[0] = first /\ (\A i \in 1..0 : FALSE) /\ 0 \in 0..n
    OBVIOUS
  <2> HIDE DEF after
  <2>2. Runs(after, 0)
    BY <2>1, Zenon
  <2> QED
    BY <2>1, <2>2
<1>2. ASSUME NEW k \in 1..n, k - 1 \in S PROVE k \in S
  <2>1. PICK after : Runs(after, k - 1)
    BY <1>2
  <2> DEFINE next == Round(loop, after[k - 1], k, t)
             new == [i \in 0..k |-> IF i = k THEN next ELSE after[i]]
  <2>2. after[0] = first /\ \A i \in 1..(k - 1) : after[i] = Round(loop, after[i - 1], i, t)
    BY <2>1, Zenon
  <2> HIDE DEF next
  <2>3. /\ new = [i \in 0..k |-> new[i]] /\ new[0] = after[0] /\ new[k] = next /\ new[k - 1] = after[k - 1]
        /\ \A i \in 1..(k - 1) : new[i] = after[i] /\ new[i - 1] = after[i - 1]
    OBVIOUS
  <2> HIDE DEF new
  <2>4. ASSUME NEW i \in 1..k PROVE new[i] = Round(loop, new[i - 1], i, t)
    <3>1. CASE i = k
      BY <2>3, <3>1, Zenon DEF next
    <3>2. CASE i # k
      <4>1. i \in 1..(k - 1)
        BY <3>2
      <4> QED
        BY <2>2, <2>3, <4>1, Zenon
    <3> QED
      BY <3>1, <3>2
  <2>5. Runs(new, k)
    BY <2>2, <2>3, <2>4, Zenon
  <2>6. k \in 0..n
    OBVIOUS
  <2> QED
    BY <2>5, <2>6
<1>3. n \in S
  <2> HIDE DEF S
  <2>1. \A k \in 0..n : k \in S
    BY <1>1, <1>2, CountUp, Zenon
  <2> QED
    BY <2>1
<1>4. PICK after : Runs(after, n)
  BY <1>3, Zenon
<1>5. after = [i \in 0..n |-> after[i]] /\ after[0] = first /\ \A i \in 1..n : after[i] = Round(loop, after[i - 1], i, t)
  BY <1>4, Zenon
<1>6. \A i \in 0..n : i = 0 \/ i \in 1..n
  OBVIOUS
<1>7. \A i \in 0..n : after[i] = IF i = 0 THEN first ELSE Round(loop, after[i - 1], i, t)
  BY <1>5, <1>6, Zenon
<1> QED
  BY <1>5, <1>7, Zenon DEF Rounds

---------------------------------------------------------------------------
(* Fonts: what a font_face, its cache and its face are.                    *)

IsSlot(e, s, n) ==
    /\ e = [codepoint |-> e.codepoint, next_idx |-> e.next_idx]
    /\ e.codepoint \in Nat \cup {-1} /\ e.next_idx \in ((s + 1)..(n - 1)) \cup {-1}
InCache(g) == {s \in DOMAIN g : g[s].codepoint # -1}

\* The slots of a cache: its roots, and the slots behind them, each linked
\* from the one before it of the same root; no code point is there twice.
Linked(g, n) ==
    /\ n \in Nat /\ n >= CACHE_ROOT /\ g = [s \in 0..(n - 1) |-> g[s]]
    /\ \A s \in 0..(n - 1) : IsSlot(g[s], s, n)
    /\ \A s \in 0..(n - 1) : g[s].codepoint = -1 => s < CACHE_ROOT /\ g[s].next_idx = -1
    /\ \A s \in InCache(g) : s < CACHE_ROOT => Root(g[s].codepoint) = s
    /\ \A s \in 0..(n - 1) : s >= CACHE_ROOT =>
          \E p \in InCache(g) : p < s /\ g[p].next_idx = s /\ Root(g[p].codepoint) = Root(g[s].codepoint)
    /\ \A s \in 0..(n - 1) : LET t == g[s].next_idx IN
          t # -1 => t \in InCache(g) /\ Root(g[t].codepoint) = Root(g[s].codepoint)
    /\ \A s, t \in InCache(g) : g[s].codepoint = g[t].codepoint => s = t

HoldsCodes(g, cs) == cs = {g[s].codepoint : s \in InCache(g)}

IsFace(f) == f = [data |-> f.data, em |-> f.em, face |-> f.face, glyphs |-> f.glyphs, max |-> f.max]
Cache(f, cs) ==
    /\ HoldsCodes(f.glyphs, cs) /\ f.max \in Nat
    /\ \E n \in Nat : Linked(f.glyphs, n) /\ n <= f.max

FontsTypeOK ==
    /\ fonts \in [Ids -> Ids \cup {None0}]
    /\ face_of = [i \in Ids |-> face_of[i]] /\ \A i \in Ids : IsFace(face_of[i])
    /\ faces \subseteq Ids /\ bufs \subseteq Ids
    /\ theme_fonts \in [Ids -> [file : FontFiles, data : Ids \cup {None0}, size : Nat]]
    /\ asked \in [Ids -> SUBSET Nat]
    /\ font_pc \in {"up", "cleared", "bare"} /\ freed_twice = FALSE

\* The ids whose font_face is their own.
Owners == {i \in Ids : fonts[i] = i}

\* A font_face is that of an id that owns it, and its FreeType face is there;
\* each face there is one of theirs.
FacesHeld ==
    /\ \A i \in Ids : fonts[i] # None0 => fonts[i] \in Owners
    /\ \A o \in Owners : face_of[o].face \in faces /\ (face_of[o].data[1] = "theme" => face_of[o].data[2] \in bufs)
    /\ \A f \in faces : \E o \in Owners : face_of[o].face = f

ThemeHeld == \A i \in Ids : theme_fonts[i].data # None0 => theme_fonts[i].data \in bufs

CachesKept == \A o \in Owners : Cache(face_of[o], asked[o])

\* Where main is in refresh_theme.
Bared ==
    /\ font_pc # "up" => \A i \in Ids : fonts[i] = None0
    /\ font_pc = "bare" => \A i \in Ids : theme_fonts[i] = NoThemeFont

FontsIInv == FontsTypeOK /\ FacesHeld /\ ThemeHeld /\ CachesKept /\ Bared

\* The look-up of c in a cache, slot by slot.
Walks(g, c, at, n) ==
    /\ at = [k \in 0..n |-> at[k]] /\ at[0] = Root(c)
    /\ \A k \in 1..n : at[k] = IF StopsAt(g, at[k - 1], c) THEN at[k - 1] ELSE g[at[k - 1]].next_idx

\* There is such a sequence of slots, as long as one likes ...
LEMMA WalkExists ==
    ASSUME NEW g, NEW c, NEW n \in Nat
    PROVE  \E at : Walks(g, c, at, n)
<1> DEFINE S == {k \in 0..n : \E at : Walks(g, c, at, k)}
<1>1. 0 \in S
  <2> DEFINE at == [k \in 0..0 |-> Root(c)]
  <2>1. at[0] = Root(c) /\ at = [k \in 0..0 |-> at[k]] /\ \A k \in 1..0 : FALSE
    OBVIOUS
  <2> HIDE DEF at
  <2>2. Walks(g, c, at, 0)
    BY <2>1, Zenon DEF Walks
  <2>3. 0 \in 0..n
    OBVIOUS
  <2> QED
    BY <2>2, <2>3
<1>2. ASSUME NEW i \in 1..n, i - 1 \in S PROVE i \in S
  <2>1. PICK at : Walks(g, c, at, i - 1)
    BY <1>2
  <2> DEFINE next == IF StopsAt(g, at[i - 1], c) THEN at[i - 1] ELSE g[at[i - 1]].next_idx
             new == [k \in 0..i |-> IF k = i THEN next ELSE at[k]]
  <2>2. at[0] = Root(c) /\ \A k \in 1..(i - 1) : at[k] = IF StopsAt(g, at[k - 1], c) THEN at[k - 1] ELSE g[at[k - 1]].next_idx
    BY <2>1, Zenon DEF Walks
  <2> HIDE DEF next
  <2>3. /\ new = [k \in 0..i |-> new[k]] /\ new[0] = at[0] /\ new[i] = next /\ new[i - 1] = at[i - 1]
        /\ \A k \in 1..(i - 1) : new[k] = at[k] /\ new[k - 1] = at[k - 1]
    OBVIOUS
  <2> HIDE DEF new
  <2>4. \A k \in 1..i : new[k] = IF StopsAt(g, new[k - 1], c) THEN new[k - 1] ELSE g[new[k - 1]].next_idx
    <3> SUFFICES ASSUME NEW k \in 1..i
                 PROVE  new[k] = IF StopsAt(g, new[k - 1], c) THEN new[k - 1] ELSE g[new[k - 1]].next_idx
      OBVIOUS
    <3>1. CASE k = i
      BY <2>3, <3>1, Zenon DEF next
    <3>2. CASE k # i
      <4>1. k \in 1..(i - 1)
        BY <3>2
      <4> QED
        BY <2>2, <2>3, <4>1, Zenon
    <3> QED
      BY <3>1, <3>2
  <2>5. Walks(g, c, new, i)
    BY <2>2, <2>3, <2>4, Zenon DEF Walks
  <2>6. i \in 0..n
    OBVIOUS
  <2> QED
    BY <2>5, <2>6
<1>3. n \in S
  <2> HIDE DEF S
  <2>1. \A i \in 0..n : i \in S
    BY <1>1, <1>2, CountUp, Zenon
  <2> QED
    BY <2>1
<1> QED
  BY <1>3

\* ... and Chain is where one of them ends.
LEMMA ChainWalks ==
    ASSUME NEW g, NEW c, NEW n \in Nat, Cardinality(DOMAIN g) = n
    PROVE  \E at : Walks(g, c, at, n) /\ Chain(g, c) = at[n]
<1> DEFINE F(f) == [k \in 0..n |-> IF k = 0 THEN Root(c) ELSE IF StopsAt(g, f[k - 1], c) THEN f[k - 1] ELSE g[f[k - 1]].next_idx]
           at == CHOOSE f : f = F(f)
<1>1. PICK f : Walks(g, c, f, n)
  BY WalkExists, Zenon
<1>2. f = F(f)
  <2>1. f = [k \in 0..n |-> f[k]] /\ f[0] = Root(c)
        /\ \A k \in 1..n : f[k] = IF StopsAt(g, f[k - 1], c) THEN f[k - 1] ELSE g[f[k - 1]].next_idx
    BY <1>1, Zenon DEF Walks
  <2>2. \A k \in 0..n : k = 0 \/ k \in 1..n
    OBVIOUS
  <2>3. \A k \in 0..n : f[k] = IF k = 0 THEN Root(c) ELSE IF StopsAt(g, f[k - 1], c) THEN f[k - 1] ELSE g[f[k - 1]].next_idx
    BY <2>1, <2>2, Zenon
  <2>4. [k \in 0..n |-> f[k]] = F(f)
    BY <2>3, Zenon
  <2> QED
    BY <2>1, <2>4, Zenon
<1>3. at = F(at)
  BY <1>2, Zenon
<1>4. Chain(g, c) = at[n]
  BY Zenon DEF Chain
<1> HIDE DEF at
<1>5. \A k \in 0..n : at[k] = IF k = 0 THEN Root(c) ELSE IF StopsAt(g, at[k - 1], c) THEN at[k - 1] ELSE g[at[k - 1]].next_idx
  BY <1>3, Zenon
<1>6. Walks(g, c, at, n)
  <2>1. 0 \in 0..n /\ \A k \in 1..n : k \in 0..n /\ k # 0
    OBVIOUS
  <2>2. at = [k \in 0..n |-> at[k]]
    <3>1. [k \in 0..n |-> at[k]] = F(at)
      BY <1>5, Zenon
    <3> QED
      BY <1>3, <3>1, Zenon
  <2> QED
    BY <1>5, <2>1, <2>2, Zenon DEF Walks
<1> QED
  BY <1>4, <1>6, Zenon

\* A root is one of the first slots.

LEMMA RootIs ==
    ASSUME NEW c \in Nat
    PROVE  Root(c) \in 0..(CACHE_ROOT - 1) /\ CACHE_ROOT \in Nat /\ CACHE_ROOT > 0
BY FontsAssumption DEF Root

\* What the proofs below need to know of a cache and of its slots.
LEMMA LinkedParts ==
    ASSUME NEW g, NEW n, Linked(g, n)
    PROVE  /\ n \in Nat /\ n >= CACHE_ROOT /\ CACHE_ROOT \in Nat /\ CACHE_ROOT > 0 /\ DOMAIN g = 0..(n - 1)
           /\ \A s \in 0..(n - 1) : g[s].next_idx \in ((s + 1)..(n - 1)) \cup {-1} /\ g[s].codepoint \in Nat \cup {-1}
           /\ Cardinality(DOMAIN g) = n
<1>1. n \in Nat /\ n >= CACHE_ROOT /\ DOMAIN g = 0..(n - 1)
  BY DEF Linked
<1>2. Cardinality(0..(n - 1)) = n
  BY <1>1, FS_Interval
<1>3. \A s \in 0..(n - 1) : g[s].next_idx \in ((s + 1)..(n - 1)) \cup {-1} /\ g[s].codepoint \in Nat \cup {-1}
  BY DEF Linked, IsSlot
<1>4. CACHE_ROOT \in Nat /\ CACHE_ROOT > 0
  BY FontsAssumption
<1> QED
  BY <1>1, <1>2, <1>3, <1>4

\* A look-up stays among the slots of its root, and goes on to higher ones.
LEMMA WalkGoesOn ==
    ASSUME NEW g, NEW n, Linked(g, n), NEW c \in Nat, NEW at, Walks(g, c, at, n)
    PROVE  \A k \in 0..n :
              /\ at[k] \in 0..(n - 1)
              /\ at[k] = Root(c) \/ (at[k] \in InCache(g) /\ Root(g[at[k]].codepoint) = Root(c))
              /\ StopsAt(g, at[k], c) \/ at[k] >= k
<1> DEFINE Good(k) == /\ at[k] \in 0..(n - 1)
                      /\ at[k] = Root(c) \/ (at[k] \in InCache(g) /\ Root(g[at[k]].codepoint) = Root(c))
                      /\ StopsAt(g, at[k], c) \/ at[k] >= k
           S == {k \in 0..n : Good(k)}
<1>0. /\ n \in Nat /\ n >= CACHE_ROOT /\ DOMAIN g = 0..(n - 1)
      /\ \A s \in 0..(n - 1) : g[s].next_idx \in ((s + 1)..(n - 1)) \cup {-1} /\ g[s].codepoint \in Nat \cup {-1}
  BY LinkedParts
<1>1. 0 \in S
  <2>1. at[0] = Root(c) /\ Root(c) \in 0..(n - 1)
    BY <1>0, RootIs DEF Walks
  <2>2. Root(c) >= 0 /\ 0 \in 0..n
    BY <1>0, <2>1
  <2> QED
    BY <2>1, <2>2
<1>2. ASSUME NEW i \in 1..n, i - 1 \in S PROVE i \in S
  <2>1. Good(i - 1)
    BY <1>2
  <2>2. at[i] = IF StopsAt(g, at[i - 1], c) THEN at[i - 1] ELSE g[at[i - 1]].next_idx
    BY <1>2, Zenon DEF Walks
  <2>3. i \in 0..n
    BY <1>0
  <2>4. CASE StopsAt(g, at[i - 1], c)
    <3>1. at[i] = at[i - 1]
      BY <2>2, <2>4, Zenon
    <3> QED
      BY <2>1, <2>3, <2>4, <3>1, Zenon
  <2>5. CASE ~StopsAt(g, at[i - 1], c)
    <3> DEFINE p == at[i - 1]
               t == g[p].next_idx
    <3>1. p \in 0..(n - 1) /\ p >= i - 1 /\ at[i] = t
      BY <2>1, <2>2, <2>5, Zenon
    <3>2. p = Root(c) \/ (p \in InCache(g) /\ Root(g[p].codepoint) = Root(c))
      BY <2>1, Zenon
    <3>3. t # -1 /\ g[p].codepoint # -1
      BY <2>5 DEF StopsAt
    <3> HIDE DEF p
    <3>4. t \in InCache(g) /\ Root(g[t].codepoint) = Root(g[p].codepoint)
      BY <3>1, <3>3 DEF Linked
    <3>5. t \in 0..(n - 1) /\ t >= i
      BY <1>0, <3>1, <3>3
    <3>6. p \in InCache(g)
      BY <1>0, <3>1, <3>3 DEF InCache
    <3>7. Root(g[p].codepoint) = Root(c)
      <4>1. CASE p = Root(c)
        <5>1. p < CACHE_ROOT
          BY <4>1, RootIs
        <5> QED
          BY <3>6, <4>1, <5>1, Zenon DEF Linked
      <4> QED
        BY <3>2, <4>1
    <3>8. Good(i)
      BY <3>1, <3>4, <3>5, <3>7, Zenon
    <3> QED
      BY <2>3, <3>8
  <2> QED
    BY <2>4, <2>5
<1> HIDE DEF S
<1>3. \A k \in 0..n : k \in S
  BY <1>0, <1>1, <1>2, CountUp, Zenon
<1> QED
  BY <1>3, Zenon DEF S

\* It stops, at c if the cache has it.
LEMMA WalkEnds ==
    ASSUME NEW g, NEW n, Linked(g, n), NEW c \in Nat, NEW at, Walks(g, c, at, n)
    PROVE  /\ at[n] \in 0..(n - 1) /\ StopsAt(g, at[n], c)
           /\ at[n] = Root(c) \/ (at[n] \in InCache(g) /\ Root(g[at[n]].codepoint) = Root(c))
           /\ \A s \in InCache(g) : g[s].codepoint = c => g[at[n]].codepoint = c
<1>0. /\ n \in Nat /\ n >= CACHE_ROOT /\ DOMAIN g = 0..(n - 1)
      /\ \A s \in 0..(n - 1) : g[s].next_idx \in ((s + 1)..(n - 1)) \cup {-1} /\ g[s].codepoint \in Nat \cup {-1}
  BY LinkedParts
<1>1. \A k \in 0..n : /\ at[k] \in 0..(n - 1)
                      /\ at[k] = Root(c) \/ (at[k] \in InCache(g) /\ Root(g[at[k]].codepoint) = Root(c))
                      /\ StopsAt(g, at[k], c) \/ at[k] >= k
  BY WalkGoesOn
<1>2. n \in 0..n
  BY <1>0
<1>3. at[n] \in 0..(n - 1) /\ (at[n] = Root(c) \/ (at[n] \in InCache(g) /\ Root(g[at[n]].codepoint) = Root(c)))
  BY <1>1, <1>2, Zenon
<1>4. StopsAt(g, at[n], c)
  <2>1. StopsAt(g, at[n], c) \/ at[n] >= n
    BY <1>1, <1>2, Zenon
  <2>2. ~(at[n] >= n)
    BY <1>0, <1>3
  <2> QED
    BY <2>1, <2>2
<1>5. \A i \in 1..n : at[i] = IF StopsAt(g, at[i - 1], c) THEN at[i - 1] ELSE g[at[i - 1]].next_idx
  BY Zenon DEF Walks
<1>6. ASSUME NEW k \in 0..n, g[at[k]].codepoint = c
      PROVE  at[n] = at[k]
  <2> DEFINE S == {j \in 0..n : j >= k => at[j] = at[k]}
  <2>1. 0 \in S
    <3>1. 0 \in 0..n /\ (0 >= k => k = 0)
      BY <1>0
    <3> QED
      BY <3>1, Zenon
  <2>2. ASSUME NEW i \in 1..n, i - 1 \in S PROVE i \in S
    <3>1. CASE i > k
      <4>1. i - 1 >= k /\ i \in 0..n
        BY <3>1
      <4>2. at[i - 1] = at[k]
        BY <2>2, <4>1
      <4>3. StopsAt(g, at[i - 1], c)
        BY <1>6, <4>2, Zenon DEF StopsAt
      <4>4. at[i] = at[k]
        BY <1>5, <4>2, <4>3, Zenon
      <4> QED
        BY <4>1, <4>4
    <3>2. CASE ~(i > k)
      <4>1. i \in 0..n /\ (i >= k => i = k)
        BY <3>2
      <4> QED
        BY <4>1, Zenon
    <3> QED
      BY <3>1, <3>2
  <2> HIDE DEF S
  <2>3. n \in S
    <3>1. \A j \in 0..n : j \in S
      BY <1>0, <2>1, <2>2, CountUp, Zenon
    <3> QED
      BY <1>2, <3>1
  <2>4. n >= k
    BY <1>0
  <2> QED
    BY <2>3, <2>4 DEF S
\* Each slot of the root is passed, unless c is found before.
<1> DEFINE Passed(s) == \E k \in 0..n : at[k] = s \/ g[at[k]].codepoint = c
           Missed == {s \in InCache(g) : Root(g[s].codepoint) = Root(c) /\ ~Passed(s)}
<1>7. Missed \subseteq Nat
  BY <1>0 DEF InCache
<1>8. ASSUME Missed # {} PROVE FALSE
  <2>1. PICK s \in Missed : \A m \in Missed : ~(<<m, s>> \in OpToRel(<, Nat))
    BY <1>7, <1>8, WFMin, NatLessThanWellFounded
  <2>2. s \in InCache(g) /\ Root(g[s].codepoint) = Root(c) /\ ~Passed(s) /\ s \in 0..(n - 1)
    BY <1>0, <2>1 DEF InCache
  <2>3. CASE s < CACHE_ROOT
    <3>1. s = Root(c)
      BY <2>2, <2>3, Zenon DEF Linked
    <3>2. at[0] = s
      BY <3>1, Zenon DEF Walks
    <3>3. 0 \in 0..n
      BY <1>0
    <3> QED
      BY <2>2, <3>2, <3>3, Zenon
  <2>4. CASE s >= CACHE_ROOT
    <3>1. PICK p \in InCache(g) : p < s /\ g[p].next_idx = s /\ Root(g[p].codepoint) = Root(g[s].codepoint)
      BY <2>2, <2>4, Zenon DEF Linked
    <3>2. p \in Nat /\ s \in Nat /\ p \in 0..(n - 1)
      BY <1>0, <2>2, <3>1 DEF InCache
    <3>3. p \notin Missed
      BY <2>1, <3>1, <3>2 DEF OpToRel
    <3>4. Passed(p)
      BY <2>2, <3>1, <3>3, Zenon
    <3>5. PICK k \in 0..n : at[k] = p \/ g[at[k]].codepoint = c
      BY <3>4
    <3>6. at[k] = p /\ g[p].codepoint # c
      BY <2>2, <3>5, Zenon
    <3>7. ~StopsAt(g, p, c)
      <4>1. g[p].codepoint # -1
        BY <3>1 DEF InCache
      <4>2. g[p].next_idx # -1
        BY <3>1, <3>2
      <4> QED
        BY <3>6, <4>1, <4>2 DEF StopsAt
    <3>8. k < n
      <4>1. at[k] >= k
        BY <1>1, <3>6, <3>7, Zenon
      <4> QED
        BY <1>0, <3>2, <3>6, <4>1
    <3>9. k + 1 \in 1..n /\ (k + 1) - 1 = k /\ k + 1 \in 0..n
      BY <1>0, <3>8
    <3>10. at[k + 1] = s
      <4>1. at[k + 1] = IF StopsAt(g, at[(k + 1) - 1], c) THEN at[(k + 1) - 1] ELSE g[at[(k + 1) - 1]].next_idx
        BY <1>5, <3>9, Zenon
      <4> QED
        BY <3>1, <3>6, <3>7, <3>9, <4>1, Zenon
    <3> QED
      BY <2>2, <3>9, <3>10, Zenon
  <2>5. s < CACHE_ROOT \/ s >= CACHE_ROOT
    BY <2>2, LinkedParts
  <2> QED
    BY <2>3, <2>4, <2>5
<1> HIDE DEF Missed
<1>9. ASSUME NEW s \in InCache(g), g[s].codepoint = c
      PROVE  g[at[n]].codepoint = c
  <2>1. Passed(s)
    BY <1>8, <1>9, Zenon DEF Missed
  <2>2. PICK k \in 0..n : at[k] = s \/ g[at[k]].codepoint = c
    BY <2>1
  <2>3. g[at[k]].codepoint = c
    BY <1>9, <2>2, Zenon
  <2> QED
    BY <1>6, <2>3, Zenon
<1> QED
  BY <1>3, <1>4, <1>9

\* A look-up of c in a cache.
LEMMA ChainIs ==
    ASSUME NEW g, NEW n, Linked(g, n), NEW c \in Nat
    PROVE  LET last == Chain(g, c) IN
           /\ last \in 0..(n - 1) /\ StopsAt(g, last, c)
           /\ last = Root(c) \/ (last \in InCache(g) /\ Root(g[last].codepoint) = Root(c))
           /\ \A s \in InCache(g) : g[s].codepoint = c => g[last].codepoint = c
<1>1. n \in Nat /\ Cardinality(DOMAIN g) = n
  BY LinkedParts
<1>2. PICK at : Walks(g, c, at, n) /\ Chain(g, c) = at[n]
  BY <1>1, ChainWalks, Zenon
<1>3. /\ at[n] \in 0..(n - 1) /\ StopsAt(g, at[n], c)
      /\ at[n] = Root(c) \/ (at[n] \in InCache(g) /\ Root(g[at[n]].codepoint) = Root(c))
      /\ \A s \in InCache(g) : g[s].codepoint = c => g[at[n]].codepoint = c
  BY <1>2, WalkEnds
<1> QED
  BY <1>2, <1>3, Zenon

\* The cache with c in the empty slot l; with a slot n for c behind the last one.
Takes(g, l, c) == [g EXCEPT ![l] = [codepoint |-> c, next_idx |-> -1]]
Follows(g, l, n, c) ==
    [s \in 0..n |-> IF s = n THEN [codepoint |-> c, next_idx |-> -1]
                   ELSE IF s = l THEN [g[s] EXCEPT !.next_idx = n] ELSE g[s]]

\* From g to h the slot s0 came into use, for c.
OneMore(g, h, s0, c) ==
    /\ InCache(h) = InCache(g) \cup {s0} /\ h[s0].codepoint = c
    /\ \A s \in InCache(g) : h[s].codepoint = g[s].codepoint

\* A cache with one more slot in use holds its code point as well.
LEMMA HoldsMore ==
    ASSUME NEW g, NEW h, NEW cs, NEW s0, NEW c, HoldsCodes(g, cs), OneMore(g, h, s0, c)
    PROVE  HoldsCodes(h, cs \cup {c})
<1>1. \A s \in InCache(h) : h[s].codepoint \in cs \cup {c}
  BY Zenon DEF HoldsCodes, OneMore
<1>2. \A d \in cs \cup {c} : \E s \in InCache(h) : h[s].codepoint = d
  BY Zenon DEF HoldsCodes, OneMore
<1>3. cs \cup {c} = {h[s].codepoint : s \in InCache(h)}
  BY <1>1, <1>2
<1> QED
  BY <1>3, Zenon DEF HoldsCodes

\* An empty root takes c.
LEMMA RootTakes ==
    ASSUME NEW g, NEW n, Linked(g, n), NEW cs, HoldsCodes(g, cs), NEW c \in Nat, NEW l, l = Chain(g, c),
           g[l].codepoint = -1, NEW h, h = Takes(g, l, c)
    PROVE  Linked(h, n) /\ HoldsCodes(h, cs \cup {c})
<1>0. /\ n \in Nat /\ n >= CACHE_ROOT /\ CACHE_ROOT \in Nat /\ DOMAIN g = 0..(n - 1)
      /\ \A s \in 0..(n - 1) : g[s].next_idx \in ((s + 1)..(n - 1)) \cup {-1} /\ g[s].codepoint \in Nat \cup {-1}
  BY LinkedParts
<1>1. l \in 0..(n - 1) /\ l = Root(c) /\ l \notin InCache(g) /\ \A s \in InCache(g) : g[s].codepoint # c
  <2>1. /\ l \in 0..(n - 1)
        /\ l = Root(c) \/ (l \in InCache(g) /\ Root(g[l].codepoint) = Root(c))
        /\ \A s \in InCache(g) : g[s].codepoint = c => g[l].codepoint = c
    BY ChainIs
  <2>2. c # -1
    OBVIOUS
  <2>3. l \notin InCache(g)
    BY DEF InCache
  <2> QED
    BY <2>1, <2>2, <2>3, Zenon
<1>2. l < CACHE_ROOT /\ g[l].next_idx = -1
  BY <1>1 DEF Linked
<1>3. /\ DOMAIN h = 0..(n - 1) /\ h = [s \in 0..(n - 1) |-> h[s]]
      /\ h[l] = [codepoint |-> c, next_idx |-> -1]
      /\ \A s \in 0..(n - 1) : s # l => h[s] = g[s]
  BY <1>0, <1>1 DEF Takes
<1>4. h[l].codepoint = c /\ h[l].next_idx = -1 /\ c # -1
  BY <1>3
<1>5. InCache(h) = InCache(g) \cup {l}
  BY <1>0, <1>1, <1>3, <1>4 DEF InCache
<1>6. \A s \in 0..(n - 1) : IsSlot(h[s], s, n)
  <2>1. IsSlot(h[l], l, n)
    BY <1>1, <1>3 DEF IsSlot
  <2>2. \A s \in 0..(n - 1) : IsSlot(g[s], s, n)
    BY Zenon DEF Linked
  <2> QED
    BY <1>3, <2>1, <2>2, Zenon
<1>7. \A s \in 0..(n - 1) : h[s].codepoint = -1 => s < CACHE_ROOT /\ h[s].next_idx = -1
  <2>1. \A s \in 0..(n - 1) : g[s].codepoint = -1 => s < CACHE_ROOT /\ g[s].next_idx = -1
    BY Zenon DEF Linked
  <2> QED
    BY <1>3, <1>4, <2>1
<1>8. \A s \in InCache(g) : s \in 0..(n - 1) /\ s # l /\ h[s] = g[s]
  BY <1>0, <1>1, <1>3 DEF InCache
<1>9. \A s \in InCache(h) : s < CACHE_ROOT => Root(h[s].codepoint) = s
  BY <1>1, <1>4, <1>5, <1>8 DEF Linked
<1>10. ASSUME NEW s \in 0..(n - 1), s >= CACHE_ROOT
       PROVE  \E p \in InCache(h) : p < s /\ h[p].next_idx = s /\ Root(h[p].codepoint) = Root(h[s].codepoint)
  <2>1. s # l
    BY <1>0, <1>1, <1>2, <1>10
  <2>2. PICK p \in InCache(g) : p < s /\ g[p].next_idx = s /\ Root(g[p].codepoint) = Root(g[s].codepoint)
    BY <1>10, Zenon DEF Linked
  <2> QED
    BY <1>3, <1>5, <1>8, <2>1, <2>2
<1>11. ASSUME NEW s \in 0..(n - 1), h[s].next_idx # -1
       PROVE  LET t == h[s].next_idx IN t \in InCache(h) /\ Root(h[t].codepoint) = Root(h[s].codepoint)
  <2>1. s # l /\ h[s] = g[s]
    BY <1>3, <1>4, <1>11, Zenon
  <2>2. g[s].next_idx \in InCache(g) /\ Root(g[g[s].next_idx].codepoint) = Root(g[s].codepoint)
    BY <1>11, <2>1 DEF Linked
  <2> QED
    BY <1>5, <1>8, <2>1, <2>2
<1>12. \A s, t \in InCache(h) : h[s].codepoint = h[t].codepoint => s = t
  <2>1. \A s, t \in InCache(g) : g[s].codepoint = g[t].codepoint => s = t
    BY Zenon DEF Linked
  <2> QED
    BY <1>1, <1>4, <1>5, <1>8, <2>1
<1>13. Linked(h, n)
  BY <1>0, <1>3, <1>6, <1>7, <1>9, <1>10, <1>11, <1>12, Zenon DEF Linked
<1>14. HoldsCodes(h, cs \cup {c})
  <2>1. \A s \in InCache(g) : h[s].codepoint = g[s].codepoint
    BY <1>8, Zenon
  <2>2. OneMore(g, h, l, c)
    BY <1>4, <1>5, <2>1, Zenon DEF OneMore
  <2> QED
    BY <2>2, HoldsMore, Zenon
<1> QED
  BY <1>13, <1>14

\* At the end of a chain a slot is put behind the last one.
LEMMA SlotFollows ==
    ASSUME NEW g, NEW n, Linked(g, n), NEW cs, HoldsCodes(g, cs), NEW c \in Nat, NEW l, l = Chain(g, c),
           g[l].codepoint \notin {c, -1},
           NEW h, h = Follows(g, l, n, c)
    PROVE  Linked(h, n + 1) /\ HoldsCodes(h, cs \cup {c})
<1>0. /\ n \in Nat /\ n >= CACHE_ROOT /\ CACHE_ROOT \in Nat /\ CACHE_ROOT > 0 /\ DOMAIN g = 0..(n - 1)
      /\ \A s \in 0..(n - 1) : g[s].next_idx \in ((s + 1)..(n - 1)) \cup {-1} /\ g[s].codepoint \in Nat \cup {-1}
  BY LinkedParts
<1>1. /\ l \in 0..(n - 1) /\ l \in InCache(g) /\ Root(g[l].codepoint) = Root(c) /\ g[l].next_idx = -1
      /\ \A s \in InCache(g) : g[s].codepoint # c
  <2>1. /\ l \in 0..(n - 1) /\ StopsAt(g, l, c)
        /\ l = Root(c) \/ (l \in InCache(g) /\ Root(g[l].codepoint) = Root(c))
        /\ \A s \in InCache(g) : g[s].codepoint = c => g[l].codepoint = c
    BY ChainIs
  <2>2. l \in InCache(g) /\ g[l].next_idx = -1
    BY <1>0, <2>1 DEF InCache, StopsAt
  <2>3. Root(g[l].codepoint) = Root(c)
    <3>1. CASE l = Root(c)
      <4>1. l < CACHE_ROOT
        BY <3>1, RootIs
      <4> QED
        BY <2>2, <3>1, <4>1, Zenon DEF Linked
    <3> QED
      BY <2>1, <3>1
  <2> QED
    BY <2>1, <2>2, <2>3, Zenon
<1>2. g[l] = [codepoint |-> g[l].codepoint, next_idx |-> g[l].next_idx]
  BY <1>1, Zenon DEF Linked, IsSlot
<1>3. /\ 0..(n + 1 - 1) = 0..n /\ DOMAIN h = 0..n /\ h = [s \in 0..n |-> h[s]]
      /\ h[n] = [codepoint |-> c, next_idx |-> -1]
      /\ h[l] = [codepoint |-> g[l].codepoint, next_idx |-> n]
      /\ \A s \in 0..(n - 1) : s # l => h[s] = g[s]
      /\ l # n
  <2>1. l # n /\ n \in 0..n /\ l \in 0..n /\ 0..(n + 1 - 1) = 0..n /\ \A s \in 0..(n - 1) : s \in 0..n /\ s # n
    BY <1>0, <1>1
  <2>2. [g[l] EXCEPT !.next_idx = n] = [codepoint |-> g[l].codepoint, next_idx |-> n]
    BY <1>2
  <2> QED
    BY <2>1, <2>2, Zenon DEF Follows
<1>4. h[n].codepoint = c /\ h[n].next_idx = -1 /\ c # -1 /\ h[l].codepoint = g[l].codepoint /\ h[l].next_idx = n
  BY <1>3
<1>5. \A s \in 0..(n - 1) : h[s].codepoint = g[s].codepoint
  BY <1>3, <1>4, Zenon
<1>6. \A s \in 0..n : s = n \/ s \in 0..(n - 1)
  BY <1>0
<1>7. InCache(h) = InCache(g) \cup {n}
  <2>1. n \in 0..n /\ \A s \in 0..(n - 1) : s \in 0..n
    BY <1>0
  <2>2. \A s \in 0..n : h[s].codepoint # -1 <=> s \in InCache(g) \cup {n}
    <3> SUFFICES ASSUME NEW s \in 0..n PROVE h[s].codepoint # -1 <=> s \in InCache(g) \cup {n}
      OBVIOUS
    <3>1. CASE s = n
      BY <1>4, <3>1
    <3>2. CASE s \in 0..(n - 1) /\ s # n
      <4>1. h[s].codepoint = g[s].codepoint
        BY <1>5, <3>2
      <4> QED
        BY <1>0, <3>2, <4>1 DEF InCache
    <3> QED
      BY <1>6, <3>1, <3>2
  <2>3. InCache(g) \cup {n} \subseteq 0..n
    BY <1>0, <2>1 DEF InCache
  <2>4. InCache(h) = {s \in 0..n : h[s].codepoint # -1}
    BY <1>3, Zenon DEF InCache
  <2> HIDE DEF InCache
  <2> QED
    BY <2>2, <2>3, <2>4
<1>8. \A s \in InCache(g) : s \in 0..(n - 1) /\ s # n /\ h[s].codepoint = g[s].codepoint
  BY <1>0, <1>5 DEF InCache
<1>9. \A s \in 0..n : IsSlot(h[s], s, n + 1)
  <2>1. IsSlot(h[l], l, n + 1) /\ IsSlot(h[n], n, n + 1)
    BY <1>0, <1>1, <1>3 DEF IsSlot
  <2>2. \A s \in 0..(n - 1) : IsSlot(g[s], s, n + 1)
    BY <1>0 DEF Linked, IsSlot
  <2> QED
    BY <1>3, <1>6, <2>1, <2>2, Zenon
<1>10. \A s \in 0..n : h[s].codepoint = -1 => s < CACHE_ROOT /\ h[s].next_idx = -1
  <2>1. \A s \in 0..(n - 1) : g[s].codepoint = -1 => s < CACHE_ROOT /\ g[s].next_idx = -1
    BY Zenon DEF Linked
  <2>2. g[l].codepoint # -1
    BY <1>1 DEF InCache
  <2> SUFFICES ASSUME NEW s \in 0..n, h[s].codepoint = -1 PROVE s < CACHE_ROOT /\ h[s].next_idx = -1
    OBVIOUS
  <2>3. s # n /\ s # l
    BY <1>4, <2>2, Zenon
  <2>4. s \in 0..(n - 1) /\ h[s] = g[s]
    BY <1>3, <1>6, <2>3, Zenon
  <2> QED
    BY <2>1, <2>4, Zenon
<1>11. \A s \in InCache(h) : s < CACHE_ROOT => Root(h[s].codepoint) = s
  <2>1. ~(n < CACHE_ROOT)
    BY <1>0
  <2> QED
    BY <1>7, <1>8, <2>1, Zenon DEF Linked
<1>12. ASSUME NEW s \in 0..n, s >= CACHE_ROOT
       PROVE  \E p \in InCache(h) : p < s /\ h[p].next_idx = s /\ Root(h[p].codepoint) = Root(h[s].codepoint)
  <2>1. CASE s = n
    <3>1. l < n
      BY <1>0, <1>1
    <3> QED
      BY <1>1, <1>4, <1>7, <2>1, <3>1, Zenon
  <2>2. CASE s # n
    <3>1. s \in 0..(n - 1)
      BY <1>6, <2>2
    <3>2. PICK p \in InCache(g) : p < s /\ g[p].next_idx = s /\ Root(g[p].codepoint) = Root(g[s].codepoint)
      BY <1>12, <3>1, Zenon DEF Linked
    <3>3. p # l
      BY <1>1, <3>1, <3>2
    <3>4. h[p].next_idx = s
      BY <1>3, <1>8, <3>2, <3>3, Zenon
    <3> QED
      BY <1>5, <1>7, <1>8, <3>1, <3>2, <3>4, Zenon
  <2> QED
    BY <2>1, <2>2
<1>13. ASSUME NEW s \in 0..n, h[s].next_idx # -1
       PROVE  LET t == h[s].next_idx IN t \in InCache(h) /\ Root(h[t].codepoint) = Root(h[s].codepoint)
  <2>1. s # n
    BY <1>4, <1>13, Zenon
  <2>2. CASE s = l
    BY <1>1, <1>4, <1>7, <2>2
  <2>3. CASE s # l
    <3>1. s \in 0..(n - 1) /\ h[s] = g[s]
      BY <1>3, <1>6, <2>1, <2>3, Zenon
    <3>2. g[s].next_idx \in InCache(g) /\ Root(g[g[s].next_idx].codepoint) = Root(g[s].codepoint)
      BY <1>13, <3>1 DEF Linked
    <3> QED
      BY <1>7, <1>8, <3>1, <3>2
  <2> QED
    BY <2>2, <2>3
<1>14. \A s, t \in InCache(h) : h[s].codepoint = h[t].codepoint => s = t
  <2>1. \A s, t \in InCache(g) : g[s].codepoint = g[t].codepoint => s = t
    BY Zenon DEF Linked
  <2> QED
    BY <1>1, <1>4, <1>7, <1>8, <2>1
<1>15. Linked(h, n + 1)
  <2> DEFINE m == n + 1
  <2>1. m \in Nat /\ m >= CACHE_ROOT /\ 0..(m - 1) = 0..n
    BY <1>0
  <2>2. \A s \in 0..n : IsSlot(h[s], s, m)
    BY <1>9, Zenon
  <2> HIDE DEF m
  <2>3. Linked(h, m)
    <3> SUFFICES /\ h = [s \in 0..n |-> h[s]]
                 /\ \A s \in 0..n : IsSlot(h[s], s, m)
                 /\ \A s \in 0..n : h[s].codepoint = -1 => s < CACHE_ROOT /\ h[s].next_idx = -1
                 /\ \A s \in InCache(h) : s < CACHE_ROOT => Root(h[s].codepoint) = s
                 /\ \A s \in 0..n : s >= CACHE_ROOT =>
                       \E p \in InCache(h) : p < s /\ h[p].next_idx = s /\ Root(h[p].codepoint) = Root(h[s].codepoint)
                 /\ \A s \in 0..n : LET t == h[s].next_idx IN
                       t # -1 => t \in InCache(h) /\ Root(h[t].codepoint) = Root(h[s].codepoint)
                 /\ \A s, t \in InCache(h) : h[s].codepoint = h[t].codepoint => s = t
      BY <2>1, Zenon DEF Linked
    <3> QED
      BY <1>3, <1>10, <1>11, <1>12, <1>13, <1>14, <2>2, Zenon
  <2> QED
    BY <2>3 DEF m
<1>16. HoldsCodes(h, cs \cup {c})
  <2>1. \A s \in InCache(g) : h[s].codepoint = g[s].codepoint
    BY <1>8, Zenon
  <2>2. OneMore(g, h, n, c)
    BY <1>4, <1>7, <2>1, Zenon DEF OneMore
  <2> QED
    BY <2>2, HoldsMore, Zenon
<1> QED
  BY <1>15, <1>16

\* font_get_char leaves the character it was asked for in the cache.
LEMMA GetChar ==
    ASSUME NEW f, IsFace(f), NEW cs, Cache(f, cs), NEW c \in Nat, NEW k, k = font_get_char(f, c)
    PROVE  IsFace(k) /\ Cache(k, cs \cup {c}) /\ k.data = f.data /\ k.em = f.em /\ k.face = f.face
<1> DEFINE g == f.glyphs
           l == Chain(g, c)
<1>1. PICK n \in Nat : Linked(g, n) /\ n <= f.max
  BY DEF Cache
<1>2. HoldsCodes(g, cs) /\ f.max \in Nat
  BY DEF Cache
<1>3. n \in Nat /\ DOMAIN g = 0..(n - 1) /\ num_glyphs(f) = n
  BY <1>1, LinkedParts DEF num_glyphs
<1>4. k = CASE g[l].codepoint = c -> f
            [] g[l].codepoint = -1 -> [f EXCEPT !.glyphs[l] = [codepoint |-> c, next_idx |-> -1]]
            [] OTHER ->
                 [f EXCEPT !.glyphs = [s \in 0..n |-> IF s = n THEN [codepoint |-> c, next_idx |-> -1]
                                                      ELSE IF s = l THEN [@[s] EXCEPT !.next_idx = n] ELSE @[s]],
                           !.max = IF n = @ THEN @ + CACHE_GROW ELSE @]
  BY <1>3, Zenon DEF font_get_char
<1>5. l \in 0..(n - 1)
  BY <1>1, ChainIs
<1>6. f = [data |-> f.data, em |-> f.em, face |-> f.face, glyphs |-> g, max |-> f.max]
  BY Zenon DEF IsFace
<1> DEFINE Root1 == Takes(g, l, c)
           More == Follows(g, l, n, c)
           max1 == IF n = f.max THEN f.max + CACHE_GROW ELSE f.max
<1>7. CASE g[l].codepoint = c
  <2>1. k = f
    BY <1>4, <1>7, SMT
  <2>2. l \in InCache(g)
    BY <1>3, <1>5, <1>7 DEF InCache
  <2>3. c \in cs
    BY <1>2, <1>7, <2>2, Zenon DEF HoldsCodes
  <2>4. cs \cup {c} = cs
    BY <2>3
  <2> QED
    BY <2>1, <2>4, Zenon
<1>8. CASE g[l].codepoint = -1
  <2>1. c # -1
    OBVIOUS
  <2>2. k = [f EXCEPT !.glyphs[l] = [codepoint |-> c, next_idx |-> -1]]
    BY <1>4, <1>8, <2>1, Zenon
  <2> HIDE DEF l
  <2>3. k = [data |-> f.data, em |-> f.em, face |-> f.face, glyphs |-> Root1, max |-> f.max]
    BY <1>6, <2>2 DEF Takes
  <2>4. Linked(Root1, n) /\ HoldsCodes(Root1, cs \cup {c})
    <3>1. l = Chain(g, c)
      BY Zenon DEF l
    <3> QED
      BY <1>1, <1>2, <1>8, <3>1, RootTakes
  <2> HIDE DEF Root1
  <2>5. k.data = f.data /\ k.em = f.em /\ k.face = f.face /\ k.glyphs = Root1 /\ k.max = f.max
    BY <2>3
  <2> QED
    BY <1>1, <1>2, <2>3, <2>4, <2>5, Zenon DEF IsFace, Cache
<1>9. CASE g[l].codepoint \notin {c, -1}
  <2>2. k = [f EXCEPT !.glyphs = [s \in 0..n |-> IF s = n THEN [codepoint |-> c, next_idx |-> -1]
                                                      ELSE IF s = l THEN [@[s] EXCEPT !.next_idx = n] ELSE @[s]],
                           !.max = IF n = @ THEN @ + CACHE_GROW ELSE @]
    BY <1>4, <1>9, Zenon
  <2> HIDE DEF l
  <2>3. k = [data |-> f.data, em |-> f.em, face |-> f.face, glyphs |-> More, max |-> max1]
    BY <1>6, <2>2 DEF Follows
  <2>4. Linked(More, n + 1) /\ HoldsCodes(More, cs \cup {c})
    <3>1. l = Chain(g, c)
      BY Zenon DEF l
    <3>2. PICK h : h = More
      OBVIOUS
    <3>3. Linked(h, n + 1) /\ HoldsCodes(h, cs \cup {c})
      BY <1>1, <1>2, <1>9, <3>1, <3>2, SlotFollows
    <3> QED
      BY <3>2, <3>3, Zenon
  <2>5. max1 \in Nat /\ n + 1 <= max1 /\ n + 1 \in Nat
    BY <1>1, <1>2, <1>3, FontsAssumption
  <2> HIDE DEF More, max1
  <2>6. k.data = f.data /\ k.em = f.em /\ k.face = f.face /\ k.glyphs = More /\ k.max = max1
    BY <2>3
  <2> QED
    BY <2>3, <2>4, <2>5, <2>6, Zenon DEF IsFace, Cache
<1> QED
  BY <1>7, <1>8, <1>9

\* A cache that is made is empty.
LEMMA FreshCache ==
    Linked(NoGlyphs, CACHE_ROOT) /\ HoldsCodes(NoGlyphs, {})
<1>1. /\ CACHE_ROOT \in Nat /\ CACHE_ROOT > 0 /\ NoGlyphs = [s \in 0..(CACHE_ROOT - 1) |-> NoGlyphs[s]]
      /\ \A s \in 0..(CACHE_ROOT - 1) : NoGlyphs[s] = [codepoint |-> -1, next_idx |-> -1] /\ s < CACHE_ROOT
  BY FontsAssumption DEF NoGlyphs, EmptySlot
<1> HIDE DEF NoGlyphs
<1>2. \A s \in 0..(CACHE_ROOT - 1) : NoGlyphs[s].codepoint = -1 /\ NoGlyphs[s].next_idx = -1
  BY <1>1
<1>3. InCache(NoGlyphs) = {}
  BY <1>1, <1>2 DEF InCache
<1>4. Linked(NoGlyphs, CACHE_ROOT)
  BY <1>1, <1>2, <1>3 DEF Linked, IsSlot
<1> QED
  BY <1>3, <1>4 DEF HoldsCodes

\* Each character of a cache is there once, and a look-up finds it.
LEMMA CacheWhole ==
    ASSUME NEW f, NEW cs \in SUBSET Nat, Cache(f, cs)
    PROVE  LET used == {g \in DOMAIN f.glyphs : f.glyphs[g].codepoint # -1}
           IN  /\ {f.glyphs[g].codepoint : g \in used} = cs
               /\ Cardinality(used) = Cardinality(cs)
               /\ num_glyphs(f) <= f.max
               /\ \A c \in cs : f.glyphs[Chain(f.glyphs, c)].codepoint = c
<1> DEFINE g == f.glyphs
<1>1. PICK n \in Nat : Linked(g, n) /\ n <= f.max
  BY DEF Cache
<1>2. HoldsCodes(g, cs)
  BY Zenon DEF Cache
<1>3. n \in Nat /\ DOMAIN g = 0..(n - 1) /\ num_glyphs(f) = n
  BY <1>1, LinkedParts DEF num_glyphs
<1>4. \A s, t \in InCache(g) : g[s].codepoint = g[t].codepoint => s = t
  BY <1>1, Zenon DEF Linked
<1>5. \A c \in cs : g[Chain(g, c)].codepoint = c
  <2> SUFFICES ASSUME NEW c \in cs PROVE g[Chain(g, c)].codepoint = c
    OBVIOUS
  <2>1. PICK s \in InCache(g) : g[s].codepoint = c
    BY <1>2 DEF HoldsCodes
  <2>2. c \in Nat
    OBVIOUS
  <2> QED
    BY <1>1, <2>1, <2>2, ChainIs
<1>6. Cardinality(InCache(g)) = Cardinality(cs)
  <2> DEFINE code == [s \in InCache(g) |-> g[s].codepoint]
  <2>1. code \in Bijection(InCache(g), cs)
    <3>1. code \in [InCache(g) -> cs] /\ \A c \in cs : \E s \in InCache(g) : code[s] = c
      BY <1>2 DEF HoldsCodes
    <3>2. \A s, t \in InCache(g) : code[s] = code[t] => s = t
      BY <1>4, Zenon
    <3> HIDE DEF code
    <3> QED
      BY <3>1, <3>2 DEF Bijection, Injection, Surjection, IsInjective
  <2>2. IsFiniteSet(InCache(g))
    <3>1. IsFiniteSet(0..(n - 1)) /\ InCache(g) \subseteq 0..(n - 1)
      BY <1>3, FS_Interval DEF InCache
    <3> QED
      BY <3>1, FS_Subset
  <2> QED
    BY <2>1, <2>2, FS_Bijection DEF ExistsBijection
<1> QED
  BY <1>1, <1>2, <1>3, <1>5, <1>6, Zenon DEF InCache, HoldsCodes

\* FirstId: the least of some ids.
LEMMA FirstIs ==
    ASSUME NEW S, S \subseteq Ids
    PROVE  /\ FirstId(S) = None0 <=> S = {}
           /\ S # {} => \E i \in S : \A j \in S : i <= j
           /\ FirstId(S) # None0 => FirstId(S) \in S
<1>1. S # {} => \E i \in S : \A j \in S : i <= j
  <2> SUFFICES ASSUME S # {} PROVE \E i \in S : \A j \in S : i <= j
    OBVIOUS
  <2>1. S \subseteq Nat
    BY FontsAssumption DEF Ids
  <2>2. PICK i \in S : \A j \in S : ~(<<j, i>> \in OpToRel(<, Nat))
    BY <2>1, WFMin, NatLessThanWellFounded
  <2>3. ASSUME NEW j \in S PROVE i <= j
    <3>1. i \in Nat /\ j \in Nat
      BY <2>1
    <3>2. ~(j < i)
      BY <2>2, <3>1 DEF OpToRel
    <3> QED
      BY <3>1, <3>2
  <2> QED
    BY <2>3
<1>2. S # {} => FirstId(S) \in S
  BY <1>1 DEF FirstId
<1>3. S = {} => FirstId(S) = None0
  BY DEF FirstId
<1>4. \A i \in S : i # None0
  BY FontsAssumption DEF Ids, None0
<1> QED
  BY <1>1, <1>2, <1>3, <1>4

\* No font is loaded at first.
LEMMA FontsInitHolds == FontsInit => FontsIInv
<1> SUFFICES ASSUME FontsInit PROVE FontsIInv
  OBVIOUS
<1>1. /\ fonts = [i \in Ids |-> None0] /\ face_of = [i \in Ids |-> NoFont] /\ faces = {} /\ bufs = {}
      /\ theme_fonts = [i \in Ids |-> NoThemeFont] /\ asked = [i \in Ids |-> {}]
      /\ font_pc = "up" /\ freed_twice = FALSE
  BY Zenon DEF FontsInit
<1>2. \A i \in Ids : i # None0
  BY FontsAssumption DEF Ids, None0
<1>3. Owners = {}
  BY <1>1, <1>2 DEF Owners
<1>4. FontsTypeOK
  <2>1. \A i \in Ids : IsFace(face_of[i])
    BY <1>1 DEF IsFace, NoFont
  <2>2. theme_fonts \in [Ids -> [file : FontFiles, data : Ids \cup {None0}, size : Nat]]
    BY <1>1 DEF NoThemeFont, FontFiles, None0
  <2>3. face_of = [i \in Ids |-> face_of[i]]
    BY <1>1
  <2> QED
    BY <1>1, <2>1, <2>2, <2>3 DEF FontsTypeOK
<1>5. FacesHeld /\ ThemeHeld /\ CachesKept /\ Bared
  BY <1>1, <1>3 DEF FacesHeld, ThemeHeld, CachesKept, Bared, NoThemeFont
<1> QED
  BY <1>4, <1>5 DEF FontsIInv

\* A font takes another's font_face, shares its face, or opens one.
LEMMA LoadsKeeps ==
    ASSUME FontsIInv, font_pc = "up", NEW id \in Ids, fonts[id] = None0, NEW w, NEW tf, Loads(id, w, tf),
           tf \in [Ids -> [file : FontFiles, data : Ids \cup {None0}, size : Nat]],
           \A i \in Ids : tf[i].data # None0 => tf[i].data \in bufs,
           w.data[1] = "theme" => w.data[2] \in bufs, UNCHANGED <<bufs, font_pc, freed_twice>>
    PROVE  FontsIInv'
<1> DEFINE clone == FirstId({i \in OpenOn(w.data) : face_of[fonts[i]].em = w.em})
           sharer == FirstId(OpenOn(w.data))
           face == IF sharer # None0 THEN face_of[fonts[sharer]].face ELSE id
           new == [data |-> w.data, em |-> w.em, face |-> face, glyphs |-> NoGlyphs, max |-> CACHE_ROOT + CACHE_INIT]
           made == font_get_char(new, CapitalM)
<1>0. /\ FontsTypeOK /\ FacesHeld /\ ThemeHeld /\ CachesKept /\ Bared
      /\ bufs' = bufs /\ font_pc' = font_pc /\ freed_twice' = freed_twice
  BY Zenon DEF FontsIInv
<1>1. /\ theme_fonts' = tf
      /\ IF clone # None0
         THEN fonts' = [fonts EXCEPT ![id] = fonts[clone]] /\ UNCHANGED <<face_of, faces, asked>>
         ELSE /\ fonts' = [fonts EXCEPT ![id] = id] /\ face_of' = [face_of EXCEPT ![id] = made]
              /\ asked' = [asked EXCEPT ![id] = {CapitalM}] /\ faces' = faces \cup {face}
  BY Zenon DEF Loads
<1>2. \A i \in Ids : i # None0
  BY FontsAssumption DEF Ids, None0
<1>3. OpenOn(w.data) \subseteq Ids /\ \A i \in OpenOn(w.data) : fonts[i] \in Owners /\ face_of[fonts[i]].data = w.data
  BY <1>0 DEF OpenOn, FacesHeld
<1>4. id \notin Owners /\ Owners \subseteq Ids /\ \A o \in Owners : fonts[o] = o
  BY <1>2 DEF Owners
<1>5. /\ fonts \in [Ids -> Ids \cup {None0}] /\ face_of = [i \in Ids |-> face_of[i]] /\ (\A i \in Ids : IsFace(face_of[i]))
      /\ faces \subseteq Ids /\ bufs \subseteq Ids /\ asked \in [Ids -> SUBSET Nat] /\ freed_twice = FALSE
  BY <1>0, Zenon DEF FontsTypeOK
<1>6. ThemeHeld' /\ Bared'
  BY <1>0, <1>1 DEF ThemeHeld, Bared
<1>7. CASE clone # None0
  <2>1. fonts' = [fonts EXCEPT ![id] = fonts[clone]] /\ face_of' = face_of /\ faces' = faces /\ asked' = asked
    BY <1>1, <1>7, Zenon
  <2>2. clone \in OpenOn(w.data)
    <3>1. {i \in OpenOn(w.data) : face_of[fonts[i]].em = w.em} \subseteq Ids
      BY <1>3
    <3> QED
      BY <1>7, <3>1, FirstIs
  <2>3. fonts[clone] \in Owners
    BY <1>3, <2>2
  <2> HIDE DEF clone
  <2>4. fonts'[id] = fonts[clone] /\ \A i \in Ids : i # id => fonts'[i] = fonts[i]
    BY <1>5, <2>1
  <2>5. Owners' = Owners
    BY <1>4, <2>3, <2>4 DEF Owners
  <2>6. FacesHeld'
    <3>1. \A i \in Ids : fonts'[i] # None0 => fonts'[i] \in Owners
      BY <1>0, <2>3, <2>4, Zenon DEF FacesHeld
    <3>2. /\ \A o \in Owners : face_of[o].face \in faces /\ (face_of[o].data[1] = "theme" => face_of[o].data[2] \in bufs)
          /\ \A f \in faces : \E o \in Owners : face_of[o].face = f
      BY <1>0, Zenon DEF FacesHeld
    <3> QED
      BY <1>0, <2>1, <2>5, <3>1, <3>2, Zenon DEF FacesHeld
  <2>7. FontsTypeOK'
    <3>1. fonts' \in [Ids -> Ids \cup {None0}]
      BY <1>4, <1>5, <2>1, <2>3
    <3> QED
      BY <1>0, <1>1, <1>5, <2>1, <3>1 DEF FontsTypeOK
  <2>8. CachesKept'
    BY <1>0, <2>1, <2>5, Zenon DEF CachesKept
  <2> QED
    BY <1>6, <2>6, <2>7, <2>8 DEF FontsIInv
<1>8. CASE clone = None0
  <2>1. /\ fonts' = [fonts EXCEPT ![id] = id] /\ face_of' = [face_of EXCEPT ![id] = made]
        /\ asked' = [asked EXCEPT ![id] = {CapitalM}] /\ faces' = faces \cup {face}
    BY <1>1, <1>8, Zenon
  <2>2. sharer # None0 => face \in faces
    <3>1. sharer # None0 => sharer \in OpenOn(w.data)
      BY <1>3, FirstIs
    <3> QED
      BY <1>0, <1>3, <3>1 DEF FacesHeld
  <2>3. face \in Ids
    <3>1. sharer = None0 => face = id
      BY Zenon
    <3> QED
      BY <1>5, <2>2, <3>1
  <2> HIDE DEF face
  <2>4. IsFace(made) /\ Cache(made, {CapitalM}) /\ made.data = w.data /\ made.face = face
    <3>1. new.glyphs = NoGlyphs /\ new.max = CACHE_ROOT + CACHE_INIT /\ new.data = w.data /\ new.face = face /\ IsFace(new)
      BY DEF IsFace
    <3>2. CapitalM \in Nat /\ CACHE_ROOT \in Nat /\ CACHE_ROOT + CACHE_INIT \in Nat /\ CACHE_ROOT <= CACHE_ROOT + CACHE_INIT
      BY FontsAssumption
    <3> HIDE DEF new
    <3>3. Cache(new, {})
      BY <3>1, <3>2, FreshCache, Zenon DEF Cache
    <3>4. IsFace(made) /\ Cache(made, {} \cup {CapitalM}) /\ made.data = new.data /\ made.face = new.face
      <4>1. PICK f : f = new
        OBVIOUS
      <4>2. PICK c \in Nat : c = CapitalM
        BY <3>2
      <4>3. PICK m : m = font_get_char(f, c)
        OBVIOUS
      <4>4. IsFace(f) /\ Cache(f, {})
        BY <3>1, <3>3, <4>1, Zenon
      <4>5. IsFace(m) /\ Cache(m, {} \cup {c}) /\ m.data = f.data /\ m.face = f.face
        BY <4>3, <4>4, GetChar
      <4> QED
        BY <4>1, <4>2, <4>3, <4>5, Zenon
    <3>5. {} \cup {CapitalM} = {CapitalM}
      OBVIOUS
    <3> QED
      BY <3>1, <3>4, <3>5, Zenon
  <2> HIDE DEF made
  <2>5. /\ fonts'[id] = id /\ face_of'[id] = made /\ asked'[id] = {CapitalM}
        /\ \A i \in Ids : i # id => fonts'[i] = fonts[i] /\ face_of'[i] = face_of[i] /\ asked'[i] = asked[i]
    BY <1>5, <2>1
  <2>6. Owners' = Owners \cup {id}
    BY <1>4, <2>5 DEF Owners
  <2>7. \A o \in Owners : o \in Ids /\ o # id
    BY <1>4
  <2>8. FacesHeld'
    <3>1. \A i \in Ids : fonts'[i] # None0 => fonts'[i] \in Owners \cup {id}
      BY <1>0, <2>5 DEF FacesHeld
    <3>2. \A o \in Owners : face_of'[o].face \in faces' /\ (face_of'[o].data[1] = "theme" => face_of'[o].data[2] \in bufs)
      BY <1>0, <2>1, <2>5, <2>7 DEF FacesHeld
    <3>3. face_of'[id].face \in faces' /\ (face_of'[id].data[1] = "theme" => face_of'[id].data[2] \in bufs)
      BY <2>1, <2>4, <2>5
    <3>4. ASSUME NEW f \in faces' PROVE \E o \in Owners \cup {id} : face_of'[o].face = f
      <4>1. CASE f = face
        BY <2>4, <2>5, <4>1
      <4>2. CASE f \in faces
        <5>1. PICK o \in Owners : face_of[o].face = f
          BY <1>0, <4>2, Zenon DEF FacesHeld
        <5> QED
          BY <2>5, <2>7, <5>1
      <4> QED
        BY <2>1, <4>1, <4>2
    <3>5. \A o \in Owners \cup {id} : face_of'[o].face \in faces' /\ (face_of'[o].data[1] = "theme" => face_of'[o].data[2] \in bufs)
      BY <3>2, <3>3
    <3> QED
      BY <1>0, <2>6, <3>1, <3>4, <3>5, Zenon DEF FacesHeld
  <2>9. FontsTypeOK'
    <3>1. fonts' \in [Ids -> Ids \cup {None0}]
      BY <1>5, <2>1
    <3>2. asked' \in [Ids -> SUBSET Nat]
      BY <1>5, <2>1, FontsAssumption
    <3>3. faces' \subseteq Ids
      BY <1>5, <2>1, <2>3
    <3>4. face_of' = [i \in Ids |-> face_of'[i]]
      BY <1>5, <2>1
    <3>5. \A i \in Ids : IsFace(face_of'[i])
      BY <1>5, <2>4, <2>5, Zenon
    <3>6. font_pc' \in {"up", "cleared", "bare"}
      BY <1>0
    <3> QED
      BY <1>0, <1>1, <1>5, <3>1, <3>2, <3>3, <3>4, <3>5, <3>6, Zenon DEF FontsTypeOK, IsFace
  <2>10. CachesKept'
    <3>1. \A o \in Owners : Cache(face_of[o], asked[o])
      BY <1>0, Zenon DEF CachesKept
    <3>2. \A o \in Owners : Cache(face_of'[o], asked'[o])
      BY <2>5, <2>7, <3>1, Zenon
    <3>3. Cache(face_of'[id], asked'[id])
      BY <2>4, <2>5, Zenon
    <3>4. \A o \in Owners \cup {id} : Cache(face_of'[o], asked'[o])
      BY <3>2, <3>3
    <3> QED
      BY <2>6, <3>4, Zenon DEF CachesKept, Cache
  <2> QED
    BY <1>6, <2>8, <2>9, <2>10 DEF FontsIInv
<1> QED
  BY <1>7, <1>8

\* It is loaded from the theme or, where FreeType refuses that, from the default.
LEMMA font_loadKeeps ==
    ASSUME FontsIInv, NEW id \in Ids, font_load(id)
    PROVE  FontsIInv'
<1>0. /\ FontsTypeOK /\ ThemeHeld /\ font_pc = "up" /\ fonts[id] = None0 /\ UNCHANGED <<bufs, font_pc, freed_twice>>
  BY Zenon DEF FontsIInv, font_load
<1>1. theme_fonts \in [Ids -> [file : FontFiles, data : Ids \cup {None0}, size : Nat]]
  BY <1>0 DEF FontsTypeOK
<1>2. CASE Falls(id)
  <2> DEFINE w == [data |-> <<"default", DefaultData[id]>>, em |-> DefaultSize[id]]
             tf == [theme_fonts EXCEPT ![id].data = None0]
  <2>1. Loads(id, w, tf)
    BY <1>2, Zenon DEF font_load
  <2>2. w.data[1] # "theme"
    OBVIOUS
  <2>3. tf \in [Ids -> [file : FontFiles, data : Ids \cup {None0}, size : Nat]]
    BY <1>1
  <2>4. \A i \in Ids : tf[i].data # None0 => tf[i].data \in bufs
    BY <1>0, <1>1 DEF ThemeHeld
  <2> HIDE DEF w, tf
  <2> QED
    BY <1>0, <2>1, <2>2, <2>3, <2>4, LoadsKeeps
<1>3. CASE ~Falls(id)
  <2> DEFINE w == Wanted(id, theme_fonts)
  <2>1. Loads(id, w, theme_fonts)
    BY <1>3, Zenon DEF font_load
  <2>2. w.data[1] = "theme" => w.data[2] \in bufs
    BY <1>0 DEF Wanted, ThemeHeld
  <2>3. \A i \in Ids : theme_fonts[i].data # None0 => theme_fonts[i].data \in bufs
    BY <1>0 DEF ThemeHeld
  <2> HIDE DEF w
  <2> QED
    BY <1>0, <1>1, <2>1, <2>2, <2>3, LoadsKeeps
<1> QED
  BY <1>2, <1>3

\* A character more in one cache.
LEMMA FontDrawKeeps == ASSUME FontsIInv, Draw PROVE FontsIInv'
<1>0. /\ FontsTypeOK /\ FacesHeld /\ ThemeHeld /\ CachesKept /\ Bared
      /\ UNCHANGED <<fonts, faces, theme_fonts, bufs, font_pc, freed_twice>>
  BY Zenon DEF FontsIInv, Draw
<1>1. PICK d \in Drawn_ : /\ fonts[d[1]] # None0 /\ face_of' = [face_of EXCEPT ![fonts[d[1]]] = font_get_char(@, d[2])]
                          /\ asked' = [asked EXCEPT ![fonts[d[1]]] = @ \cup {d[2]}]
  BY Zenon DEF Draw
<1>2. d[1] \in Ids /\ d[2] \in Nat
  BY FontsAssumption
<1>3. PICK o : o = fonts[d[1]]
  OBVIOUS
<1>4. PICK c : c = d[2]
  OBVIOUS
<1>5. o \in Owners /\ o \in Ids /\ c \in Nat
  BY <1>0, <1>1, <1>2, <1>3, <1>4 DEF FacesHeld, Owners
<1>6. /\ fonts \in [Ids -> Ids \cup {None0}] /\ face_of = [i \in Ids |-> face_of[i]] /\ (\A i \in Ids : IsFace(face_of[i]))
      /\ asked \in [Ids -> SUBSET Nat]
  BY <1>0, Zenon DEF FontsTypeOK
<1> DEFINE k == font_get_char(face_of[o], c)
<1>7. face_of' = [face_of EXCEPT ![o] = k] /\ asked' = [asked EXCEPT ![o] = asked[o] \cup {c}]
  BY <1>1, <1>3, <1>4
<1>8. IsFace(k) /\ Cache(k, asked[o] \cup {c}) /\ k.data = face_of[o].data /\ k.face = face_of[o].face
  <2>1. IsFace(face_of[o]) /\ Cache(face_of[o], asked[o])
    BY <1>0, <1>5, <1>6, Zenon DEF CachesKept
  <2> QED
    BY <1>5, <2>1, GetChar
<1> HIDE DEF k
<1>9. /\ face_of'[o] = k /\ asked'[o] = asked[o] \cup {c}
      /\ \A i \in Ids : i # o => face_of'[i] = face_of[i] /\ asked'[i] = asked[i]
  BY <1>5, <1>6, <1>7
<1>10. \A i \in Ids : face_of'[i].data = face_of[i].data /\ face_of'[i].face = face_of[i].face
  BY <1>8, <1>9, Zenon
<1>11. Owners' = Owners /\ Owners \subseteq Ids
  BY <1>0 DEF Owners
<1>12. FacesHeld'
  <2>1. /\ \A i \in Ids : fonts[i] # None0 => fonts[i] \in Owners
        /\ \A q \in Owners : face_of[q].face \in faces /\ (face_of[q].data[1] = "theme" => face_of[q].data[2] \in bufs)
        /\ \A f \in faces : \E q \in Owners : face_of[q].face = f
    BY <1>0, Zenon DEF FacesHeld
  <2>2. \A q \in Owners : face_of'[q].data = face_of[q].data /\ face_of'[q].face = face_of[q].face
    BY <1>10, <1>11
  <2>3. /\ \A q \in Owners : face_of'[q].face \in faces /\ (face_of'[q].data[1] = "theme" => face_of'[q].data[2] \in bufs)
        /\ \A f \in faces : \E q \in Owners : face_of'[q].face = f
    BY <2>1, <2>2, Zenon
  <2>4. fonts' = fonts /\ faces' = faces /\ bufs' = bufs
    BY <1>0
  <2> QED
    BY <1>11, <2>1, <2>3, <2>4, Zenon DEF FacesHeld
<1>13. FontsTypeOK'
  <2>1. face_of' = [i \in Ids |-> face_of'[i]]
    BY <1>6, <1>7
  <2>2. \A i \in Ids : IsFace(face_of'[i])
    BY <1>6, <1>8, <1>9, Zenon
  <2>3. asked' \in [Ids -> SUBSET Nat]
    BY <1>5, <1>6, <1>7
  <2>4. /\ fonts' = fonts /\ faces' = faces /\ bufs' = bufs /\ theme_fonts' = theme_fonts /\ font_pc' = font_pc
        /\ freed_twice' = freed_twice
    BY <1>0
  <2> QED
    BY <1>0, <2>1, <2>2, <2>3, <2>4, Zenon DEF FontsTypeOK, IsFace
<1>14. CachesKept'
  <2>1. \A q \in Owners : Cache(face_of[q], asked[q])
    BY <1>0, Zenon DEF CachesKept
  <2>2. \A q \in Owners : Cache(face_of'[q], asked'[q])
    <3> SUFFICES ASSUME NEW q \in Owners PROVE Cache(face_of'[q], asked'[q])
      OBVIOUS
    <3>1. CASE q = o
      BY <1>8, <1>9, <3>1, Zenon
    <3>2. CASE q # o
      <4>1. q \in Ids
        BY <1>11
      <4> QED
        BY <1>9, <2>1, <3>2, <4>1, Zenon
    <3> QED
      BY <3>1, <3>2
  <2> QED
    BY <1>11, <2>2, Zenon DEF CachesKept, Cache
<1>15. ThemeHeld' /\ Bared'
  BY <1>0 DEF ThemeHeld, Bared
<1> QED
  BY <1>12, <1>13, <1>14, <1>15 DEF FontsIInv

\* What holds of font_clear's state after each round of it.
ClearedTo(st, i) ==
    /\ st.fonts \in [Ids -> Ids \cup {None0}] /\ (\A j \in Ids : j <= i => st.fonts[j] = None0)
    /\ st.of = [j \in Ids |-> st.of[j]] /\ (\A j \in Ids : IsFace(st.of[j]))
    /\ st.twice = FALSE /\ st.faces \subseteq Ids
    /\ \A j \in Ids : st.fonts[j] # None0 => st.fonts[st.fonts[j]] = st.fonts[j]
    /\ \A o \in Ids : st.fonts[o] = o => st.of[o].face \in st.faces \cup {None0}
    /\ \A f \in st.faces : \E o \in Ids : st.fonts[o] = o /\ st.of[o].face = f

\* A round of font_clear frees the face of id's owner, and no owner is left that has it.
LEMMA ClearOneKeeps ==
    ASSUME NEW st, NEW id \in Ids, ClearedTo(st, id - 1)
    PROVE  ClearedTo(ClearOne(st, id), id)
<1> DEFINE o == st.fonts[id]
           face == st.of[o].face
           others == [i \in Ids |-> IF st.of[i].face = face THEN [st.of[i] EXCEPT !.face = None0] ELSE st.of[i]]
           fonts1 == [i \in Ids |-> IF st.fonts[i] = o THEN None0 ELSE st.fonts[i]]
           of1 == [others EXCEPT ![o] = NoFont]
           faces1 == IF face = None0 THEN st.faces ELSE st.faces \ {face}
           twice1 == st.twice \/ (face # None0 /\ face \notin st.faces)
           new == [fonts |-> fonts1, of |-> of1, faces |-> faces1, twice |-> twice1]
<1>0. /\ st.fonts \in [Ids -> Ids \cup {None0}] /\ (\A j \in Ids : j <= id - 1 => st.fonts[j] = None0)
      /\ st.of = [j \in Ids |-> st.of[j]] /\ (\A j \in Ids : IsFace(st.of[j]))
      /\ st.twice = FALSE /\ st.faces \subseteq Ids
      /\ \A j \in Ids : st.fonts[j] # None0 => st.fonts[st.fonts[j]] = st.fonts[j]
      /\ \A q \in Ids : st.fonts[q] = q => st.of[q].face \in st.faces \cup {None0}
      /\ \A f \in st.faces : \E q \in Ids : st.fonts[q] = q /\ st.of[q].face = f
  BY Zenon DEF ClearedTo
<1>1. id \in Nat /\ \A j \in Ids : j \in Nat /\ j # None0 /\ (j <= id => j <= id - 1 \/ j = id)
  BY FontsAssumption DEF Ids, None0
<1>2. CASE o = None0
  <2>1. ClearOne(st, id) = st
    BY <1>2, Zenon DEF ClearOne
  <2>2. \A j \in Ids : j <= id => st.fonts[j] = None0
    BY <1>0, <1>1, <1>2, Zenon
  <2> QED
    BY <1>0, <2>1, <2>2, Zenon DEF ClearedTo
<1>3. CASE o # None0
  <2>1. ClearOne(st, id) = new
    BY <1>3, Zenon DEF ClearOne
  <2>2. o \in Ids /\ st.fonts[o] = o
    BY <1>0, <1>3
  <2> HIDE DEF o
  <2>3. face \in st.faces \cup {None0}
    BY <1>0, <2>2, Zenon
  <2> HIDE DEF face
  <2>4. twice1 = FALSE
    <3>1. ~twice1
      BY <1>0, <2>3
    <3> QED
      BY <3>1
  <2>5. faces1 \subseteq st.faces /\ face \notin faces1
    <3>1. None0 \notin st.faces
      BY <1>0, <1>1
    <3> QED
      BY <3>1
  <2>6. \A j \in Ids : fonts1[j] = IF st.fonts[j] = o THEN None0 ELSE st.fonts[j]
    OBVIOUS
  <2>7. \A j \in Ids : j <= id => fonts1[j] = None0
    <3>1. st.fonts[id] = o
      BY DEF o
    <3> QED
      BY <1>0, <1>1, <2>6, <3>1, Zenon
  <2>8. fonts1 \in [Ids -> Ids \cup {None0}]
    BY <1>0
  <2>9. /\ of1 = [j \in Ids |-> of1[j]] /\ of1[o] = NoFont
        /\ \A j \in Ids : j # o => of1[j] = IF st.of[j].face = face THEN [st.of[j] EXCEPT !.face = None0] ELSE st.of[j]
    BY <2>2
  <2>10. \A j \in Ids : [st.of[j] EXCEPT !.face = None0] =
            [data |-> st.of[j].data, em |-> st.of[j].em, face |-> None0, glyphs |-> st.of[j].glyphs, max |-> st.of[j].max]
    <3> SUFFICES ASSUME NEW f, IsFace(f)
                 PROVE [f EXCEPT !.face = None0] =
                       [data |-> f.data, em |-> f.em, face |-> None0, glyphs |-> f.glyphs, max |-> f.max]
      BY <1>0, Zenon
    <3> QED
      BY DEF IsFace
  <2>11. \A j \in Ids : IsFace(of1[j])
    <3> SUFFICES ASSUME NEW j \in Ids PROVE IsFace(of1[j])
      OBVIOUS
    <3>1. CASE j = o
      BY <2>9, <3>1 DEF IsFace, NoFont
    <3>2. CASE j # o /\ st.of[j].face = face
      <4>1. of1[j] = [data |-> st.of[j].data, em |-> st.of[j].em, face |-> None0, glyphs |-> st.of[j].glyphs, max |-> st.of[j].max]
        BY <2>9, <2>10, <3>2, Zenon
      <4> HIDE DEF of1
      <4> QED
        BY <4>1 DEF IsFace
    <3>3. CASE j # o /\ st.of[j].face # face
      BY <1>0, <2>9, <3>3, Zenon
    <3> QED
      BY <3>1, <3>2, <3>3
  <2>12. \A j \in Ids : j # o => of1[j].face = IF st.of[j].face = face THEN None0 ELSE st.of[j].face
    <3> SUFFICES ASSUME NEW j \in Ids, j # o PROVE of1[j].face = IF st.of[j].face = face THEN None0 ELSE st.of[j].face
      OBVIOUS
    <3>1. [st.of[j] EXCEPT !.face = None0].face = None0
      <4>1. [st.of[j] EXCEPT !.face = None0] =
            [data |-> st.of[j].data, em |-> st.of[j].em, face |-> None0, glyphs |-> st.of[j].glyphs, max |-> st.of[j].max]
        BY <2>10, Zenon
      <4> QED
        BY <4>1
    <3> QED
      BY <2>9, <3>1, Zenon
  <2>13. \A j \in Ids : fonts1[j] # None0 => fonts1[fonts1[j]] = fonts1[j]
    BY <1>0, <2>6, <2>8
  <2>14. \A q \in Ids : fonts1[q] = q => st.fonts[q] = q /\ q # o
    BY <1>1, <2>6, Zenon
  <2>15. \A q \in Ids : st.fonts[q] = q /\ q # o => fonts1[q] = q
    BY <2>6, Zenon
  <2> HIDE DEF fonts1, of1
  <2>16. ASSUME NEW q \in Ids, fonts1[q] = q PROVE of1[q].face \in faces1 \cup {None0}
    BY <1>0, <2>12, <2>14, <2>16
  <2>17. ASSUME NEW f \in faces1 PROVE \E q \in Ids : fonts1[q] = q /\ of1[q].face = f
    <3>1. f \in st.faces /\ f # face
      BY <2>5
    <3>2. PICK q \in Ids : st.fonts[q] = q /\ st.of[q].face = f
      BY <1>0, <3>1, Zenon
    <3>3. q # o
      BY <3>1, <3>2, Zenon DEF face
    <3> QED
      BY <2>12, <2>15, <3>1, <3>2, <3>3
  <2>18. faces1 \subseteq Ids
    BY <1>0, <2>5
  <2> HIDE DEF faces1, twice1
  <2>19. new.fonts = fonts1 /\ new.of = of1 /\ new.faces = faces1 /\ new.twice = twice1
    OBVIOUS
  <2>20. ClearedTo(new, id)
    <3> HIDE DEF new
    <3> QED
      BY <2>4, <2>7, <2>8, <2>9, <2>11, <2>13, <2>16, <2>17, <2>18, <2>19, Zenon DEF
         ClearedTo
  <2> QED
    BY <2>1, <2>20, Zenon
<1> QED
  BY <1>2, <1>3

\* After the last round no id has a font, so no face is left.
LEMMA font_clearKeeps == ASSUME FontsIInv, font_clear PROVE FontsIInv'
<1> DEFINE first == [fonts |-> fonts, of |-> face_of, faces |-> faces, twice |-> freed_twice]
           Clears(f) == [i \in 0..FONT_MAX |-> IF i = 0 THEN first ELSE ClearOne(f[i - 1], i)]
           after == CHOOSE f : f = Clears(f)
           end == after[FONT_MAX]
<1>0. /\ FontsTypeOK /\ FacesHeld /\ ThemeHeld /\ font_pc' = "cleared" /\ asked' = [i \in Ids |-> {}]
      /\ theme_fonts' = theme_fonts /\ bufs' = bufs
  BY Zenon DEF FontsIInv, font_clear
<1>1. fonts' = end.fonts /\ face_of' = end.of /\ faces' = end.faces /\ freed_twice' = end.twice
  BY Zenon DEF font_clear
<1>2. FONT_MAX \in Nat /\ Ids = 1..FONT_MAX
  BY FontsAssumption DEF Ids
<1>3. after = Clears(after)
  <2>1. PICK f : Rounds("clear", 0, first, FONT_MAX, f)
    BY <1>2, RoundsRun, Zenon
  <2>2. \A st, i : Round("clear", st, i, 0) = ClearOne(st, i)
    BY DEF Round
  <2>3. f = Clears(f)
    <3>1. \A i \in 0..FONT_MAX : f[i] = IF i = 0 THEN first ELSE ClearOne(f[i - 1], i)
      BY <2>1, <2>2, Zenon DEF Rounds
    <3>2. [i \in 0..FONT_MAX |-> f[i]] = Clears(f)
      BY <3>1, Zenon
    <3> QED
      BY <2>1, <3>2, Zenon DEF Rounds
  <2> QED
    BY <2>3, Zenon
<1> HIDE DEF after, first
<1>4. after[0] = first /\ \A i \in 1..FONT_MAX : after[i] = ClearOne(after[i - 1], i)
  <2>1. 0 \in 0..FONT_MAX /\ \A i \in 1..FONT_MAX : i \in 0..FONT_MAX /\ i # 0
    BY <1>2
  <2>2. \A i \in 0..FONT_MAX : after[i] = IF i = 0 THEN first ELSE ClearOne(after[i - 1], i)
    BY <1>3, Zenon
  <2> QED
    BY <2>1, <2>2, Zenon
<1>5. ClearedTo(first, 0)
  <2>1. first.fonts = fonts /\ first.of = face_of /\ first.faces = faces /\ first.twice = freed_twice
    BY DEF first
  <2>2. /\ fonts \in [Ids -> Ids \cup {None0}] /\ face_of = [j \in Ids |-> face_of[j]] /\ (\A j \in Ids : IsFace(face_of[j]))
        /\ freed_twice = FALSE /\ faces \subseteq Ids
    BY <1>0, Zenon DEF FontsTypeOK
  <2>3. /\ \A j \in Ids : fonts[j] # None0 => fonts[fonts[j]] = fonts[j]
        /\ \A o \in Ids : fonts[o] = o => face_of[o].face \in faces \cup {None0}
        /\ \A f \in faces : \E o \in Ids : fonts[o] = o /\ face_of[o].face = f
    BY <1>0 DEF FacesHeld, Owners
  <2>4. \A j \in Ids : ~(j <= 0)
    BY <1>2
  <2> QED
    BY <2>1, <2>2, <2>3, <2>4, Zenon DEF ClearedTo
<1>6. ClearedTo(end, FONT_MAX)
  <2> DEFINE S == {i \in 0..FONT_MAX : ClearedTo(after[i], i)}
  <2>1. 0 \in S
    BY <1>2, <1>4, <1>5
  <2>2. ASSUME NEW i \in 1..FONT_MAX, i - 1 \in S PROVE i \in S
    <3>1. ClearedTo(ClearOne(after[i - 1], i), i)
      BY <1>2, <2>2, ClearOneKeeps
    <3>2. i \in 0..FONT_MAX
      BY <1>2
    <3> QED
      BY <1>4, <3>1, <3>2
  <2> HIDE DEF S
  <2>3. FONT_MAX \in S
    <3>1. \A i \in 0..FONT_MAX : i \in S
      BY <1>2, <2>1, <2>2, CountUp, Zenon
    <3> QED
      BY <1>2, <3>1
  <2> QED
    BY <2>3, Zenon DEF S
<1> HIDE DEF end
<1>7. /\ end.fonts \in [Ids -> Ids \cup {None0}] /\ (\A j \in Ids : end.fonts[j] = None0)
      /\ end.of = [j \in Ids |-> end.of[j]] /\ (\A j \in Ids : IsFace(end.of[j]))
      /\ end.twice = FALSE /\ end.faces \subseteq Ids
      /\ \A f \in end.faces : \E o \in Ids : end.fonts[o] = o
  <2>1. \A j \in Ids : j <= FONT_MAX
    BY <1>2
  <2> QED
    BY <1>6, <2>1, Zenon DEF ClearedTo
<1>8. \A i \in Ids : i # None0 /\ fonts'[i] = None0
  BY <1>1, <1>2, <1>7 DEF None0
<1>9. Owners' = {} /\ faces' = {}
  <2>1. Owners' = {}
    BY <1>8 DEF Owners
  <2>2. \A f \in faces' : FALSE
    BY <1>1, <1>7, <1>8
  <2> QED
    BY <2>1, <2>2
<1>10. FontsTypeOK'
  <2>1. asked' \in [Ids -> SUBSET Nat]
    BY <1>0
  <2>2. /\ fonts' \in [Ids -> Ids \cup {None0}] /\ face_of' = [j \in Ids |-> face_of'[j]] /\ (\A j \in Ids : IsFace(face_of'[j]))
        /\ freed_twice' = FALSE /\ faces' \subseteq Ids
    BY <1>1, <1>7, Zenon
  <2>3. font_pc' \in {"up", "cleared", "bare"}
    BY <1>0
  <2> QED
    BY <1>0, <2>1, <2>2, <2>3, Zenon DEF FontsTypeOK, IsFace
<1>11. FacesHeld' /\ ThemeHeld' /\ CachesKept' /\ Bared'
  BY <1>0, <1>8, <1>9 DEF FacesHeld, ThemeHeld, CachesKept, Bared
<1> QED
  BY <1>10, <1>11 DEF FontsIInv

ThemeFonts == [Ids -> [file : FontFiles, data : Ids \cup {None0}, size : Nat]]

\* What the theme fonts of theme_deinit and theme_init name is in memory.
Names(st) ==
    /\ st.tf \in ThemeFonts /\ st.bufs \subseteq Ids
    /\ \A j \in Ids : st.tf[j].data # None0 => st.tf[j].data \in st.bufs

BaredTo(st, i) == Names(st) /\ st.twice = FALSE /\ \A j \in Ids : j <= i => st.tf[j] = NoThemeFont

\* A round of theme_deinit frees the file of id, and no id is left that names it.
LEMMA DeinitOneKeeps ==
    ASSUME NEW st, NEW id \in Ids, BaredTo(st, id - 1)
    PROVE  BaredTo(DeinitOne(st, id), id)
<1> DEFINE d == st.tf[id].data
           tf1 == [j \in Ids |-> IF j = id THEN NoThemeFont
                                 ELSE IF d # None0 /\ st.tf[j].data = d THEN [st.tf[j] EXCEPT !.data = None0]
                                 ELSE st.tf[j]]
           twice1 == st.twice \/ (d # None0 /\ d \notin st.bufs)
           new == [tf |-> tf1, bufs |-> st.bufs \ {d}, twice |-> twice1]
<1>0. /\ st.tf \in ThemeFonts /\ st.bufs \subseteq Ids /\ st.twice = FALSE
      /\ \A j \in Ids : st.tf[j].data # None0 => st.tf[j].data \in st.bufs
      /\ \A j \in Ids : j <= id - 1 => st.tf[j] = NoThemeFont
  BY Zenon DEF BaredTo, Names
<1>1. \A j \in Ids : j <= id => j <= id - 1 \/ j = id
  BY FontsAssumption DEF Ids
<1>2. DeinitOne(st, id) = new
  BY Zenon DEF DeinitOne
<1>3. \A j \in Ids : st.tf[j] \in [file : FontFiles, data : Ids \cup {None0}, size : Nat]
  BY <1>0 DEF ThemeFonts
<1>4. NoThemeFont \in [file : FontFiles, data : Ids \cup {None0}, size : Nat] /\ NoThemeFont.data = None0
  BY DEF NoThemeFont, FontFiles, None0
<1>5. \A j \in Ids : LET e == [st.tf[j] EXCEPT !.data = None0]
                     IN  e \in [file : FontFiles, data : Ids \cup {None0}, size : Nat] /\ e.data = None0
  BY <1>3
<1>6. tf1 \in ThemeFonts
  BY <1>3, <1>4, <1>5 DEF ThemeFonts
<1>7. \A j \in Ids : tf1[j].data # None0 => tf1[j].data \in st.bufs /\ tf1[j].data # d
  <2> SUFFICES ASSUME NEW j \in Ids, tf1[j].data # None0 PROVE tf1[j].data \in st.bufs /\ tf1[j].data # d
    OBVIOUS
  <2>1. j # id /\ tf1[j] = st.tf[j] /\ (d = None0 \/ st.tf[j].data # d)
    BY <1>4, <1>5
  <2> QED
    BY <1>0, <2>1
<1>8. \A j \in Ids : j <= id => tf1[j] = NoThemeFont
  <2> SUFFICES ASSUME NEW j \in Ids, j <= id PROVE tf1[j] = NoThemeFont
    OBVIOUS
  <2>1. CASE j = id
    BY <2>1
  <2>2. CASE j # id
    <3>1. st.tf[j] = NoThemeFont
      BY <1>0, <1>1, <2>2, Zenon
    <3>2. ~(d # None0 /\ st.tf[j].data = d)
      BY <1>4, <3>1, Zenon
    <3> QED
      BY <2>2, <3>1, <3>2
  <2> QED
    BY <2>1, <2>2
<1>9. twice1 = FALSE
  <2>1. ~twice1
    BY <1>0
  <2> QED
    BY <2>1
<1> HIDE DEF tf1, twice1, d
<1>10. new.tf = tf1 /\ new.bufs = st.bufs \ {d} /\ new.twice = twice1
  OBVIOUS
<1> HIDE DEF new
<1>11. Names(new)
  BY <1>0, <1>6, <1>7, <1>10 DEF Names
<1>12. BaredTo(new, id)
  BY <1>8, <1>9, <1>10, <1>11, Zenon DEF BaredTo
<1> QED
  BY <1>2, <1>12, Zenon

\* No font is loaded when the files of a theme are freed.
LEMMA theme_deinitKeeps == ASSUME FontsIInv, theme_deinit PROVE FontsIInv'
<1> DEFINE first == [tf |-> theme_fonts, bufs |-> bufs, twice |-> freed_twice]
           Deinits(f) == [i \in 0..FONT_MAX |-> IF i = 0 THEN first ELSE DeinitOne(f[i - 1], i)]
           after == CHOOSE f : f = Deinits(f)
           end == after[FONT_MAX]
<1>0. /\ FontsTypeOK /\ FacesHeld /\ ThemeHeld /\ Bared /\ font_pc = "cleared" /\ font_pc' = "bare"
      /\ fonts' = fonts /\ face_of' = face_of /\ faces' = faces /\ asked' = asked
  BY Zenon DEF FontsIInv, theme_deinit
<1>1. theme_fonts' = end.tf /\ bufs' = end.bufs /\ freed_twice' = end.twice
  BY Zenon DEF theme_deinit
<1>2. FONT_MAX \in Nat /\ Ids = 1..FONT_MAX
  BY FontsAssumption DEF Ids
<1>3. after = Deinits(after)
  <2>1. PICK f : Rounds("deinit", 0, first, FONT_MAX, f)
    BY <1>2, RoundsRun, Zenon
  <2>2. \A st, i : Round("deinit", st, i, 0) = DeinitOne(st, i)
    BY DEF Round
  <2>3. f = Deinits(f)
    <3>1. \A i \in 0..FONT_MAX : f[i] = IF i = 0 THEN first ELSE DeinitOne(f[i - 1], i)
      BY <2>1, <2>2, Zenon DEF Rounds
    <3>2. [i \in 0..FONT_MAX |-> f[i]] = Deinits(f)
      BY <3>1, Zenon
    <3> QED
      BY <2>1, <3>2, Zenon DEF Rounds
  <2> QED
    BY <2>3, Zenon
<1> HIDE DEF after, first
<1>4. after[0] = first /\ \A i \in 1..FONT_MAX : after[i] = DeinitOne(after[i - 1], i)
  <2>1. 0 \in 0..FONT_MAX /\ \A i \in 1..FONT_MAX : i \in 0..FONT_MAX /\ i # 0
    BY <1>2
  <2>2. \A i \in 0..FONT_MAX : after[i] = IF i = 0 THEN first ELSE DeinitOne(after[i - 1], i)
    BY <1>3, Zenon
  <2> QED
    BY <2>1, <2>2, Zenon
<1>5. BaredTo(first, 0)
  <2>1. first.tf = theme_fonts /\ first.bufs = bufs /\ first.twice = freed_twice
    BY DEF first
  <2>2. theme_fonts \in ThemeFonts /\ bufs \subseteq Ids /\ freed_twice = FALSE
    BY <1>0, Zenon DEF FontsTypeOK, ThemeFonts
  <2>3. \A j \in Ids : ~(j <= 0)
    BY <1>2
  <2> QED
    BY <1>0, <2>1, <2>2, <2>3, Zenon DEF BaredTo, Names, ThemeHeld
<1>6. BaredTo(end, FONT_MAX)
  <2> DEFINE S == {i \in 0..FONT_MAX : BaredTo(after[i], i)}
  <2>1. 0 \in S
    BY <1>2, <1>4, <1>5
  <2>2. ASSUME NEW i \in 1..FONT_MAX, i - 1 \in S PROVE i \in S
    <3>1. BaredTo(DeinitOne(after[i - 1], i), i)
      BY <1>2, <2>2, DeinitOneKeeps
    <3>2. i \in 0..FONT_MAX
      BY <1>2
    <3> QED
      BY <1>4, <3>1, <3>2
  <2> HIDE DEF S
  <2>3. FONT_MAX \in S
    <3>1. \A i \in 0..FONT_MAX : i \in S
      BY <1>2, <2>1, <2>2, CountUp, Zenon
    <3> QED
      BY <1>2, <3>1
  <2> QED
    BY <2>3, Zenon DEF S
<1> HIDE DEF end
<1>7. Names(end) /\ end.twice = FALSE /\ \A j \in Ids : end.tf[j] = NoThemeFont
  <2>1. \A j \in Ids : j <= FONT_MAX
    BY <1>2
  <2> QED
    BY <1>6, <2>1, Zenon DEF BaredTo
<1>8. theme_fonts' \in ThemeFonts /\ bufs' \subseteq Ids /\ freed_twice' = FALSE /\ ThemeHeld'
  BY <1>1, <1>7, Zenon DEF Names, ThemeHeld
<1>9. \A i \in Ids : i # None0 /\ fonts[i] = None0
  BY <1>0, <1>2 DEF Bared, None0
<1>10. Owners = {} /\ Owners' = {} /\ faces' = {}
  BY <1>0, <1>9 DEF Owners, FacesHeld
<1>11. FontsTypeOK'
  <2>1. font_pc' \in {"up", "cleared", "bare"}
    BY <1>0
  <2> QED
    BY <1>0, <1>8, <2>1, Zenon DEF FontsTypeOK, ThemeFonts, IsFace
<1>12. FacesHeld' /\ CachesKept' /\ Bared'
  BY <1>0, <1>1, <1>7, <1>9, <1>10 DEF FacesHeld, CachesKept, Bared
<1> QED
  BY <1>8, <1>11, <1>12 DEF FontsIInv

\* A theme font shares the file of another that names it, or brings its own.
LEMMA LoadOneKeeps ==
    ASSUME NEW st, NEW id \in Ids, NEW t \in Themes, Names(st), st = [tf |-> st.tf, bufs |-> st.bufs]
    PROVE  LET new == LoadOne(st, id, t) IN Names(new) /\ new = [tf |-> new.tf, bufs |-> new.bufs]
<1> DEFINE file == IF t.file[id] # "none" THEN t.file[id] ELSE t.default
           size == IF t.size[id] # 0 THEN t.size[id] ELSE t.default_size
           sharers == {j \in Ids : st.tf[j].file = file /\ st.tf[j].data # None0}
           shared == CHOOSE j \in sharers : \A k \in sharers : j <= k
           Sized == [st EXCEPT !.tf[id].size = size]
           Shares == [st EXCEPT !.tf[id].size = size, !.tf[id].data = st.tf[shared].data]
           Fresh == [tf |-> [st.tf EXCEPT ![id] = [file |-> file, data |-> id, size |-> size]], bufs |-> st.bufs \cup {id}]
           new == LoadOne(st, id, t)
           TF == [file : FontFiles, data : Ids \cup {None0}, size : Nat]
<1>0. /\ st.tf \in [Ids -> TF] /\ st.bufs \subseteq Ids
      /\ \A j \in Ids : st.tf[j].data # None0 => st.tf[j].data \in st.bufs
  BY Zenon DEF Names, ThemeFonts
<1>1. file \in FontFiles /\ size \in Nat
  BY FontsAssumption
<1>2. new = Sized \/ (sharers # {} /\ new = Shares) \/ new = Fresh
  BY DEF LoadOne
<1>3. sharers # {} => shared \in sharers
  <2>1. sharers # {} => \E i \in sharers : \A j \in sharers : i <= j
    <3>1. sharers \subseteq Ids
      OBVIOUS
    <3> HIDE DEF sharers
    <3> QED
      BY <3>1, FirstIs
  <2> HIDE DEF sharers
  <2> QED
    BY <2>1
<1> HIDE DEF file, size, shared, new
<1>4. CASE new = Sized
  <2> DEFINE e == [st.tf[id] EXCEPT !.size = size]
  <2>1. new = [tf |-> [st.tf EXCEPT ![id] = e], bufs |-> st.bufs]
    BY <1>0, <1>4
  <2>2. e \in TF /\ e.data = st.tf[id].data
    BY <1>0, <1>1
  <2> HIDE DEF e
  <2>3. new.tf = [st.tf EXCEPT ![id] = e] /\ new.bufs = st.bufs
    BY <2>1
  <2>4. new.tf \in [Ids -> TF]
    BY <1>0, <2>2, <2>3
  <2>5. \A j \in Ids : new.tf[j].data = st.tf[j].data
    BY <1>0, <2>2, <2>3
  <2> QED
    BY <1>0, <2>1, <2>3, <2>4, <2>5, Zenon DEF Names, ThemeFonts, new
<1>5. CASE sharers # {} /\ new = Shares
  <2> DEFINE e == [st.tf[id] EXCEPT !.size = size, !.data = st.tf[shared].data]
  <2>1. new = [tf |-> [st.tf EXCEPT ![id] = e], bufs |-> st.bufs]
    BY <1>0, <1>5
  <2>2. shared \in Ids /\ st.tf[shared].data # None0
    BY <1>3, <1>5
  <2>3. e \in TF /\ e.data = st.tf[shared].data
    BY <1>0, <1>1, <2>2
  <2> HIDE DEF e
  <2>4. new.tf = [st.tf EXCEPT ![id] = e] /\ new.bufs = st.bufs
    BY <2>1
  <2>5. new.tf \in [Ids -> TF]
    BY <1>0, <2>3, <2>4
  <2>6. \A j \in Ids : new.tf[j].data # None0 => new.tf[j].data \in st.bufs
    BY <1>0, <2>2, <2>3, <2>4
  <2> QED
    BY <1>0, <2>1, <2>4, <2>5, <2>6, Zenon DEF Names, ThemeFonts, new
<1>6. CASE new = Fresh
  <2> DEFINE e == [file |-> file, data |-> id, size |-> size]
  <2>1. e \in TF /\ e.data = id
    BY <1>1
  <2>2. new = [tf |-> [st.tf EXCEPT ![id] = e], bufs |-> st.bufs \cup {id}]
    BY <1>6, Zenon
  <2> HIDE DEF e
  <2>3. new.tf = [st.tf EXCEPT ![id] = e] /\ new.bufs = st.bufs \cup {id}
    BY <2>2
  <2>4. new.tf \in [Ids -> TF] /\ new.bufs \subseteq Ids
    BY <1>0, <2>1, <2>3
  <2>5. \A j \in Ids : new.tf[j].data # None0 => new.tf[j].data \in new.bufs
    BY <1>0, <2>1, <2>3
  <2> QED
    BY <2>2, <2>3, <2>4, <2>5, Zenon DEF Names, ThemeFonts, new
<1> QED
  BY <1>2, <1>4, <1>5, <1>6

\* The fonts of the next theme.
LEMMA theme_initKeeps == ASSUME FontsIInv, theme_init PROVE FontsIInv'
<1> DEFINE first == [tf |-> [j \in Ids |-> NoThemeFont], bufs |-> bufs]
           Inits(f, t) == [i \in 0..FONT_MAX |-> IF i = 0 THEN first ELSE LoadOne(f[i - 1], i, t)]
           after(t) == CHOOSE f : f = Inits(f, t)
<1>0. /\ FontsTypeOK /\ FacesHeld /\ Bared /\ font_pc = "bare" /\ font_pc' = "up"
      /\ fonts' = fonts /\ face_of' = face_of /\ faces' = faces /\ asked' = asked /\ freed_twice' = freed_twice
  BY Zenon DEF FontsIInv, theme_init
<1>1. PICK t \in Themes : theme_fonts' = after(t)[FONT_MAX].tf /\ bufs' = after(t)[FONT_MAX].bufs
  BY Zenon DEF theme_init
<1> DEFINE at == after(t)
<1>2. FONT_MAX \in Nat /\ Ids = 1..FONT_MAX
  BY FontsAssumption DEF Ids
<1>3. at = Inits(at, t)
  <2>1. PICK f : Rounds("load", t, first, FONT_MAX, f)
    BY <1>2, RoundsRun, Zenon
  <2>2. \A st, i : Round("load", st, i, t) = LoadOne(st, i, t)
    BY DEF Round
  <2>3. f = Inits(f, t)
    <3>1. \A i \in 0..FONT_MAX : f[i] = IF i = 0 THEN first ELSE LoadOne(f[i - 1], i, t)
      BY <2>1, <2>2, Zenon DEF Rounds
    <3>2. [i \in 0..FONT_MAX |-> f[i]] = Inits(f, t)
      BY <3>1, Zenon
    <3> QED
      BY <2>1, <3>2, Zenon DEF Rounds
  <2> QED
    BY <2>3, Zenon
<1>4. theme_fonts' = at[FONT_MAX].tf /\ bufs' = at[FONT_MAX].bufs
  BY <1>1, Zenon
<1> HIDE DEF at, first, after
<1>5. at[0] = first /\ \A i \in 1..FONT_MAX : at[i] = LoadOne(at[i - 1], i, t)
  <2>1. 0 \in 0..FONT_MAX /\ \A i \in 1..FONT_MAX : i \in 0..FONT_MAX /\ i # 0
    BY <1>2
  <2>2. \A i \in 0..FONT_MAX : at[i] = IF i = 0 THEN first ELSE LoadOne(at[i - 1], i, t)
    BY <1>3, Zenon
  <2> QED
    BY <2>1, <2>2, Zenon
<1>6. Names(first) /\ first = [tf |-> first.tf, bufs |-> first.bufs]
  <2>1. first.tf = [j \in Ids |-> NoThemeFont] /\ first.bufs = bufs /\ first = [tf |-> first.tf, bufs |-> first.bufs]
    BY DEF first
  <2>2. NoThemeFont \in [file : FontFiles, data : Ids \cup {None0}, size : Nat] /\ NoThemeFont.data = None0
    BY DEF NoThemeFont, FontFiles, None0
  <2>3. bufs \subseteq Ids
    BY <1>0, Zenon DEF FontsTypeOK
  <2> QED
    BY <2>1, <2>2, <2>3 DEF Names, ThemeFonts
<1>7. Names(at[FONT_MAX])
  <2> DEFINE S == {i \in 0..FONT_MAX : Names(at[i]) /\ at[i] = [tf |-> at[i].tf, bufs |-> at[i].bufs]}
  <2>1. 0 \in S
    <3>1. 0 \in 0..FONT_MAX
      BY <1>2
    <3> QED
      BY <1>5, <1>6, <3>1, Zenon
  <2>2. ASSUME NEW i \in 1..FONT_MAX, i - 1 \in S PROVE i \in S
    <3>1. i \in Ids /\ i \in 0..FONT_MAX
      BY <1>2
    <3>2. PICK st : st = at[i - 1]
      OBVIOUS
    <3>3. Names(st) /\ st = [tf |-> st.tf, bufs |-> st.bufs] /\ at[i] = LoadOne(st, i, t)
      BY <1>5, <2>2, <3>2, Zenon
    <3>4. Names(at[i]) /\ at[i] = [tf |-> at[i].tf, bufs |-> at[i].bufs]
      BY <3>1, <3>3, LoadOneKeeps
    <3> QED
      BY <3>1, <3>4
  <2> HIDE DEF S
  <2>3. FONT_MAX \in S
    <3>1. \A i \in 0..FONT_MAX : i \in S
      BY <1>2, <2>1, <2>2, CountUp, Zenon
    <3> QED
      BY <1>2, <3>1
  <2> QED
    BY <2>3, Zenon DEF S
<1>8. theme_fonts' \in ThemeFonts /\ bufs' \subseteq Ids /\ ThemeHeld'
  BY <1>4, <1>7, Zenon DEF Names, ThemeHeld
<1>9. \A i \in Ids : i # None0 /\ fonts[i] = None0
  BY <1>0, <1>2 DEF Bared, None0
<1>10. Owners = {} /\ Owners' = {} /\ faces' = {}
  BY <1>0, <1>9 DEF Owners, FacesHeld
<1>11. FontsTypeOK'
  <2>1. font_pc' \in {"up", "cleared", "bare"} /\ freed_twice' = FALSE
    BY <1>0 DEF FontsTypeOK
  <2> QED
    BY <1>0, <1>8, <2>1, Zenon DEF FontsTypeOK, ThemeFonts, IsFace
<1>12. FacesHeld' /\ CachesKept' /\ Bared'
  BY <1>0, <1>9, <1>10 DEF FacesHeld, CachesKept, Bared
<1> QED
  BY <1>8, <1>11, <1>12 DEF FontsIInv

\* The parts of the fonts are consistent in every state, for any number of
\* ids, any themes and any texts.
THEOREM FontsInvariance == FontsSpec => []FontsIInv
<1>1. FontsInit => FontsIInv
  BY FontsInitHolds
<1>2. FontsIInv /\ [FontsNext]_fontVars => FontsIInv'
  <2> SUFFICES ASSUME FontsIInv, [FontsNext]_fontVars PROVE FontsIInv'
    OBVIOUS
  <2>1. ASSUME NEW id \in Ids, font_load(id) PROVE FontsIInv'
    BY <2>1, font_loadKeeps
  <2>2. CASE Draw
    BY <2>2, FontDrawKeeps
  <2>3. CASE font_clear
    BY <2>3, font_clearKeeps
  <2>4. CASE theme_deinit
    BY <2>4, theme_deinitKeeps
  <2>5. CASE theme_init
    BY <2>5, theme_initKeeps
  <2>6. CASE UNCHANGED fontVars
    BY <2>6 DEF fontVars, FontsIInv, FontsTypeOK, FacesHeld, ThemeHeld, CachesKept, Bared,
       Owners, Cache, IsFace
  <2> QED
    BY <2>1, <2>2, <2>3, <2>4, <2>5, <2>6 DEF FontsNext
<1> QED
  BY <1>1, <1>2, PTL DEF FontsSpec

\* What the fonts share is there as long as one of them uses it and is freed
\* once; a cache holds each character it was asked for once, where a look-up
\* finds it.
THEOREM FontsStayWhole == FontsSpec => []FontsWhole
<1>1. FontsIInv => FontsWhole
  <2> SUFFICES ASSUME FontsIInv PROVE FontsWhole
    OBVIOUS
  <2>0. FontsTypeOK /\ FacesHeld /\ CachesKept /\ Bared
    BY Zenon DEF FontsIInv
  <2>1. /\ \A i \in Ids : fonts[i] # None0 => fonts[i] \in Owners
        /\ \A o \in Owners : face_of[o].face \in faces /\ (face_of[o].data[1] = "theme" => face_of[o].data[2] \in bufs)
        /\ \A f \in faces : \E o \in Owners : face_of[o].face = f
    BY <2>0, Zenon DEF FacesHeld
  <2>2. FacesOwned
    <3>1. ~freed_twice
      BY <2>0 DEF FontsTypeOK
    <3>2. ASSUME NEW i \in Ids, fonts[i] # None0
          PROVE  /\ face_of[fonts[i]].face \in faces
                 /\ face_of[fonts[i]].data[1] = "theme" => face_of[fonts[i]].data[2] \in bufs
      BY <2>1, <3>2, Zenon
    <3>3. font_pc # "up" => faces = {}
      <4>1. \A i \in Ids : i # None0
        BY FontsAssumption DEF Ids, None0
      <4> QED
        BY <2>0, <2>1, <4>1 DEF Bared, Owners
    <3>4. font_pc = "bare" => \A i \in Ids : theme_fonts[i] = NoThemeFont
      BY <2>0, Zenon DEF Bared
    <3> QED
      BY <3>1, <3>2, <3>3, <3>4, Zenon DEF FacesOwned
  <2>3. GlyphsWhole
    <3> SUFFICES ASSUME NEW o \in {fonts[i] : i \in Ids} \ {None0}
                 PROVE  LET f == face_of[o]
                            used == {g \in DOMAIN f.glyphs : f.glyphs[g].codepoint # -1}
                        IN  /\ {f.glyphs[g].codepoint : g \in used} = asked[o]
                            /\ Cardinality(used) = Cardinality(asked[o])
                            /\ num_glyphs(f) <= f.max
                            /\ \A c \in asked[o] : f.glyphs[Chain(f.glyphs, c)].codepoint = c
      BY Zenon DEF GlyphsWhole
    <3>1. o \in Owners /\ o \in Ids
      BY <2>1 DEF Owners
    <3>2. Cache(face_of[o], asked[o]) /\ asked[o] \in SUBSET Nat
      BY <2>0, <3>1 DEF CachesKept, FontsTypeOK
    <3> QED
      BY <3>2, CacheWhole, Zenon
  <2> QED
    BY <2>2, <2>3 DEF FontsWhole
<1> QED
  BY <1>1, FontsInvariance, PTL
---------------------------------------------------------------------------
(* Reloc: what is in memory after the first i sections of f.              *)

LdRange == LD_MIN_ADDR..(LD_MAX_ADDR - 1)
IsMemory(mem) == mem = [a \in Addresses |-> mem[a]]
IsState(st) == st = [ok |-> st.ok, mem |-> st.mem] /\ IsMemory(st.mem)
ChannelWhole(mem) == \A a \in Addresses : a \notin LdRange => mem[a] = <<"channel">>
InLdRange(f, i) == \A k \in 1..i : Reach(f, Sections(f)[k]) \subseteq LdRange

\* k is the last of the first i sections that reaches a.
IsLast(f, i, a, k) ==
    /\ k \in 1..i /\ a \in Reach(f, Sections(f)[k])
    /\ \A j \in 1..i : a \in Reach(f, Sections(f)[j]) => j <= k
LastDecides(f, mem, i) == \A a \in Addresses, k \in 1..i : IsLast(f, i, a, k) => mem[a] = Said(f, Sections(f)[k], a)

Placed(f, st, i) ==
    /\ IsState(st) /\ ChannelWhole(st.mem)
    /\ st.ok => InLdRange(f, i) /\ LastDecides(f, st.mem, i)

\* What one section does: it is refused, or it is in its range and copied.
Refused(st, new) == IsState(new) /\ ~new.ok /\ new.mem = st.mem
CopiedTo(f, s, st, new) ==
    /\ IsState(new) /\ Reach(f, s) \subseteq LdRange
    /\ \A a \in Addresses : new.mem[a] = IF a \in Reach(f, s) THEN Said(f, s, a) ELSE st.mem[a]

\* The two kinds of executables, and what a memory is with a part of f in it.
IsKnown(f) == f.kind \in {"elf", "dol"}
HasCopy(new, st, f, to, pos, n) ==
    /\ IsState(new)
    /\ \A a \in Addresses : new.mem[a] = IF Uint32(a - to) < n THEN ByteOf(f, Uint32(pos + Uint32(a - to))) ELSE st.mem[a]

\* Where nothing wraps around, a copy is that of a range.
LEMMA NothingWraps ==
    ASSUME NEW a \in Addresses, NEW to \in U32, NEW n \in Nat, to + n \in U32
    PROVE  /\ Uint32(a - to) < n <=> a \in to..(to + n - 1)
           /\ a \in to..(to + n - 1) => Uint32(a - to) = a - to
<1>0. Quarter \in Nat \ {0}
  BY RelocAssumption
<1>1. PICK w : w = 4 * Quarter
  OBVIOUS
<1>2. w \in Nat \ {0} /\ a \in Nat /\ a < w /\ to \in 0..(w - 1) /\ to + n \in 0..(w - 1)
  BY <1>0, <1>1 DEF Addresses, U32
<1>3. Uint32(a - to) = (a - to) % w
  BY <1>1 DEF Uint32
<1>4. CASE a >= to
  <2>1. a - to \in 0..(w - 1)
    BY <1>2, <1>4
  <2>2. (a - to) % w = a - to
    BY <1>2, <2>1
  <2> QED
    BY <1>2, <1>3, <1>4, <2>2
<1>5. CASE a < to
  <2>1. a - to + w \in 0..(w - 1)
    BY <1>2, <1>5
  <2>2. (a - to) % w = a - to + w
    BY <1>2, <2>1
  <2>3. ~(a - to + w < n)
    BY <1>2
  <2> QED
    BY <1>2, <1>3, <1>5, <2>2, <2>3
<1> QED
  BY <1>2, <1>4, <1>5

\* The states after a section that is refused and after one that is copied.
LEMMA Fails ==
    ASSUME NEW st, IsState(st)
    PROVE  Refused(st, [st EXCEPT !.ok = FALSE])
<1> DEFINE new == [st EXCEPT !.ok = FALSE]
<1>1. new = [ok |-> FALSE, mem |-> st.mem]
  <2>1. \A no : [st EXCEPT !.ok = no] = [ok |-> no, mem |-> st.mem]
    BY DEF IsState
  <2> QED
    BY <2>1
<1>2. new.ok = FALSE /\ new.mem = st.mem
  BY <1>1
<1> QED
  BY <1>1, <1>2 DEF Refused, IsState

LEMMA Copies ==
    ASSUME NEW f, NEW st, NEW to \in Int, NEW pos, NEW n \in Int, IsState(st)
    PROVE  \A new : new = [st EXCEPT !.mem = Copied(@, to, f, pos, n)] => HasCopy(new, st, f, to, pos, n)
<1> SUFFICES ASSUME NEW new, new = [st EXCEPT !.mem = Copied(@, to, f, pos, n)]
             PROVE  HasCopy(new, st, f, to, pos, n)
  BY Zenon
<1> DEFINE mem == Copied(st.mem, to, f, pos, n)
<1>1. DOMAIN st.mem = Addresses
  BY Zenon DEF IsState, IsMemory
<1>2. mem = [a \in Addresses |-> IF Uint32(a - to) < n THEN ByteOf(f, Uint32(pos + Uint32(a - to))) ELSE st.mem[a]]
  BY <1>1, Zenon DEF Copied
<1>3. /\ mem = [a \in Addresses |-> mem[a]]
      /\ \A a \in Addresses : mem[a] = IF Uint32(a - to) < n THEN ByteOf(f, Uint32(pos + Uint32(a - to))) ELSE st.mem[a]
  <2> HIDE DEF mem
  <2> QED
    BY <1>2, Zenon
<1> HIDE DEF mem
<1>4. new = [ok |-> st.ok, mem |-> mem]
  <2>1. \A m : [st EXCEPT !.mem = m] = [ok |-> st.ok, mem |-> m]
    BY DEF IsState
  <2>2. new = [st EXCEPT !.mem = mem]
    BY Zenon DEF mem
  <2> QED
    BY <2>1, <2>2, Zenon
<1>5. new.mem = mem /\ new.ok = st.ok
  BY <1>4
<1>6. IsState(new)
  BY <1>3, <1>4, <1>5, Zenon DEF IsState, IsMemory
<1> QED
  BY <1>3, <1>5, <1>6, Zenon DEF HasCopy

\* One section: if it is not refused, it lies in the range of a program.
LEMMA PlaceOneDoes ==
    ASSUME NEW f, NEW s, IsKnown(f), IsSection(f, s), EndsInU32(f, s), NEW st, IsState(st), st.ok
    PROVE  \A new : new = PlaceOne(st, f, s, TRUE) => Refused(st, new) \/ CopiedTo(f, s, st, new)
<1> SUFFICES ASSUME NEW new, new = PlaceOne(st, f, s, TRUE)
             PROVE  Refused(st, new) \/ CopiedTo(f, s, st, new)
  BY Zenon
<1>0. {LD_MIN_ADDR, LD_MAX_ADDR} \subseteq Nat /\ Quarter \in Nat \ {0} /\ LD_MAX_ADDR <= 3 * Quarter
  BY RelocAssumption
<1>1. CASE new = [st EXCEPT !.ok = FALSE]
  BY <1>1, Fails, Zenon
<1>2. CASE Reach(f, s) = {} /\ new = st
  <2>1. \A a \in Addresses : new.mem[a] = IF a \in Reach(f, s) THEN Said(f, s, a) ELSE st.mem[a]
    <3>1. \A a \in Addresses : a \notin Reach(f, s)
      BY <1>2
    <3> QED
      BY <1>2, <3>1, Zenon
  <2>2. Reach(f, s) \subseteq LdRange
    BY <1>2
  <2> QED
    BY <1>2, <2>1, <2>2, Zenon DEF CopiedTo
<1>3. ASSUME NEW to \in U32, NEW pos, NEW n \in Nat, to + n \in U32, Reach(f, s) = to..(to + n - 1), InRange(to, n),
             \A a : Said(f, s, a) = ByteOf(f, Uint32(pos + (a - to))), new = [st EXCEPT !.mem = Copied(@, to, f, pos, n)]
      PROVE  CopiedTo(f, s, st, new)
  <2>0. to \in Int
    <3>1. to \in U32
      BY <1>3
    <3> QED
      BY <1>0, <3>1 DEF U32
  <2>1. HasCopy(new, st, f, to, pos, n)
    <3>1. IsState(st) /\ new = [st EXCEPT !.mem = Copied(@, to, f, pos, n)] /\ n \in Nat
      BY <1>3
    <3>2. n \in Int
      BY <3>1
    <3> QED
      BY <2>0, <3>1, <3>2, Copies, Zenon
  <2>2. to..(to + n - 1) \subseteq LdRange
    <3>1. PICK end : end = to + n
      OBVIOUS
    <3>2. end \in U32 /\ to >= LD_MIN_ADDR /\ Uint32(end) <= LD_MAX_ADDR /\ n \in Nat
      BY <1>3, <3>1, Zenon DEF InRange
    <3>3. Uint32(end) = end
      <4>1. PICK w : w = 4 * Quarter
        OBVIOUS
      <4>2. w \in Nat \ {0} /\ end \in 0..(w - 1)
        BY <1>0, <3>2, <4>1 DEF U32
      <4>3. end % w = end
        BY <4>2
      <4> QED
        BY <4>1, <4>3 DEF Uint32
    <3> QED
      BY <1>0, <2>0, <3>1, <3>2, <3>3 DEF LdRange
  <2>3. ASSUME NEW a \in Addresses
        PROVE  new.mem[a] = IF a \in Reach(f, s) THEN Said(f, s, a) ELSE st.mem[a]
    <3>1. /\ Uint32(a - to) < n <=> a \in Reach(f, s)
          /\ a \in Reach(f, s) => Uint32(a - to) = a - to
      BY <1>3, NothingWraps, Zenon
    <3> QED
      BY <1>3, <2>1, <3>1, Zenon DEF HasCopy
  <2> QED
    BY <1>3, <2>1, <2>2, <2>3, Zenon DEF CopiedTo, HasCopy
<1>4. CASE f.kind = "elf"
  <2> DEFINE to == Cached(s.paddr)
  <2>1. new = ElfSegment(st, f, s, TRUE)
    BY <1>4, Zenon DEF PlaceOne
  <2>2. s.filesz \in Nat /\ s.paddr \in Nat /\ to + s.filesz \in U32
    BY <1>0, <1>4 DEF IsSection, EndsInU32, U32
  <2>3. to \in U32 /\ to \in Int
    BY <1>0, <2>2 DEF Cached, U32
  <2>4. CASE s.type # "LOAD"
    BY <1>2, <1>4, <2>1, <2>4, Zenon DEF ElfSegment, Reach
  <2>5. CASE s.type = "LOAD" /\ s.filesz > s.memsz
    BY <1>1, <2>1, <2>5, Zenon DEF ElfSegment
  <2>6. CASE s.type = "LOAD" /\ ~(s.filesz > s.memsz) /\ s.filesz = 0
    <3>1. new = st
      BY <2>1, <2>6, Zenon DEF ElfSegment
    <3>2. Reach(f, s) = to..(to + s.filesz - 1)
      BY <1>4, <2>6, Zenon DEF Reach
    <3>3. Reach(f, s) = {}
      <4> HIDE DEF to
      <4> QED
        BY <2>3, <2>6, <3>2
    <3> QED
      BY <1>2, <3>1, <3>3
  <2>7. CASE s.type = "LOAD" /\ ~(s.filesz > s.memsz) /\ s.filesz # 0 /\ ~InRange(to, s.filesz)
    BY <1>1, <2>1, <2>7, Zenon DEF ElfSegment
  <2>8. CASE s.type = "LOAD" /\ ~(s.filesz > s.memsz) /\ s.filesz # 0 /\ InRange(to, s.filesz)
    <3>1. new = [st EXCEPT !.mem = Copied(@, to, f, s.off, s.filesz)]
      BY <2>1, <2>8, Zenon DEF ElfSegment
    <3>2. Reach(f, s) = to..(to + s.filesz - 1)
      BY <1>4, <2>8, Zenon DEF Reach
    <3>3. \A a : Said(f, s, a) = ByteOf(f, Uint32(s.off + (a - to)))
      BY <1>4, Zenon DEF Said
    <3> HIDE DEF to
    <3> QED
      BY <1>3, <2>2, <2>3, <2>8, <3>1, <3>2, <3>3, Zenon
  <2> QED
    BY <2>4, <2>5, <2>6, <2>7, <2>8
<1>5. CASE f.kind = "dol"
  <2>0. f.kind # "elf"
    BY <1>5
  <2>1. new = DolSection(st, f, s, TRUE)
    BY <2>0, Zenon DEF PlaceOne
  <2>2. s.start \in Nat /\ s.size \in Nat /\ s.start \in U32 /\ s.start + s.size \in U32
    BY <1>0, <2>0 DEF IsSection, EndsInU32, U32
  <2>3. Reach(f, s) = s.start..(s.start + s.size - 1)
    BY <2>0, Zenon DEF Reach
  <2>4. CASE s.size = 0
    <3>1. new = st
      BY <2>1, <2>4, Zenon DEF DolSection
    <3>2. Reach(f, s) = {}
      BY <2>2, <2>3, <2>4
    <3> QED
      BY <1>2, <3>1, <3>2
  <2>5. CASE s.size # 0 /\ (Uint32(s.pos + s.size) > f.size \/ ~InRange(s.start, s.size))
    BY <1>1, <2>1, <2>5, Zenon DEF DolSection
  <2>6. CASE s.size # 0 /\ ~(Uint32(s.pos + s.size) > f.size \/ ~InRange(s.start, s.size))
    <3>1. new = [st EXCEPT !.mem = Copied(@, s.start, f, s.pos, s.size)]
      BY <2>1, <2>6, Zenon DEF DolSection
    <3>3. \A a : Said(f, s, a) = ByteOf(f, Uint32(s.pos + (a - s.start)))
      BY <2>0, Zenon DEF Said
    <3> QED
      BY <1>3, <2>2, <2>3, <2>6, <3>1, <3>3, Zenon
  <2> QED
    BY <2>4, <2>5, <2>6
<1> QED
  BY <1>4, <1>5 DEF IsKnown

\* The sections after a refused one are not looked at.
LEMMA PlaceOneStops ==
    ASSUME NEW f, NEW s, NEW st, ~st.ok
    PROVE  PlaceOne(st, f, s, TRUE) = st
  BY Zenon DEF PlaceOne, ElfSegment, DolSection

\* So the first i sections are placed when the first i - 1 were.
LEMMA PlaceOneKeeps ==
    ASSUME NEW f, IsExecutable(f), NEW i \in 1..Len(Sections(f)), NEW st, Placed(f, st, i - 1)
    PROVE  Placed(f, PlaceOne(st, f, Sections(f)[i], TRUE), i)
<1>1. PICK s : s = Sections(f)[i]
  OBVIOUS
<1>2. PICK new : new = PlaceOne(st, f, s, TRUE)
  OBVIOUS
<1>0. Len(Sections(f)) \in Nat /\ i \in Nat /\ i - 1 \in Nat
  BY DEF IsExecutable
<1>3. IsKnown(f) /\ IsSection(f, s) /\ EndsInU32(f, s)
  BY <1>1, Zenon DEF IsExecutable, IsKnown
<1>4. IsState(st) /\ ChannelWhole(st.mem)
  BY Zenon DEF Placed
<1>5. CASE ~st.ok
  BY <1>2, <1>4, <1>5, PlaceOneStops, Zenon DEF Placed
<1>6. CASE st.ok /\ Refused(st, new)
  BY <1>1, <1>2, <1>4, <1>6, Zenon DEF Placed, Refused
<1>7. CASE st.ok /\ CopiedTo(f, s, st, new)
  <2>1. /\ IsState(new) /\ Reach(f, s) \subseteq LdRange
        /\ \A a \in Addresses : new.mem[a] = IF a \in Reach(f, s) THEN Said(f, s, a) ELSE st.mem[a]
    BY <1>7, Zenon DEF CopiedTo
  <2>2. InLdRange(f, i - 1) /\ LastDecides(f, st.mem, i - 1)
    BY <1>7, Zenon DEF Placed
  <2>3. ChannelWhole(new.mem)
    BY <1>4, <2>1, Zenon DEF ChannelWhole
  <2>4. \A k \in 1..i : k = i \/ k \in 1..(i - 1)
    BY <1>0
  <2>5. InLdRange(f, i)
    BY <1>1, <2>1, <2>2, <2>4, Zenon DEF InLdRange
  <2>6. ASSUME NEW a \in Addresses, NEW k \in 1..i, IsLast(f, i, a, k)
        PROVE  new.mem[a] = Said(f, Sections(f)[k], a)
    <3>1. k \in 1..i /\ a \in Reach(f, Sections(f)[k]) /\ \A j \in 1..i : a \in Reach(f, Sections(f)[j]) => j <= k
      BY <2>6, Zenon DEF IsLast
    <3>2. CASE k = i
      BY <1>1, <2>1, <3>1, <3>2, Zenon
    <3>3. CASE k # i
      <4>1. k \in 1..(i - 1) /\ i \in 1..i /\ ~(i <= k) /\ \A j \in 1..(i - 1) : j \in 1..i
        BY <1>0, <3>3
      <4>2. a \notin Reach(f, s)
        BY <1>1, <3>1, <4>1, Zenon
      <4>3. IsLast(f, i - 1, a, k)
        BY <3>1, <4>1, Zenon DEF IsLast
      <4>4. st.mem[a] = Said(f, Sections(f)[k], a)
        BY <2>2, <4>1, <4>3, Zenon DEF LastDecides
      <4> QED
        BY <2>1, <4>2, <4>4, Zenon
    <3> QED
      BY <3>2, <3>3
  <2>7. LastDecides(f, new.mem, i)
    BY <2>6, Zenon DEF LastDecides
  <2> QED
    BY <1>1, <1>2, <2>1, <2>3, <2>5, <2>7, Zenon DEF Placed
<1>8. ASSUME st.ok PROVE Refused(st, new) \/ CopiedTo(f, s, st, new)
  BY <1>2, <1>3, <1>4, <1>8, PlaceOneDoes, Zenon
<1> QED
  BY <1>1, <1>2, <1>5, <1>6, <1>7, <1>8, Zenon

\* What is in memory after the last section.
LEMMA RelocatedIs ==
    ASSUME NEW f, IsExecutable(f)
    PROVE  Placed(f, Relocated(Memory, f, TRUE), Len(Sections(f)))
<1> DEFINE n == Len(Sections(f))
           first == [ok |-> Readable(f), mem |-> Memory]
           Inits(g) == [i \in 0..n |-> IF i = 0 THEN first ELSE PlaceOne(g[i - 1], f, Sections(f)[i], TRUE)]
           at == CHOOSE g : g = Inits(g)
<1>1. Relocated(Memory, f, TRUE) = at[n]
  BY Zenon DEF Relocated
<1>2. n \in Nat
  BY DEF IsExecutable
<1>3. at = Inits(at)
  <2>1. PICK g : Rounds("place", f, first, n, g)
    BY <1>2, RoundsRun, Zenon
  <2>2. \A st, i : Round("place", st, i, f) = PlaceOne(st, f, Sections(f)[i], TRUE)
    BY DEF Round
  <2>3. g = Inits(g)
    <3>1. \A i \in 0..n : g[i] = IF i = 0 THEN first ELSE PlaceOne(g[i - 1], f, Sections(f)[i], TRUE)
      BY <2>1, <2>2, Zenon DEF Rounds
    <3>2. [i \in 0..n |-> g[i]] = Inits(g)
      BY <3>1, Zenon
    <3> QED
      BY <2>1, <3>2, Zenon DEF Rounds
  <2> QED
    BY <2>3, Zenon
<1> HIDE DEF at, first
<1>4. at[0] = first /\ \A i \in 1..n : at[i] = PlaceOne(at[i - 1], f, Sections(f)[i], TRUE)
  <2>1. 0 \in 0..n /\ \A i \in 1..n : i \in 0..n /\ i # 0
    BY <1>2
  <2>2. \A i \in 0..n : at[i] = IF i = 0 THEN first ELSE PlaceOne(at[i - 1], f, Sections(f)[i], TRUE)
    BY <1>3, Zenon
  <2> QED
    BY <2>1, <2>2, Zenon
<1>5. Placed(f, first, 0)
  <2>1. first = [ok |-> first.ok, mem |-> first.mem] /\ first.mem = Memory
    BY DEF first
  <2>2. Memory = [a \in Addresses |-> Memory[a]] /\ \A a \in Addresses : Memory[a] = <<"channel">>
    BY DEF Memory
  <2>3. InLdRange(f, 0) /\ LastDecides(f, first.mem, 0)
    BY DEF InLdRange, LastDecides
  <2> QED
    BY <2>1, <2>2, <2>3, Zenon DEF Placed, IsState, IsMemory, ChannelWhole
<1>6. Placed(f, at[n], n)
  <2> DEFINE S == {i \in 0..n : Placed(f, at[i], i)}
  <2>1. 0 \in S
    <3>1. 0 \in 0..n
      BY <1>2
    <3> QED
      BY <1>4, <1>5, <3>1, Zenon
  <2>2. ASSUME NEW i \in 1..n, i - 1 \in S PROVE i \in S
    <3>1. i \in 0..n
      BY <1>2
    <3>2. Placed(f, at[i - 1], i - 1)
      BY <2>2, Zenon
    <3>3. Placed(f, at[i], i)
      BY <1>4, <3>2, PlaceOneKeeps, Zenon
    <3> QED
      BY <3>1, <3>3
  <2> HIDE DEF S
  <2>3. n \in S
    <3>1. \A i \in 0..n : i \in S
      BY <1>2, <2>1, <2>2, CountUp, Zenon
    <3> QED
      BY <1>2, <3>1
  <2> QED
    BY <2>3, Zenon DEF S
<1> QED
  BY <1>1, <1>6, Zenon

\* Of the sections that reach an address, one is the last.
LEMMA OwnerIsLast ==
    ASSUME NEW f, IsExecutable(f), NEW a, Owner(f, a) # 0
    PROVE  IsLast(f, Len(Sections(f)), a, Owner(f, a))
<1> DEFINE n == Len(Sections(f))
           S == {i \in DOMAIN Sections(f) : a \in Reach(f, Sections(f)[i])}
           M(k) == \A i \in S : i <= k => \E m \in S : \A j \in S : j <= k => j <= m
           T == {k \in 0..n : M(k)}
<1>1. n \in Nat /\ DOMAIN Sections(f) = 1..n
  BY Zenon DEF IsExecutable
<1>2. S \subseteq 1..n
  BY <1>1
<1>3. S # {} /\ Owner(f, a) = CHOOSE i \in S : \A j \in S : j <= i
  BY Zenon DEF Owner
<1> HIDE DEF S
<1>4. 0 \in T
  BY <1>1, <1>2
<1>5. ASSUME NEW k \in 1..n, k - 1 \in T PROVE k \in T
  <2>1. CASE k \in S
    <3>1. \A j \in S : j <= k => j <= k
      OBVIOUS
    <3>2. M(k)
      BY <2>1, <3>1, Zenon
    <3> QED
      BY <1>1, <3>2
  <2>2. CASE k \notin S
    <3>1. \A j \in S : j <= k <=> j <= k - 1
      BY <1>2, <2>2
    <3>2. M(k - 1)
      BY <1>5
    <3>3. M(k)
      BY <3>1, <3>2, Zenon
    <3> QED
      BY <1>1, <3>3
  <2> QED
    BY <2>1, <2>2
<1>6. n \in T
  <2> HIDE DEF T
  <2>1. \A k \in 0..n : k \in T
    BY <1>1, <1>4, <1>5, CountUp, Zenon
  <2> QED
    BY <1>1, <2>1
<1>7. \E m \in S : \A j \in S : j <= m
  <2>1. \A j \in S : j <= n
    BY <1>1, <1>2
  <2>2. M(n)
    BY <1>6
  <2> QED
    BY <1>3, <2>1, <2>2, Zenon
<1>8. Owner(f, a) \in S /\ \A j \in S : j <= Owner(f, a)
  BY <1>3, <1>7, Zenon
<1> QED
  BY <1>1, <1>8, Zenon DEF IsLast, S

\* What patch_crt0 leaves as it was: all but one byte.
Patches(p, mem, crt) ==
    \A a \in Addresses : p[a] = mem[a] \/ (a = crt /\ mem[a] = <<"0x41">> /\ p[a] = <<"0x40">>)

LEMMA PatchedIs ==
    ASSUME NEW mem, NEW ep, NEW p, IsMemory(mem), p = patch_crt0(mem, ep)
    PROVE  /\ IsMemory(p)
           /\ Patches(p, mem, ep + CrtOffset)
<1>1. CASE mem[ep + CrtOffset] # <<"0x41">>
  BY <1>1, Zenon DEF patch_crt0, Patches
<1>2. CASE mem[ep + CrtOffset] = <<"0x41">>
  <2>1. PICK x, y : x = ep + CrtOffset /\ y = <<"0x40">>
    BY Zenon
  <2>2. p = [mem EXCEPT ![x] = y]
    BY <1>2, <2>1, Zenon DEF patch_crt0
  <2>3. p = [a \in Addresses |-> p[a]] /\ \A a \in Addresses : p[a] = IF a = x THEN y ELSE mem[a]
    BY <2>2 DEF IsMemory
  <2> QED
    BY <1>2, <2>1, <2>3, Zenon DEF IsMemory, Patches
<1> QED
  BY <1>1, <1>2

\* loader_reloc: an executable goes where it says and nowhere else, for any
\* start code, any sections that end below 2^32 (which the code does not test)
\* and any arguments of at most ARGS_MAX_LEN bytes (which it tests for uploads;
\* to a file of the card it gives its name and those of meta.xml unmeasured).
THEOREM RelocStaysPlaced ==
    ASSUME NEW f, IsExecutable(f), NEW A, NEW block \in Seq(A), Len(block) <= ARGS_MAX_LEN
    PROVE  RelocPlaced(f, block)
<1> DEFINE n == Len(Sections(f))
           r == loader_reloc(Memory, f, block, TRUE)
<1>1. PICK r0, ep : r0 = Relocated(Memory, f, TRUE) /\ ep = Entry(f)
  BY Zenon
<1>2. PICK p, crt, magic, argv, len : /\ p = patch_crt0(r0.mem, ep) /\ crt = ep + CrtOffset
                                      /\ magic = ep + MagicOffset /\ argv = ep + ArgvOffset /\ len = Len(block)
  BY Zenon
<1>3. Placed(f, r0, n)
  BY <1>1, RelocatedIs, Zenon
<1>4. IsState(r0) /\ ChannelWhole(r0.mem) /\ IsMemory(r0.mem)
  BY <1>3, Zenon DEF Placed, IsState
<1>5. CASE ~r0.ok
  <2>1. r = r0
    BY <1>1, <1>5, Zenon DEF loader_reloc
  <2> QED
    BY <1>4, <1>5, <2>1, Zenon DEF RelocPlaced, ChannelWhole, LdRange
<1>6. CASE r0.ok
  <2>1. PICK m : m = IF block = <<>> THEN p ELSE set_argv(p, ep, block)
    OBVIOUS
  <2>2. r = [ok |-> TRUE, mem |-> m]
    BY <1>1, <1>2, <1>6, <2>1, Zenon DEF loader_reloc
  <2>3. r.ok /\ r.mem = m
    <3>1. \A b : [ok |-> b, mem |-> m].ok = b /\ [ok |-> b, mem |-> m].mem = m
      OBVIOUS
    <3>2. r.ok = TRUE /\ r.mem = m
      BY <2>2, <3>1, Zenon
    <3> QED
      BY <3>2, Zenon
  <2>4. InLdRange(f, n) /\ LastDecides(f, r0.mem, n)
    BY <1>3, <1>6, Zenon DEF Placed
  <2>5. {crt, magic, argv} \subseteq LdRange /\ argv # crt /\ magic # argv /\ crt # magic
    <3>1. /\ DOMAIN Sections(f) = 1..n /\ ep \in Nat
          /\ \A o \in {CrtOffset, MagicOffset, ArgvOffset} : \E i \in DOMAIN Sections(f) : ep + o \in Reach(f, Sections(f)[i])
      BY <1>1, Zenon DEF IsExecutable
    <3>2. \A o \in {CrtOffset, MagicOffset, ArgvOffset} : ep + o \in LdRange
      BY <2>4, <3>1, Zenon DEF InLdRange
    <3>3. crt \in LdRange /\ magic \in LdRange /\ argv \in LdRange
      BY <1>2, <3>2, Zenon
    <3>4. crt = ep + CrtOffset /\ magic = ep + MagicOffset /\ argv = ep + ArgvOffset
      BY <1>2
    <3>5. /\ CrtOffset \in Nat /\ MagicOffset \in Nat /\ ArgvOffset \in Nat
          /\ CrtOffset # MagicOffset /\ MagicOffset # ArgvOffset /\ ArgvOffset # CrtOffset
      BY RelocAssumption
    <3>6. argv # crt /\ magic # argv /\ crt # magic
      BY <3>1, <3>4, <3>5
    <3> QED
      BY <3>3, <3>6
  <2>6. /\ len \in Nat /\ (block # <<>> => 1 <= len) /\ LD_ARGS_ADDR..(LD_ARGS_ADDR + len - 1) \subseteq Addresses
        /\ LD_ARGS_ADDR..(LD_ARGS_ADDR + len - 1) \subseteq LD_ARGS_ADDR..(BASE_ADDR - 1)
        /\ LD_ARGS_ADDR..(BASE_ADDR - 1) \subseteq Addresses
        /\ LdRange \subseteq Addresses /\ \A a \in LdRange : a \notin LD_ARGS_ADDR..(BASE_ADDR - 1)
        /\ LD_ARGS_ADDR \in Nat
    <3>1. /\ LD_MIN_ADDR \in Nat /\ LD_MAX_ADDR \in Nat /\ ARGS_MAX_LEN \in Nat /\ Quarter \in Nat
          /\ 2 * Quarter <= LD_MIN_ADDR /\ LD_MIN_ADDR <= LD_MAX_ADDR /\ LD_MAX_ADDR + 1 + ARGS_MAX_LEN <= 3 * Quarter
      BY RelocAssumption
    <3>2. len \in Nat /\ len <= ARGS_MAX_LEN /\ (block # <<>> => 1 <= len)
      BY <1>2
    <3>3. LD_ARGS_ADDR = LD_MAX_ADDR + 1 /\ BASE_ADDR = LD_MAX_ADDR + 1 + ARGS_MAX_LEN
      BY DEF LD_ARGS_ADDR, BASE_ADDR
    <3>4. LdRange \subseteq Addresses /\ \A a \in LdRange : a \notin LD_ARGS_ADDR..(BASE_ADDR - 1)
      BY <3>1, <3>3 DEF LdRange, Addresses
    <3>5. LD_ARGS_ADDR..(LD_ARGS_ADDR + len - 1) \subseteq LD_ARGS_ADDR..(BASE_ADDR - 1)
      BY <3>1, <3>2, <3>3
    <3>6. LD_ARGS_ADDR..(BASE_ADDR - 1) \subseteq Addresses
      BY <3>1, <3>3 DEF Addresses
    <3> QED
      BY <3>1, <3>2, <3>3, <3>4, <3>5, <3>6
  <2>7. IsMemory(p) /\ Patches(p, r0.mem, crt)
    BY <1>2, <1>4, PatchedIs, Zenon
  <2> DEFINE Asked == block # <<>> /\ p[magic] = <<"magic">>
             Given(a) == a \in LD_ARGS_ADDR..(LD_ARGS_ADDR + len - 1)
  <2>8. \A a \in Addresses : m[a] = IF Asked /\ a = argv THEN <<"argv", LD_ARGS_ADDR, len>>
                                    ELSE IF Asked /\ Given(a) THEN block[a - LD_ARGS_ADDR + 1] ELSE p[a]
    <3>1. CASE ~Asked
      BY <1>2, <2>1, <3>1, Zenon DEF set_argv
    <3>2. CASE Asked
      <4>1. DOMAIN p = Addresses
        BY <2>7, Zenon DEF IsMemory
      <4>2. m = [a \in Addresses |-> IF a = argv THEN <<"argv", LD_ARGS_ADDR, len>>
                                     ELSE IF Given(a) THEN block[a - LD_ARGS_ADDR + 1] ELSE p[a]]
        BY <1>2, <2>1, <3>2, <4>1, Zenon DEF set_argv
      <4> QED
        BY <3>2, <4>2, Zenon
    <3> QED
      BY <3>1, <3>2
  <2>9. ASSUME NEW a \in Addresses, r.mem[a] # <<"channel">>
        PROVE  a \in LD_MIN_ADDR..(LD_MAX_ADDR - 1) \/ (r.ok /\ a \in LD_ARGS_ADDR..(BASE_ADDR - 1))
    <3>1. CASE a \in LdRange
      BY <3>1 DEF LdRange
    <3>2. CASE Given(a)
      BY <2>3, <2>6, <3>2
    <3>3. CASE a \notin LdRange /\ ~Given(a)
      <4>1. a # argv /\ a # crt
        BY <2>5, <3>3
      <4>2. r.mem[a] = <<"channel">>
        BY <1>4, <2>3, <2>7, <2>8, <3>3, <4>1, Zenon DEF ChannelWhole, Patches
      <4> QED
        BY <2>9, <4>2, Zenon
    <3> QED
      BY <3>1, <3>2, <3>3
  <2>10. ASSUME NEW a \in Addresses \ {argv}, Owner(f, a) # 0
         PROVE  r.mem[a] = Content(f, a) \/ (a = crt /\ Content(f, a) = <<"0x41">> /\ r.mem[a] = <<"0x40">>)
    <3>1. IsLast(f, n, a, Owner(f, a))
      BY <2>10, OwnerIsLast, Zenon
    <3>2. r0.mem[a] = Content(f, a)
      BY <2>4, <3>1, Zenon DEF LastDecides, IsLast, Content
    <3>3. a \in LdRange
      BY <2>4, <3>1, Zenon DEF InLdRange, IsLast
    <3>4. a # argv /\ ~Given(a)
      BY <2>6, <3>3
    <3> QED
      BY <2>3, <2>7, <2>8, <3>2, <3>4, Zenon DEF Patches
  <2>11. ASSUME block # <<>>
         PROVE  LET arg == r.mem[argv] IN
                IF r.mem[magic] = <<"magic">>
                THEN arg[3] = len /\ \A i \in 1..len : r.mem[arg[2] + i - 1] = block[i]
                ELSE \A a \in LD_ARGS_ADDR..(BASE_ADDR - 1) : r.mem[a] = <<"channel">>
    <3>1. argv \in Addresses /\ magic \in Addresses /\ magic # argv /\ ~Given(magic)
      BY <2>5, <2>6
    <3>2. m[magic] = p[magic]
      BY <2>8, <3>1, Zenon
    <3>3. CASE p[magic] = <<"magic">>
      <4>1. m[argv] = <<"argv", LD_ARGS_ADDR, len>>
        BY <2>8, <2>11, <3>1, <3>3, Zenon
      <4>2. m[argv][2] = LD_ARGS_ADDR /\ m[argv][3] = len
        BY <4>1
      <4>3. ASSUME NEW i \in 1..len PROVE m[LD_ARGS_ADDR + i - 1] = block[i]
        <5>1. PICK a : a = LD_ARGS_ADDR + i - 1
          OBVIOUS
        <5>2. Given(a) /\ a \in Addresses /\ a # argv /\ a - LD_ARGS_ADDR + 1 = i
          <6>1. Given(a) /\ a - LD_ARGS_ADDR + 1 = i
            BY <2>6, <5>1
          <6> QED
            BY <2>5, <2>6, <6>1
        <5>3. m[a] = block[a - LD_ARGS_ADDR + 1]
          BY <2>8, <2>11, <3>3, <5>2, Zenon
        <5> QED
          BY <5>1, <5>2, <5>3, Zenon
      <4> QED
        BY <2>3, <3>2, <3>3, <4>2, <4>3, Zenon
    <3>4. CASE p[magic] # <<"magic">>
      <4>1. ASSUME NEW a \in LD_ARGS_ADDR..(BASE_ADDR - 1) PROVE m[a] = <<"channel">>
        <5>1. a \in Addresses
          BY <2>6
        <5>2. a \notin LdRange /\ a # crt
          BY <2>5, <2>6
        <5> QED
          BY <1>4, <2>7, <2>8, <3>4, <5>1, <5>2, Zenon DEF ChannelWhole, Patches
      <4> QED
        BY <2>3, <3>2, <3>4, <4>1, Zenon
    <3> QED
      BY <3>3, <3>4
  <2> HIDE DEF r
  <2>12. r = loader_reloc(Memory, f, block, TRUE)
    BY Zenon DEF r
  <2>13. argv = Entry(f) + ArgvOffset /\ crt = Entry(f) + CrtOffset /\ magic = Entry(f) + MagicOffset /\ len = Len(block)
    BY <1>1, <1>2, Zenon
  <2> QED
    BY <2>9, <2>10, <2>11, <2>12, <2>13, Zenon DEF RelocPlaced
<1> QED
  BY <1>5, <1>6
=============================================================================
