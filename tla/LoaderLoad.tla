----------------------------- MODULE LoaderLoad -----------------------------
(***************************************************************************)
(* loader_load and what becomes of its result (loader.c, main.c): the      *)
(* loading thread fills a buffer from a file, the USB Gecko or a socket    *)
(* and uncompresses it into a second one, main waits for it in a progress  *)
(* dialog, sorts the payload out and hands it on.                          *)
(*                                                                         *)
(* Both buffers are blobs: this module composes the loader with the        *)
(* allocator, B, whose blobs must come back in stack order.  Bytes are     *)
(* counted in a unit of the model's choice; what they contain is decided   *)
(* when main looks at it.                                                  *)
(***************************************************************************)
EXTENDS Integers

CONSTANTS
    Uploads,    \* [kind, len, un, args, avail]: what may be loaded, see below
    MaxFiles,   \* bound on the files left open
    MAX_BLOBS, BLOB_MINSLACK, Align, Word, Lo0, Hi0

\* data_len, data_len_un (0: not compressed) and args_len of the header or,
\* with neither of the last two, the size of the file in the app entry;
\* avail is how much the file really holds by now.
ASSUME UploadsAssumption ==
    /\ \A u \in Uploads :
          /\ u.kind \in {"FILE", "GECKO", "TCP"}
          /\ u.len \in Nat \ {0} /\ u.un \in Nat /\ u.args \in Nat /\ u.avail \in Nat
          /\ u.kind = "FILE" => u.un = 0 /\ u.args = 0
    /\ MaxFiles \in Nat

\* Equal lengths mean an uncompressed upload too.
UnLen(u) == IF u.un = u.len THEN 0 ELSE u.un
Total(u) == u.len + u.args

Sizes == {Total(u) : u \in Uploads} \union ({UnLen(u) : u \in Uploads} \ {0})

\* As for BlobStack; two slots are all one load needs.
ASSUME MemoryAssumption ==
    /\ Sizes \subseteq 1..(Lo0 - 1)
    /\ MAX_BLOBS \in Nat /\ MAX_BLOBS >= 2 /\ BLOB_MINSLACK \in Nat \ {0}
    /\ Align \in Nat \ {0} /\ Word \in Nat
    /\ Lo0 \in Nat /\ Hi0 \in Nat /\ Lo0 <= Hi0 /\ Hi0 < Word

Null == -1

VARIABLES
    arena2lo, arena2hi, blobs, num_blobs, panicked, held,  \* BlobStack
    mpc,
    up,             \* the upload main loads
    data, data_un,  \* ta.data, ta.data_un
    lPc, lState, received, progress,  \* the thread
    socket, files,  \* open: the client's socket, application files
    args,           \* result->args: what main has put there
    leaks           \* history: loads of a file that ran out of memory

blobVars == <<arena2lo, arena2hi, blobs, num_blobs, panicked, held>>
main == <<mpc, up, data, data_un, args>>
thread == <<lPc, lState, received, progress>>
fds == <<socket, files>>
vars == <<blobVars, main, thread, fds, leaks>>

\* The allocator, of whose operations main's are made.
B == INSTANCE BlobStack WITH blobs <- blobs, held <- held

Init ==
    /\ B!Init
    /\ mpc = "frame" /\ up \in Uploads /\ data = Null /\ data_un = Null
    /\ lPc = "none" /\ lState = "SUCCESS" /\ received = 0 /\ progress = 0
    /\ socket = FALSE /\ files = 0
    /\ args = "none" /\ leaks = 0

---------------------------------------------------------------------------
(* loader_load: the source, then the buffers, then the thread.             *)

AfterOpen(u) == IF UnLen(u) # 0 THEN "allocun" ELSE "allocdata"

\* A load that begins while the last one's thread is still in net_close is
\* LoaderThreads' business (HandshakeKept).
Begin ==
    /\ mpc = "frame" /\ lPc = "none"
    /\ \E u \in Uploads :
          /\ up' = u
          /\ u.kind = "FILE" => files < MaxFiles
          /\ files' = IF u.kind = "FILE" THEN files + 1 ELSE files
          /\ socket' = (u.kind = "TCP")
          /\ mpc' = AfterOpen(u)
    /\ data' = Null /\ data_un' = Null /\ args' = "none"
    /\ UNCHANGED <<blobVars, thread, leaks>>

\* Out of memory: the socket is closed, the file is not.
HangUp ==
    /\ socket' = FALSE
    /\ leaks' = IF up.kind = "FILE" THEN leaks + 1 ELSE leaks
    /\ UNCHANGED files

AllocUn ==
    /\ mpc = "allocun"
    /\ \/ /\ B!AllocDone(UnLen(up))
          /\ data_un' = arena2hi'
          /\ mpc' = "allocdata"
          /\ UNCHANGED <<fds, leaks>>
       \/ B!AllocFail(UnLen(up)) /\ HangUp /\ mpc' = "frame" /\ UNCHANGED data_un
    /\ UNCHANGED <<up, data, args, thread>>

\* The thread that is created here writes to both buffers.
AllocData ==
    /\ mpc = "allocdata"
    /\ \/ /\ B!AllocDone(Total(up))
          /\ data' = arena2hi'
          /\ mpc' = "load"
          /\ lPc' = "run" /\ lState' = "RUNNING" /\ received' = 0 /\ progress' = 0
          /\ UNCHANGED <<fds, leaks>>
       \/ /\ B!AllocFail(Total(up)) /\ HangUp
          /\ mpc' = IF data_un = Null THEN "frame" ELSE "freeun"
          /\ UNCHANGED <<data, thread>>
    /\ UNCHANGED <<up, data_un, args>>

\* A faulty version of FreeUn: frees the pointer that has just failed.
FreeUnData ==
    /\ mpc = "freeun"
    /\ B!blob_free(data)
    /\ mpc' = "frame"
    /\ UNCHANGED <<up, data, data_un, args, thread, fds, leaks>>

FreeUn ==
    /\ mpc = "freeun"
    /\ B!blob_free(data_un)
    /\ mpc' = "frame"
    /\ UNCHANGED <<up, data, data_un, args, thread, fds, leaks>>

---------------------------------------------------------------------------
(* The loading thread.                                                     *)

Left == Total(up) - received

\* A file that has become shorter gives nothing for ever, without an error;
\* the Gecko publishes its progress only now and then.
Receive ==
    /\ lPc = "run"
    /\ \E n \in 1..Left :
          /\ up.kind = "FILE" => received + n <= up.avail
          /\ received' = received + n
    /\ progress' \in (IF up.kind = "GECKO" THEN {progress, received'} ELSE {received'})
    /\ UNCHANGED <<lPc, lState, blobVars, main, fds, leaks>>

\* A faulty version of ReceiveFails: the transfer starts over.
ReceiveFailsRetries ==
    /\ lPc = "run" /\ Left > 0
    /\ received' = 0
    /\ UNCHANGED <<lPc, lState, progress, blobVars, main, fds, leaks>>

\* A read error closes the file first; a failed receive closes the socket
\* last.  The Gecko's timeout is looked at even after the last byte.
ReceiveFails ==
    /\ lPc = "run" /\ (Left > 0 \/ up.kind = "GECKO")
    /\ lState' = IF up.kind = "FILE" THEN "ERR_READ" ELSE "ERR_RECEIVE"
    /\ lPc' = IF up.kind = "TCP" THEN "hangup" ELSE "none"
    /\ files' = IF up.kind = "FILE" THEN files - 1 ELSE files
    /\ UNCHANGED <<received, progress, blobVars, main, socket, leaks>>

HangUpLate ==
    /\ lPc = "hangup"
    /\ socket' = FALSE /\ lPc' = "none"
    /\ UNCHANGED <<lState, received, progress, blobVars, main, files, leaks>>

\* A faulty version of Received: the end of the file ends the load.
ReceivedShort ==
    /\ lPc = "run" /\ (Left = 0 \/ (up.kind = "FILE" /\ received >= up.avail))
    /\ files' = IF up.kind = "FILE" THEN files - 1 ELSE files
    /\ socket' = FALSE
    /\ lPc' = "uncompress"
    /\ UNCHANGED <<lState, received, progress, blobVars, main, leaks>>

Received ==
    /\ lPc = "run" /\ Left = 0
    /\ files' = IF up.kind = "FILE" THEN files - 1 ELSE files
    /\ socket' = FALSE
    /\ lPc' = "uncompress"
    /\ UNCHANGED <<lState, received, progress, blobVars, main, leaks>>

Uncompress ==
    /\ lPc = "uncompress"
    /\ lState' \in (IF data_un = Null THEN {"SUCCESS"} ELSE {"SUCCESS", "ERR_UNCOMPRESS"})
    /\ lPc' = "none"
    /\ UNCHANGED <<received, progress, blobVars, main, fds, leaks>>

Thread == Receive \/ ReceiveFails \/ HangUpLate \/ Received \/ Uncompress

---------------------------------------------------------------------------
(* Main, once the thread has published an outcome.                         *)

\* A faulty version of Loaded: frees the buffers in the order they were
\* allocated in.
LoadedInOrder ==
    /\ mpc = "load" /\ lState # "RUNNING"
    /\ IF UnLen(up) # 0
       THEN B!blob_free(data_un) /\ data' = data /\ data_un' = Null
       ELSE UNCHANGED <<blobVars, data, data_un>>
    /\ mpc' = "outcome"
    /\ UNCHANGED <<up, args, thread, fds, leaks>>

\* The compressed data is dropped; only on this path are the arguments that
\* follow it copied to the result.
Loaded ==
    /\ mpc = "load" /\ lState # "RUNNING"
    /\ IF UnLen(up) # 0
       THEN /\ B!blob_free(data)
            /\ data' = data_un /\ data_un' = Null
            /\ args' = IF up.args > 0 THEN "sent" ELSE args
       ELSE UNCHANGED <<blobVars, data, data_un, args>>
    /\ mpc' = "outcome"
    /\ UNCHANGED <<up, thread, fds, leaks>>

LoadFailed ==
    /\ mpc = "outcome" /\ lState # "SUCCESS"
    /\ B!blob_free(data)
    /\ data' = Null /\ mpc' = "frame"
    /\ UNCHANGED <<up, data_un, args, thread, fds, leaks>>

\* A file is what its entry says, an upload what it contains.
Sort ==
    /\ mpc = "outcome" /\ lState = "SUCCESS"
    /\ mpc' \in (IF up.kind = "FILE" THEN {"executable", "theme"}
                 ELSE {"executable", "zipapp", "theme", "badzip"})
    /\ args' = IF up.kind = "FILE" /\ mpc' = "executable" THEN "filename" ELSE args
    /\ UNCHANGED <<up, data, data_un, blobVars, thread, fds, leaks>>

\* A faulty version of Use: a refused ZIP file keeps its blob.
UseLeaks ==
    /\ mpc \in {"executable", "zipapp", "theme", "badzip"}
    /\ IF mpc = "badzip" THEN UNCHANGED blobVars ELSE B!blob_free(data)
    /\ data' = Null /\ mpc' = "frame"
    /\ UNCHANGED <<up, data_un, args, thread, fds, leaks>>

\* loader_load_executable, loader_handle_zip_app, refresh_theme and the end
\* of loader_load: each frees the payload on each of its paths.
Use ==
    /\ mpc \in {"executable", "zipapp", "theme", "badzip"}
    /\ B!blob_free(data)
    /\ data' = Null
    /\ mpc' \in (IF mpc = "executable" THEN {"frame", "exit"} ELSE {"frame"})
    /\ UNCHANGED <<up, data_un, args, thread, fds, leaks>>

HeapGrow == B!HeapGrow /\ UNCHANGED <<main, thread, fds, leaks>>

Exited == mpc = "exit" /\ UNCHANGED vars

Main == AllocUn \/ AllocData \/ FreeUn \/ Loaded \/ LoadFailed \/ Sort \/ Use

Next == panicked = "no" /\ (Begin \/ Main \/ Thread \/ HeapGrow \/ Exited)

\* Both threads run, and every call they make returns.
Spec == Init /\ [][Next]_vars /\ WF_vars(Main) /\ WF_vars(Thread)

---------------------------------------------------------------------------
Pointer == B!Addr \union {Null}

LoaderTypes ==
    /\ mpc \in {"frame", "allocun", "allocdata", "freeun", "load", "outcome", "executable",
                "zipapp", "theme", "badzip", "exit"}
    /\ up \in Uploads /\ data \in Pointer /\ data_un \in Pointer
    /\ lPc \in {"none", "run", "hangup", "uncompress"}
    /\ lState \in {"RUNNING", "SUCCESS", "ERR_READ", "ERR_RECEIVE", "ERR_UNCOMPRESS"}
    /\ received \in Nat /\ progress \in Nat
    /\ socket \in BOOLEAN /\ files \in 0..MaxFiles /\ leaks \in 0..MaxFiles
    /\ args \in {"none", "sent", "filename"}

TypeOK == B!TypeOK /\ LoaderTypes

\* Whatever the upload and wherever it fails, the loader gives its blobs
\* back in the order the allocator insists on ("supports only stack-type
\* allocs", blob.c): it never panics.
NeverPanics == panicked = "no"

\* While the thread runs, the buffers it writes belong to main, which waits
\* for it.
BuffersHeld ==
    lPc \in {"run", "uncompress"} =>
        /\ mpc = "load" /\ data \in held
        /\ UnLen(up) # 0 => data_un \in held /\ data_un # data

\* The memory of a load, from the first buffer to the last blob_free.
MemoryInOrder == TypeOK /\ NeverPanics /\ BuffersHeld

\* A payload main hands on is complete and still allocated.
PayloadWhole ==
    mpc \in {"executable", "zipapp", "theme", "badzip"} =>
        data \in held /\ data_un = Null /\ received = Total(up)

\* Back in its loop, main has no blob left and no socket but the one a failed
\* receive is still closing; files stay open only where memory ran out.
NothingLeft ==
    mpc \in {"frame", "exit"} =>
        /\ num_blobs = 0 /\ held = {} /\ arena2hi = Hi0
        /\ socket => lPc = "hangup"
        /\ files = leaks

\* The program that is started gets the arguments the user gave wiiload
\* ("<filename> <application arguments>", its usage text).
ArgsDelivered ==
    mpc = "executable" /\ up.kind # "FILE" /\ up.args > 0 => args = "sent"

\* A load always ends, by success, error or timeout, unless the file has
\* become shorter than when its entry was made.
LoadEnds ==
    (mpc = "load" /\ (up.kind = "FILE" => up.avail >= up.len)) ~> (mpc \in {"frame", "exit"})

\* The loader is a lawful user of the allocator: its steps are steps of
\* BlobStack, whose theorems therefore hold of the blobs it gets.
UsesBlobs == B!Spec
=============================================================================
