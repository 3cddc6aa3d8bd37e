----------------------------- MODULE HttpUpdate -----------------------------
(***************************************************************************)
(* The http thread (http.c) and its one client, the update check and the   *)
(* installation of an update (update.c, main.c).                           *)
(*                                                                         *)
(* The thread holds cmutex except in its condition wait, as the other      *)
(* threads do, and takes mutex to publish its state.  Main is above it in  *)
(* priority: what main does between two calls that block is one step, but  *)
(* it may preempt the thread anywhere.  http_get_state takes mutex,        *)
(* http_ready and http_get_result take no lock.                            *)
(*                                                                         *)
(* A request is its number, 1 for the check and 2 for the download; so is  *)
(* the buffer its body is received into.  live holds the buffers that are  *)
(* allocated.                                                              *)
(***************************************************************************)
EXTENDS Integers

CONSTANTS
    Lens,        \* lengths a server may announce
    MetaMax,     \* max_size of the check, 8 kB
    DownloadMax, \* max_size of the download, 4 MB
    CheckDelay,  \* frames with a network before the check (60)
    HTries        \* attempts to lock cmutex in http_deinit (25)

ASSUME HttpAssumption ==
    /\ Lens \subseteq Nat /\ MetaMax \in Nat /\ DownloadMax \in Nat
    /\ CheckDelay \in Nat \ {0} /\ HTries \in Nat \ {0}

Null == 0
Missing == -1

VARIABLES
    hPc, http,      \* the thread, ta_http
    served,         \* history: the header lines of the response being received
    live,
    umpc, us, info, update_data, data,   \* main, update.c's variables and locals
    check, inProgress, available, downloading, hTries, request

thread == <<hPc, served>>
update == <<us, info, update_data, data, downloading>>
hMain == <<umpc, check, inProgress, available, hTries, request>>
httpVars == <<thread, http, live, update, hMain>>

HttpInit ==
    /\ hPc = "start" /\ served = [status |-> Missing, len |-> Missing]
    /\ http = [running |-> FALSE, done |-> FALSE, cmd |-> "IDLE", host |-> Null, max |-> 0,
               state |-> "IDLE", res |-> "OK", status |-> 0, len |-> 0, data |-> Null]
    /\ live = {}
    /\ umpc = "frame" /\ us = "IDLE" /\ info = FALSE /\ update_data = Null /\ data = Null
    /\ check = CheckDelay /\ inProgress = FALSE /\ available = FALSE
    /\ downloading = FALSE /\ hTries = 0 /\ request = 0

---------------------------------------------------------------------------
(* The http thread.                                                        *)

HStart ==
    /\ hPc = "start"
    /\ http' = [http EXCEPT !.running = TRUE]
    /\ hPc' = "started"
    /\ UNCHANGED <<served, live, update, hMain>>

\* The top of the loop, with cmutex.
Loop(h) ==
    \/ h.cmd = "IDLE" /\ hPc' = "wait" /\ http' = h
    \/ h.cmd = "EXIT" /\ hPc' = "done" /\ http' = [h EXCEPT !.running = FALSE]
    \/ h.cmd = "FETCH" /\ hPc' = "connect" /\ http' = [h EXCEPT !.cmd = "IDLE"]

HLock ==
    /\ hPc = "started"
    /\ Loop([http EXCEPT !.state = "IDLE", !.done = TRUE])
    /\ UNCHANGED <<served, live, update, hMain>>

HWake ==
    /\ hPc = "woken"
    /\ Loop(http)
    /\ UNCHANGED <<served, live, update, hMain>>

\* done is set before res: see HFailed.  A name that is not found gives errno,
\* which is positive: it is taken for a socket, and the request on it fails or
\* is answered like any other.
HConnect ==
    /\ hPc = "connect"
    /\ \/ hPc' = "request" /\ http' = [http EXCEPT !.state = "REQUESTING"]
       \/ hPc' = "unconnected" /\ http' = [http EXCEPT !.state = "IDLE", !.done = TRUE]
    /\ UNCHANGED <<served, live, update, hMain>>

HRequest ==
    /\ hPc = "request"
    /\ \/ /\ hPc' = "head" /\ http' = http
          /\ served' = [status |-> Missing, len |-> Missing]
       \/ /\ hPc' = "unsent" /\ http' = [http EXCEPT !.state = "IDLE", !.done = TRUE]
          /\ served' = served
    /\ UNCHANGED <<live, update, hMain>>

\* The second half of publishing a failure; mutex is held.
HFailed ==
    /\ hPc \in {"unconnected", "unsent"}
    /\ http' = [http EXCEPT !.res = IF hPc = "unconnected" THEN "ERR_CONNECT" ELSE "ERR_REQUEST"]
    /\ hPc' = IF hPc = "unconnected" THEN "wait" ELSE "close"
    /\ UNCHANGED <<served, live, update, hMain>>

\* One line of the header that sets the status or the length; other lines
\* set nothing.
HLine ==
    /\ hPc = "head"
    /\ \/ \E st \in {200, 404} :
            /\ served.status = Missing /\ served' = [served EXCEPT !.status = st]
            /\ http' = [http EXCEPT !.status = st]
       \/ \E n \in Lens :
            /\ served.len = Missing /\ served' = [served EXCEPT !.len = n]
            /\ http' = [http EXCEPT !.len = n]
    /\ UNCHANGED <<hPc, live, update, hMain>>

\* A faulty version of ResponseHead: takes what the server sends, whatever its size.
HeadAnySize(h) ==
    IF h.status # 200 \/ h.len < 1
    THEN hPc' = "close" /\ live' = live
         /\ http' = [h EXCEPT !.status = IF h.len < 1 THEN 404 ELSE h.status,
                              !.res = "ERR_STATUS", !.state = "IDLE", !.done = TRUE]
    ELSE hPc' = "receive" /\ live' = live \union {request}
         /\ http' = [h EXCEPT !.state = "RECEIVING", !.data = request]

\* What the header decides.
ResponseHead(h) ==
    IF h.status # 200 \/ h.len < 1
    THEN hPc' = "close" /\ live' = live
         /\ http' = [h EXCEPT !.status = IF h.len < 1 THEN 404 ELSE h.status,
                              !.res = "ERR_STATUS", !.state = "IDLE", !.done = TRUE]
    ELSE IF h.len > h.max
    THEN hPc' = "close" /\ live' = live
         /\ http' = [h EXCEPT !.res = "ERR_TOOBIG", !.state = "IDLE", !.done = TRUE]
    ELSE hPc' = "receive" /\ live' = live \union {request}
         /\ http' = [h EXCEPT !.state = "RECEIVING", !.data = request]

\* An empty line ends the header; a timeout, an error or 32 lines count as
\* status 404.
HHead ==
    /\ hPc = "head"
    /\ \/ ResponseHead(http)
       \/ ResponseHead([http EXCEPT !.status = 404])
    /\ UNCHANGED <<served, update, hMain>>

\* A faulty version of HReceive: the buffer of a broken download is kept.
HReceiveKeeps ==
    /\ hPc = "receive"
    /\ \E r \in {"OK", "ERR_RECEIVE"} :
          http' = [http EXCEPT !.res = r, !.state = "IDLE", !.done = TRUE]
    /\ hPc' = "close"
    /\ UNCHANGED <<served, live, update, hMain>>

HReceive ==
    /\ hPc = "receive"
    /\ \/ http' = [http EXCEPT !.res = "OK", !.state = "IDLE", !.done = TRUE] /\ live' = live
       \/ /\ http' = [http EXCEPT !.res = "ERR_RECEIVE", !.state = "IDLE", !.done = TRUE,
                                  !.data = Null]
          /\ live' = live \ {http.data}
    /\ hPc' = "close"
    /\ UNCHANGED <<served, update, hMain>>

\* net_close, and back to the top of the loop: no command can have come.
HClose ==
    /\ hPc = "close"
    /\ Loop(http)
    /\ UNCHANGED <<served, live, update, hMain>>

HLocal == HStart \/ HLock \/ HWake \/ HFailed
HNet == HConnect \/ HRequest \/ HLine \/ HHead \/ HReceive \/ HClose

---------------------------------------------------------------------------
(* What the client calls.                                                  *)

CmutexFree == hPc \in {"start", "started", "wait", "woken", "done"}
MutexFree == hPc \notin {"unconnected", "unsent"}

HWoken == IF hPc = "wait" THEN "woken" ELSE hPc

http_ready == http.running /\ http.done

\* http_request up to the lock of cmutex, which main may have to wait for
\* while the thread closes its socket.
Ask(n) == http' = [http EXCEPT !.host = n] /\ request' = n /\ umpc' = "request"

Post ==
    /\ umpc = "request" /\ CmutexFree
    /\ http' = [http EXCEPT !.done = FALSE, !.cmd = "FETCH",
                            !.max = IF request = 1 THEN MetaMax ELSE DownloadMax]
    /\ hPc' = HWoken
    /\ IF request = 1
       THEN us' = "FETCH_META" /\ inProgress' = TRUE /\ umpc' = "frame"
       ELSE us' = us /\ inProgress' = inProgress /\ umpc' = "poll"
    /\ UNCHANGED <<served, live, info, update_data, data, downloading, check, available, hTries,
                   request>>

\* What http_get_result hands over; it forgets the host.
Content == IF http.res = "OK" THEN http.data ELSE Null
Forget == http' = [http EXCEPT !.host = Null]

---------------------------------------------------------------------------
(* A frame of main in the browser.                                         *)

MCount ==
    /\ umpc = "frame" /\ check > 0
    /\ check' = check - 1
    /\ UNCHANGED <<thread, http, live, update, umpc, inProgress, available, hTries, request>>

\* update_signal, once in a session.
MSignal ==
    /\ umpc = "frame" /\ check = 0
    /\ check' = -1
    /\ IF http_ready /\ us \notin {"FETCH_META", "CAN_UPDATE"}
       THEN Ask(1)
       ELSE UNCHANGED <<http, umpc, request>>
    /\ UNCHANGED <<thread, live, update, inProgress, available, hTries>>

\* update_busy while the check is fetched: when the result is good, a thread
\* that checks nothing yet is started, or cannot be.
MFetched ==
    /\ umpc = "frame" /\ inProgress /\ us = "FETCH_META" /\ http_ready
    /\ Forget
    /\ available' = FALSE
    /\ update_data' = Content
    /\ \/ http.res # "OK" /\ us' = "NO_UPDATE" /\ inProgress' = FALSE /\ live' = live
       \/ http.res = "OK" /\ us' = "VALIDATE" /\ inProgress' = TRUE /\ live' = live
       \/ /\ http.res = "OK" /\ us' = "NO_UPDATE" /\ inProgress' = FALSE
          /\ live' = live \ {update_data'}
    /\ UNCHANGED <<thread, info, data, downloading, umpc, check, hTries, request>>

\* update_busy once it is validated: the file is parsed; without a hash, or
\* when it is not newer, there is no update.
MValidate ==
    /\ umpc = "frame" /\ inProgress /\ us = "VALIDATE" /\ update_data # Null
    /\ live' = live \ {update_data}
    /\ \/ us' = "NO_UPDATE" /\ info' = FALSE /\ available' = available
       \/ us' = "CAN_UPDATE" /\ info' = TRUE /\ available' = TRUE
    /\ inProgress' = FALSE
    /\ UNCHANGED <<thread, http, update_data, data, downloading, umpc, check, hTries, request>>

\* update_parse reads through the pointer it is given.
MParseNull ==
    /\ umpc = "frame" /\ inProgress /\ us = "VALIDATE" /\ update_data = Null
    /\ umpc' = "crashed"
    /\ UNCHANGED <<thread, http, live, update, check, inProgress, available, hTries, request>>

---------------------------------------------------------------------------
(* update_execute.                                                         *)

MExecute ==
    /\ umpc = "frame" /\ available
    /\ available' = FALSE
    /\ IF us = "CAN_UPDATE" THEN us' = "IDLE" /\ umpc' = "confirm" ELSE UNCHANGED <<us, umpc>>
    /\ UNCHANGED <<thread, http, live, info, update_data, data, downloading, check, inProgress,
                   hTries, request>>

MConfirm ==
    /\ umpc = "confirm"
    /\ \/ umpc' = "frame" /\ info' = FALSE /\ UNCHANGED <<http, request>>
       \/ http_ready /\ Ask(2) /\ info' = info
    /\ UNCHANGED <<thread, live, us, update_data, data, downloading, check, inProgress,
                   available, hTries>>

\* The download is over: with the right hash it is installed, with another
\* it is freed.
Downloaded ==
    /\ Forget
    /\ info' = FALSE /\ downloading' = FALSE
    /\ \/ http.res = "OK" /\ data' = Content /\ umpc' = "reloc" /\ live' = live
       \/ http.res = "OK" /\ data' = Null /\ umpc' = "frame" /\ live' = live \ {Content}
       \/ http.res # "OK" /\ data' = Null /\ umpc' = "frame" /\ live' = live

\* A turn of the loop takes mutex in http_get_state and does not block after
\* that, unless the progress dialog has to be faded in.
MPoll ==
    /\ umpc = "poll" /\ MutexFree
    /\ IF http.state = "RECEIVING" /\ ~downloading
       THEN downloading' = TRUE /\ umpc' = "fade" /\ UNCHANGED <<http, live, info, data>>
       ELSE http_ready /\ Downloaded
    /\ UNCHANGED <<thread, us, update_data, check, inProgress, available, hTries, request>>

MFaded ==
    /\ umpc = "fade"
    /\ IF http_ready THEN Downloaded
       ELSE umpc' = "poll" /\ UNCHANGED <<http, live, info, data, downloading>>
    /\ UNCHANGED <<thread, us, update_data, check, inProgress, available, hTries, request>>

\* loader_reloc can refuse the installer; either way its buffer goes.
MReloc ==
    /\ umpc = "reloc"
    /\ live' = live \ {data} /\ data' = Null
    /\ umpc' \in {"frame", "deinit"}
    /\ UNCHANGED <<thread, http, us, info, update_data, downloading, check, inProgress, available,
                   hTries, request>>

---------------------------------------------------------------------------
(* http_deinit.                                                            *)

MLeave ==
    /\ umpc = "frame"
    /\ umpc' = "deinit"
    /\ UNCHANGED <<thread, http, live, update, check, inProgress, available, hTries, request>>

\* A faulty version of MDeinit: waits for a thread that may be blocked.
MDeinitForever ==
    /\ umpc = "deinit"
    /\ \/ ~http.running /\ umpc' = "exit" /\ UNCHANGED <<http, hPc>>
       \/ /\ http.running /\ CmutexFree
          /\ http' = [http EXCEPT !.cmd = "EXIT"] /\ hPc' = HWoken
          /\ umpc' = "join"
    /\ UNCHANGED <<served, live, update, check, inProgress, available, request, hTries>>

MDeinit ==
    /\ umpc = "deinit"
    /\ \/ ~http.running /\ umpc' = "exit" /\ UNCHANGED <<http, hPc, hTries>>
       \/ /\ http.running /\ CmutexFree /\ hTries < HTries
          /\ http' = [http EXCEPT !.cmd = "EXIT"] /\ hPc' = HWoken
          /\ umpc' = "join" /\ hTries' = hTries
       \/ /\ http.running /\ ~CmutexFree /\ hTries < HTries
          /\ hTries' = hTries + 1 /\ UNCHANGED <<http, hPc, umpc>>
       \/ http.running /\ hTries = HTries /\ umpc' = "exit" /\ UNCHANGED <<http, hPc, hTries>>
    /\ UNCHANGED <<served, live, update, check, inProgress, available, request>>

MJoin ==
    /\ umpc = "join" /\ hPc = "done"
    /\ umpc' = "exit"
    /\ UNCHANGED <<thread, http, live, update, check, inProgress, available, hTries, request>>

\* The thread that did not stop is still there when the next program starts.
Exited == umpc \in {"exit", "crashed"} /\ UNCHANGED httpVars

Main ==
    \/ Post \/ MCount \/ MSignal \/ MFetched \/ MValidate \/ MParseNull
    \/ MExecute \/ MConfirm \/ MPoll \/ MFaded \/ MReloc \/ MLeave \/ MDeinit \/ MJoin

HttpNext == HLocal \/ HNet \/ Main \/ Exited

\* The steps of main that need neither the user nor another frame.
Busy == Post \/ MPoll \/ MFaded \/ MReloc \/ MDeinit \/ MJoin

HttpFairness == WF_httpVars(Busy) /\ WF_httpVars(HLocal)

HttpSpec == HttpInit /\ [][HttpNext]_httpVars /\ HttpFairness

\* With a network that answers, or times out: all calls return.
HttpAnswers == WF_httpVars(HNet)

---------------------------------------------------------------------------
Requests == {1, 2}
Pointer == Requests \union {Null}

TaHttp == [running : BOOLEAN, done : BOOLEAN, cmd : {"IDLE", "EXIT", "FETCH"},
           host : Pointer, max : {0, MetaMax, DownloadMax},
           state : {"IDLE", "REQUESTING", "RECEIVING"},
           res : {"OK", "ERR_CONNECT", "ERR_REQUEST", "ERR_STATUS", "ERR_TOOBIG", "ERR_RECEIVE"},
           status : {0, 200, 404}, len : Lens \union {0}, data : Pointer]

HttpTypeOK ==
    /\ hPc \in {"start", "started", "wait", "woken", "connect", "unconnected", "request",
                "unsent", "head", "receive", "close", "done"}
    /\ http \in TaHttp
    /\ served \in [status : {Missing, 200, 404}, len : Lens \union {Missing}]
    /\ live \in SUBSET Requests
    /\ umpc \in {"frame", "request", "confirm", "poll", "fade", "reloc", "deinit", "join",
                "exit", "crashed"}
    /\ us \in {"IDLE", "FETCH_META", "VALIDATE", "NO_UPDATE", "CAN_UPDATE"}
    /\ info \in BOOLEAN /\ update_data \in Pointer /\ data \in Pointer
    /\ check \in -1..CheckDelay /\ inProgress \in BOOLEAN /\ available \in BOOLEAN
    /\ downloading \in BOOLEAN /\ hTries \in 0..HTries /\ request \in Pointer

\* A result that is there to be taken, outside the window of HFailed.
Published == http.done /\ http.res = "OK" /\ http.host # Null /\ umpc # "request" /\ MutexFree

\* Between the thread, which allocates a body, and main, which frees it on
\* five different paths, each buffer has exactly one owner: none is lost,
\* freed twice or used after it was freed.
BuffersOwned ==
    /\ HttpTypeOK
    /\ live = ((IF hPc = "receive" \/ Published THEN {http.data} ELSE {})
               \union (IF us = "VALIDATE" THEN {update_data} ELSE {})
               \union {data}) \ {Null}

\* A result is the answer to the request main made, within the size main
\* allowed for it.  The thread connects to and asks for the host and path of
\* that request, which http_get_result frees and http_request replaces
\* without a lock, guarded only by done.  The status and length fields are never reset: only of the
\* first request is it certain that the server sent them.  So what is
\* installed is the download: http_get_state's mutex keeps update_execute
\* from the result of an earlier request.
ResultHonest ==
    /\ Published =>
           /\ http.data = request
           /\ http.len \in 1..(IF request = 1 THEN MetaMax ELSE DownloadMax)
           /\ request = 1 => served = [status |-> 200, len |-> http.len]
    /\ hPc \in {"connect", "request"} => http.host = request
    /\ umpc = "reloc" => data = 2

\* http_deinit ends, whatever the network does.
HttpDeinitEnds == umpc = "deinit" ~> umpc = "exit"

\* With a network that answers or times out, update_execute does not hang in
\* its loop.
UpdateEnds == HttpAnswers => (umpc \in {"request", "poll", "fade"} ~> umpc \in {"frame", "reloc"})

\* What main waits for in the thread comes to an end: its exit, whatever the
\* network does, and with a network that answers an update.
HttpEnds == HttpDeinitEnds /\ UpdateEnds

\* What update_busy parses is the text of a response ("safety, for char[]
\* parsing", http.c:219: http_func ends what it has received with a zero).
MetaIsText == us = "VALIDATE" => update_data \in live
=============================================================================
