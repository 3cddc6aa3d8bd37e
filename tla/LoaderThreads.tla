--------------------------- MODULE LoaderThreads ---------------------------
(***************************************************************************)
(* The two handshake threads of loader.c (USB Gecko and TCP), the sockets  *)
(* the TCP thread and the loading thread use, and main's side: the polls   *)
(* of a browser frame, loader_load, loader_deinit.                         *)
(*                                                                         *)
(* Main never waits for a thread's cmutex, it only tries the lock; a       *)
(* thread holds its own except in the condition wait.  The handshake       *)
(* threads (48) and the loading thread (48) are below main (64) and below  *)
(* the app entry thread, so nothing guarantees that they run between two   *)
(* of main's frames.                                                       *)
(*                                                                         *)
(* The data of an upload is left to LoaderLoad: here a transfer only owns  *)
(* the USB channel or a socket until it ends.                              *)
(***************************************************************************)
EXTENDS Integers, FiniteSets

CONSTANTS
    Conns,      \* clients that may connect
    NoConn,
    Fds,        \* socket descriptors
    NoFd,
    Retries,    \* attempts at net_init (32)
    Tries,      \* attempts to lock a cmutex in loader_deinit (25)
    MaxResets   \* bound on the ENETRESETs of the network stack

ASSUME LoaderAssumption ==
    /\ NoConn \notin Conns /\ NoFd \notin Fds
    /\ Conns \intersect {"free", "listen"} = {}
    /\ Retries \in Nat \ {0} /\ Tries \in Nat \ {0} /\ MaxResets \in Nat

VARIABLES
    gPc, gRunning, gCmd, gHand,             \* gecko thread, ta_gecko
    tPc, retries, s, sn,                    \* tcp thread's locals
    tRunning, tCmd, tState, tHand, tHdr, tS, \* ta_tcp; tHdr stands for the lengths
    sock,                                   \* the descriptors: free, listen, or a client
    resets,
    mpc, tries,                             \* main
    lPc, lKind, lState, lFd, lHdr           \* loading thread, its ld_load_arg

gecko == <<gPc, gRunning, gCmd, gHand>>
tcpLocals == <<tPc, retries, s, sn>>
tcp == <<tRunning, tCmd, tState, tHand, tHdr, tS>>
net == <<sock, resets>>
main == <<mpc, tries>>
load == <<lPc, lKind, lState, lFd, lHdr>>
vars == <<gecko, tcpLocals, tcp, net, main, load>>

Free == {f \in Fds : sock[f] = "free"}

Init ==
    /\ gPc \in {"absent", "start"}   \* no thread without a USB Gecko
    /\ gRunning = FALSE /\ gCmd = "IDLE" /\ gHand = FALSE
    /\ tPc = "start" /\ retries = 0 /\ s = NoFd /\ sn = NoFd
    /\ tRunning = FALSE /\ tCmd = "IDLE" /\ tState = "UNINITIALIZED"
    /\ tHand = FALSE /\ tHdr = NoConn /\ tS = NoFd
    /\ sock = [f \in Fds |-> "free"] /\ resets = 0
    /\ mpc = "frame" /\ tries = 0
    /\ lPc = "done" /\ lKind = "FILE" /\ lState = "SUCCESS" /\ lFd = NoFd /\ lHdr = NoConn

---------------------------------------------------------------------------
(* The gecko handshake thread.  A thread at "woken" has been signalled, or *)
(* has just started, and does not own its mutex yet; at "again" it is back *)
(* at the top of its loop and owns it.                                     *)

Unlocked == {"start", "started", "wait", "woken", "done"}
GFree == gPc \in Unlocked

GeckoStart ==
    /\ gPc = "start"
    /\ gRunning' = TRUE /\ gPc' = "woken"
    /\ UNCHANGED <<gCmd, gHand, tcpLocals, tcp, net, main, load>>

GeckoWake ==
    /\ gPc \in {"woken", "again"}
    /\ \/ gCmd = "IDLE" /\ gPc' = "wait" /\ UNCHANGED <<gRunning, gCmd, gHand>>
       \/ gCmd = "EXIT" /\ gPc' = "done" /\ gRunning' = FALSE /\ UNCHANGED <<gCmd, gHand>>
       \/ gCmd = "POLL" /\ gPc' = "recv" /\ gCmd' = "IDLE" /\ gHand' = FALSE
            /\ UNCHANGED gRunning
    /\ UNCHANGED <<tcpLocals, tcp, net, main, load>>

\* Sixteen bytes within LD_TIMEOUT that are a valid header, or not.
GeckoRecv ==
    /\ gPc = "recv"
    /\ gHand' \in BOOLEAN
    /\ gPc' = "again"
    /\ UNCHANGED <<gRunning, gCmd, tcpLocals, tcp, net, main, load>>

GeckoNext == GeckoStart \/ GeckoWake \/ GeckoRecv

---------------------------------------------------------------------------
(* The tcp handshake thread.                                               *)

TFree == tPc \in Unlocked

TcpStart ==
    /\ tPc = "start"
    /\ tRunning' = TRUE /\ tPc' = "started"
    /\ UNCHANGED <<retries, s, sn, tCmd, tState, tHand, tHdr, tS, gecko, net, main, load>>

\* Whatever was posted before the thread owned its mutex is overwritten.
TcpLock ==
    /\ tPc = "started"
    /\ tCmd' = "INIT" /\ tState' = "UNINITIALIZED" /\ tHand' = FALSE
    /\ tPc' = "again"
    /\ UNCHANGED <<retries, s, sn, tRunning, tHdr, tS, gecko, net, main, load>>

TcpWait ==
    /\ tPc \in {"woken", "again"} /\ tCmd = "IDLE"
    /\ tPc' = "wait"
    /\ UNCHANGED <<retries, s, sn, tcp, gecko, net, main, load>>

Dispatch == tPc \in {"woken", "again"} /\ tHand' = FALSE

TcpExitCmd ==
    /\ Dispatch /\ tCmd = "EXIT"
    /\ tPc' = "exiting"
    /\ UNCHANGED <<retries, s, sn, tRunning, tCmd, tState, tHdr, tS, gecko, net, main, load>>

\* "reinit net" closes the old listening socket by its number.
TcpInitCmd ==
    /\ Dispatch /\ tCmd = "INIT"
    /\ tCmd' = "IDLE" /\ tState' = "INITIALIZING" /\ retries' = Retries
    /\ sock' = IF tState = "INITIALIZED" THEN [sock EXCEPT ![s] = "free"] ELSE sock
    /\ tPc' = "init"
    /\ UNCHANGED <<s, sn, tRunning, tHdr, tS, resets, gecko, main, load>>

TcpAcceptCmd ==
    /\ Dispatch /\ tCmd = "ACCEPT"
    /\ tCmd' = "IDLE"
    /\ tPc' = "accept"
    /\ UNCHANGED <<retries, s, sn, tRunning, tState, tHdr, tS, gecko, net, main, load>>

\* net_init_async and net_get_status: again, up, or not.
TcpNetInit ==
    /\ tPc = "init"
    /\ \/ retries' = retries - 1
          /\ IF retries = 1 THEN tState' = "UNINITIALIZED" /\ tPc' = "again"
                            ELSE UNCHANGED <<tState, tPc>>
       \/ tPc' = "listen" /\ UNCHANGED <<retries, tState>>
       \/ tPc' = "again" /\ tState' = "UNINITIALIZED" /\ UNCHANGED retries
    /\ UNCHANGED <<s, sn, tRunning, tCmd, tHand, tHdr, tS, gecko, net, main, load>>

\* The stack was reset: net_deinit, which ends every socket, and start over.
NetReset ==
    /\ resets < MaxResets
    /\ resets' = resets + 1
    /\ sock' = [f \in Fds |-> "free"]
    /\ tCmd' = "INIT" /\ tPc' = "again"

TcpListen ==
    /\ tPc = "listen"
    /\ \/ /\ \E f \in Free : s' = f /\ sock' = [sock EXCEPT ![f] = "listen"]
          /\ tState' = "INITIALIZED" /\ tPc' = "again"
          /\ UNCHANGED <<tCmd, resets>>
       \/ tState' = "UNINITIALIZED" /\ s' = NoFd /\ tPc' = "again"
          /\ UNCHANGED <<tCmd, net>>
       \/ NetReset /\ s' = NoFd /\ UNCHANGED tState
    /\ UNCHANGED <<retries, sn, tRunning, tHand, tHdr, tS, gecko, main, load>>

NewConn == {c \in Conns : \A f \in Fds : sock[f] # c}

\* net_accept: nobody (or not from this network: closed at once), a client,
\* or an error, after which the listening socket is closed.
TcpAccept ==
    /\ tPc = "accept"
    /\ \/ tPc' = "again" /\ UNCHANGED <<sn, net, tCmd, tState>>
       \/ /\ \E f \in Free, c \in NewConn : sn' = f /\ sock' = [sock EXCEPT ![f] = c]
          /\ tPc' = "read"
          /\ UNCHANGED <<resets, tCmd, tState>>
       \/ tPc' = "again" /\ tState' = "UNINITIALIZED" /\ sock' = [sock EXCEPT ![s] = "free"]
          /\ UNCHANGED <<sn, resets, tCmd>>
       \/ NetReset /\ UNCHANGED <<sn, tState>>
    /\ UNCHANGED <<retries, s, tRunning, tHand, tHdr, tS, gecko, main, load>>

\* A faulty version of TcpHeader: a refused client is not hung up on.
TcpHeaderLeaks ==
    /\ tPc = "read"
    /\ \/ tHdr' = sock[sn] /\ UNCHANGED <<tS, tHand>>
       \/ tHdr' = sock[sn] /\ tS' = sn /\ tHand' = TRUE
    /\ sn' = NoFd /\ tPc' = "again"
    /\ UNCHANGED <<retries, s, tRunning, tCmd, tState, net, gecko, main, load>>

\* The header: missing, refused (the lengths have been stored by then), or
\* accepted.
TcpHeader ==
    /\ tPc = "read"
    /\ \/ sock' = [sock EXCEPT ![sn] = "free"] /\ UNCHANGED <<tHdr, tS, tHand>>
       \/ sock' = [sock EXCEPT ![sn] = "free"] /\ tHdr' = sock[sn] /\ UNCHANGED <<tS, tHand>>
       \/ tHdr' = sock[sn] /\ tS' = sn /\ tHand' = TRUE /\ UNCHANGED sock
    /\ sn' = NoFd /\ tPc' = "again"
    /\ UNCHANGED <<retries, s, tRunning, tCmd, tState, resets, gecko, main, load>>

\* net_shutdown, net_close and net_deinit take as long as they take.
TcpExit ==
    /\ tPc = "exiting"
    /\ sock' = [f \in Fds |-> "free"]
    /\ tState' = "UNINITIALIZED" /\ tRunning' = FALSE
    /\ tPc' = "done"
    /\ UNCHANGED <<retries, s, sn, tCmd, tHand, tHdr, tS, resets, gecko, main, load>>

TcpNext ==
    \/ TcpStart \/ TcpLock \/ TcpWait \/ TcpExitCmd \/ TcpInitCmd \/ TcpAcceptCmd
    \/ TcpNetInit \/ TcpListen \/ TcpAccept \/ TcpHeader \/ TcpExit

---------------------------------------------------------------------------
(* The loading thread.  The socket is closed before a success is published *)
(* and after an error is; net_close blocks either way.                     *)

LoadReceive ==
    /\ lPc = "run"
    /\ lState' \in (IF lKind = "FILE" THEN {"RUNNING", "ERR_READ"}
                                      ELSE {"RUNNING", "ERR_RECEIVE"})
    /\ lPc' = IF lKind = "TCP" \/ lState' = "RUNNING" THEN "closing" ELSE "done"
    /\ sock' = IF lKind = "TCP" THEN [sock EXCEPT ![lFd] = "free"] ELSE sock
    /\ UNCHANGED <<lKind, lFd, lHdr, gecko, tcpLocals, tcp, resets, main>>

LoadClosed ==
    /\ lPc = "closing"
    /\ lPc' = "done"
    /\ IF lState = "RUNNING" THEN lState' \in {"SUCCESS", "ERR_UNCOMPRESS"}
                             ELSE UNCHANGED lState
    /\ UNCHANGED <<lKind, lFd, lHdr, gecko, tcpLocals, tcp, net, main>>

LoadNext == LoadReceive \/ LoadClosed

---------------------------------------------------------------------------
(* Main.                                                                   *)

Woken(pc) == IF pc = "wait" THEN "woken" ELSE pc

loader_tcp_init ==
    /\ mpc = "frame" /\ TFree /\ tRunning /\ tState = "UNINITIALIZED"
    /\ tCmd' = "INIT" /\ tPc' = Woken(tPc)
    /\ UNCHANGED <<retries, s, sn, tRunning, tState, tHand, tHdr, tS, gecko, net, main, load>>

PollGecko == GFree /\ gRunning /\ ~gHand
PollTcp == TFree /\ tRunning /\ tState = "INITIALIZED" /\ ~tHand

GeckoReady == GFree /\ gRunning /\ gHand
TcpReady == TFree /\ tRunning /\ tHand
loader_handshaked == GeckoReady \/ TcpReady

\* Faulty versions of loader_signal_threads: also called from the progress
\* loop, or whether or not there is a handshake.
SignalWhileLoading ==
    /\ mpc \in {"frame", "load"} /\ ~loader_handshaked
    /\ IF PollGecko THEN gCmd' = "POLL" /\ gPc' = Woken(gPc) ELSE UNCHANGED <<gCmd, gPc>>
    /\ IF PollTcp THEN tCmd' = "ACCEPT" /\ tPc' = Woken(tPc) ELSE UNCHANGED <<tCmd, tPc>>
    /\ UNCHANGED <<gRunning, gHand, retries, s, sn, tRunning, tState, tHand, tHdr, tS,
                   net, main, load>>

SignalAlways ==
    /\ mpc = "frame" /\ TFree /\ tRunning /\ tState = "INITIALIZED"
    /\ tCmd' = "ACCEPT" /\ tPc' = Woken(tPc)
    /\ UNCHANGED <<gecko, retries, s, sn, tRunning, tState, tHand, tHdr, tS, net, main, load>>

loader_signal_threads ==
    /\ mpc = "frame" /\ ~loader_handshaked
    /\ IF PollGecko THEN gCmd' = "POLL" /\ gPc' = Woken(gPc) ELSE UNCHANGED <<gCmd, gPc>>
    /\ IF PollTcp THEN tCmd' = "ACCEPT" /\ tPc' = Woken(tPc) ELSE UNCHANGED <<tCmd, tPc>>
    /\ UNCHANGED <<gRunning, gHand, retries, s, sn, tRunning, tState, tHand, tHdr, tS,
                   net, main, load>>

\* Under the tcp thread's lock loader_load resets the gecko command, not the
\* tcp one.
Quiet == gCmd' = IF GFree \/ TFree THEN "IDLE" ELSE gCmd

StartThread(kind, fd, hdr) ==
    /\ lPc' = "run" /\ lKind' = kind /\ lState' = "RUNNING"
    /\ lFd' = fd /\ lHdr' = hdr
    /\ mpc' = "load"

\* loader_load(app) from the detail dialog; it returns early when the file
\* cannot be opened or there is no memory for it.
LoadFile ==
    /\ mpc = "frame"
    /\ Quiet
    /\ \/ StartThread("FILE", NoFd, NoConn)
       \/ UNCHANGED <<mpc, load>>
    /\ UNCHANGED <<gPc, gRunning, gHand, tcpLocals, tcp, net, tries>>

LoadGecko ==
    /\ mpc = "frame" /\ GeckoReady
    /\ Quiet
    /\ gHand' = FALSE
    /\ \/ StartThread("GECKO", NoFd, NoConn)
       \/ UNCHANGED <<mpc, load>>                 \* out of memory
    /\ UNCHANGED <<gPc, gRunning, tcpLocals, tcp, net, tries>>

LoadTcp ==
    /\ mpc = "frame" /\ ~GeckoReady /\ TcpReady
    /\ Quiet
    /\ tHand' = FALSE
    /\ \/ StartThread("TCP", tS, tHdr) /\ UNCHANGED sock
       \/ sock' = [sock EXCEPT ![tS] = "free"] /\ UNCHANGED <<mpc, load>>
    /\ UNCHANGED <<gPc, gRunning, gHand, tcpLocals, tRunning, tCmd, tState, tHdr, tS, resets, tries>>

\* The progress dialog fades, the result is handled: back to the loop, or to
\* its end with an executable.
Loaded ==
    /\ mpc = "load" /\ lState # "RUNNING"
    /\ \/ mpc' = "frame"
       \/ mpc' = "exit" /\ lState = "SUCCESS"
    /\ UNCHANGED <<tries, gecko, tcpLocals, tcp, net, load>>

ShouldExit ==
    /\ mpc = "frame"
    /\ mpc' = "exit"
    /\ UNCHANGED <<tries, gecko, tcpLocals, tcp, net, load>>

Browse == loader_tcp_init \/ loader_signal_threads \/ LoadFile \/ LoadGecko \/ LoadTcp \/ ShouldExit

---------------------------------------------------------------------------
(* loader_deinit: the tcp thread first.                                    *)

DeinitTcp ==
    /\ mpc = "exit"
    /\ mpc' = IF tRunning THEN "tcplock" ELSE "gecko"
    /\ tries' = Tries
    /\ UNCHANGED <<gecko, tcpLocals, tcp, net, load>>

TryAgain(next) ==
    /\ tries' = tries - 1
    /\ mpc' = IF tries = 1 THEN next ELSE mpc

TcpPostExit ==
    /\ mpc = "tcplock"
    /\ IF TFree
       THEN tCmd' = "EXIT" /\ tPc' = Woken(tPc) /\ mpc' = "tcpend" /\ tries' = Tries
       ELSE TryAgain("gecko") /\ UNCHANGED <<tCmd, tPc>>
    /\ UNCHANGED <<retries, s, sn, tRunning, tState, tHand, tHdr, tS, gecko, net, load>>

\* A faulty version of TcpAwaitEnd: it keeps asking.
TcpAwaitEndForever ==
    /\ mpc = "tcpend"
    /\ mpc' = IF TFree /\ ~tRunning THEN "gecko" ELSE mpc
    /\ UNCHANGED <<tries, gecko, tcpLocals, tcp, net, load>>

TcpAwaitEnd ==
    /\ mpc = "tcpend"
    /\ IF TFree /\ ~tRunning THEN mpc' = "gecko" /\ UNCHANGED tries ELSE TryAgain("gecko")
    /\ UNCHANGED <<gecko, tcpLocals, tcp, net, load>>

DeinitGecko ==
    /\ mpc = "gecko"
    /\ mpc' = IF gRunning THEN "geckolock" ELSE "halt"
    /\ tries' = Tries
    /\ UNCHANGED <<gecko, tcpLocals, tcp, net, load>>

GeckoPostExit ==
    /\ mpc = "geckolock"
    /\ IF GFree
       THEN gCmd' = "EXIT" /\ gPc' = Woken(gPc) /\ mpc' = "geckojoin" /\ UNCHANGED tries
       ELSE TryAgain("halt") /\ UNCHANGED <<gCmd, gPc>>
    /\ UNCHANGED <<gRunning, gHand, tcpLocals, tcp, net, load>>

\* LWP_JoinThread has no time limit.
GeckoJoin ==
    /\ mpc = "geckojoin" /\ gPc = "done"
    /\ mpc' = "halt"
    /\ UNCHANGED <<tries, gecko, tcpLocals, tcp, net, load>>

Deinit ==
    \/ DeinitTcp \/ TcpPostExit \/ TcpAwaitEnd
    \/ DeinitGecko \/ GeckoPostExit \/ GeckoJoin

\* The console goes on to something else.
Halted == mpc = "halt" /\ UNCHANGED vars

Next == GeckoNext \/ TcpNext \/ LoadNext \/ Browse \/ Loaded \/ Deinit \/ Halted

\* Main's waits are sleeps and the gecko thread's receive has a timeout:
\* both keep running.  The network may hold the tcp thread for ever.
Fairness == WF_vars(Deinit) /\ WF_vars(GeckoNext)

Spec == Init /\ [][Next]_vars /\ Fairness

\* A network stack that answers every call.
Answering == WF_vars(TcpNext) /\ WF_vars(LoadNext)

---------------------------------------------------------------------------
TypeOK ==
    /\ gPc \in {"absent", "start", "wait", "woken", "again", "recv", "done"}
    /\ gRunning \in BOOLEAN /\ gCmd \in {"IDLE", "EXIT", "POLL"} /\ gHand \in BOOLEAN
    /\ tPc \in {"start", "started", "wait", "woken", "again", "init", "listen", "accept",
                "read", "exiting", "done"}
    /\ retries \in 0..Retries /\ s \in Fds \union {NoFd} /\ sn \in Fds \union {NoFd}
    /\ tRunning \in BOOLEAN /\ tCmd \in {"IDLE", "EXIT", "INIT", "ACCEPT"}
    /\ tState \in {"UNINITIALIZED", "INITIALIZING", "INITIALIZED"}
    /\ tHand \in BOOLEAN /\ tHdr \in Conns \union {NoConn} /\ tS \in Fds \union {NoFd}
    /\ sock \in [Fds -> Conns \union {"free", "listen"}]
    /\ resets \in 0..MaxResets
    /\ mpc \in {"frame", "load", "exit", "tcplock", "tcpend", "gecko", "geckolock",
                "geckojoin", "halt"}
    /\ tries \in 0..Tries
    /\ lPc \in {"run", "closing", "done"} /\ lKind \in {"FILE", "GECKO", "TCP"}
    /\ lState \in {"RUNNING", "SUCCESS", "ERR_READ", "ERR_RECEIVE", "ERR_UNCOMPRESS"}
    /\ lFd \in Fds \union {NoFd} /\ lHdr \in Conns \union {NoConn}

\* While the loading thread reads a payload from the USB Gecko the handshake
\* thread keeps off the channel, though nothing but the order of main's
\* calls and its reset of the command (loader_load) separates the two.
UsbReaderExclusive ==
    lPc = "run" /\ lKind = "GECKO" =>
        gPc # "recv" /\ ~(gPc = "woken" /\ gCmd = "POLL")

\* No descriptor is lost: each open one is the listening socket, the client
\* whose header is read, the accepted client or the running transfer, and
\* one of them only, until the thread is told to exit.  The transfer's is
\* its own.
Owners(f) ==
    {r \in {"listen", "read", "handshaked", "transfer"} :
        \/ r = "listen" /\ s = f /\ sock[f] = "listen"
        \/ r = "read" /\ sn = f /\ tPc = "read"
        \/ r = "handshaked" /\ tHand /\ tS = f
        \/ r = "transfer" /\ lPc = "run" /\ lKind = "TCP" /\ lFd = f}

SocketsOwned ==
    /\ TypeOK
    /\ tPc # "exiting" =>
          \A f \in Fds : Cardinality(Owners(f)) = (IF sock[f] = "free" THEN 0 ELSE 1)

\* What main reads from ta_tcp belongs to the client it then talks to: the
\* lengths, stored one by one and also by refused clients, and the socket.
HeaderMatches ==
    /\ tHand => sock[tS] = tHdr
    /\ (lPc = "run" /\ lKind = "TCP" /\ tPc # "exiting") => sock[lFd] = lHdr

\* A handshake is given up only by the load that serves it, by main hanging
\* up for want of memory, or on exit, and the load that serves it begins
\* with the header and the socket of its own client.  It gets the stack, the
\* arguments and the socket of the last one, which has ended, unless it was
\* a failed TCP transfer still in net_close, which is called after the error
\* is published.
HandshakeKept ==
    [][/\ tHand /\ ~tHand' =>
            \/ mpc' = "load" /\ lKind' = "TCP" /\ lFd' = tS /\ lHdr' = tHdr
            \/ tPc' = tPc /\ sock'[tS] = "free"
            \/ tCmd = "EXIT"
       /\ gHand /\ ~gHand' => mpc = "frame" /\ gPc' = gPc
       /\ HeaderMatches'
       /\ mpc = "frame" /\ mpc' = "load" =>
             lPc = "done" \/ (lKind = "TCP" /\ lState = "ERR_RECEIVE")]_vars

\* loader_deinit returns even if the network holds the tcp thread for ever:
\* "the tcp thread is the only one that can block after the exit command is
\* sent" (main.c).
DeinitEnds == (mpc = "exit") ~> (mpc = "halt")

\* With a network stack that answers and stops resetting, the thread gets
\* out of INITIALIZING, so main can poll it, or initialise it again.
InitSettles == Answering => ((tState = "INITIALIZING") ~> (tState # "INITIALIZING"))

\* What main waits for in the two threads comes to an end.
HandshakesEnd == DeinitEnds /\ InitSettles
=============================================================================
