------------------------ MODULE LoaderThreadsProofs ------------------------
(***************************************************************************)
(* UsbReaderExclusive, SocketsOwned and HandshakeKept for every number of  *)
(* clients, descriptors, attempts and resets of the network stack.         *)
(*                                                                         *)
(* Main posts a command only to a thread in its wait, and a posted command *)
(* leaves the wait at once: so a POLL or an ACCEPT that is still there is  *)
(* at "woken", and main, which then starts a load, has reset the one       *)
(* (loader_load) and has not posted the other (there was a handshake).     *)
(* That is all that keeps a handshake thread and the loading thread apart, *)
(* and it stays so because main does not post while a load runs.           *)
(***************************************************************************)
EXTENDS LoaderThreads, FiniteSetTheorems, TLAPS

\* The gecko thread: it runs between its start and its end, and a POLL is
\* only there until the thread gets its mutex.
GeckoOrder ==
    /\ gRunning => gPc \in {"wait", "woken", "again", "recv"}
    /\ gCmd = "POLL" => gPc = "woken" /\ ~gHand
    /\ gPc = "recv" => ~gHand

\* Main is in its progress dialog while the loading thread works.  A load
\* that main has given up may still be in net_close.
LoadOrder ==
    /\ lPc = "run" => mpc = "load" /\ lState = "RUNNING"
    /\ lPc = "closing" => lState = "RUNNING" \/ (lKind = "TCP" /\ lState = "ERR_RECEIVE")
    /\ mpc # "load" => lState # "RUNNING"

\* Which commands and states the tcp thread can be found with, at which step.
TcpOrder ==
    /\ tPc \in {"start", "started"} => tState = "UNINITIALIZED" /\ ~tHand
    /\ tPc \in {"init", "listen"} => tState = "INITIALIZING"
    /\ tPc = "init" => retries >= 1
    /\ tPc \in {"accept", "read"} => tState = "INITIALIZED"
    /\ tPc \in {"init", "listen", "accept", "read"} => tCmd = "IDLE" /\ ~tHand
    /\ tPc = "again" => tCmd \in {"IDLE", "INIT"}
    /\ tPc = "exiting" => tCmd = "EXIT" /\ ~tHand
    /\ tPc = "done" => tState = "UNINITIALIZED" /\ ~tHand
    /\ tCmd = "ACCEPT" => tPc = "woken" /\ tState = "INITIALIZED" /\ ~tHand
    /\ tCmd = "INIT" /\ tState = "INITIALIZED" => tPc = "again" /\ ~tHand

\* loader_deinit counts down from Tries.
DeinitOrder ==
    /\ mpc \in {"tcplock", "tcpend", "geckolock"} => tries >= 1
    /\ tCmd = "EXIT" => mpc \notin {"frame", "load"}

\* A TCP transfer runs beside an idle tcp thread.
Transferring ==
    lPc = "run" /\ lKind = "TCP" =>
        /\ lFd \in Fds /\ sock[lFd] \in Conns /\ sock[lFd] = lHdr
        /\ tPc \in {"wait", "woken"} /\ tCmd = "IDLE" /\ tState = "INITIALIZED" /\ ~tHand

\* The listening socket is there while the state says so, until the network
\* stack is reset, and there is never another.
Listening ==
    /\ tState = "INITIALIZED" /\ tPc # "exiting" /\ tCmd # "INIT" =>
          s \in Fds /\ sock[s] = "listen"
    /\ tState = "INITIALIZED" => s \in Fds
    /\ \A f \in Fds : sock[f] = "listen" => s = f

\* The clients the tcp thread is talking to, or has accepted.
Accepted ==
    /\ sn # NoFd <=> tPc = "read"
    /\ tPc = "read" => sock[sn] \in Conns
    /\ tHand =>
          /\ tS \in Fds /\ sock[tS] \in Conns /\ sock[tS] = tHdr
          /\ tState = "INITIALIZED" /\ tPc \in {"again", "woken", "wait"}

\* No other client's socket is open.  With the network down none is.
NoneLost ==
    tPc # "exiting" =>
        /\ \A f \in Fds : sock[f] \in Conns =>
              \/ tPc = "read" /\ sn = f
              \/ tHand /\ tS = f
              \/ lPc = "run" /\ lKind = "TCP" /\ lFd = f
        /\ tState # "INITIALIZED" \/ tCmd = "INIT" => \A f \in Fds : sock[f] = "free"

\* The part of TypeOK about the flags, which the provers take by itself.
Flags == {gRunning, gHand, tRunning, tHand} \subseteq BOOLEAN

IInv ==
    /\ TypeOK /\ UsbReaderExclusive
    /\ GeckoOrder /\ LoadOrder /\ TcpOrder /\ DeinitOrder
    /\ Transferring /\ Listening /\ Accepted /\ NoneLost

---------------------------------------------------------------------------
\* Before any thread has started.
LEMMA InitIInv == Init => IInv
<1> SUFFICES ASSUME Init PROVE IInv
  OBVIOUS
<1>1. TypeOK
  <2>1. Flags
    BY DEF Init, Flags
  <2> QED
    BY <2>1, LoaderAssumption DEF Init, Flags, TypeOK
<1>2. UsbReaderExclusive /\ GeckoOrder /\ LoadOrder
  BY LoaderAssumption DEF Init, UsbReaderExclusive, GeckoOrder, LoadOrder
<1>3. TcpOrder /\ DeinitOrder
  BY LoaderAssumption DEF Init, TcpOrder, DeinitOrder
<1>4. Transferring
  BY LoaderAssumption DEF Init, Transferring
<1>5. Listening
  BY LoaderAssumption DEF Init, Listening
<1>6. Accepted
  BY LoaderAssumption DEF Init, Accepted
<1>7. NoneLost
  BY LoaderAssumption DEF Init, NoneLost
<1> QED
  BY <1>1, <1>2, <1>3, <1>4, <1>5, <1>6, <1>7 DEF IInv

\* The gecko thread.
LEMMA GeckoKeepsIInv == IInv /\ GeckoNext => IInv'
<1> SUFFICES ASSUME IInv, GeckoNext PROVE IInv'
  OBVIOUS
<1> USE LoaderAssumption DEF IInv, TypeOK, UsbReaderExclusive, GeckoOrder, LoadOrder,
   TcpOrder, DeinitOrder, Transferring, Listening, Accepted, NoneLost
<1>1. CASE GeckoStart
  BY <1>1 DEF GeckoStart, tcpLocals, tcp, net, main, load
<1>2. CASE GeckoWake
  <2>1. TypeOK'
    <3>1. Flags'
      BY <1>2 DEF Flags, GeckoWake, gecko, tcpLocals, tcp, net, main, load
    <3> QED
      BY <1>2, <3>1 DEF Flags, GeckoWake, gecko, tcpLocals, tcp, net, main, load
  <2>2. UsbReaderExclusive' /\ GeckoOrder' /\ LoadOrder'
    BY <1>2 DEF GeckoWake, gecko, tcpLocals, tcp, net, main, load
  <2>3. TcpOrder' /\ DeinitOrder'
    BY <1>2 DEF GeckoWake, gecko, tcpLocals, tcp, net, main, load
  <2>4. Transferring'
    BY <1>2 DEF GeckoWake, gecko, tcpLocals, tcp, net, main, load
  <2>5. Listening'
    BY <1>2 DEF GeckoWake, gecko, tcpLocals, tcp, net, main, load
  <2>6. Accepted'
    BY <1>2 DEF GeckoWake, gecko, tcpLocals, tcp, net, main, load
  <2>7. NoneLost'
    BY <1>2 DEF GeckoWake, gecko, tcpLocals, tcp, net, main, load
  <2> QED
    BY <2>1, <2>2, <2>3, <2>4, <2>5, <2>6, <2>7 DEF IInv
<1>3. CASE GeckoRecv
  BY <1>3 DEF GeckoRecv, gecko, tcpLocals, tcp, net, main, load
<1> QED
  BY <1>1, <1>2, <1>3 DEF GeckoNext

\* The tcp thread.
LEMMA TcpKeepsIInv == IInv /\ TcpNext => IInv'
<1> SUFFICES ASSUME IInv, TcpNext PROVE IInv'
  OBVIOUS
<1> USE LoaderAssumption DEF IInv, TypeOK, UsbReaderExclusive, GeckoOrder, LoadOrder,
   TcpOrder, DeinitOrder, Transferring, Listening, Accepted, NoneLost
<1>1. CASE TcpStart
  BY <1>1 DEF TcpStart, gecko, main, load, net, tcp
<1>2. CASE TcpLock
  <2>1. TypeOK'
    <3>1. Flags'
      BY <1>2 DEF Flags, TcpLock, gecko, main, load, net, tcp
    <3> QED
      BY <1>2, <3>1 DEF Flags, TcpLock, gecko, main, load, net, tcp
  <2>2. UsbReaderExclusive' /\ GeckoOrder' /\ LoadOrder'
    BY <1>2 DEF TcpLock, gecko, main, load, net, tcp
  <2>3. TcpOrder' /\ DeinitOrder'
    BY <1>2 DEF TcpLock, gecko, main, load, net, tcp
  <2>4. Transferring'
    BY <1>2 DEF TcpLock, gecko, main, load, net, tcp
  <2>5. Listening'
    BY <1>2 DEF TcpLock, gecko, main, load, net, tcp
  <2>6. Accepted'
    BY <1>2 DEF TcpLock, gecko, main, load, net, tcp
  <2>7. NoneLost'
    BY <1>2 DEF TcpLock, gecko, main, load, net, tcp
  <2> QED
    BY <2>1, <2>2, <2>3, <2>4, <2>5, <2>6, <2>7 DEF IInv
<1>3. CASE TcpWait
  BY <1>3 DEF TcpWait, gecko, main, load, net, tcp
<1>4. CASE TcpExitCmd
  <2>1. TypeOK'
    <3>1. Flags'
      BY <1>4 DEF Flags, TcpExitCmd, Dispatch, gecko, main, load, net
    <3> QED
      BY <1>4, <3>1 DEF Flags, TcpExitCmd, Dispatch, gecko, main, load, net
  <2>2. UsbReaderExclusive' /\ GeckoOrder' /\ LoadOrder'
    BY <1>4 DEF TcpExitCmd, Dispatch, gecko, main, load, net
  <2>3. TcpOrder' /\ DeinitOrder'
    BY <1>4 DEF TcpExitCmd, Dispatch, gecko, main, load, net
  <2>4. Transferring'
    BY <1>4 DEF TcpExitCmd, Dispatch, gecko, main, load, net
  <2>5. Listening'
    BY <1>4 DEF TcpExitCmd, Dispatch, gecko, main, load, net
  <2>6. Accepted'
    BY <1>4 DEF TcpExitCmd, Dispatch, gecko, main, load, net
  <2>7. NoneLost'
    BY <1>4 DEF TcpExitCmd, Dispatch, gecko, main, load, net
  <2> QED
    BY <2>1, <2>2, <2>3, <2>4, <2>5, <2>6, <2>7 DEF IInv
<1>5. CASE TcpInitCmd
  <2>1. TypeOK'
    <3>1. Flags'
      BY <1>5 DEF Flags, TcpInitCmd, Dispatch, gecko, main, load, net
    <3> QED
      BY <1>5, <3>1 DEF Flags, TcpInitCmd, Dispatch, gecko, main, load, net
  <2>2. UsbReaderExclusive' /\ GeckoOrder' /\ LoadOrder'
    BY <1>5 DEF TcpInitCmd, Dispatch, gecko, main, load, net
  <2>3. TcpOrder' /\ DeinitOrder'
    BY <1>5 DEF TcpInitCmd, Dispatch, gecko, main, load, net
  <2>4. Transferring'
    BY <1>5 DEF TcpInitCmd, Dispatch, gecko, main, load, net
  <2>5. Listening'
    BY <1>5 DEF TcpInitCmd, Dispatch, gecko, main, load, net
  <2>6. Accepted'
    BY <1>5 DEF TcpInitCmd, Dispatch, gecko, main, load, net
  <2>7. NoneLost'
    BY <1>5 DEF TcpInitCmd, Dispatch, gecko, main, load, net
  <2> QED
    BY <2>1, <2>2, <2>3, <2>4, <2>5, <2>6, <2>7 DEF IInv
<1>6. CASE TcpAcceptCmd
  <2>1. TypeOK'
    <3>1. Flags'
      BY <1>6 DEF Flags, TcpAcceptCmd, Dispatch, gecko, main, load, net
    <3> QED
      BY <1>6, <3>1 DEF Flags, TcpAcceptCmd, Dispatch, gecko, main, load, net
  <2>2. UsbReaderExclusive' /\ GeckoOrder' /\ LoadOrder'
    BY <1>6 DEF TcpAcceptCmd, Dispatch, gecko, main, load, net
  <2>3. TcpOrder' /\ DeinitOrder'
    BY <1>6 DEF TcpAcceptCmd, Dispatch, gecko, main, load, net
  <2>4. Transferring'
    BY <1>6 DEF TcpAcceptCmd, Dispatch, gecko, main, load, net
  <2>5. Listening'
    BY <1>6 DEF TcpAcceptCmd, Dispatch, gecko, main, load, net
  <2>6. Accepted'
    BY <1>6 DEF TcpAcceptCmd, Dispatch, gecko, main, load, net
  <2>7. NoneLost'
    BY <1>6 DEF TcpAcceptCmd, Dispatch, gecko, main, load, net
  <2> QED
    BY <2>1, <2>2, <2>3, <2>4, <2>5, <2>6, <2>7 DEF IInv
<1>7. CASE TcpNetInit
  BY <1>7 DEF TcpNetInit, gecko, main, load, net
<1>8. CASE TcpListen
  BY <1>8 DEF TcpListen, NetReset, Free, gecko, main, load, net
<1>9. CASE TcpAccept
  BY <1>9 DEF TcpAccept, NetReset, Free, NewConn, gecko, main, load, net
<1>10. CASE TcpHeader
  <2>1. TypeOK'
    <3>1. Flags'
      BY <1>10 DEF Flags, TcpHeader, gecko, main, load, net, tcp
    <3> QED
      BY <1>10, <3>1 DEF Flags, TcpHeader, gecko, main, load, net, tcp
  <2>2. UsbReaderExclusive' /\ GeckoOrder' /\ LoadOrder'
    BY <1>10 DEF TcpHeader, gecko, main, load, net, tcp
  <2>3. TcpOrder' /\ DeinitOrder'
    BY <1>10 DEF TcpHeader, gecko, main, load, net, tcp
  <2>4. Transferring'
    BY <1>10 DEF TcpHeader, gecko, main, load, net, tcp
  <2>5. Listening'
    BY <1>10 DEF TcpHeader, gecko, main, load, net, tcp
  <2>6. Accepted'
    BY <1>10 DEF TcpHeader, gecko, main, load, net, tcp
  <2>7. NoneLost'
    BY <1>10 DEF TcpHeader, gecko, main, load, net, tcp
  <2> QED
    BY <2>1, <2>2, <2>3, <2>4, <2>5, <2>6, <2>7 DEF IInv
<1>11. CASE TcpExit
  <2>1. TypeOK'
    <3>1. Flags'
      BY <1>11 DEF Flags, TcpExit, gecko, main, load, net, tcp
    <3> QED
      BY <1>11, <3>1 DEF Flags, TcpExit, gecko, main, load, net, tcp
  <2>2. UsbReaderExclusive' /\ GeckoOrder' /\ LoadOrder'
    BY <1>11 DEF TcpExit, gecko, main, load, net, tcp
  <2>3. TcpOrder' /\ DeinitOrder'
    BY <1>11 DEF TcpExit, gecko, main, load, net, tcp
  <2>4. Transferring'
    BY <1>11 DEF TcpExit, gecko, main, load, net, tcp
  <2>5. Listening'
    BY <1>11 DEF TcpExit, gecko, main, load, net, tcp
  <2>6. Accepted'
    BY <1>11 DEF TcpExit, gecko, main, load, net, tcp
  <2>7. NoneLost'
    BY <1>11 DEF TcpExit, gecko, main, load, net, tcp
  <2> QED
    BY <2>1, <2>2, <2>3, <2>4, <2>5, <2>6, <2>7 DEF IInv
<1> QED
  BY <1>1, <1>2, <1>3, <1>4, <1>5, <1>6, <1>7, <1>8, <1>9, <1>10, <1>11 DEF TcpNext

\* The loading thread.
LEMMA LoadKeepsIInv == IInv /\ LoadNext => IInv'
<1> SUFFICES ASSUME IInv, LoadNext PROVE IInv'
  OBVIOUS
<1> USE LoaderAssumption DEF IInv, TypeOK, UsbReaderExclusive, GeckoOrder, LoadOrder,
   TcpOrder, DeinitOrder, Transferring, Listening, Accepted, NoneLost
<1>1. CASE LoadReceive
  BY <1>1 DEF LoadReceive, gecko, tcpLocals, tcp, net, main, load
<1>2. CASE LoadClosed
  BY <1>2 DEF LoadClosed, gecko, tcpLocals, tcp, net, main, load
<1> QED
  BY <1>1, <1>2 DEF LoadNext

\* Main in the browser.
LEMMA BrowseKeepsIInv == IInv /\ Browse => IInv'
<1> SUFFICES ASSUME IInv, Browse PROVE IInv'
  OBVIOUS
<1> USE LoaderAssumption DEF IInv, TypeOK, UsbReaderExclusive, GeckoOrder, LoadOrder,
   TcpOrder, DeinitOrder, Transferring, Listening, Accepted, NoneLost
<1>1. CASE loader_tcp_init
  BY <1>1 DEF loader_tcp_init, TFree, Unlocked, Woken, gecko, tcpLocals, tcp, net, main,
     load
<1>2. CASE loader_signal_threads
  BY <1>2 DEF loader_signal_threads, PollGecko, PollTcp, loader_handshaked, GeckoReady,
     TcpReady, GFree, TFree, Unlocked, Woken, gecko, tcpLocals, tcp, net, main, load
<1>3. CASE LoadFile
  BY <1>3 DEF LoadFile, Quiet, StartThread, gecko, tcpLocals, tcp, net, main, load
<1>4. CASE LoadGecko
  <2>1. TypeOK'
    <3>1. Flags'
      BY <1>4 DEF Flags, LoadGecko, GeckoReady, GFree, Unlocked, Quiet, StartThread, gecko,
         tcpLocals, tcp, net, main, load
    <3> QED
      BY <1>4, <3>1 DEF Flags, LoadGecko, GeckoReady, GFree, Unlocked, Quiet, StartThread,
         gecko, tcpLocals, tcp, net, main, load
  <2>2. UsbReaderExclusive' /\ GeckoOrder' /\ LoadOrder'
    BY <1>4 DEF LoadGecko, GeckoReady, GFree, Unlocked, Quiet, StartThread, gecko,
       tcpLocals, tcp, net, main, load
  <2>3. TcpOrder' /\ DeinitOrder'
    BY <1>4 DEF LoadGecko, GeckoReady, GFree, Unlocked, Quiet, StartThread, gecko,
       tcpLocals, tcp, net, main, load
  <2>4. Transferring'
    BY <1>4 DEF LoadGecko, GeckoReady, GFree, Unlocked, Quiet, StartThread, gecko,
       tcpLocals, tcp, net, main, load
  <2>5. Listening'
    BY <1>4 DEF LoadGecko, GeckoReady, GFree, Unlocked, Quiet, StartThread, gecko,
       tcpLocals, tcp, net, main, load
  <2>6. Accepted'
    BY <1>4 DEF LoadGecko, GeckoReady, GFree, Unlocked, Quiet, StartThread, gecko,
       tcpLocals, tcp, net, main, load
  <2>7. NoneLost'
    BY <1>4 DEF LoadGecko, GeckoReady, GFree, Unlocked, Quiet, StartThread, gecko,
       tcpLocals, tcp, net, main, load
  <2> QED
    BY <2>1, <2>2, <2>3, <2>4, <2>5, <2>6, <2>7 DEF IInv
<1>5. CASE LoadTcp
  <2>1. TypeOK'
    <3>1. Flags'
      BY <1>5 DEF Flags, LoadTcp, GeckoReady, TcpReady, GFree, TFree, Unlocked, Quiet,
         StartThread, gecko, tcpLocals, tcp, net, main, load
    <3> QED
      BY <1>5, <3>1 DEF Flags, LoadTcp, GeckoReady, TcpReady, GFree, TFree, Unlocked, Quiet,
         StartThread, gecko, tcpLocals, tcp, net, main, load
  <2>2. UsbReaderExclusive' /\ GeckoOrder' /\ LoadOrder'
    BY <1>5 DEF LoadTcp, GeckoReady, TcpReady, GFree, TFree, Unlocked, Quiet, StartThread,
       gecko, tcpLocals, tcp, net, main, load
  <2>3. TcpOrder' /\ DeinitOrder'
    BY <1>5 DEF LoadTcp, GeckoReady, TcpReady, GFree, TFree, Unlocked, Quiet, StartThread,
       gecko, tcpLocals, tcp, net, main, load
  <2>4. Transferring'
    BY <1>5 DEF LoadTcp, GeckoReady, TcpReady, GFree, TFree, Unlocked, Quiet, StartThread,
       gecko, tcpLocals, tcp, net, main, load
  <2>5. Listening'
    BY <1>5 DEF LoadTcp, GeckoReady, TcpReady, GFree, TFree, Unlocked, Quiet, StartThread,
       gecko, tcpLocals, tcp, net, main, load
  <2>6. Accepted'
    BY <1>5 DEF LoadTcp, GeckoReady, TcpReady, GFree, TFree, Unlocked, Quiet, StartThread,
       gecko, tcpLocals, tcp, net, main, load
  <2>7. NoneLost'
    BY <1>5 DEF LoadTcp, GeckoReady, TcpReady, GFree, TFree, Unlocked, Quiet, StartThread,
       gecko, tcpLocals, tcp, net, main, load
  <2> QED
    BY <2>1, <2>2, <2>3, <2>4, <2>5, <2>6, <2>7 DEF IInv
<1>6. CASE ShouldExit
  BY <1>6 DEF ShouldExit, gecko, tcpLocals, tcp, net, main, load
<1> QED
  BY <1>1, <1>2, <1>3, <1>4, <1>5, <1>6 DEF Browse

\* loader_deinit.
LEMMA DeinitKeepsIInv == IInv /\ Deinit => IInv'
<1> SUFFICES ASSUME IInv, Deinit PROVE IInv'
  OBVIOUS
<1> USE LoaderAssumption DEF IInv, TypeOK, UsbReaderExclusive, GeckoOrder, LoadOrder,
   TcpOrder, DeinitOrder, Transferring, Listening, Accepted, NoneLost
<1>1. CASE DeinitTcp
  BY <1>1 DEF DeinitTcp, gecko, tcpLocals, tcp, net, main, load
<1>2. CASE TcpPostExit
  BY <1>2 DEF TcpPostExit, TryAgain, TFree, Unlocked, Woken, gecko, tcpLocals, tcp, net,
     main, load
<1>3. CASE TcpAwaitEnd
  BY <1>3 DEF TcpAwaitEnd, TryAgain, gecko, tcpLocals, tcp, net, main, load
<1>4. CASE DeinitGecko
  BY <1>4 DEF DeinitGecko, gecko, tcpLocals, tcp, net, main, load
<1>5. CASE GeckoPostExit
  BY <1>5 DEF GeckoPostExit, TryAgain, GFree, Unlocked, Woken, gecko, tcpLocals, tcp, net,
     main, load
<1>6. CASE GeckoJoin
  BY <1>6 DEF GeckoJoin, gecko, tcpLocals, tcp, net, main, load
<1> QED
  BY <1>1, <1>2, <1>3, <1>4, <1>5, <1>6 DEF Deinit

\* Every step of the threads, of main, of the clients and of the network.
LEMMA NextIInv == IInv /\ [Next]_vars => IInv'
<1> SUFFICES ASSUME IInv, [Next]_vars PROVE IInv'
  OBVIOUS
<1>1. CASE Loaded
  BY <1>1 DEF Loaded, IInv, TypeOK, UsbReaderExclusive, GeckoOrder, LoadOrder, TcpOrder,
     DeinitOrder, Transferring, Listening, Accepted, NoneLost, gecko, tcpLocals, tcp, net,
     main, load
<1>2. CASE UNCHANGED vars
  BY <1>2 DEF vars, IInv, TypeOK, UsbReaderExclusive, GeckoOrder, LoadOrder, TcpOrder,
     DeinitOrder, Transferring, Listening, Accepted, NoneLost, gecko, tcpLocals, tcp, net,
     main, load
<1> QED
  BY <1>1, <1>2, GeckoKeepsIInv, TcpKeepsIInv, LoadKeepsIInv, BrowseKeepsIInv,
     DeinitKeepsIInv DEF Next, Halted

\* The loader's threads and main keep IInv in every order of their steps.
THEOREM Invariance == Spec => []IInv
  BY InitIInv, NextIInv, PTL DEF Spec

---------------------------------------------------------------------------
\* Types of every variable, and the ranges of the counters.
THEOREM TypeCorrect == Spec => []TypeOK
<1>1. IInv => TypeOK
  BY DEF IInv
<1> QED
  BY <1>1, Invariance, PTL

\* The handshake thread and the loading thread never read the USB channel
\* together.
THEOREM UsbReadersApart == Spec => []UsbReaderExclusive
<1>1. IInv => UsbReaderExclusive
  BY DEF IInv
<1> QED
  BY <1>1, Invariance, PTL

\* A descriptor whose owners are known to be one.
LEMMA OneOwner ==
    ASSUME NEW f \in Fds, NEW r \in {"listen", "read", "handshaked", "transfer"},
           Owners(f) = {r}
    PROVE  Cardinality(Owners(f)) = 1
  BY FS_Singleton

\* What IInv says of each owner makes every open descriptor owned once.
LEMMA IInvOwned == IInv => SocketsOwned
<1> SUFFICES ASSUME IInv, tPc # "exiting", NEW f \in Fds
             PROVE  Cardinality(Owners(f)) = (IF sock[f] = "free" THEN 0 ELSE 1)
  BY DEF IInv, SocketsOwned
<1> USE LoaderAssumption DEF IInv, TypeOK, TcpOrder, Transferring, Listening, Accepted
<1>0. "free" \notin Conns /\ "listen" \notin Conns
  OBVIOUS
<1>1. CASE sock[f] = "free"
  <2>1. Owners(f) = {}
    BY <1>0, <1>1 DEF Owners
  <2> QED
    BY <1>1, <2>1, FS_EmptySet
<1>2. CASE sock[f] = "listen"
  <2>1. s = f /\ Owners(f) = {"listen"}
    BY <1>0, <1>2 DEF Owners
  <2> QED
    BY <1>2, <2>1, OneOwner
<1>3. CASE sock[f] \in Conns
  <2>1. CASE tPc = "read" /\ sn = f
    <3>1. Owners(f) = {"read"}
      BY <1>0, <1>3, <2>1 DEF Owners
    <3> QED
      BY <1>0, <1>3, <3>1, OneOwner
  <2>2. CASE tHand /\ tS = f
    <3>1. Owners(f) = {"handshaked"}
      BY <1>0, <1>3, <2>2 DEF Owners
    <3> QED
      BY <1>0, <1>3, <3>1, OneOwner
  <2>3. CASE lPc = "run" /\ lKind = "TCP" /\ lFd = f
    <3>1. Owners(f) = {"transfer"}
      BY <1>0, <1>3, <2>3 DEF Owners
    <3> QED
      BY <1>0, <1>3, <3>1, OneOwner
  <2> QED
    BY <1>3, <2>1, <2>2, <2>3 DEF NoneLost
<1> QED
  BY <1>1, <1>2, <1>3

\* Every open descriptor has its one owner until the tcp thread takes the
\* exit command, whatever the clients and the network do.
THEOREM SocketsHaveOneOwner == Spec => []SocketsOwned
  BY IInvOwned, Invariance, PTL

\* The step that gives up a handshake is a load's, main's or the exit's.
LEMMA HandshakeStep ==
    IInv /\ [Next]_vars =>
        /\ tHand /\ ~tHand' =>
             \/ mpc' = "load" /\ lKind' = "TCP" /\ lFd' = tS /\ lHdr' = tHdr
             \/ tPc' = tPc /\ sock'[tS] = "free"
             \/ tCmd = "EXIT"
        /\ gHand /\ ~gHand' => mpc = "frame" /\ gPc' = gPc
        /\ mpc = "frame" /\ mpc' = "load" =>
             lPc = "done" \/ (lKind = "TCP" /\ lState = "ERR_RECEIVE")
<1> SUFFICES ASSUME IInv, [Next]_vars
             PROVE  /\ tHand /\ ~tHand' =>
                         \/ mpc' = "load" /\ lKind' = "TCP" /\ lFd' = tS /\ lHdr' = tHdr
                         \/ tPc' = tPc /\ sock'[tS] = "free"
                         \/ tCmd = "EXIT"
                    /\ gHand /\ ~gHand' => mpc = "frame" /\ gPc' = gPc
                    /\ mpc = "frame" /\ mpc' = "load" =>
                         lPc = "done" \/ (lKind = "TCP" /\ lState = "ERR_RECEIVE")
  OBVIOUS
<1> USE DEF gecko, tcpLocals, tcp, net, main, load
<1>1. ASSUME tHand, ~tHand'
      PROVE  \/ mpc' = "load" /\ lKind' = "TCP" /\ lFd' = tS /\ lHdr' = tHdr
             \/ tPc' = tPc /\ sock'[tS] = "free"
             \/ tCmd = "EXIT"
  <2>1. tPc \in {"again", "woken", "wait"} /\ tS \in Fds /\ tState = "INITIALIZED"
        /\ tCmd \notin {"ACCEPT", "INIT"} /\ sock \in [Fds -> Conns \union {"free", "listen"}]
    BY <1>1 DEF IInv, Accepted, TcpOrder, TypeOK
  <2>2. CASE TcpNext
    BY <1>1, <2>1, <2>2 DEF TcpNext, TcpStart, TcpLock, TcpWait, TcpExitCmd, TcpInitCmd,
       TcpAcceptCmd, TcpNetInit, TcpListen, TcpAccept, TcpHeader, TcpExit, Dispatch
  <2>3. CASE Browse
    BY <1>1, <2>1, <2>3 DEF Browse, loader_tcp_init, loader_signal_threads, LoadFile,
       LoadGecko,
       LoadTcp, ShouldExit, StartThread
  <2>4. CASE GeckoNext \/ LoadNext \/ Loaded \/ Deinit \/ Halted \/ UNCHANGED vars
    BY <1>1, <2>4 DEF GeckoNext, GeckoStart, GeckoWake, GeckoRecv, LoadNext, LoadReceive,
       LoadClosed, Loaded, Deinit, DeinitTcp, TcpPostExit, TcpAwaitEnd, DeinitGecko,
       GeckoPostExit, GeckoJoin, Halted, vars
  <2> QED
    BY <2>2, <2>3, <2>4 DEF Next
<1>2. ASSUME gHand, ~gHand'
      PROVE  mpc = "frame" /\ gPc' = gPc
  <2>1. gCmd # "POLL" /\ gPc # "recv"
    BY <1>2 DEF IInv, GeckoOrder
  <2> QED
    BY <1>2, <2>1 DEF Next, GeckoNext, GeckoStart, GeckoWake, GeckoRecv, TcpNext, TcpStart,
       TcpLock, TcpWait, TcpExitCmd, TcpInitCmd, TcpAcceptCmd, TcpNetInit, TcpListen, TcpAccept,
       TcpHeader, TcpExit, Dispatch, LoadNext, LoadReceive, LoadClosed, Browse, loader_tcp_init,
       loader_signal_threads, LoadFile, LoadGecko, LoadTcp, ShouldExit, Loaded, Deinit,
       DeinitTcp, TcpPostExit, TcpAwaitEnd, DeinitGecko, GeckoPostExit, GeckoJoin, Halted, vars
<1>3. ASSUME mpc = "frame"
      PROVE  lPc = "done" \/ (lKind = "TCP" /\ lState = "ERR_RECEIVE")
  BY <1>3 DEF IInv, LoadOrder, TypeOK
<1> QED
  BY <1>1, <1>2, <1>3

\* A handshake that was accepted is not lost, and the load that takes it is
\* given its client's lengths and socket.
THEOREM HandshakesKept == Spec => HandshakeKept
<1>1. IInv => HeaderMatches
  BY DEF IInv, Accepted, Transferring, HeaderMatches
<1>2. IInv /\ HeaderMatches' /\ [Next]_vars =>
          [/\ tHand /\ ~tHand' =>
                \/ mpc' = "load" /\ lKind' = "TCP" /\ lFd' = tS /\ lHdr' = tHdr
                \/ tPc' = tPc /\ sock'[tS] = "free"
                \/ tCmd = "EXIT"
           /\ gHand /\ ~gHand' => mpc = "frame" /\ gPc' = gPc
           /\ HeaderMatches'
           /\ mpc = "frame" /\ mpc' = "load" =>
                 lPc = "done" \/ (lKind = "TCP" /\ lState = "ERR_RECEIVE")]_vars
  BY HandshakeStep
<1> QED
  BY <1>1, <1>2, Invariance, PTL DEF Spec, HandshakeKept
=============================================================================
