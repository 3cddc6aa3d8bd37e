------------------------------ MODULE Transfer ------------------------------
(***************************************************************************)
(* An upload from wiiload to the channel: what the client sends            *)
(* (wiiload/main.c, gecko.c), and how the channel receives it by parts and *)
(* against its timeouts (tcp_read of tcp.c; ld_gecko_func and ld_load_func *)
(* of loader.c).  LoaderThreads has the threads and the sockets, LoaderLoad *)
(* the buffers; here are the bytes between the two programs.               *)
(*                                                                         *)
(* A TCP connection keeps what belongs to one client; the USB Gecko is one *)
(* line for all of them, with a small FIFO that the channel flushes.       *)
(* A unit on the line is <<session, tag, value>>: four words of the header *)
(* and some bytes of the data ("d") and the arguments ("a") each.  Time is *)
(* counted in the sleeps of the receiver.                                  *)
(***************************************************************************)
EXTENDS Integers, Sequences

CONSTANTS
    Files,           \* what wiiload is started with
    MAX_ARGS_LEN, ARGS_MAX_LEN, LD_MAX_SIZE,
    MAX_BLOCK,       \* what one net_read is asked for (2048)
    TCP_BLOCK_SIZE,  \* what must arrive before TCP_BLOCK_RECV_TIMEOUT
    RecvTimeout,
    GeckoBlock,      \* what must arrive before LD_TIMEOUT (1024)
    GeckoTimeout,
    Fifo,            \* the Gecko's FIFO, and the network's buffers
    Sessions         \* bound: how often wiiload is started

\* Lengths and limits are numbers, and what is received at once never spans
\* more than one block of the clock.
ASSUME TransferAssumption ==
    /\ \A f \in Files :
          f.zip \in BOOLEAN /\ f.size \in Nat /\ f.csize \in Nat /\ f.argv \in Seq(Nat)
    /\ {MAX_ARGS_LEN, ARGS_MAX_LEN, LD_MAX_SIZE} \subseteq Nat
    /\ {RecvTimeout, GeckoTimeout, GeckoBlock, Fifo, Sessions} \subseteq Nat
    /\ MAX_BLOCK \in Nat /\ TCP_BLOCK_SIZE \in Nat \ {0} /\ MAX_BLOCK <= TCP_BLOCK_SIZE

VARIABLES
    via,                      \* is WIILOAD set to "tcp" or to "gecko"?
    cPc, ups, sent,           \* wiiload: its place, what it was started with, how much has left it
    line, conn,               \* units on their way; the TCP connection
    rPc, got, header,         \* the channel: units of the current tcp_read or receive
    clock, step,              \* since t; blocks of received for which t was set
    lost                      \* history: the sessions that lost units on the Gecko

client == <<cPc, ups, sent>>
receiver == <<rPc, got, header, clock, step>>
transferVars == <<via, client, line, conn, receiver, lost>>

---------------------------------------------------------------------------
(* main of wiiload: a ZIP goes as it is, another file compressed if that   *)
(* makes it smaller.  f.argv are the lengths of the arguments.             *)

Payload(f) ==
    IF ~f.zip /\ f.csize < f.size THEN [len |-> f.csize, un |-> f.size] ELSE [len |-> f.size, un |-> 0]

\* Each argument with its zero, and a zero behind the last.
ArgsLen(f) ==
    LET arg_pos[i \in 0..Len(f.argv)] == IF i = 0 THEN 0 ELSE arg_pos[i - 1] + f.argv[i] + 1
    IN  arg_pos[Len(f.argv)] + 1
ArgsFit(f) == ArgsLen(f) <= MAX_ARGS_LEN

Units(n, tag, len) == [i \in 1..len |-> <<n, tag, i>>]

\* The words of the header are written one by one, then the data and arguments.
Stream(n, f) ==
    <<<<n, "HAXX", 0>>, <<n, "args", ArgsLen(f)>>, <<n, "len", Payload(f).len>>, <<n, "un", Payload(f).un>>>>
        \o Units(n, "d", Payload(f).len) \o Units(n, "a", ArgsLen(f))

ArgsAt(f) == 4 + Payload(f).len

TransferInit ==
    /\ via \in {"tcp", "gecko"}
    /\ cPc = "idle" /\ ups = <<>> /\ sent = 0
    /\ line = <<>> /\ conn = "none"
    /\ rPc = "flush" /\ got = <<>> /\ header = <<>> /\ clock = 0 /\ step = 0
    /\ lost = {}

---------------------------------------------------------------------------
(* wiiload.                                                                *)

\* A previous connection is gone: the channel has closed it.
WiiloadStart ==
    /\ cPc = "idle" /\ Len(ups) < Sessions
    /\ \E f \in Files : ArgsFit(f) /\ ups' = Append(ups, f)
    /\ IF via = "tcp" THEN conn = "none" /\ line' = <<>> /\ conn' = "open" ELSE UNCHANGED <<line, conn>>
    /\ cPc' = "send" /\ sent' = 0
    /\ UNCHANGED <<via, receiver, lost>>

\* All that this run of wiiload has to send.
All == Stream(Len(ups), ups[Len(ups)])

\* send may take a part; gecko_write returns when the FIFO has taken all.
Send ==
    /\ cPc = "send" /\ sent < Len(All) /\ (via = "tcp" => conn = "open")
    /\ \E n \in 1..(Fifo - Len(line)) :
          /\ sent + n <= Len(All)
          /\ line' = line \o SubSeq(All, sent + 1, sent + n) /\ sent' = sent + n
    /\ UNCHANGED <<via, cPc, ups, conn, receiver, lost>>

\* An error closes the socket; on the Gecko an error in the data only ends
\* the data, and the arguments still follow.
SendFails ==
    /\ cPc = "send" /\ sent < Len(All)
    /\ LET a == ArgsAt(ups[Len(ups)]) IN
       IF via = "gecko" /\ sent \in 4..(a - 1)
       THEN sent' = a /\ UNCHANGED <<cPc, conn>>
       ELSE /\ cPc' = "failed"
            /\ conn' = IF conn = "open" THEN "shut" ELSE conn
            /\ UNCHANGED sent
    /\ lost' = lost \cup {Len(ups)}
    /\ UNCHANGED <<via, ups, line, receiver>>

Done ==
    /\ cPc = "send" /\ sent = Len(All)
    /\ cPc' = "done" /\ conn' = IF conn = "open" THEN "shut" ELSE conn
    /\ UNCHANGED <<via, ups, sent, line, receiver, lost>>

\* The user may try again, at once or not.
Again ==
    /\ cPc \in {"done", "failed"}
    /\ cPc' = "idle"
    /\ UNCHANGED <<via, ups, sent, line, conn, receiver, lost>>

Reset ==
    /\ conn = "open" /\ conn' = "reset" /\ line' = <<>>
    /\ UNCHANGED <<via, client, receiver, lost>>

Wiiload == WiiloadStart \/ Send \/ SendFails \/ Done \/ Again \/ Reset

---------------------------------------------------------------------------
(* The channel, waiting for a header.                                      *)

\* usb_flush, at the top of the Gecko thread's loop.
Flush ==
    /\ via = "gecko" /\ rPc \in {"flush", "accepted"}
    /\ line' = <<>>
    /\ lost' = lost \cup {line[i][1] : i \in 1..Len(line)}
    /\ rPc' = IF rPc = "flush" THEN "wait" ELSE "ready"
    /\ UNCHANGED <<via, client, conn, got, header, clock, step>>

\* main's LDGECKOCMD_POLL, or a connection that net_accept finds.
Poll ==
    /\ IF via = "gecko" THEN rPc = "wait" ELSE rPc = "flush" /\ conn # "none"
    /\ rPc' = "header" /\ got' = <<>> /\ clock' = 0 /\ step' = 0
    /\ UNCHANGED <<via, client, line, conn, header, lost>>

Wanted == IF rPc = "header" THEN 4 ELSE header.len + header.args
Waiting == rPc \in {"header", "load"} /\ Len(got) < Wanted

\* The limits of both header checks.
Valid(h) ==
    /\ h[1][2] = "HAXX" /\ h[2][2] = "args" /\ h[3][2] = "len" /\ h[4][2] = "un"
    /\ h[2][3] <= ARGS_MAX_LEN
    /\ h[3][3] \in 1..LD_MAX_SIZE /\ h[4][3] <= LD_MAX_SIZE

Words(h) == [session |-> h[1][1], args |-> h[2][3], len |-> h[3][3], un |-> h[4][3]]

\* Header is in: the upload is accepted, or the socket closed, or the line
\* flushed.
Check ==
    /\ rPc = "header" /\ Len(got) = 4
    /\ IF Valid(got)
       THEN /\ header' = Words(got) /\ rPc' = IF via = "gecko" THEN "accepted" ELSE "ready"
            /\ UNCHANGED conn
       ELSE rPc' = "flush" /\ conn' = "none" /\ UNCHANGED header
    /\ got' = <<>> /\ clock' = 0 /\ step' = 0
    /\ UNCHANGED <<via, client, line, lost>>

\* main calls loader_load.
Load ==
    /\ rPc = "ready"
    /\ rPc' = "load"
    /\ UNCHANGED <<via, client, line, conn, got, header, clock, step, lost>>

---------------------------------------------------------------------------
(* Receiving: tcp_read, and the loops of the Gecko.                        *)

Limit == IF via = "tcp" THEN RecvTimeout ELSE GeckoTimeout

\* Any part of what is there.
Take(most) ==
    \E n \in 1..most :
       /\ n <= Len(line) /\ n <= Wanted - Len(got)
       /\ got' = got \o SubSeq(line, 1, n) /\ line' = SubSeq(line, n + 1, Len(line))

\* t is set again with each further TCP_BLOCK_SIZE of received.
TcpReceive ==
    /\ via = "tcp" /\ Waiting /\ clock <= Limit /\ conn # "reset"
    /\ Take(MAX_BLOCK)
    /\ IF Len(got') \div TCP_BLOCK_SIZE > step
       THEN clock' = 0 /\ step' = step + 1
       ELSE UNCHANGED <<clock, step>>
    /\ UNCHANGED <<via, client, conn, rPc, header, lost>>

\* step is block here, what has come since t was set; the header has one t.
GeckoReceive ==
    /\ via = "gecko" /\ Waiting
    /\ Take(Fifo)
    /\ IF rPc = "header" THEN UNCHANGED <<clock, step>>
       ELSE LET block == step + Len(got') - Len(got) IN
            IF block >= GeckoBlock THEN clock' = 0 /\ step' = 0 ELSE step' = block /\ UNCHANGED clock
    /\ UNCHANGED <<via, client, conn, rPc, header, lost>>

\* Nothing is there, or not yet; net_read gives 0 for a closed connection too.
Sleep ==
    /\ rPc \in {"header", "load"} /\ clock <= Limit /\ conn # "reset"
    /\ Waiting \/ (via = "gecko" /\ rPc = "load")
    /\ clock' = clock + 1
    /\ UNCHANGED <<via, client, line, conn, rPc, got, header, step, lost>>

\* The Gecko's timeout is looked at after the last bytes too.
TimesOut ==
    /\ rPc \in {"header", "load"}
    /\ (clock > Limit /\ (Waiting \/ (via = "gecko" /\ rPc = "load"))) \/ (Waiting /\ conn = "reset")
    /\ rPc' = IF rPc = "load" THEN "failed" ELSE "flush"
    /\ conn' = "none" /\ got' = <<>> /\ clock' = 0 /\ step' = 0
    /\ UNCHANGED <<via, client, line, header, lost>>

\* A faulty version of Arrived: enough once the data is there.
ArrivedData ==
    /\ rPc = "load" /\ Len(got) >= header.len /\ (via = "gecko" => clock <= Limit)
    /\ rPc' = "success" /\ conn' = "none"
    /\ UNCHANGED <<via, client, line, got, header, clock, step, lost>>

\* The thread closes the socket.
Arrived ==
    /\ rPc = "load" /\ Len(got) = Wanted /\ (via = "gecko" => clock <= Limit)
    /\ rPc' = "success" /\ conn' = "none"
    /\ UNCHANGED <<via, client, line, got, header, clock, step, lost>>

\* main goes on.
Over ==
    /\ rPc \in {"success", "failed"}
    /\ rPc' = IF via = "gecko" THEN "wait" ELSE "flush"
    /\ got' = <<>> /\ header' = <<>> /\ clock' = 0 /\ step' = 0
    /\ UNCHANGED <<via, client, line, conn, lost>>

Channel == Flush \/ Poll \/ Check \/ Load \/ TcpReceive \/ GeckoReceive \/ Sleep \/ TimesOut \/ Arrived \/ Over

TransferNext == Wiiload \/ Channel

TransferSpec == TransferInit /\ [][TransferNext]_transferVars

\* The channel's threads run; the client and the network may stop for ever.
TransferFairness == WF_transferVars(Channel)

---------------------------------------------------------------------------
TransferTypeOK ==
    /\ cPc \in {"idle", "send", "done", "failed"} /\ Len(ups) <= Sessions
    /\ Len(line) <= Fifo /\ lost \subseteq 1..Sessions
    /\ conn \in {"none", "open", "shut", "reset"} /\ via \in {"tcp", "gecko"}
    /\ rPc \in {"flush", "wait", "header", "accepted", "ready", "load", "success", "failed"}
    /\ Len(got) <= 4 \/ rPc \in {"load", "success", "failed"}
    /\ clock \in 0..(Limit + 1)
    /\ via = "tcp" /\ rPc \in {"header", "load"} => step = Len(got) \div TCP_BLOCK_SIZE

\* What the channel takes for a program is what one client sent: all of its
\* data in order, with its own arguments behind.  On the Gecko a payload that
\* lost units (the flush after the handshake, a block that failed) can only
\* be completed by the next client's header, never by less or by noise.
TransferHonest ==
    /\ TransferTypeOK
    /\ rPc = "success" =>
          LET all == Stream(header.session, ups[header.session]) IN
          \/ got = SubSeq(all, 5, Len(all))
          \/ via = "gecko" /\ header.session \in lost /\ \E i \in 1..Len(got) : got[i][1] # header.session

\* Receiving comes to an end, whether the client goes on, stops or vanishes.
TransferEnds == rPc \in {"header", "load"} ~> rPc \notin {"header", "load"}
=============================================================================
