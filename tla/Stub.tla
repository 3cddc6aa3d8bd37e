-------------------------------- MODULE Stub --------------------------------
(***************************************************************************)
(* The stub an application returns to (channelapp/stub): it takes over the *)
(* IPC registers in whatever state the application has left them, reloads  *)
(* IOS, and launches a title, the system menu if it cannot.                *)
(*                                                                         *)
(* IOS is not in the repository.  It answers each request once, in any     *)
(* order with what it still owes the application.  A title is launched     *)
(* with a ticket view of its own; the processor is then reset, which is    *)
(* the second acknowledgement when the title is an IOS.  A launch it       *)
(* refuses gets a reply and no second acknowledgement.                     *)
(***************************************************************************)
EXTENDS Integers, FiniteSets

CONSTANTS Titles,      \* what the application may have asked for in conf_titleID
          MY_TITLEID,  \* the channel
          StubFds,     \* handles of IOS, 0..31
          MaxStale     \* bound: requests the application has left unanswered

ASSUME StubAssumption == MY_TITLEID \in Titles /\ MaxStale \in Nat /\ StubFds \subseteq Nat /\ StubFds # {}

IosTitle == "ios"    \* 1-STUB_LOAD_IOS_VERSION
SysMenu == "menu"    \* 1-2
AllTitles == Titles \cup {IosTitle, SysMenu}
NoTitle == "none"
MaxViews == 4

VARIABLES
    spc,        \* where the stub is
    closing,    \* the handle reset_ios closes next
    wanted,     \* titleID of _main
    xtitle,     \* titleID of LaunchTitle
    cntviews,   \* the static of LaunchTitle
    tikviews,   \* whose views the static buffer has
    es,         \* es_fd
    ret,        \* ipc.result
    sent,       \* the stub's request that IOS works on, or "none"
    replies,    \* replies of IOS the stub has not seen: its own and stale ones
    given,      \* handles IOS has given out
    views,      \* IOS: how many tickets it has for a title, -1 for an error
    launched

stubVars == <<spc, closing, wanted, xtitle, cntviews, tikviews, es, ret, sent, replies, given, views, launched>>
launching == <<wanted, xtitle, cntviews, tikviews, views, launched>>

StubInit ==
    /\ spc = "flush" /\ closing = 0
    /\ \E magic \in BOOLEAN, t \in Titles : wanted = IF magic THEN t ELSE MY_TITLEID
    /\ xtitle = NoTitle /\ cntviews = 0 /\ tikviews = NoTitle /\ es = -1 /\ ret = 0
    /\ sent = "none" /\ replies \in {[mine |-> FALSE, stale |-> n] : n \in 0..MaxStale}
    /\ given \in SUBSET StubFds
    /\ views \in [AllTitles -> {-1, 0, MaxViews, MaxViews + 1}]
    /\ launched = NoTitle

\* Ten rounds of ipc_cleanup_reply, each for what has come by then.
ResetFlush ==
    /\ spc = "flush"
    /\ \E n \in 0..replies.stale : replies.stale - n <= 10 /\ replies' = [replies EXCEPT !.stale = n]
    /\ spc' = "closing"
    /\ UNCHANGED <<closing, launching, es, ret, sent, given>>

\* ipc_send_request with the ipc block cleared.
Request(op) == sent = "none" /\ sent' = op /\ ret' = 0

\* reset_ios closes every handle there can be; es_init opens ES.
Ask ==
    /\ \/ spc = "closing" /\ Request("close") /\ spc' = "closewait"
       \/ spc = "open1" /\ Request("open") /\ spc' = "openwait1"
       \/ spc = "open2" /\ Request("open") /\ spc' = "openwait2"
       \/ spc = "count" /\ Request("count") /\ spc' = "countwait"
       \/ spc = "views" /\ Request("views") /\ spc' = "viewswait"
    /\ UNCHANGED <<closing, launching, es, replies, given>>

\* IOS has done what the stub asked for.
Answer ==
    /\ sent \in {"close", "open", "count", "views"}
    /\ \/ /\ sent = "close" /\ given' = given \ {closing} /\ ret' \in {0, -1} /\ UNCHANGED <<cntviews, tikviews>>
       \/ /\ sent = "open"
          /\ \/ \E f \in StubFds \ given : given' = given \cup {f} /\ ret' = f
             \/ UNCHANGED given /\ ret' = -1
          /\ UNCHANGED <<cntviews, tikviews>>
       \/ /\ sent = "count"
          /\ IF es \in given /\ views[xtitle] >= 0
             THEN ret' = 0 /\ cntviews' = views[xtitle]
             ELSE ret' = -1 /\ UNCHANGED cntviews
          /\ UNCHANGED <<given, tikviews>>
       \/ /\ sent = "views"
          /\ IF es \in given /\ cntviews = views[xtitle]
             THEN ret' = 0 /\ tikviews' = IF cntviews > 0 THEN xtitle ELSE tikviews
             ELSE ret' = -1 /\ UNCHANGED tikviews
          /\ UNCHANGED <<given, cntviews>>
    /\ sent' = "none" /\ replies' = [replies EXCEPT !.mine = TRUE]
    /\ UNCHANGED <<spc, closing, wanted, xtitle, es, views, launched>>

Waiting == spc \in {"closewait", "openwait1", "openwait2", "countwait", "viewswait"}

\* ipc_recv_reply: a reply to another block is ignored.
IgnoreStale ==
    /\ Waiting /\ replies.stale > 0
    /\ replies' = [replies EXCEPT !.stale = @ - 1]
    /\ UNCHANGED <<spc, closing, launching, es, ret, sent, given>>

\* A faulty version of Mine: any reply is taken for the one that is awaited.
AnyReply ==
    \/ replies.stale > 0 /\ replies' = [replies EXCEPT !.stale = @ - 1]
    \/ replies.mine /\ replies' = [replies EXCEPT !.mine = FALSE]

Mine == replies.mine /\ replies' = [replies EXCEPT !.mine = FALSE]

GotClose ==
    /\ spc = "closewait" /\ Mine
    /\ closing' = closing + 1
    /\ spc' = IF \A f \in StubFds : f <= closing THEN "open1" ELSE "closing"
    /\ UNCHANGED <<launching, es, ret, sent, given>>

\* es_init; LaunchTitle begins: of IOS first, then of what is wanted.
GotOpen ==
    /\ spc \in {"openwait1", "openwait2"} /\ Mine
    /\ es' = ret
    /\ xtitle' = IF spc = "openwait1" THEN IosTitle ELSE wanted
    /\ spc' = IF ret < 0 THEN "fail" ELSE "count"
    /\ UNCHANGED <<closing, wanted, cntviews, tikviews, views, launched, ret, sent, given>>

\* Where _main goes on when LaunchTitle returns.
Returned ==
    \/ xtitle = IosTitle /\ spc' = "open2" /\ UNCHANGED xtitle
    \/ xtitle \notin {IosTitle, SysMenu} /\ spc' = "count" /\ xtitle' = SysMenu
    \/ xtitle = SysMenu /\ spc' = "fail" /\ UNCHANGED xtitle

GotCount ==
    /\ spc = "countwait" /\ Mine
    /\ IF ret < 0 \/ cntviews > MaxViews THEN Returned ELSE spc' = "views" /\ UNCHANGED xtitle
    /\ UNCHANGED <<closing, wanted, cntviews, tikviews, views, launched, es, ret, sent, given>>

GotViews ==
    /\ spc = "viewswait" /\ Mine
    /\ IF ret < 0 THEN Returned ELSE spc' = "launch" /\ UNCHANGED xtitle
    /\ UNCHANGED <<closing, wanted, cntviews, tikviews, views, launched, es, ret, sent, given>>

\* ios_ioctlvreboot waits for two acknowledgements, not for a reply.  A new
\* IOS knows nothing of the old one's requests and handles.
Launch ==
    /\ spc = "launch" /\ sent = "none"
    /\ IF tikviews = xtitle /\ views[xtitle] > 0
       THEN /\ given' = {} /\ replies' = [mine |-> FALSE, stale |-> 0]
            /\ IF xtitle = IosTitle
               THEN Returned /\ UNCHANGED launched
               ELSE launched' = xtitle /\ spc' = "launched" /\ UNCHANGED xtitle
       ELSE spc' = "hung" /\ UNCHANGED <<xtitle, given, replies, launched>>
    /\ UNCHANGED <<closing, wanted, cntviews, tikviews, views, es, ret, sent>>

StubRuns == ResetFlush \/ Ask \/ GotClose \/ GotOpen \/ GotCount \/ GotViews \/ Launch

StubOver == spc \in {"fail", "hung", "launched"} /\ UNCHANGED stubVars

StubNext == StubRuns \/ IgnoreStale \/ Answer \/ StubOver

\* The stub has the processor to itself, and IOS answers.
StubFairness == WF_stubVars(StubRuns) /\ WF_stubVars(IgnoreStale) /\ WF_stubVars(Answer)

StubSpec == StubInit /\ [][StubNext]_stubVars /\ StubFairness

---------------------------------------------------------------------------
Launchable(t) == views[t] \in 1..MaxViews

\* Whatever the application has left in the registers and in IOS, the stub
\* comes to an end with an IOS that answers.  Each answer it uses is the one
\* to its own request: a title that has tickets is launched, the system menu
\* only takes the place of one that has not, and the stub hangs, waiting for
\* the second acknowledgement of a refused launch, only for a title without
\* any ticket, for which it does not look at the number of views.
StubEnds ==
    /\ <>(spc \in {"fail", "hung", "launched"})
    /\ [](/\ spc = "launched" => \/ launched = wanted
                                 \/ launched = SysMenu /\ ~Launchable(wanted)
          /\ spc = "hung" => views[xtitle] = 0
          /\ spc = "fail" => es = -1 \/ ~(Launchable(wanted) \/ Launchable(SysMenu))
          /\ spc \in {"open1", "openwait1"} => given \subseteq {ret})
=============================================================================
