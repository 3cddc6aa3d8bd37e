----------------------------- MODULE MCNetwork -----------------------------
(* The three modules of the network, each by itself: part says which moves. *)
(*   LoaderThreads: one client, for what must come to an end.               *)
(*   HttpUpdate: lengths that are too small, right for both requests, right *)
(*   only for the download and too big for both.                            *)
(*   Transfer: a file that does not compress, one that does, one that is    *)
(*   too big, with one argument or two; two runs of wiiload.                 *)
EXTENDS LoaderThreads, HttpUpdate, Transfer

VARIABLE part

MCLens == 0..3

MCFiles ==
    {[size |-> 3, csize |-> 2, zip |-> FALSE, argv |-> <<0>>],
     [size |-> 4, csize |-> 2, zip |-> TRUE, argv |-> <<0>>],
     [size |-> 1, csize |-> 2, zip |-> FALSE, argv |-> <<0, 0>>]}

MCInit == Init /\ HttpInit /\ TransferInit /\ part \in {"threads", "http", "transfer"} /\ (part # "transfer" => via = "tcp")

\* wiiload is not started again, and the channel waits for ever.
UploadsOver == part = "transfer" /\ Len(ups) = Sessions /\ cPc = "idle" /\ rPc \in {"flush", "wait"}

MCNext ==
    /\ UNCHANGED part
    /\ \/ part = "threads" /\ Next /\ UNCHANGED <<httpVars, transferVars>>
       \/ part = "http" /\ HttpNext /\ UNCHANGED <<vars, transferVars>>
       \/ part = "transfer" /\ TransferNext /\ UNCHANGED <<vars, httpVars>>
       \/ UploadsOver /\ UNCHANGED <<vars, httpVars, transferVars>>

\* Fairness, HttpFairness and TransferFairness, each for the part that moves.
MCFairness ==
    /\ WF_vars(part = "threads" /\ Deinit) /\ WF_vars(part = "threads" /\ GeckoNext)
    /\ WF_httpVars(part = "http" /\ Busy) /\ WF_httpVars(part = "http" /\ HLocal)
    /\ WF_transferVars(part = "transfer" /\ Channel)

MCSpec == MCInit /\ [][MCNext]_<<part, vars, httpVars, transferVars>> /\ MCFairness

---------------------------------------------------------------------------
\* HttpEnds and TransferEnds: nobody waits for ever for a peer that does not
\* answer, the http thread and its caller no more than the loading thread.
ConnectionsEnd == HttpEnds /\ TransferEnds
=============================================================================
