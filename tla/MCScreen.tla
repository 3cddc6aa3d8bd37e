------------------------------ MODULE MCScreen ------------------------------
(* What the channel draws and the memory it does it in, each module by     *)
(* itself: part says which one moves.                                      *)
(*   Browser: a list of one and a grid of two columns, three applications, *)
(*     two of them with a date.                                            *)
(*   Screen: one bubble, and a console with BootMii, so that every menu    *)
(*     has all of its entries.                                             *)
(*   BlobStack: an arena of a few cells.  Word is well above its top and   *)
(*     the sizes are not multiples of the alignment, so both the rounding  *)
(*     and the slack check decide.                                         *)
EXTENDS Browser, Screen, BlobStack

CONSTANTS a1, a2, a3

VARIABLE part

MCListing == <<a2, a1, a3>>
MCOrder == [NAME |-> <<a1, a2, a3>>, DATE |-> <<a3, a1, a2>>]

MCSizes == {3, 4, 9}

MCInit ==
    /\ part \in {"browser", "screen", "blobs"}
    /\ BrowserInit /\ ScreenInit /\ Init
    /\ part # "browser" => sort = "NAME" /\ columns_new = 1

MCNext ==
    /\ UNCHANGED part
    /\ \/ part = "browser" /\ BrowserNext /\ UNCHANGED <<screenVars, vars>>
       \/ part = "screen" /\ ScreenNext /\ UNCHANGED <<browserVars, vars>>
       \/ part = "blobs" /\ Next /\ UNCHANGED <<browserVars, screenVars>>

MCSpec == MCInit /\ [][MCNext]_<<part, browserVars, screenVars, vars>>
=============================================================================
