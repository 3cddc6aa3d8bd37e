----------------------------- MODULE MCStorage -----------------------------
(* What the channel keeps on the NAND and what it writes to the card, each  *)
(* by itself: part says which of the two moves.                             *)
(*   NandFiles: the default settings and two others, so that a save can go  *)
(*   from one to another and back to the default, and two themes.           *)
(*   Manage: two applications with a subdirectory, archives that install or *)
(*   overwrite one of them, and archives with signatures in every place,    *)
(*   for the search.                                                        *)
EXTENDS NandFiles, Manage

CONSTANT MaxZip  \* length of the archives for the search, longer than MaxBack

VARIABLE part

App(c) == <<c>>
Boot(c) == <<c, "boot.dol">>
Sub(c) == <<c, "data">>
Inner(c) == <<c, "data", "x">>

E(dirs, name, c, u, stored_) ==
    [dirs |-> dirs, name |-> name, legal |-> TRUE, c |-> c, u |-> u, stored |-> stored_,
     coherent |-> TRUE, real |-> u]

Zip(files) == [files |-> files, number_entry |-> Len(files), size |-> 8, sigs |-> {4}, end |-> 4]

Boots == E(<<"d">>, "boot.dol", 3, 5, FALSE)
Inners == E(<<"d", "data">>, "x", 3, 3, TRUE)
DirOf == E(<<"d">>, "data", 0, 0, TRUE)
MCZips ==
    {Zip(<<Boots, DirOf, Inners>>), Zip(<<Inners, Boots>>),
     Zip(<<Boots, [Inners EXCEPT !.coherent = FALSE]>>), Zip(<<Inners, [Boots EXCEPT !.real = Bad]>>),
     Zip(<<[Boots EXCEPT !.real = 4], Inners>>), Zip(<<[Boots EXCEPT !.real = 7], Inners>>),
     Zip(<<Boots, E(<<"e">>, "boot.dol", 1, 1, TRUE)>>), Zip(<<Boots, [Inners EXCEPT !.legal = FALSE]>>),
     [Zip(<<Boots, Inners>>) EXCEPT !.number_entry = 3],
     Zip(<<E(<<>>, "theme.xml", 1, 1, TRUE), E(<<>>, "theme.png", 1, 1, TRUE)>>)}
    \cup {[files |-> <<E(<<>>, "theme.xml", 1, 1, TRUE)>>, number_entry |-> 1, size |-> n, sigs |-> {p, q}, end |-> 3] :
             n \in {MaxZip}, p \in 0..(MaxZip - 4), q \in {2, 3, 8}}

SubPaths == UNION {{App(c), Boot(c), Sub(c), Inner(c)} : c \in {"d", "e"}}
Card(S) == [p \in SubPaths |-> IF p \notin S THEN "none" ELSE IF p \in {App("d"), App("e"), Sub("d"), Sub("e")} THEN "dir" ELSE "old"]
MCInstalled ==
    {Card({}), Card({App("d"), Boot("d"), Sub("d"), Inner("d"), App("e"), Boot("e")}),
     [Card({App("d"), Boot("d")}) EXCEPT ![Sub("d")] = "old"]}

MCInit ==
    /\ part \in {"nand", "card"}
    /\ Init /\ ManageInit
    /\ part = "nand" => card = Card({}) /\ root = {}
    /\ part = "card" => fs = [f \in Files |-> None] /\ titlepath

MCNext ==
    /\ UNCHANGED part
    /\ \/ part = "nand" /\ Next /\ UNCHANGED manageVars
       \/ part = "card" /\ ManageNext /\ UNCHANGED vars

MCSpec == MCInit /\ [][MCNext]_<<part, vars, manageVars>> /\ ManageFairness
=============================================================================
