-------------------------- MODULE MCLoaderThreads --------------------------
(* LoaderThreads on small instances: two clients, so that one can connect  *)
(* while the other is served, and a descriptor more than the listening     *)
(* socket and the two of them need, so that numbers are reused.            *)
EXTENDS LoaderThreads, TLC

Symmetry == Permutations(Conns) \union Permutations(Fds)
=============================================================================
