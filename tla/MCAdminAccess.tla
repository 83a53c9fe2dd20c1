--------------------------- MODULE MCAdminAccess ----------------------------
(* The founder and two more addresses, interchangeable as the threads are. *)
EXTENDS AdminAccess, TLC

CONSTANTS founder, newcomer, other
Interchangeable == Permutations(Thread) \cup Permutations({newcomer, other})
=============================================================================
