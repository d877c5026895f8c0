------------------------------ MODULE MCToken -------------------------------
(***************************************************************************)
(* AuthToken and Sha1 in one run.  They share no variable: the context is  *)
(* the caller's alone, and of a hash AuthToken takes only its number.  A   *)
(* step of one commutes with every step of the other, so that each is      *)
(* explored in full while the other is in its first state.                 *)
(***************************************************************************)
EXTENDS AuthToken, Sha1

\* Files of every length: they end at every index of a block, just fit the counters (31
\* bytes), just do not (32), and are longer than what is read of them.
MCFiles == {Content(1, length) : length \in 0..41}
MCStrings == {Content(2, length) : length \in 0..16}

MCInit == Init /\ HashInit
MCNext == \/ HashInit /\ Next /\ UNCHANGED hashVars
          \/ Init /\ HashNext /\ UNCHANGED vars
MCSpec == MCInit /\ [][MCNext]_<<vars, hashVars>> /\ Fairness

=============================================================================
