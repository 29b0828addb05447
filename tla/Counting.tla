------------------------------ MODULE Counting ------------------------------
(***************************************************************************)
(* Counting in queues and in channels, as cardinalities of sets of places. *)
(***************************************************************************)
EXTENDS Integers, Sequences, FiniteSets

\* The positions of the message m in the queue s.
Positions(s, m) == {i \in 1..Len(s) : s[i] = m}

Count(s, m) == Cardinality(Positions(s, m))

\* The messages that the channels of the ports P hold, as <<port, rank>>, when
\* chan[p] is the number of those in p and a channel holds at most cap.
Places(chan, P, cap) == {w \in P \X (1..cap) : w[2] <= chan[w[1]]}

\* The greatest number of a finite non-empty set.
Greatest(S) == CHOOSE j \in S : \A k \in S : k <= j
=============================================================================
