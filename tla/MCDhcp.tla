------------------------------- MODULE MCDhcp -------------------------------
(* Dhcp with a handful of addresses; stations are interchangeable.         *)
EXTENDS Dhcp, TLC

ClientSymmetry == Permutations(Clients)

\* Pools of two hosts, of one (clamped at the last host) and of three, and
\* configurations that are refused: no first host, no host at all, a pool that
\* starts at host 1.
Pools == {<<3, 2>>, <<4, 3>>, <<2, 3>>, <<0, 2>>, <<2, 0>>, <<1, 2>>}

\* A pool around the server's own address.
OwnPool == {<<2, 2>>}
=============================================================================
