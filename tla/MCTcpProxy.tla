----------------------------- MODULE MCTcpProxy -----------------------------
(* Small instances of TcpProxy for TLC.                                    *)
EXTENDS TcpProxy, TLC

\* Connections are interchangeable (safety runs only).
Symmetry == Permutations(Conns)
=============================================================================
