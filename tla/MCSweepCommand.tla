--------------------------- MODULE MCSweepCommand ---------------------------
(* Small instances of SweepCommand: the operator alone in the pool, or     *)
(* with the forwarder listed beside it.                                    *)
EXTENDS SweepCommand

CONSTANTS op, fwd

PoolAndForwarder == {op, fwd}
Lists == {<<op>>, <<op, fwd>>}
Targets == {<<2>>, <<1, 1>>}
=============================================================================
