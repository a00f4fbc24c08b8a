---------------------------- MODULE MCSshConsole ----------------------------
(***************************************************************************)
(* Instances of SshConsole for TLC.                                        *)
(***************************************************************************)
EXTENDS SshConsole, TLC

CONSTANTS c1, c2, v1, v2, k1, k2

(* The first machine lists one key behind a commented-out other one and a  *)
(* line that cannot be decoded; the second lists both.                     *)
KeyLine(kind, k) == [kind |-> kind, key |-> k]

MCKeys(v) ==
  IF v = v1 THEN <<KeyLine("comment", k2), KeyLine("garbled", k2), KeyLine("key", k1)>>
            ELSE <<KeyLine("key", k2), KeyLine("key", k1)>>

MCSshKeys == [v \in Vm |-> MCKeys(v)]
=============================================================================
