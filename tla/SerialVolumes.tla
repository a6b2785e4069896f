--------------------------- MODULE SerialVolumes ---------------------------
(***************************************************************************)
(* What the node service promises its caller about concurrency, without    *)
(* saying how: every request handler works on at most one volume, and no   *)
(* two handlers ever work on the same one.  A restart of the driver        *)
(* abandons all requests in flight.                                        *)
(*                                                                         *)
(* The node services are shown to implement this specification by the      *)
(* refinement mapping working <- the volume of each active handler.        *)
(***************************************************************************)
CONSTANTS Handlers, Volumes, NoVolume

VARIABLE working        \* the volume each handler is working on

Free(v) == \A g \in Handlers : working[g] # v

Init == working = [h \in Handlers |-> NoVolume]

Begin(h, v) ==
  /\ working[h] = NoVolume
  /\ Free(v)
  /\ working' = [working EXCEPT ![h] = v]

End(h) ==
  /\ working[h] # NoVolume
  /\ working' = [working EXCEPT ![h] = NoVolume]

Abandon == working' = [h \in Handlers |-> NoVolume]

Next ==
  \/ \E h \in Handlers, v \in Volumes : Begin(h, v)
  \/ \E h \in Handlers : End(h)
  \/ Abandon

Spec == Init /\ [][Next]_working

=============================================================================
