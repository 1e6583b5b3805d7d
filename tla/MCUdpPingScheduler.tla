------------------------- MODULE MCUdpPingScheduler -------------------------
(***************************************************************************)
(* Two clients that share the one port of their node one after the other,  *)
(* two from different nodes, and files that are refused.                   *)
(***************************************************************************)
EXTENDS UdpPingScheduler

Num(n) == <<n, 0>>
Line(id, from, to, interval, start, duration, wait) ==
  [id |-> Num(id), from |-> Num(from), to |-> Num(to), interval |-> Num(interval),
   start |-> Num(start), duration |-> Num(duration), wait |-> Num(wait)]

OnePortForTwo == <<Line(0, 0, 1, 1, 0, 2, 0), Line(1, 0, 1, 2, 3, 3, 1)>>
FromBothEnds  == <<Line(0, 0, 1, 2, 1, 3, 1), Line(1, 1, 0, 1, 1, 0, 0)>>

MCSchedule == {
  OnePortForTwo, FromBothEnds, <<>>, <<Line(0, 1, 0, 3, 4, 2, 2)>>,
  <<Line(1, 0, 1, 1, 0, 1, 0)>>, <<Line(0, 0, 1, 0, 0, 1, 0)>>, <<Line(0, 0, 0, 1, 0, 1, 0)>>,
  <<Line(0, 0, 2, 1, 0, 1, 0)>>, <<Line(0, 0, 1, 1, 5, 1, 0)>>,
  <<[Line(0, 0, 1, 1, 0, 1, 0) EXCEPT !.wait = <<-1, 0>>]>>,
  <<Line(0, 0, 1, 1, 1, 1, 0), Line(1, 0, 1, 1, 0, 1, 0)>>}
=============================================================================
