--------------------------- MODULE MCLinkTracking ---------------------------
(***************************************************************************)
(* Three nodes in a line, the middle one sends on both of its links.  All  *)
(* trackings together, each alone, and configurations that are refused.    *)
(* Utilizations are multiples of 1/Interval; EpsInverse = 2 makes the      *)
(* compression merge intervals that differ, as 0.000001 does at scale.     *)
(***************************************************************************)
EXTENDS LinkTracking

MCLink    == {<<0, 1>>, <<1, 0>>, <<1, 2>>, <<2, 1>>}
MCWatched == <<1, 2>>

Num(n)      == <<n, 0>>
Text(v)     == [form |-> "plain", items |-> <<v>>]
Off         == [enabled |-> "false", links |-> Text("all")]
OnAll       == [enabled |-> "true", links |-> Text("all")]
On(pairs)   == [enabled |-> "1", links |-> [form |-> "set", items |->
                  [i \in DOMAIN pairs |-> <<Num(pairs[i][1]), Num(pairs[i][2])>>]]]

Tracking(end, device, qdisc, utilization) ==
  [end |-> end, tracking |-> [device |-> device, qdisc |-> qdisc, utilization |-> utilization],
   interval |-> Num(Interval), assignment |-> [n \in 0 .. 2 |-> IF n = 0 THEN 0 ELSE 1],
   qdiscs |-> MCLink]

OnlyDevice == [Tracking(4, OnAll, Off, OnAll) EXCEPT !.qdiscs = {}]

MCSettings == {
  Tracking(4, OnAll, On(<< <<1, 2>>, <<1, 0>> >>), Off),
  Tracking(6, Off, Off, On(<< <<1, 2>> >>)), Tracking(8, Off, Off, OnAll), OnlyDevice,
  Tracking(0, OnAll, OnAll, OnAll),
  Tracking(3, On(<< <<2, 1>>, <<1, 2>> >>), OnAll, On(<< <<0, 1>> >>)),
  [OnlyDevice EXCEPT !.tracking.qdisc = OnAll],
  [OnlyDevice EXCEPT !.interval = Num(0)],
  [OnlyDevice EXCEPT !.tracking.device = On(<< <<0, 2>> >>)],
  [OnlyDevice EXCEPT !.tracking.device = On(<< <<1, 1>> >>)],
  [OnlyDevice EXCEPT !.tracking.device = On(<< <<1, 2>>, <<1, 2>> >>)],
  [OnlyDevice EXCEPT !.tracking.utilization.enabled = "yes"]}
=============================================================================
