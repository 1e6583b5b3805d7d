-------------------------- MODULE MCLogUpdateHelper --------------------------
(* LogUpdateHelper<int64_t> with both sinks.  Unset = -1 is a legal value.  *)
EXTENDS LogUpdateHelper
MCUnset == -1
MCValue == {-1, 0, 1}
==============================================================================
