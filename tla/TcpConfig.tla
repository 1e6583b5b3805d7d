------------------------------ MODULE TcpConfig ------------------------------
(***************************************************************************)
(* The TCP settings of basic-sim (tcp-config-helper.cc).  ns-3 keeps the   *)
(* initial values of its attributes in a table of the process, which new   *)
(* sockets take over; the helper overwrites it.  Times are in ms.          *)
(***************************************************************************)
EXTENDS ExpUtil

Default == [
    ClockGranularity |-> 1,      InitialCwnd |-> 10,      SndBufSize |-> 131072,
    RcvBufSize |-> 131072,       SegmentSize |-> 536,     Timestamp |-> TRUE,
    Sack |-> TRUE,               WindowScaling |-> TRUE,  EnablePacing |-> FALSE,
    DelAckCount |-> 2,           TcpNoDelay |-> TRUE,     MaxSegLifetime |-> 120000,
    MinRto |-> 1000,             InitialEstimation |-> 1000,
    ConnTimeout |-> 3000,        DelAckTimeout |-> 200,   PersistTimeout |-> 6000]

Attribute == DOMAIN Default
Switch == {"Timestamp", "Sack", "WindowScaling", "EnablePacing", "TcpNoDelay"}

\* ConfigureBasic: as Linux has it, which mostly is what ns-3 has.
BasicBuffers  == [SndBufSize |-> 131072 * 8192, RcvBufSize |-> 131072 * 8192,
                  InitialCwnd |-> 10, ClockGranularity |-> 1, SegmentSize |-> 1380]
BasicOptions  == [Timestamp |-> TRUE, Sack |-> TRUE, WindowScaling |-> TRUE,
                  EnablePacing |-> FALSE, DelAckCount |-> 2, TcpNoDelay |-> TRUE]
BasicTimeouts == [MaxSegLifetime |-> 120000, MinRto |-> 200, InitialEstimation |-> 1000,
                  ConnTimeout |-> 1000, DelAckTimeout |-> 200, PersistTimeout |-> 6000]

Basic == [a \in Attribute |->
            IF a \in DOMAIN BasicBuffers THEN BasicBuffers[a]
            ELSE IF a \in DOMAIN BasicOptions THEN BasicOptions[a] ELSE BasicTimeouts[a]]

\* The configuration key that ConfigureCustom reads an attribute from.
KeyOf == [
    ClockGranularity |-> "tcp_clock_granularity_ns",   InitialCwnd |-> "tcp_init_cwnd_pkt",
    SndBufSize |-> "tcp_snd_buf_size_byte",            RcvBufSize |-> "tcp_rcv_buf_size_byte",
    SegmentSize |-> "tcp_segment_size_byte",           Timestamp |-> "tcp_opt_timestamp_enabled",
    Sack |-> "tcp_opt_sack_enabled",          WindowScaling |-> "tcp_opt_win_scaling_enabled",
    EnablePacing |-> "tcp_opt_pacing_enabled", DelAckCount |-> "tcp_delayed_ack_packet_count",
    TcpNoDelay |-> "tcp_no_delay",                     MaxSegLifetime |-> "tcp_max_seg_lifetime_ns",
    MinRto |-> "tcp_min_rto_ns",         InitialEstimation |-> "tcp_initial_rtt_estimate_ns",
    ConnTimeout |-> "tcp_connection_timeout_ns", DelAckTimeout |-> "tcp_delayed_ack_timeout_ns",
    PersistTimeout |-> "tcp_persist_timeout_ns"]

CustomKeys == Range(KeyOf)

IsCustomValue(a, v) ==
    IF a \in Switch THEN IsBoolean(v.items[1]) ELSE IsPositive(v.items[1])

IsCustom(config) ==
    \A a \in Attribute : HasParam(config, KeyOf[a]) /\ IsCustomValue(a, config[KeyOf[a]])

Custom(config) == [a \in Attribute |->
    LET text == config[KeyOf[a]].items[1]
    IN  IF a \in Switch THEN Boolean(text) ELSE Int64(text)]

\* SetTcpAttributes aborts at the first attribute that is not at ns-3's default.
CanSetTcpAttributes(table) == table = Default

\* Configure, as the table it leaves behind; <<>> when it throws or aborts.
Configured(table, config) ==
    LET type == IF HasParam(config, "tcp_config") THEN config["tcp_config"].items[1] ELSE "none"
    IN  CASE type = "default" -> table
          [] type = "basic" /\ CanSetTcpAttributes(table) -> Basic
          [] type = "custom" /\ IsCustom(config) /\ CanSetTcpAttributes(table) -> Custom(config)
          [] OTHER -> <<>>

KeysRead(config) == {"tcp_config"} \cup
    IF HasParam(config, "tcp_config") /\ config["tcp_config"].items[1] = "custom"
    THEN CustomKeys ELSE {}
==============================================================================
