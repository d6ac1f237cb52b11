---------------------------- MODULE KernelStates ----------------------------
(***************************************************************************)
(* The transition tables of the kernel's three state machines: the         *)
(* system-wide macro states (kernel/macro.py), the micro states of one     *)
(* quote (kernel/micro.py) and the risk escalation levels                  *)
(* (core/escalation.py).  An edge that is not in the table makes           *)
(* StateMachine.transition raise IllegalTransition.                        *)
(***************************************************************************)

MacroTransitions ==
    [INIT               |-> {"DATA_SYNC", "SHUTDOWN"},
     DATA_SYNC          |-> {"READY", "DEGRADED"},
     READY              |-> {"BACKTEST_MODE", "PAPER_TRADING_MODE", "SHUTDOWN"},
     BACKTEST_MODE      |-> {"READY", "DEGRADED"},
     PAPER_TRADING_MODE |-> {"READY", "RISK_LOCKDOWN", "DEGRADED"},
     DEGRADED           |-> {"READY", "SHUTDOWN"},
     RISK_LOCKDOWN      |-> {"READY", "SHUTDOWN"},
     SHUTDOWN           |-> {}]

MacroState == DOMAIN MacroTransitions

TradingModes == {"BACKTEST_MODE", "PAPER_TRADING_MODE"}

MicroTransitions ==
    [WAITING_FOR_MARKET_EVENT |-> {"MARKET_EVENT_RECEIVED"},
     MARKET_EVENT_RECEIVED    |-> {"STATE_UPDATE"},
     STATE_UPDATE             |-> {"SENSOR_UPDATE", "FEATURE_COMPUTE"},
     SENSOR_UPDATE            |-> {"HORIZON_CHECK"},
     HORIZON_CHECK            |-> {"HORIZON_AGGREGATE", "FEATURE_COMPUTE"},
     HORIZON_AGGREGATE        |-> {"SIGNAL_GATE", "CROSS_SECTIONAL", "FEATURE_COMPUTE"},
     SIGNAL_GATE              |-> {"CROSS_SECTIONAL", "FEATURE_COMPUTE"},
     CROSS_SECTIONAL          |-> {"FEATURE_COMPUTE", "RISK_CHECK"},
     FEATURE_COMPUTE          |-> {"SIGNAL_EVALUATE"},
     SIGNAL_EVALUATE          |-> {"RISK_CHECK", "LOG_AND_METRICS"},
     RISK_CHECK               |-> {"ORDER_DECISION", "LOG_AND_METRICS"},
     ORDER_DECISION           |-> {"ORDER_SUBMIT", "LOG_AND_METRICS"},
     ORDER_SUBMIT             |-> {"ORDER_ACK"},
     ORDER_ACK                |-> {"POSITION_UPDATE"},
     POSITION_UPDATE          |-> {"LOG_AND_METRICS"},
     LOG_AND_METRICS          |-> {"WAITING_FOR_MARKET_EVENT", "RISK_CHECK",
                                   "FEATURE_COMPUTE"}]

MicroState == DOMAIN MicroTransitions

\* NORMAL -> WARNING -> BREACH_DETECTED -> FORCED_FLATTEN -> LOCKED -> NORMAL
RiskTransitions ==
    [NORMAL          |-> {"WARNING"},
     WARNING         |-> {"BREACH_DETECTED"},
     BREACH_DETECTED |-> {"FORCED_FLATTEN"},
     FORCED_FLATTEN  |-> {"LOCKED"},
     LOCKED          |-> {"NORMAL"}]

RiskLevel == DOMAIN RiskTransitions
=============================================================================
