---------------------------- MODULE OrderStates ----------------------------
(***************************************************************************)
(* The order state machine (core/order_state.py) and the way a broker      *)
(* acknowledgement is applied to it (_apply_ack_to_order of the            *)
(* orchestrator).  Pure operators: the modules that track orders keep the  *)
(* state per order and use these.                                          *)
(***************************************************************************)

OrderState == {"CREATED", "SUBMITTED", "ACKNOWLEDGED", "PARTIALLY_FILLED",
               "CANCEL_REQUESTED", "FILLED", "CANCELLED", "REJECTED", "EXPIRED"}

TerminalOrderStates == {"FILLED", "CANCELLED", "REJECTED", "EXPIRED"}

OrderAckStatus == {"ACKNOWLEDGED", "PARTIALLY_FILLED", "FILLED",
                   "CANCELLED", "REJECTED", "EXPIRED"}

\* The transition table; a terminal state has no successor.
OrderTransitions ==
    [s \in OrderState |->
        CASE s = "CREATED"          -> {"SUBMITTED"}
          [] s = "SUBMITTED"        -> {"ACKNOWLEDGED", "REJECTED"}
          [] s = "ACKNOWLEDGED"     -> {"PARTIALLY_FILLED", "FILLED",
                                        "CANCEL_REQUESTED", "CANCELLED",
                                        "EXPIRED", "REJECTED"}
          [] s = "PARTIALLY_FILLED" -> {"PARTIALLY_FILLED", "FILLED",
                                        "CANCEL_REQUESTED", "CANCELLED",
                                        "EXPIRED"}
          [] s = "CANCEL_REQUESTED" -> {"CANCELLED", "FILLED"}
          [] OTHER                  -> {}]

CanTransition(s, t) == t \in OrderTransitions[s]

\* Every status but REJECTED first acknowledges an order that is still SUBMITTED.
Acknowledged(s) == IF s = "SUBMITTED" THEN "ACKNOWLEDGED" ELSE s

\* The state an order in state s has after an ack with this status.  An ack
\* that the table does not allow is dropped with an alert and changes nothing.
ApplyAck(s, status) ==
    IF status = "REJECTED"
    THEN IF CanTransition(s, "REJECTED") THEN "REJECTED" ELSE s
    ELSE IF status # "ACKNOWLEDGED" /\ CanTransition(Acknowledged(s), status)
         THEN status
         ELSE Acknowledged(s)

\* A fill-like ack moves the position only with one of these statuses.
FillStatuses == {"FILLED", "PARTIALLY_FILLED"}
=============================================================================
