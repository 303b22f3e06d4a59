--------------------------- MODULE MCAlarmService ---------------------------
(* Camera tables for the model checking of AlarmService: a camera with two *)
(* phones and one without an ip; two cameras, one with a short number; two *)
(* cameras with the same ip, one of them without a usable port.            *)
EXTENDS AlarmService

Camera(ip, portOk, phones) == [ip |-> ip, portOk |-> portOk, phones |-> phones]

MCCameraTables ==
    { << Camera("a", TRUE, <<"p", "q">>), Camera(NoIp, TRUE, <<"p">>) >>,
      << Camera("a", TRUE, <<"p">>), Camera("b", TRUE, <<"q", "short">>) >>,
      << Camera("a", FALSE, <<"p", "q">>), Camera("a", TRUE, <<"r">>) >> }

(* Motion detection off, and on; the two differ in all the rest as well,   *)
(* and neither has the sensitivity the service gives.                      *)
MCPicCfgs ==
    { [on |-> FALSE, sensitive |-> 2, other |-> "x"],
      [on |-> TRUE, sensitive |-> 3, other |-> "y"] }

=============================================================================
