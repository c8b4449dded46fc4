---------------------------- MODULE MCSupervisor ----------------------------
(* Supervisor with a database and an application that requires it. *)
EXTENDS Supervisor

CONSTANTS db, app

BeforeApp == [u \in Units |-> IF u = app THEN {db} ELSE {}]

Load(notify, api, n, t) == [notify |-> notify, api |-> api, forks |-> n, time |-> t]

(* Boots of a database that declares itself ready, under a daemon that polls ... *)
Boots == Load({db}, {"boot", "poll"}, 4, 1)
(* ... and units started, stopped, restarted and reaped by hand. *)
Restarts == Load({}, {"start", "stop", "restart", "stop_all", "poll", "reap"}, 4, 3)

AllLoads == {Boots, Restarts}
RestartedByHand == {Load({db}, {"start", "restart"}, 3, 1)}
StartedTwice == {Load({db}, {"start", "poll"}, 3, 1)}
Crashing == {Load({}, {"start", "poll"}, 4, 4)}
=============================================================================
