----------------------------- MODULE MCOperations -----------------------------
(* The host process and what runs beside the loop, for TLC.  They share no *)
(* variable of the models, so one of them runs in each behaviour.          *)
EXTENDS MCRunLoop, Supervision, Orders, RemoteLog, Dashboard

Gains == {-2, 3}
ZeroOrOne == {0, 1}

VARIABLE machine   \* whose behaviour this is

OperationsInit ==
  /\ machine \in {"loop", "runs", "orders", "log", "pages"}
  /\ Init /\ SupervisionInit /\ RemoteLogInit /\ DashboardInit
  /\ IF machine = "orders" THEN OrdersInit
     ELSE /\ setup = CHOOSE s \in Setups : TRUE
          /\ account = "active" /\ second = 0 /\ life = 1
          /\ client = "unbuilt" /\ seen = {} /\ desk = Idle
          /\ orders = <<>> /\ fills = <<>> /\ held = 0 /\ unheard = 0

LoopRuns ==
  /\ machine = "loop" /\ Next
  /\ UNCHANGED <<supervisionVars, ordersVars, remoteLogVars, dashboardVars, machine>>
RunsRun ==
  /\ machine = "runs" /\ SupervisionNext
  /\ UNCHANGED <<vars, ordersVars, remoteLogVars, dashboardVars, machine>>
OrdersRun ==
  /\ machine = "orders" /\ OrdersNext
  /\ UNCHANGED <<vars, supervisionVars, remoteLogVars, dashboardVars, machine>>
LogRuns ==
  /\ machine = "log" /\ RemoteLogNext
  /\ UNCHANGED <<vars, supervisionVars, ordersVars, dashboardVars, machine>>
PagesAreRead ==
  /\ machine = "pages" /\ DashboardNext
  /\ UNCHANGED <<vars, supervisionVars, ordersVars, remoteLogVars, machine>>

OperationsNext == LoopRuns \/ RunsRun \/ OrdersRun \/ LogRuns \/ PagesAreRead
OperationsSpec ==
  OperationsInit
    /\ [][OperationsNext]_<<vars, supervisionVars, ordersVars, remoteLogVars, dashboardVars, machine>>
=============================================================================
