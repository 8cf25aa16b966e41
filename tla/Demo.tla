-------------------------------- MODULE Demo ---------------------------------
(***************************************************************************)
(* The program src/demo/main.cpp: one thread that creates a service with   *)
(* JHttpCreateService (src/src/jhttpd.cpp), gives it a responder and an    *)
(* output device, runs it beside itself, sleeps for two minutes, stops it  *)
(* and destroys it.  The service is that of Service.tla, the only user is  *)
(* the main thread.                                                        *)
(***************************************************************************)
EXTENDS Service

CONSTANTS
    main,       \* the main thread, the only one of Users
    resp        \* its JResp, the only one of Resps

VARIABLES
    s,      \* whether the pointer s is not null
    mpc     \* where main is

mainVars == <<s, mpc>>
demoVars == <<vars, mainVars>>

DemoInit == Init /\ s = FALSE /\ mpc = "create"

MainAt(p) == crashed = "no" /\ mpc = p

-----------------------------------------------------------------------------

(* Env::good: the socket library is initialised, once in the process.      *)
Create ==
    /\ MainAt("create")
    /\ s' = TRUE
    /\ mpc' = "addResp"
    /\ UNCHANGED vars

(* WSAStartup fails (Windows only): no service.                            *)
CreateFails ==
    /\ MainAt("create")
    /\ Fail
    /\ mpc' = "destroy"
    /\ UNCHANGED <<serviceVars, configVars, serverVars, loopVars, userVars, conn,
                   crashed, launchFailed, s>>

AddJResp ==
    /\ MainAt("addResp")
    /\ AddResp(main, resp)
    /\ mpc' = "setLog"
    /\ UNCHANGED s

(* What becomes of the device is in Logger.tla. *)
SetLog ==
    /\ MainAt("setLog")
    /\ mpc' = "run"
    /\ UNCHANGED <<vars, s>>

Run ==
    /\ MainAt("run")
    /\ RunBegin(main, FALSE)
    /\ mpc' = "in run"
    /\ UNCHANGED s

(* Nobody catches what run throws.                                         *)
InRun ==
    /\ MainAt("in run")
    /\ RunStep(main)
    /\ mpc' = IF RunCreateThrows(main) \/ RunLaunchThrows(main) THEN "terminated"
              ELSE IF upc'[main] = "idle" THEN "sleep"
              ELSE mpc
    /\ UNCHANGED s

(* Two minutes, whether run has failed or not. *)
Sleep ==
    /\ MainAt("sleep")
    /\ mpc' = "stop"
    /\ UNCHANGED <<vars, s>>

Stop ==
    /\ MainAt("stop")
    /\ StopBegin(main)
    /\ mpc' = "in stop"
    /\ UNCHANGED s

InStop ==
    /\ MainAt("in stop")
    /\ StopLock(main) \/ StopStep(main)
    /\ mpc' = IF upc'[main] = "idle" THEN "destroy" ELSE mpc
    /\ UNCHANGED s

DestroyService ==
    /\ MainAt("destroy")
    /\ IF s THEN Destroy ELSE UNCHANGED vars
    /\ mpc' = "returned"
    /\ UNCHANGED s

MainStep ==
    \/ Create
    \/ CreateFails
    \/ AddJResp
    \/ SetLog
    \/ Run
    \/ InRun
    \/ Sleep
    \/ Stop
    \/ InStop
    \/ DestroyService

(* The threads of the service and its clients; as the standard input   *)
(* stays open, no client is given descriptor 0.                            *)
Rest ==
    /\ mpc \notin {"returned", "terminated"}
    /\ \/ LoopStep
       \/ LoopAcceptFails
       \/ \E c \in Conns : Connect(c) \/ ServeStart(c) \/ ServeEnd(c)
    /\ UNCHANGED mainVars

(* The process has ended. *)
Ended ==
    /\ crashed # "no" \/ mpc \in {"returned", "terminated"}
    /\ UNCHANGED demoVars

DemoNext == MainStep \/ Rest \/ Ended

(* As in Service; main runs when it can. *)
DemoFairness ==
    /\ WF_demoVars(MainStep)
    /\ WF_demoVars((LoopStep \/ LoopWoken) /\ UNCHANGED mainVars)
    /\ \A c \in Conns :
          /\ SF_demoVars(LoopAccept(c) /\ UNCHANGED mainVars)
          /\ SF_demoVars(ServeStart(c) /\ UNCHANGED mainVars)
          /\ WF_demoVars(ServeEnd(c) /\ UNCHANGED mainVars)

DemoSpec == DemoInit /\ [][DemoNext]_demoVars /\ DemoFairness

-----------------------------------------------------------------------------
(* What the demo says.                                                     *)

(* main.cpp:281-282, "sleep_for(std::chrono::minutes(2)); s->stop();": the *)
(* program ends, with or without clients.                                  *)
DemoEnds == <>(mpc \in {"returned", "terminated"} \/ crashed # "no")

=============================================================================
