------------------------------- MODULE Driver -------------------------------
(***************************************************************************)
(* The event-driven kernel of the simulator (src/src/MemSys/driver.c and   *)
(* act.c): the main loop of DriverRun takes the activities of the current  *)
(* simulation time from the event list, one after the other, runs the body *)
(* of each, and advances the time to that of the next.  A body schedules   *)
(* other events (ActivitySchedTime), reschedules its own                   *)
(* (EventReschedTime) or stops the driver (DriverInterrupt); between two   *)
(* runs the user schedules events or resets the driver.  All events are    *)
(* NODELETE, as everywhere in the simulator.                               *)
(***************************************************************************)
EXTENDS Evlst

CONSTANTS
  Delays,      \* time increments of the scheduling calls
  Durations,   \* of a DriverRun; 0 runs until the event list is empty
  MaxSerial    \* bound on the number of insertions

ASSUME DriverAssumption == /\ Delays \subseteq Nat
                           /\ Durations \subseteq Nat
                           /\ MaxSerial \in Nat

VARIABLES
  driver,    \* user (DriverRun is not running), loop, or body of an event
  simtime,   \* YS__Simtime
  simUpTo,   \* end of this DriverRun, -1 for none
  stopFlag,
  active,    \* YS__ActEvnt
  status     \* per event

driverVars == <<driver, simtime, simUpTo, stopFlag, active, status>>
vars       == <<evlstVars, driverVars>>

OnList == {e.act : e \in Elements}

(* Scheduling an event puts it on the list at once; a delay of 0 goes      *)
(* through the ready list, which is the part of the event list at the      *)
(* current time.  The callers do not schedule an event that is pending.    *)
Schedule(a, inc) ==
  /\ serial < MaxSerial
  /\ simtime + inc \in Times
  /\ a \notin OnList
  /\ EventListInsert(a, simtime + inc)
  /\ status' = [status EXCEPT ![a] = IF inc = 0 THEN "READY" ELSE "DELAYED"]
  /\ UNCHANGED <<driver, simtime, simUpTo, stopFlag, active>>

ActivitySchedTime(a, inc) ==
  /\ driver \in {"user", "body"}
  /\ status[a] \in {"RUNNING", "LIMBO"}
  /\ Schedule(a, inc)

EventReschedTime(inc) ==
  /\ driver = "body"
  /\ Schedule(active, inc)

DriverInterrupt ==
  /\ driver = "body"
  /\ stopFlag' = 1
  /\ UNCHANGED <<evlstVars, driver, simtime, simUpTo, active, status>>

DriverRun(time) ==
  /\ driver = "user" /\ pc = "idle"
  /\ simUpTo' = IF time > 0 THEN simtime + time ELSE -1
  /\ stopFlag' = 0
  /\ driver' = "loop"
  /\ UNCHANGED <<evlstVars, simtime, active, status>>

(* The next activity of the current time occurs.                           *)
Occur ==
  /\ driver = "loop"
  /\ EventListHeadval = simtime
  /\ EventListGetHead
  /\ active' = returned'.act
  /\ status' = [status EXCEPT ![active'] = "RUNNING"]
  /\ driver' = "body"
  /\ UNCHANGED <<simtime, simUpTo, stopFlag>>

(* The body returns.  The event is LIMBO even if it rescheduled itself.    *)
BodyReturns ==
  /\ driver = "body" /\ pc = "idle"
  /\ status' = [status EXCEPT ![active] = "LIMBO"]
  /\ active' = NULL
  /\ driver' = IF stopFlag # 0 THEN "user" ELSE "loop"
  /\ UNCHANGED <<evlstVars, simtime, simUpTo, stopFlag>>

(* The time advances to that of the next activity, or to the end of the    *)
(* run; with an empty list the run ends.                                   *)
Advance ==
  /\ driver = "loop" /\ pc = "idle"
  /\ EventListHeadval # simtime
  /\ LET over == simUpTo > 0 /\ EventListHeadval > simUpTo
         none == EventListHeadval < 0
     IN /\ simtime' = IF none THEN simtime ELSE IF over THEN simUpTo ELSE EventListHeadval
        /\ driver' = IF none \/ over THEN "user" ELSE "loop"
  /\ UNCHANGED <<evlstVars, simUpTo, stopFlag, active, status>>

DriverReset ==
  /\ driver = "user"
  /\ EventListInit
  /\ simtime' = 0
  /\ stopFlag' = 0
  /\ active' = NULL
  /\ status' = [a \in Activities |-> "LIMBO"]
  /\ UNCHANGED <<driver, simUpTo>>

DriverInit ==
  /\ Init
  /\ driver = "user"
  /\ simtime = 0 /\ simUpTo = -1 /\ stopFlag = 0
  /\ active = NULL
  /\ status = [a \in Activities |-> "LIMBO"]

DriverNext ==
  \/ CalQueResize /\ UNCHANGED driverVars
  \/ \E a \in Activities, inc \in Delays : ActivitySchedTime(a, inc)
  \/ \E inc \in Delays : EventReschedTime(inc)
  \/ DriverInterrupt
  \/ \E time \in Durations : DriverRun(time)
  \/ Occur
  \/ BodyReturns
  \/ Advance
  \/ DriverReset

DriverSpec == DriverInit /\ [][DriverNext]_vars

(* Simulated time is right: while the driver runs, it never passes an      *)
(* event that is still on the list, and an event occurs at the time it was *)
(* scheduled for, whatever bodies schedule and however the event list      *)
(* resizes itself between two events.                                      *)
NothingOverdue ==
  /\ \A e \in Elements : e.time >= simtime
  /\ driver = "body" => returned.time = simtime /\ returned.act = active
=============================================================================
