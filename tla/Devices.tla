------------------------------ MODULE Devices ------------------------------
(***************************************************************************)
(* devices/: store.js, service.js, files.js, browser.js, reconciliation.js. *)
(* An action on a device of the user has a receipt before it is driven; one *)
(* receipt of a device is open at a time, and a receipt is closed by the    *)
(* driver's answer or by an operator's trusted source, once.               *)
(*                                                                         *)
(* Drivers run outside the process that waits for them: after a deadline or *)
(* a stop they may go on.  All file actions here name the same file; the    *)
(* driver's hard link creates it or finds it taken.  Content, URLs, owners  *)
(* and authority are left out.                                             *)
(*                                                                         *)
(* Operators ending in Mut are altered forms of the definition below them. *)
(* No action uses them; they show that a property can fail.                *)
(***************************************************************************)
EXTENDS Naturals, FiniteSets

CONSTANTS
  BrowserAction, FileAction,   \* request keys of the actions on one device
  MaxDeviceMishaps             \* bound: deadlines, stops and failed writes

DeviceAction == BrowserAction \cup FileAction

ASSUME DevicesAssumption == BrowserAction \cap FileAction = {} /\ MaxDeviceMishaps \in Nat

VARIABLES
  receipts,   \* iaic_device_operations: result of each request key
  driver,     \* what drives each action
  effects,    \* actions that took effect on the device
  file,       \* whether the name is taken
  waiting,    \* position of the call that opened each receipt
  deviceMishaps

deviceVars == <<receipts, driver, effects, file, waiting, deviceMishaps>>

DeviceTypeOK ==
  /\ receipts \in [DeviceAction -> {"absent", "open", "submitted", "not-executed"}]
  /\ driver \in [DeviceAction -> {"none", "running", "rejected", "ended"}]
  /\ effects \subseteq DeviceAction /\ file \in {"free", "taken"}
  /\ waiting \in [DeviceAction -> {"none", "begun", "driving", "submitted", "not-executed", "over"}]
  /\ deviceMishaps \in Nat

DeviceInit ==
  /\ receipts = [a \in DeviceAction |-> "absent"]
  /\ driver = [a \in DeviceAction |-> "none"]
  /\ effects = {} /\ file \in {"free", "taken"}
  /\ waiting = [a \in DeviceAction |-> "none"]
  /\ deviceMishaps = 0
-----------------------------------------------------------------------------
DeviceMishap == deviceMishaps < MaxDeviceMishaps /\ deviceMishaps' = deviceMishaps + 1

Waits(a, step) == waiting' = [waiting EXCEPT ![a] = step]

DeviceBusyMut == FALSE

DeviceBusy == \E a \in DeviceAction : receipts[a] = "open"

\* begin; a key that is known is answered from its receipt and never driven.
Begin(a) ==
  /\ receipts[a] = "absent" /\ ~DeviceBusy
  /\ receipts' = [receipts EXCEPT ![a] = "open"]
  /\ Waits(a, "begun")
  /\ UNCHANGED <<driver, effects, file, deviceMishaps>>

\* Authority is checked again behind the receipt.
Refused(a) ==
  /\ waiting[a] = "begun"
  /\ Waits(a, "not-executed")
  /\ UNCHANGED <<receipts, driver, effects, file, deviceMishaps>>

Drive(a) ==
  /\ waiting[a] = "begun"
  /\ Waits(a, "driving")
  /\ driver' = [driver EXCEPT ![a] = "running"]
  /\ UNCHANGED <<receipts, effects, file, deviceMishaps>>

(* PuppeteerPageDevice.execute, LocalDirectoryDevice.create *)

\* The page shows another URL, the root or the text is invalid, or the name is
\* taken: preflightRejected.
DriverRejects(a) ==
  /\ driver[a] = "running" /\ a \notin effects
  /\ driver' = [driver EXCEPT ![a] = "rejected"]
  /\ UNCHANGED <<receipts, effects, file, waiting, deviceMishaps>>

\* link makes the whole file appear at once, where no entry has its name.
Links(a) ==
  /\ a \in FileAction => file = "free"
  /\ file' = IF a \in FileAction THEN "taken" ELSE file

DriverActs(a) ==
  /\ driver[a] = "running" /\ a \notin effects
  /\ Links(a)
  /\ effects' = effects \cup {a}
  /\ UNCHANGED <<receipts, driver, waiting, deviceMishaps>>

\* It returns, or raises anything else, before or after the effect.
DriverEnds(a) ==
  /\ driver[a] = "running"
  /\ driver' = [driver EXCEPT ![a] = "ended"]
  /\ UNCHANGED <<receipts, effects, file, waiting, deviceMishaps>>

RejectionMut(a) == driver[a] # "ended"

Rejection(a) == driver[a] = "rejected"

\* What act and create make of the driver's answer; any other error, and the
\* deadline of the browser, leave the outcome unknown.
DriverAnswers(a) ==
  /\ waiting[a] = "driving"
  /\ IF Rejection(a) THEN Waits(a, "not-executed") /\ UNCHANGED deviceMishaps
     ELSE \/ driver[a] = "ended" /\ a \in effects /\ Waits(a, "submitted") /\ UNCHANGED deviceMishaps
          \/ driver[a] = "ended" /\ Waits(a, "over") /\ UNCHANGED deviceMishaps
          \/ driver[a] = "running" /\ a \in BrowserAction /\ Waits(a, "over") /\ DeviceMishap
  /\ UNCHANGED <<receipts, driver, effects, file>>

\* complete: the first result stays.
Completed(a, result) == IF receipts[a] = "open" THEN [receipts EXCEPT ![a] = result] ELSE receipts

Complete(a) ==
  /\ waiting[a] \in {"submitted", "not-executed"}
  /\ \/ receipts' = Completed(a, waiting[a]) /\ UNCHANGED deviceMishaps
     \/ UNCHANGED receipts /\ DeviceMishap
  /\ Waits(a, "over")
  /\ UNCHANGED <<driver, effects, file>>

CallStops(a) ==
  /\ waiting[a] \notin {"none", "over"} /\ DeviceMishap
  /\ Waits(a, "over")
  /\ UNCHANGED <<receipts, driver, effects, file>>

\* DeviceOperationReconciliation.resolve: the source confirms that the driver
\* has ended, or will never begin, and what it did.
ResolveReceipt(a) ==
  /\ receipts[a] = "open" /\ driver[a] # "running" /\ waiting[a] # "begun"
  /\ receipts' = Completed(a, IF a \in effects THEN "submitted" ELSE "not-executed")
  /\ UNCHANGED <<driver, effects, file, waiting, deviceMishaps>>

DeviceNext ==
  \E a \in DeviceAction : \/ Begin(a) \/ Refused(a) \/ Drive(a) \/ DriverRejects(a) \/ DriverActs(a) \/ DriverEnds(a)
                          \/ DriverAnswers(a) \/ Complete(a) \/ CallStops(a) \/ ResolveReceipt(a)

DeviceSpec == DeviceInit /\ [][DeviceNext]_deviceVars
-----------------------------------------------------------------------------
(* Property *)

\* A closed receipt tells what happened to the device and nothing can change it
\* any more, and the device is driven by one action at a time, although drivers
\* outlive deadlines and hosts, answers get lost, and an operator closes a
\* receipt while its call still waits (devices/store.js:6-20, service.js:8-19,
\* files.js:42-60 and 87-101, reconciliation.js:9-18).
DeviceReceiptsTrue ==
  /\ \A a \in DeviceAction :
       /\ receipts[a] = "submitted" => a \in effects
       /\ receipts[a] = "not-executed" => /\ a \notin effects
                                          /\ driver[a] # "running" /\ waiting[a] # "begun"
  /\ Cardinality({a \in DeviceAction : driver[a] = "running"}) <= 1
=============================================================================
