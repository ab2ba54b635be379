--------------------------- MODULE ServiceProofs ---------------------------
(***************************************************************************)
(* What the services beside the Task store promise, for every value of      *)
(* their constants: device receipts, sandbox verdicts, the outbox, payments *)
(* and the event feed.  Each section has its inductive invariant, a lemma   *)
(* for each step and the theorem.                                          *)
(***************************************************************************)
EXTENDS Devices, Sandbox, Outbox, Payments, EventFeed, Sums, WellFoundedInduction, TLAPS
-----------------------------------------------------------------------------
(* Devices: receipts tell what the driver did, for any actions and mishaps *)

\* Begin locks the device: one receipt is open.
OneOpen == \A a, b \in DeviceAction : receipts[a] = "open" /\ receipts[b] = "open" => a = b

\* What the call that opened the receipt of an action, and its driver, know.
Knows(a) ==
  /\ receipts[a] = "absent" => waiting[a] = "none" /\ driver[a] = "none"
  /\ driver[a] = "none" => a \notin effects
  /\ driver[a] = "running" => receipts[a] = "open"
  /\ driver[a] = "rejected" => a \notin effects
  /\ waiting[a] = "begun" => receipts[a] = "open" /\ driver[a] = "none"
  /\ waiting[a] = "driving" => driver[a] # "none"
  /\ waiting[a] = "submitted" => driver[a] = "ended" /\ a \in effects
  /\ waiting[a] = "not-executed" => driver[a] \in {"none", "rejected"}
  /\ receipts[a] = "submitted" => a \in effects
  /\ receipts[a] = "not-executed" => a \notin effects

DeviceInv == DeviceTypeOK /\ OneOpen /\ \A a \in DeviceAction : Knows(a)

LEMMA InitiallyKnown == DeviceInit => DeviceInv
  BY DEF DeviceInit, DeviceInv, DeviceTypeOK, OneOpen, Knows

\* A step of one action leaves the rows of the others alone.
LEMMA OthersKnow ==
  ASSUME DeviceInv, NEW a \in DeviceAction, NEW b \in DeviceAction, b # a,
         receipts'[b] = receipts[b], driver'[b] = driver[b], waiting'[b] = waiting[b],
         b \in effects' <=> b \in effects
  PROVE  Knows(b)'
  BY DEF DeviceInv, Knows

\* The open receipt stays the only one when no receipt opens.
LEMMA NoneOpens ==
  ASSUME DeviceInv, \A a \in DeviceAction : receipts'[a] = "open" => receipts[a] = "open"
  PROVE  OneOpen'
  BY DEF DeviceInv, OneOpen

LEMMA BeginStep ==
  ASSUME DeviceInv, NEW a \in DeviceAction, Begin(a)
  PROVE  DeviceInv'
<1>1. /\ receipts[a] = "absent" /\ \A b \in DeviceAction : receipts[b] # "open"
      /\ receipts' = [receipts EXCEPT ![a] = "open"]
      /\ waiting' = [waiting EXCEPT ![a] = "begun"]
      /\ UNCHANGED <<driver, effects, file, deviceMishaps>>
  BY DEF Begin, Waits, DeviceBusy
<1>2. DeviceTypeOK'
  BY <1>1 DEF DeviceInv, DeviceTypeOK
<1>3. OneOpen'
  BY <1>1 DEF OneOpen, DeviceInv, DeviceTypeOK
<1>4. ASSUME NEW b \in DeviceAction PROVE Knows(b)'
  BY <1>1 DEF DeviceInv, DeviceTypeOK, Knows
<1> QED  BY <1>2, <1>3, <1>4 DEF DeviceInv

\* The call: authority, the driver and its answer.
LEMMA CallStep ==
  ASSUME DeviceInv, NEW a \in DeviceAction, Refused(a) \/ Drive(a) \/ DriverAnswers(a) \/ CallStops(a)
  PROVE  DeviceInv'
<1>1. UNCHANGED <<receipts, effects, file>> /\ deviceMishaps' \in Nat
  BY DEF Refused, Drive, DriverAnswers, CallStops, DeviceMishap, DeviceInv, DeviceTypeOK
<1>2. OneOpen'
  BY <1>1 DEF OneOpen, DeviceInv
<1>3. CASE Refused(a)
  <2>1. waiting[a] = "begun" /\ waiting' = [waiting EXCEPT ![a] = "not-executed"] /\ driver' = driver
    BY <1>3 DEF Refused, Waits
  <2>2. DeviceTypeOK'
    BY <1>1, <2>1 DEF DeviceInv, DeviceTypeOK
  <2>3. ASSUME NEW b \in DeviceAction PROVE Knows(b)'
    BY <1>1, <2>1 DEF DeviceInv, DeviceTypeOK, Knows
  <2> QED  BY <1>2, <2>2, <2>3 DEF DeviceInv
<1>4. CASE Drive(a)
  <2>1. /\ waiting[a] = "begun" /\ waiting' = [waiting EXCEPT ![a] = "driving"]
        /\ driver' = [driver EXCEPT ![a] = "running"]
    BY <1>4 DEF Drive, Waits
  <2>2. DeviceTypeOK'
    BY <1>1, <2>1 DEF DeviceInv, DeviceTypeOK
  <2>3. ASSUME NEW b \in DeviceAction PROVE Knows(b)'
    BY <1>1, <2>1 DEF DeviceInv, DeviceTypeOK, Knows
  <2> QED  BY <1>2, <2>2, <2>3 DEF DeviceInv
<1>5. CASE DriverAnswers(a)
  <2>1. PICK step \in {"not-executed", "submitted", "over"} :
          /\ waiting[a] = "driving" /\ waiting' = [waiting EXCEPT ![a] = step] /\ driver' = driver
          /\ step = "not-executed" => driver[a] = "rejected"
          /\ step = "submitted" => driver[a] = "ended" /\ a \in effects
    BY <1>5 DEF DriverAnswers, Waits, Rejection
  <2>2. DeviceTypeOK'
    BY <1>1, <2>1 DEF DeviceInv, DeviceTypeOK
  <2>3. ASSUME NEW b \in DeviceAction PROVE Knows(b)'
    BY <1>1, <2>1 DEF DeviceInv, DeviceTypeOK, Knows
  <2> QED  BY <1>2, <2>2, <2>3 DEF DeviceInv
<1>6. CASE CallStops(a)
  <2>1. waiting[a] \notin {"none", "over"} /\ waiting' = [waiting EXCEPT ![a] = "over"] /\ driver' = driver
    BY <1>6 DEF CallStops, Waits
  <2>2. DeviceTypeOK'
    BY <1>1, <2>1 DEF DeviceInv, DeviceTypeOK
  <2>3. ASSUME NEW b \in DeviceAction PROVE Knows(b)'
    BY <1>1, <2>1 DEF DeviceInv, DeviceTypeOK, Knows
  <2> QED  BY <1>2, <2>2, <2>3 DEF DeviceInv
<1> QED  BY <1>3, <1>4, <1>5, <1>6

\* The driver, which nobody may be waiting for.
LEMMA DriverStep ==
  ASSUME DeviceInv, NEW a \in DeviceAction, DriverRejects(a) \/ DriverActs(a) \/ DriverEnds(a)
  PROVE  DeviceInv'
<1>1. UNCHANGED <<receipts, waiting, deviceMishaps>> /\ driver[a] = "running" /\ file' \in {"free", "taken"}
  BY DEF DriverRejects, DriverActs, Links, DriverEnds, DeviceInv, DeviceTypeOK
<1>2. OneOpen'
  BY <1>1 DEF OneOpen, DeviceInv
<1>3. waiting[a] \in {"none", "driving", "over"}
  BY <1>1 DEF DeviceInv, DeviceTypeOK, Knows
<1>4. PICK end \in {"running", "rejected", "ended"} :
        /\ driver' = [driver EXCEPT ![a] = end]
        /\ end = "rejected" => a \notin effects'
        /\ effects' = effects \/ (effects' = effects \cup {a} /\ end = "running")
  <2>1. CASE DriverActs(a)
    <3>1. driver' = [driver EXCEPT ![a] = "running"]
      BY <1>1, <2>1 DEF DriverActs, DeviceInv, DeviceTypeOK
    <3> QED  BY <2>1, <3>1 DEF DriverActs
  <2> QED  BY <2>1 DEF DriverRejects, DriverEnds
<1>5. DeviceTypeOK'
  BY <1>1, <1>4 DEF DeviceInv, DeviceTypeOK
<1>6. ASSUME NEW b \in DeviceAction PROVE Knows(b)'
  <2>1. CASE b # a
    BY <1>1, <1>4, <2>1, OthersKnow DEF DeviceInv, DeviceTypeOK
  <2>2. CASE b = a
    <3>1. driver'[a] = end /\ receipts[a] = "open"
      BY <1>1, <1>4 DEF DeviceInv, DeviceTypeOK, Knows
    <3> QED  BY <1>1, <1>3, <1>4, <2>2, <3>1 DEF Knows
  <2> QED  BY <2>1, <2>2
<1> QED  BY <1>2, <1>5, <1>6 DEF DeviceInv

\* The first result closes a receipt: of the call, or of an operator.
LEMMA CloseStep ==
  ASSUME DeviceInv, NEW a \in DeviceAction, Complete(a) \/ ResolveReceipt(a)
  PROVE  DeviceInv'
<1>1. UNCHANGED <<driver, effects, file>> /\ deviceMishaps' \in Nat
  BY DEF Complete, ResolveReceipt, DeviceMishap, DeviceInv, DeviceTypeOK
<1>2. PICK result \in {"submitted", "not-executed"} :
        /\ receipts' = receipts \/ (receipts[a] = "open" /\ receipts' = [receipts EXCEPT ![a] = result])
        /\ result = "submitted" => a \in effects
        /\ result = "not-executed" => a \notin effects
  BY DEF Complete, ResolveReceipt, Completed, DeviceInv, Knows
<1>3. driver[a] # "running" /\ waiting[a] # "begun"
  BY DEF Complete, ResolveReceipt, DeviceInv, Knows
<1>4. waiting' = waiting \/ (waiting[a] # "none" /\ waiting' = [waiting EXCEPT ![a] = "over"])
  BY DEF Complete, ResolveReceipt, Waits
<1>5. DeviceTypeOK'
  BY <1>1, <1>2, <1>4 DEF DeviceInv, DeviceTypeOK
<1>6. OneOpen'
  BY <1>2, NoneOpens DEF DeviceInv, DeviceTypeOK
<1>7. ASSUME NEW b \in DeviceAction PROVE Knows(b)'
  <2>1. CASE b # a
    BY <1>1, <1>2, <1>4, <2>1, OthersKnow DEF DeviceInv, DeviceTypeOK
  <2>2. CASE b = a
    <3>1. Knows(a) /\ waiting'[a] \in {waiting[a], "over"} /\ receipts'[a] \in {receipts[a], result}
      BY <1>2, <1>4 DEF DeviceInv, DeviceTypeOK
    <3> QED  BY <1>1, <1>2, <1>3, <1>4, <2>2, <3>1 DEF Knows
  <2> QED  BY <2>1, <2>2
<1> QED  BY <1>5, <1>6, <1>7 DEF DeviceInv

LEMMA StepKnows == DeviceInv /\ [DeviceNext]_deviceVars => DeviceInv'
<1> SUFFICES ASSUME DeviceInv, [DeviceNext]_deviceVars PROVE DeviceInv'
  OBVIOUS
<1>1. CASE UNCHANGED deviceVars
  BY <1>1 DEF deviceVars, DeviceInv, DeviceTypeOK, OneOpen, Knows
<1>2. CASE DeviceNext
  BY <1>2, BeginStep, CallStep, DriverStep, CloseStep DEF DeviceNext
<1> QED  BY <1>1, <1>2

\* One driver at most: the receipt of what runs is open.
LEMMA OneRuns == DeviceInv => DeviceReceiptsTrue
<1> SUFFICES ASSUME DeviceInv PROVE DeviceReceiptsTrue
  OBVIOUS
<1> DEFINE running == {a \in DeviceAction : driver[a] = "running"}
<1>1. \A a, b \in running : a = b
  BY DEF DeviceInv, OneOpen, Knows
<1>2. Cardinality(running) <= 1
  <2> HIDE DEF running
  <2>1. CASE running = {}
    <3>1. Cardinality(running) = 0
      BY <2>1, FS_EmptySet
    <3> QED  BY <3>1
  <2>2. CASE running # {}
    <3>1. PICK a \in running : running = {a}
      BY <1>1, <2>2
    <3>2. Cardinality(running) = 1
      BY <3>1, FS_Singleton
    <3> QED  BY <3>2
  <2> QED  BY <2>1, <2>2
<1> QED  BY <1>2 DEF DeviceReceiptsTrue, DeviceInv, Knows

\* The receipts of a device are true and final, and one action at a time drives
\* it, whatever deadlines, stops, failed writes and operators do
\* (devices/store.js, service.js, files.js, reconciliation.js).
THEOREM ReceiptsAreTrue == DeviceSpec => []DeviceReceiptsTrue
<1>1. DeviceSpec => []DeviceInv
  BY InitiallyKnown, StepKnows, PTL DEF DeviceSpec
<1> QED  BY <1>1, OneRuns, PTL
-----------------------------------------------------------------------------
(* Sandbox: a verdict means the container is gone, for any executions,
   inspectors and mishaps *)

Away(e) == container[e] \in {"removed", "refused"}

ClientRow == [step : {"new", "materialized", "run", "cleanup", "finish", "over"},
              reason : {"none", "killed"}, code : {"zero", "other"}, removed : {"no", "yes"}]

\* What the client of an execution knows, and what was done before it.
Course(e) ==
  /\ client[e].step \in {"new", "materialized"} => container[e] = "none" /\ journal[e] = "absent"
  /\ client[e].step \notin {"finish", "over"} => client[e].removed = "no"
  /\ client[e].step = "materialized" => e \in resources
  /\ client[e].step = "cleanup" /\ client[e].reason = "none" => container[e] \in {"exited", "removed", "refused"}
  /\ client[e].step = "finish" /\ client[e].removed = "yes" => Away(e)
  /\ journal[e] \in Verdicts => Away(e)
  /\ container[e] \in {"requested", "created", "running"} => e \in resources

\* An inspector finishes with a verdict only after it removed the container.
Inspected(i) == inspector[i].step = "finish" /\ inspector[i].status \in Verdicts => Away(inspector[i].execution)

SandboxInv ==
  /\ SandboxTypeOK
  /\ \A e \in Execution : Course(e)
  /\ \A i \in Inspector : inspector[i] # Uninvolved => Inspected(i)

LEMMA InitiallyOnCourse == SandboxInit => SandboxInv
  BY DEF SandboxInit, SandboxInv, SandboxTypeOK, Course, Inspected, Verdicts, Uninvolved

\* Whatever the daemon, a client or an inspector does to a container, what is
\* away stays away, and inspectors that do nothing keep what they know.
LEMMA InspectorsKnow ==
  ASSUME SandboxInv, \A e \in Execution : Away(e) => Away(e)', inspector' = inspector
  PROVE  \A i \in Inspector : inspector'[i] # Uninvolved => Inspected(i)'
<1> SUFFICES ASSUME NEW i \in Inspector, inspector[i] # Uninvolved PROVE Inspected(i)'
  OBVIOUS
<1>1. inspector[i].execution \in Execution /\ Inspected(i)
  BY DEF SandboxInv, SandboxTypeOK
<1> QED  BY <1>1 DEF Inspected

\* A step of the daemon.
LEMMA DaemonStep ==
  ASSUME SandboxInv, NEW e \in Execution, DaemonActs(e)
  PROVE  SandboxInv'
<1>1. PICK state \in {"created", "refused", "running", "exited"} :
        /\ container' = [container EXCEPT ![e] = state]
        /\ container[e] \in {"requested", "created", "running"}
        /\ UNCHANGED <<journal, client, resources, inspector, sandboxMishaps>>
  BY DEF DaemonActs
<1>2. SandboxTypeOK'
  BY <1>1 DEF SandboxInv, SandboxTypeOK
<1>3. ASSUME NEW d \in Execution PROVE Course(d)'
  BY <1>1 DEF SandboxInv, SandboxTypeOK, Course, Away, Verdicts
<1>4. \A d \in Execution : Away(d) => Away(d)'
  BY <1>1 DEF SandboxInv, SandboxTypeOK, Away
<1> QED  BY <1>1, <1>2, <1>3, <1>4, InspectorsKnow DEF SandboxInv

\* A step of a client: the rows of its execution after it.
LEMMA ClientStep ==
  ASSUME SandboxInv, NEW e \in Execution, NEW row \in ClientRow,
         NEW state \in {"none", "requested", "refused", "created", "running", "exited", "removed"},
         NEW status \in {"absent", "started", "unknown"} \cup Verdicts,
         client' = [client EXCEPT ![e] = row], container' = [container EXCEPT ![e] = state],
         journal' = [journal EXCEPT ![e] = status],
         resources' \subseteq Execution, \A d \in Execution \ {e} : d \in resources' <=> d \in resources,
         inspector' = inspector, sandboxMishaps' \in Nat,
         Course(e)', Away(e) => Away(e)'
  PROVE  SandboxInv'
<1>1. SandboxTypeOK'
  BY DEF SandboxInv, SandboxTypeOK, ClientRow
<1>2. ASSUME NEW d \in Execution PROVE Course(d)' /\ (Away(d) => Away(d)')
  <2>1. CASE d = e
    BY <2>1
  <2>2. CASE d # e
    <3>1. /\ client'[d] = client[d] /\ container'[d] = container[d] /\ journal'[d] = journal[d]
          /\ d \in resources' <=> d \in resources
      BY <2>2 DEF SandboxInv, SandboxTypeOK
    <3> QED  BY <3>1 DEF SandboxInv, Course, Away
  <2> QED  BY <2>1, <2>2
<1> QED  BY <1>1, <1>2, InspectorsKnow DEF SandboxInv
\* One field of a client's row.
LEMMA StepOf ==
  ASSUME NEW row \in ClientRow, NEW step \in {"materialized", "run", "cleanup", "finish", "over"}
  PROVE  /\ [row EXCEPT !.step = step] \in ClientRow
         /\ [row EXCEPT !.step = step].step = step
         /\ [row EXCEPT !.step = step].reason = row.reason
         /\ [row EXCEPT !.step = step].removed = row.removed
  BY DEF ClientRow

LEMMA ClientActs ==
  ASSUME SandboxInv, NEW e \in Execution,
         \/ Materialize(e) \/ StartRun(e) \/ ClientCloses(e) \/ ClientKilled(e)
         \/ Cleanup(e) \/ FinishRun(e) \/ HostStops(e)
  PROVE  SandboxInv'
<1>1. /\ client[e] \in ClientRow /\ Course(e) /\ sandboxMishaps \in Nat /\ resources \subseteq Execution
      /\ client = [client EXCEPT ![e] = client[e]]
      /\ container = [container EXCEPT ![e] = container[e]]
      /\ journal = [journal EXCEPT ![e] = journal[e]]
      /\ container[e] \in {"none", "requested", "refused", "created", "running", "exited", "removed"}
      /\ journal[e] \in {"absent", "started", "unknown"} \cup Verdicts
  BY DEF SandboxInv, SandboxTypeOK, ClientRow
<1>2. CASE Materialize(e)
  <2> DEFINE row == [client[e] EXCEPT !.step = "materialized"]
  <2>1. /\ client[e].step = "new" /\ client' = [client EXCEPT ![e] = row] /\ resources' = resources \cup {e}
        /\ UNCHANGED <<journal, container, inspector, sandboxMishaps>>
    BY <1>2 DEF Materialize
  <2>2. row \in ClientRow /\ row.step = "materialized" /\ row.removed = client[e].removed
    BY <1>1, StepOf
  <2> HIDE DEF row
  <2>3. client'[e] = row
    BY <2>1 DEF SandboxInv, SandboxTypeOK
  <2>4. Course(e)'
    BY <1>1, <2>1, <2>2, <2>3 DEF Course, Away, Verdicts
  <2>5. Away(e) => Away(e)'
    BY <2>1 DEF Away
  <2>6. resources' \subseteq Execution /\ \A d \in Execution \ {e} : d \in resources' <=> d \in resources
    BY <1>1, <2>1
  <2> QED  BY <1>1, <2>1, <2>2, <2>4, <2>5, <2>6, ClientStep
<1>3. CASE StartRun(e)
  <2> DEFINE run == [client[e] EXCEPT !.step = "run"]
             over == [client[e] EXCEPT !.step = "over"]
  <2>1. /\ client[e].step = "materialized" /\ client[e].removed = "no"
        /\ e \in resources /\ container[e] = "none" /\ journal[e] = "absent"
        /\ UNCHANGED <<inspector, sandboxMishaps>>
    BY <1>1, <1>3 DEF StartRun, JournalStarted, Course
  <2>2. CASE /\ journal' = [journal EXCEPT ![e] = "started"]
             /\ container' = [container EXCEPT ![e] = "requested"]
             /\ client' = [client EXCEPT ![e] = run] /\ resources' = resources
    <3>1. run \in ClientRow /\ run.step = "run" /\ run.removed = client[e].removed
      BY <1>1, StepOf
    <3> HIDE DEF run
    <3>2. client'[e] = run /\ journal'[e] = "started" /\ container'[e] = "requested"
      BY <2>2 DEF SandboxInv, SandboxTypeOK
    <3>3. Course(e)' /\ ~Away(e)
      BY <2>1, <2>2, <3>1, <3>2 DEF Course, Away, Verdicts
    <3> QED  BY <1>1, <2>1, <2>2, <3>1, <3>3, ClientStep
  <2>3. CASE /\ client' = [client EXCEPT ![e] = over] /\ resources' = resources \ {e}
             /\ UNCHANGED <<journal, container>>
    <3>1. over \in ClientRow /\ over.step = "over"
      BY <1>1, StepOf
    <3> HIDE DEF over
    <3>2. client'[e] = over
      BY <2>3 DEF SandboxInv, SandboxTypeOK
    <3>3. Course(e)' /\ ~Away(e)
      BY <2>1, <2>3, <3>1, <3>2 DEF Course, Away, Verdicts
    <3> QED  BY <1>1, <2>1, <2>3, <3>1, <3>3, ClientStep
  <2> QED  BY <1>3, <2>2, <2>3 DEF StartRun, JournalStarted
<1>4. CASE ClientCloses(e) \/ ClientKilled(e)
  <2>1. PICK row \in ClientRow :
          /\ client' = [client EXCEPT ![e] = row] /\ row.step = "cleanup" /\ row.removed = client[e].removed
          /\ row.reason = "none" => container[e] \in {"exited", "removed", "refused"}
    <3>1. CASE ClientCloses(e)
      <4>1. PICK code \in {"zero", "other"} :
              client' = [client EXCEPT ![e] = [client[e] EXCEPT !.step = "cleanup", !.code = code]]
        BY <3>1 DEF ClientCloses
      <4>2. /\ [client[e] EXCEPT !.step = "cleanup", !.code = code] \in ClientRow
            /\ [client[e] EXCEPT !.step = "cleanup", !.code = code].step = "cleanup"
            /\ [client[e] EXCEPT !.step = "cleanup", !.code = code].removed = client[e].removed
        BY <1>1 DEF ClientRow
      <4> QED  BY <3>1, <4>1, <4>2 DEF ClientCloses
    <3>2. CASE ClientKilled(e)
      <4>1. client' = [client EXCEPT ![e] = [client[e] EXCEPT !.step = "cleanup", !.reason = "killed"]]
        BY <3>2 DEF ClientKilled
      <4>2. /\ [client[e] EXCEPT !.step = "cleanup", !.reason = "killed"] \in ClientRow
            /\ [client[e] EXCEPT !.step = "cleanup", !.reason = "killed"].step = "cleanup"
            /\ [client[e] EXCEPT !.step = "cleanup", !.reason = "killed"].reason = "killed"
            /\ [client[e] EXCEPT !.step = "cleanup", !.reason = "killed"].removed = client[e].removed
        BY <1>1 DEF ClientRow
      <4> QED  BY <4>1, <4>2
    <3> QED  BY <1>4, <3>1, <3>2
  <2>2. client'[e] = row /\ UNCHANGED <<journal, container, resources, inspector, sandboxMishaps>>
    BY <1>4, <2>1 DEF ClientCloses, ClientKilled, SandboxInv, SandboxTypeOK
  <2>3. client[e].step = "run"
    BY <1>4 DEF ClientCloses, ClientKilled
  <2>4. Course(e)' /\ (Away(e) => Away(e)')
    BY <1>1, <2>1, <2>2, <2>3 DEF Course, Away
  <2> QED  BY <1>1, <2>1, <2>2, <2>4, ClientStep
<1>5. CASE Cleanup(e)
  <2> DEFINE state == IF Exists(e) THEN "removed" ELSE container[e]
             sure == IF Exists(e) \/ Gone(e) THEN "yes" ELSE "no"
             done == [client[e] EXCEPT !.step = "finish", !.removed = sure]
             unsure == [client[e] EXCEPT !.step = "finish"]
  <2>1. client[e].step = "cleanup" /\ UNCHANGED <<journal, resources, inspector>>
    BY <1>5 DEF Cleanup
  <2>2. CASE /\ container' = [container EXCEPT ![e] = state]
             /\ client' = [client EXCEPT ![e] = done] /\ sandboxMishaps' = sandboxMishaps
    <3>1. sure = "yes" => state \in {"removed", "refused"}
      BY <1>1, <2>1 DEF Exists, Gone, Course
    <3>2. sure \in {"no", "yes"}
      OBVIOUS
    <3>3. state \in {"none", "requested", "refused", "created", "running", "exited", "removed"}
      BY <1>1
    <3>4. state = "removed" \/ state = container[e]
      OBVIOUS
    <3> HIDE DEF sure, state
    <3>5. done \in ClientRow /\ done.step = "finish" /\ done.removed = sure
      BY <1>1, <3>2 DEF ClientRow
    <3> HIDE DEF done
    <3>6. client'[e] = done /\ container'[e] = state
      BY <2>2 DEF SandboxInv, SandboxTypeOK
    <3>7. Course(e)' /\ (Away(e) => Away(e)')
      BY <1>1, <2>1, <3>1, <3>4, <3>5, <3>6 DEF Course, Away
    <3> QED  BY <1>1, <2>1, <2>2, <3>3, <3>5, <3>7, ClientStep
  <2>3. CASE client' = [client EXCEPT ![e] = unsure] /\ UNCHANGED container /\ SandboxMishap
    <3>1. unsure \in ClientRow /\ unsure.step = "finish" /\ unsure.removed = client[e].removed
      BY <1>1, StepOf
    <3> HIDE DEF unsure
    <3>2. client'[e] = unsure
      BY <2>3 DEF SandboxInv, SandboxTypeOK
    <3>3. client[e].removed = "no"
      BY <1>1, <2>1 DEF Course
    <3>4. Course(e)' /\ (Away(e) => Away(e)') /\ sandboxMishaps' \in Nat
      BY <1>1, <2>1, <2>3, <3>1, <3>2, <3>3 DEF Course, Away, SandboxMishap
    <3> QED  BY <1>1, <2>1, <2>3, <3>1, <3>4, ClientStep
  <2> QED  BY <1>5, <2>2, <2>3 DEF Cleanup
<1>6. CASE FinishRun(e)
  <2> DEFINE row == [client[e] EXCEPT !.step = "over"]
  <2>1. PICK status \in {"unknown"} \cup Verdicts :
          /\ journal' = Finished(e, status)
          /\ status \in Verdicts => client[e].removed = "yes"
    BY <1>1, <1>6 DEF FinishRun, RunStatus, Verdicts, ClientRow
  <2>2. /\ client[e].step = "finish" /\ client' = [client EXCEPT ![e] = row]
        /\ UNCHANGED <<container, inspector, sandboxMishaps>>
        /\ resources' = IF journal'[e] \in Verdicts THEN resources \ {e} ELSE resources
    BY <1>6 DEF FinishRun
  <2>3. PICK new \in {status, journal[e]} : journal' = [journal EXCEPT ![e] = new]
    BY <1>1, <2>1 DEF Finished
  <2>4. row \in ClientRow /\ row.step = "over"
    BY <1>1, StepOf
  <2> HIDE DEF row
  <2>5. client'[e] = row /\ journal'[e] = new
    BY <2>2, <2>3 DEF SandboxInv, SandboxTypeOK
  <2>6. new \in Verdicts => Away(e)
    BY <1>1, <2>1, <2>2, <2>3 DEF Course, Verdicts
  <2>7. Course(e)' /\ (Away(e) => Away(e)')
    BY <1>1, <2>2, <2>4, <2>5, <2>6 DEF Course, Away
  <2>8. new \in {"absent", "started", "unknown"} \cup Verdicts
    BY <1>1, <2>1, <2>3
  <2>9. resources' \subseteq Execution /\ \A d \in Execution \ {e} : d \in resources' <=> d \in resources
    BY <1>1, <2>2
  <2> QED  BY <1>1, <2>2, <2>3, <2>4, <2>7, <2>8, <2>9, ClientStep
<1>7. CASE HostStops(e)
  <2> DEFINE row == [client[e] EXCEPT !.step = "over"]
  <2>1. /\ client[e].step # "new" /\ client' = [client EXCEPT ![e] = row] /\ sandboxMishaps' \in Nat
        /\ UNCHANGED <<journal, container, resources, inspector>>
    BY <1>1, <1>7 DEF HostStops, SandboxMishap
  <2>2. row \in ClientRow /\ row.step = "over"
    BY <1>1, StepOf
  <2> HIDE DEF row
  <2>3. client'[e] = row
    BY <2>1 DEF SandboxInv, SandboxTypeOK
  <2>4. Course(e)' /\ (Away(e) => Away(e)')
    BY <1>1, <2>1, <2>2, <2>3 DEF Course, Away
  <2> QED  BY <1>1, <2>1, <2>2, <2>4, ClientStep
<1> QED  BY <1>2, <1>3, <1>4, <1>5, <1>6, <1>7

\* A step of an inspector: its own row, its container, and the journal.
LEMMA InspectorStep ==
  ASSUME SandboxInv, NEW i \in Inspector, NEW e \in Execution,
         NEW row \in {Uninvolved} \cup [step : {"inspect", "kill", "logs", "remove", "finish"},
                                        execution : Execution, status : {"unknown"} \cup Verdicts],
         NEW state \in {"none", "requested", "refused", "created", "running", "exited", "removed"},
         NEW status \in {"absent", "started", "unknown"} \cup Verdicts,
         inspector' = [inspector EXCEPT ![i] = row], container' = [container EXCEPT ![e] = state],
         journal' = [journal EXCEPT ![e] = status], UNCHANGED <<client, resources>>, sandboxMishaps' \in Nat,
         state = container[e] \/ (container[e] = "running" /\ state = "exited")
           \/ (Exists(e) /\ state = "removed"),
         status = journal[e] \/ (journal[e] \in {"started", "unknown"} /\ (status \in Verdicts => Away(e)')),
         row # Uninvolved => Inspected(i)'
  PROVE  SandboxInv'
<1>1. SandboxTypeOK'
  BY DEF SandboxInv, SandboxTypeOK
<1>2. \A d \in Execution : Away(d) => Away(d)'
  BY DEF SandboxInv, SandboxTypeOK, Away, Exists
<1>3. ASSUME NEW d \in Execution PROVE Course(d)'
  BY DEF SandboxInv, SandboxTypeOK, Course, Away, Exists, Verdicts
<1>4. ASSUME NEW j \in Inspector, inspector'[j] # Uninvolved PROVE Inspected(j)'
  <2>1. CASE j = i
    BY <1>4, <2>1 DEF SandboxInv, SandboxTypeOK
  <2>2. CASE j # i
    <3>1. inspector'[j] = inspector[j] /\ inspector[j].execution \in Execution /\ Inspected(j)
      BY <1>4, <2>2 DEF SandboxInv, SandboxTypeOK
    <3> QED  BY <1>2, <3>1 DEF Inspected
  <2> QED  BY <2>1, <2>2
<1> QED  BY <1>1, <1>3, <1>4 DEF SandboxInv

LEMMA InspectorActs ==
  ASSUME SandboxInv, NEW i \in Inspector,
         \/ \E e \in Execution : StartReconcile(i, e)
         \/ Inspect(i) \/ Kill(i) \/ ReadLogs(i) \/ Remove(i) \/ FinishReconcile(i)
  PROVE  SandboxInv'
<1>1. ASSUME NEW e \in Execution
      PROVE  /\ container = [container EXCEPT ![e] = container[e]]
             /\ journal = [journal EXCEPT ![e] = journal[e]]
             /\ container[e] \in {"none", "requested", "refused", "created", "running", "exited", "removed"}
             /\ journal[e] \in {"absent", "started", "unknown"} \cup Verdicts
             /\ sandboxMishaps \in Nat
  BY DEF SandboxInv, SandboxTypeOK
<1>2. CASE \E e \in Execution : StartReconcile(i, e)
  <2>1. PICK e \in Execution : StartReconcile(i, e)
    BY <1>2
  <2> DEFINE row == [step |-> "inspect", execution |-> e, status |-> "unknown"]
  <2>2. inspector' = [inspector EXCEPT ![i] = row] /\ UNCHANGED <<journal, container, client, resources, sandboxMishaps>>
    BY <2>1 DEF StartReconcile, Inspects
  <2>3. row \in [step : {"inspect", "kill", "logs", "remove", "finish"},
                execution : Execution, status : {"unknown"} \cup Verdicts] /\ row.step = "inspect"
    OBVIOUS
  <2> HIDE DEF row
  <2>4. inspector'[i] = row
    BY <2>2 DEF SandboxInv, SandboxTypeOK
  <2>5. Inspected(i)'
    BY <2>3, <2>4 DEF Inspected
  <2>6. PICK state \in {"none", "requested", "refused", "created", "running", "exited", "removed"},
             status \in {"absent", "started", "unknown"} \cup Verdicts :
          /\ state = container[e] /\ container' = [container EXCEPT ![e] = state]
          /\ status = journal[e] /\ journal' = [journal EXCEPT ![e] = status]
    BY <1>1, <2>2
  <2>7. UNCHANGED <<client, resources>> /\ sandboxMishaps' \in Nat
    BY <1>1, <2>2
  <2>8. inspector' = [inspector EXCEPT ![i] = row]
    BY <2>2
  <2>9. row \in {Uninvolved} \cup [step : {"inspect", "kill", "logs", "remove", "finish"},
                                  execution : Execution, status : {"unknown"} \cup Verdicts]
    BY <2>3
  <2> QED  BY <2>5, <2>6, <2>7, <2>8, <2>9, InspectorStep
<1>3. ASSUME Inspect(i) \/ Kill(i) \/ ReadLogs(i) \/ Remove(i) \/ FinishReconcile(i)
      PROVE  SandboxInv'
  <2>1. PICK e \in Execution :
          /\ e = inspector[i].execution /\ inspector[i] # Uninvolved
          /\ inspector[i].status \in {"unknown"} \cup Verdicts /\ Inspected(i)
    BY <1>3 DEF Inspect, Kill, ReadLogs, Remove, FinishReconcile, SandboxInv, SandboxTypeOK, Uninvolved
  <2> DEFINE Steps == {"inspect", "kill", "logs", "remove", "finish"}
             Ends == {"unknown"} \cup Verdicts
             Rows == {Uninvolved} \cup [step : Steps, execution : Execution, status : Ends]
             gone == container' = [container EXCEPT ![e] = "removed"]
             Known(row) ==
               /\ inspector' = [inspector EXCEPT ![i] = row]
               /\ row # Uninvolved => row.execution = e /\ (row.step = "finish" /\ row.status # "unknown" => gone)
             Told(step, status) == Inspects(i, step, e, status) /\ (step = "finish" /\ status # "unknown" => gone)
  <2>2. PICK row \in Rows : Known(row)
    <3>1. \/ inspector' = [inspector EXCEPT ![i] = Uninvolved]
          \/ \E step \in Steps, status \in Ends : Told(step, status)
      <4>1. CASE Inspect(i)
        <5>1. Told("finish", "unknown") <=> Inspects(i, "finish", e, "unknown")
          OBVIOUS
        <5>2. \A status : Told("logs", status) <=> Inspects(i, "logs", e, status)
          OBVIOUS
        <5>3. Told("kill", "cancelled") <=> Inspects(i, "kill", e, "cancelled")
          OBVIOUS
        <5>4. {"unknown", "succeeded", "failed", "cancelled"} \subseteq Ends
          BY DEF Verdicts
        <5> HIDE DEF Told, Ends
        <5> QED  BY <2>1, <4>1, <5>1, <5>2, <5>3, <5>4 DEF Inspect
      <4>2. CASE Kill(i)
        <5>1. Told("finish", "unknown") <=> Inspects(i, "finish", e, "unknown")
          OBVIOUS
        <5>2. Told("logs", "cancelled") <=> Inspects(i, "logs", e, "cancelled")
          OBVIOUS
        <5>3. {"unknown", "cancelled"} \subseteq Ends
          BY DEF Verdicts
        <5> HIDE DEF Told, Ends
        <5> QED  BY <2>1, <4>2, <5>1, <5>2, <5>3 DEF Kill
      <4>3. CASE ReadLogs(i)
        <5>1. \A status : Told("remove", status) <=> Inspects(i, "remove", e, status)
          OBVIOUS
        <5>2. inspector[i].status \in Ends /\ "unknown" \in Ends
          BY <2>1
        <5> HIDE DEF Told, Ends
        <5> QED  BY <2>1, <4>3, <5>1, <5>2 DEF ReadLogs
      <4>4. CASE Remove(i)
        <5>1. Told("finish", "unknown") <=> Inspects(i, "finish", e, "unknown")
          OBVIOUS
        <5>2. ASSUME Exists(e), container' = [container EXCEPT ![e] = IF Exists(e) THEN "removed" ELSE @]
              PROVE  \A status : Told("finish", status) <=> Inspects(i, "finish", e, status)
          BY <5>2
        <5>3. inspector[i].status \in Ends /\ "unknown" \in Ends
          BY <2>1
        <5> HIDE DEF Told, Ends
        <5> QED  BY <2>1, <4>4, <5>1, <5>2, <5>3 DEF Remove
      <4>5. CASE FinishReconcile(i)
        BY <4>5 DEF FinishReconcile
      <4> QED  BY <1>3, <4>1, <4>2, <4>3, <4>4, <4>5
    <3>2. ASSUME NEW step \in Steps, NEW status \in Ends, Told(step, status)
          PROVE  \E row \in Rows : Known(row)
      <4> DEFINE new == [step |-> step, execution |-> e, status |-> status]
      <4>1. new \in Rows /\ new.execution = e /\ new.step = step /\ new.status = status
        BY <2>1
      <4>2. inspector' = [inspector EXCEPT ![i] = new]
        BY <3>2 DEF Inspects
      <4> HIDE DEF new, Rows
      <4> QED  BY <3>2, <4>1, <4>2
    <3> QED  BY <3>1, <3>2
  <2>3. UNCHANGED <<client, resources>> /\ sandboxMishaps' \in Nat
    BY <1>1, <1>3, <2>1 DEF Inspect, Kill, ReadLogs, Remove, FinishReconcile, SandboxMishap
  <2>4. PICK state \in {"none", "requested", "refused", "created", "running", "exited", "removed"} :
          /\ container' = [container EXCEPT ![e] = state]
          /\ \/ state = container[e]
             \/ container[e] = "running" /\ state = "exited"
             \/ Exists(e) /\ state = "removed"
    BY <1>1, <1>3, <2>1 DEF Inspect, Kill, ReadLogs, Remove, FinishReconcile
  <2>5. PICK verdict \in {"absent", "started", "unknown"} \cup Verdicts :
          /\ journal' = [journal EXCEPT ![e] = verdict]
          /\ \/ verdict = journal[e]
             \/ journal[e] \in {"started", "unknown"} /\ (verdict \in Verdicts => Away(e) /\ container' = container)
    <3>1. CASE FinishReconcile(i)
      <4>1. inspector[i].status \in Verdicts => Away(e)
        BY <2>1, <3>1 DEF FinishReconcile, Inspected
      <4>2. journal' = journal \/ (/\ journal[e] \in {"started", "unknown"}
                                   /\ journal' = [journal EXCEPT ![e] = inspector[i].status])
        BY <2>1, <3>1 DEF FinishReconcile, Finished
      <4>3. container' = container
        BY <3>1 DEF FinishReconcile
      <4> QED  BY <1>1, <2>1, <4>1, <4>2, <4>3
    <3>2. CASE journal' = journal
      BY <1>1, <2>1, <3>2
    <3> QED  BY <1>3, <3>1, <3>2 DEF Inspect, Kill, ReadLogs, Remove
  <2>6. row # Uninvolved => Inspected(i)'
    <3>1. inspector'[i] = row
      BY <2>2 DEF SandboxInv, SandboxTypeOK
    <3>2. ASSUME row # Uninvolved, row.step = "finish", row.status \in Verdicts PROVE Away(e)'
      <4>1. container' = [container EXCEPT ![e] = "removed"]
        BY <2>2, <3>2 DEF Verdicts
      <4>2. container'[e] = "removed"
        BY <2>1, <4>1 DEF SandboxInv, SandboxTypeOK
      <4> QED  BY <4>2 DEF Away
    <3> QED  BY <2>2, <3>1, <3>2 DEF Inspected, Away
  <2>7. verdict = journal[e] \/ (journal[e] \in {"started", "unknown"} /\ (verdict \in Verdicts => Away(e)'))
    BY <2>5 DEF Away
  <2> QED  BY <2>1, <2>2, <2>3, <2>4, <2>5, <2>6, <2>7, InspectorStep
<1> QED  BY <1>2, <1>3

LEMMA SandboxStep == SandboxInv /\ [SandboxNext]_sandboxVars => SandboxInv'
<1> SUFFICES ASSUME SandboxInv, [SandboxNext]_sandboxVars PROVE SandboxInv'
  OBVIOUS
<1>1. CASE UNCHANGED sandboxVars
  BY <1>1 DEF sandboxVars, SandboxInv, SandboxTypeOK, Course, Inspected, Away
<1>2. CASE SandboxNext
  BY <1>2, DaemonStep, ClientActs, InspectorActs DEF SandboxNext
<1> QED  BY <1>1, <1>2

\* No verdict while a container of the execution exists or may still come to
\* be, whoever was killed, stopped or reconciled at the same time
\* (execution/docker.js, journal.js, released-code.js).
THEOREM VerdictsAreFinal == SandboxSpec => []VerdictMeansGone
<1>1. SandboxSpec => []SandboxInv
  BY InitiallyOnCourse, SandboxStep, PTL DEF SandboxSpec
<1>2. SandboxInv => VerdictMeansGone
  BY DEF SandboxInv, Course, Away, VerdictMeansGone
<1> QED  BY <1>1, <1>2, PTL
-----------------------------------------------------------------------------
(* Outbox: what it says of a notification is so *)

\* A worker on its way to send its attempt at a notification.
Sends(s) == sender[s] # NoJob /\ sender[s].step \in {"claimed", "resolved", "sending"}

\* A notification has not arrived, and nobody is sending it.
Unsent(n) == n \notin arrived /\ ~Outstanding(n)

\* A row is numbered by an attempt of its history, which a notification that is
\* out has.
Numbered ==
  \A n \in Note : /\ notes[n].attempt <= attempts[n]
                  /\ notes[n].state \in {"sending", "unknown"} => notes[n].attempt >= 1

\* An attempt has one worker to send it.
OneSender ==
  \A s, q \in Sender : /\ Sends(s) /\ Sends(q)
                       /\ sender[s].note = sender[q].note /\ sender[s].attempt = sender[q].attempt
                       => s = q

\* What a worker knows of the attempt it is about.  A final word that nothing was
\* sent also rules out that the owner of the attempt may still send it.
SenderKnows(s) ==
  LET n == sender[s].note
      mine == notes[n].attempt = sender[s].attempt
  IN  /\ sender[s].step \in {"claimed", "resolved", "sending", "query", "finish"} =>
           1 <= sender[s].attempt /\ sender[s].attempt <= attempts[n]
      /\ sender[s].step \in {"claimed", "resolved"} /\ mine => Unsent(n)
      /\ sender[s].step = "sending" => mine /\ notes[n].state \in {"sending", "unknown", "delivered"}
      /\ sender[s].step = "query" /\ mine => notes[n].state # "sending"
      /\ sender[s].step = "finish" /\ sender[s].status = "delivered" => n \in arrived
      /\ sender[s].step = "finish" /\ sender[s].status = "not_sent" /\ mine
           /\ notes[n].state \in {"sending", "unknown"} =>
           /\ Unsent(n)
           /\ notes[n].state = "sending" =>
                \A q \in Sender : Sends(q) /\ sender[q].note = n => sender[q].attempt # sender[s].attempt

\* What the row of a notification says of it.
NoteSays(n) ==
  /\ notes[n].state \in {"absent", "pending", "cancelled", "failed"} => Unsent(n)
  /\ notes[n].state = "delivered" => n \in arrived

OutboxInv ==
  /\ OutboxTypeOK /\ Numbered /\ OneSender
  /\ \A s \in Sender : sender[s] # NoJob => SenderKnows(s)
  /\ \A n \in Note : NoteSays(n)

USE OutboxAssumption

LEMMA InitiallyEmpty == OutboxInit => OutboxInv
  BY DEF OutboxInit, OutboxInv, OutboxTypeOK, Numbered, OneSender, Sends, NoteSays, Unsent, Outstanding, NoJob

\* The rows of workers.
LEMMA JobRow ==
  ASSUME OutboxTypeOK, NEW s \in Sender, NEW n \in Note, NEW a \in Nat, NEW status \in Status,
         NEW step \in {"claimed", "resolved", "sending", "query", "finish", "retry", "tick"},
         Job(s, step, n, a, status)
  PROVE  /\ sender'[s] # NoJob /\ sender'[s].step = step /\ sender'[s].note = n
         /\ sender'[s].attempt = a /\ sender'[s].status = status
         /\ \A q \in Sender \ {s} : sender'[q] = sender[q]
         /\ sender' \in [Sender -> {NoJob} \cup [step : {"claimed", "resolved", "sending", "query", "finish", "retry", "tick"},
                                                 note : Note, attempt : Nat, status : Status]]
<1> DEFINE row == [step |-> step, note |-> n, attempt |-> a, status |-> status]
<1>1. /\ row.step = step /\ row.note = n /\ row.attempt = a /\ row.status = status /\ row # NoJob
      /\ row \in [step : {"claimed", "resolved", "sending", "query", "finish", "retry", "tick"},
                  note : Note, attempt : Nat, status : Status]
  BY DEF NoJob
<1>2. sender' = [sender EXCEPT ![s] = row]
  BY DEF Job
<1> HIDE DEF row
<1>3. QED
  BY <1>1, <1>2 DEF OutboxTypeOK

LEMMA OnwardRow ==
  ASSUME OutboxTypeOK, NEW s \in Sender, sender[s] # NoJob,
         NEW step \in {"claimed", "resolved", "sending", "query", "finish", "retry", "tick"}, Onward(s, step)
  PROVE  /\ sender'[s] # NoJob /\ sender'[s].step = step /\ sender'[s].note = sender[s].note
         /\ sender'[s].attempt = sender[s].attempt /\ sender'[s].status = sender[s].status
         /\ \A q \in Sender \ {s} : sender'[q] = sender[q]
         /\ sender' \in [Sender -> {NoJob} \cup [step : {"claimed", "resolved", "sending", "query", "finish", "retry", "tick"},
                                                 note : Note, attempt : Nat, status : Status]]
<1> DEFINE row == [sender[s] EXCEPT !.step = step]
           Rows == [step : {"claimed", "resolved", "sending", "query", "finish", "retry", "tick"},
                    note : Note, attempt : Nat, status : Status]
<1>1. sender[s] \in Rows
  BY DEF OutboxTypeOK
<1>2. /\ row.step = step /\ row.note = sender[s].note /\ row.attempt = sender[s].attempt
      /\ row.status = sender[s].status /\ row \in Rows
  BY <1>1
<1>3. row # NoJob
  BY <1>2 DEF NoJob
<1>4. sender' = [sender EXCEPT ![s] = row]
  BY DEF Onward
<1> HIDE DEF row
<1>5. QED
  BY <1>2, <1>3, <1>4 DEF OutboxTypeOK

LEMMA DropRow ==
  ASSUME OutboxTypeOK, NEW s \in Sender, Drops(s)
  PROVE  /\ sender'[s] = NoJob /\ \A q \in Sender \ {s} : sender'[q] = sender[q]
         /\ sender' \in [Sender -> {NoJob} \cup [step : {"claimed", "resolved", "sending", "query", "finish", "retry", "tick"},
                                                 note : Note, attempt : Nat, status : Status]]
  BY DEF Drops, OutboxTypeOK

\* A worker moves on and neither starts to send nor takes an attempt.
LEMMA WorkerMoves ==
  ASSUME OutboxInv, OutboxTypeOK', NEW s \in Sender, UNCHANGED <<notes, attempts, arrived>>,
         \A q \in Sender \ {s} : sender'[q] = sender[q],
         sender'[s] # NoJob => SenderKnows(s)' /\ sender'[s].step # "sending",
         Sends(s)' => Sends(s) /\ sender'[s].note = sender[s].note /\ sender'[s].attempt = sender[s].attempt
  PROVE  OutboxInv'
<1>1. \A n \in Note : Unsent(n) => Unsent(n)'
  <2>1. \A n \in Note : Outstanding(n)' => Outstanding(n)
    BY DEF Outstanding, NoJob
  <2>2. QED
    BY <2>1 DEF Unsent
<1>2. \A q \in Sender : Sends(q)' => Sends(q) /\ sender'[q].note = sender[q].note /\ sender'[q].attempt = sender[q].attempt
  BY DEF Sends
<1>3. Numbered' /\ OneSender'
  BY <1>2 DEF OutboxInv, Numbered, OneSender
<1>4. ASSUME NEW q \in Sender \ {s}, sender[q] # NoJob
      PROVE  SenderKnows(q)'
  <2>1. SenderKnows(q) /\ sender[q].note \in Note
    BY <1>4 DEF OutboxInv, OutboxTypeOK
  <2>2. QED
    BY <1>1, <1>2, <2>1 DEF SenderKnows
<1>5. \A n \in Note : NoteSays(n)'
  BY <1>1 DEF OutboxInv, NoteSays
<1>6. QED
  BY <1>3, <1>4, <1>5 DEF OutboxInv

\* A row changes that no attempt owns: it is new, or gets another chance, or none.
LEMMA NoteMoves ==
  ASSUME OutboxInv, OutboxTypeOK', NEW n \in Note, UNCHANGED <<attempts, arrived>>,
         \A m \in Note \ {n} : notes'[m] = notes[m],
         notes[n].state \in {"absent", "pending", "failed"},
         notes'[n].state \in {"pending", "cancelled"}, notes'[n].attempt \in {0, notes[n].attempt},
         \A s \in Sender : sender'[s] # NoJob =>
           /\ sender[s] # NoJob /\ sender'[s].note = sender[s].note
           /\ sender'[s].attempt = sender[s].attempt /\ sender'[s].status = sender[s].status
           /\ sender'[s].step = sender[s].step \/ sender'[s].step = "tick"
  PROVE  OutboxInv'
<1>1. \A m \in Note : Unsent(m) => Unsent(m)'
  <2>1. \A m \in Note : Outstanding(m)' => Outstanding(m)
    BY DEF Outstanding, NoJob
  <2>2. QED
    BY <2>1 DEF Unsent
<1>2. \A q \in Sender : Sends(q)' => Sends(q) /\ sender'[q].note = sender[q].note /\ sender'[q].attempt = sender[q].attempt
  BY DEF Sends
<1>3. Numbered'
  BY DEF OutboxInv, OutboxTypeOK, Numbered
<1>4. OneSender'
  BY <1>2 DEF OutboxInv, OneSender
<1>5. Unsent(n)
  BY DEF OutboxInv, NoteSays
<1>6. ASSUME NEW q \in Sender, sender'[q] # NoJob
      PROVE  SenderKnows(q)'
  <2>0. SenderKnows(q) /\ sender[q].note \in Note /\ sender[q].attempt \in Nat
    BY <1>6 DEF OutboxInv, OutboxTypeOK
  <2>1. CASE sender'[q].step = "tick"
    BY <2>1 DEF SenderKnows
  <2>2. CASE sender'[q].step = sender[q].step /\ sender[q].note # n
    BY <1>1, <1>2, <1>6, <2>0, <2>2 DEF SenderKnows
  <2>3. CASE sender'[q].step = sender[q].step /\ sender[q].note = n
    <3>1. sender[q].step # "sending"
      BY <2>0, <2>3 DEF SenderKnows
    <3>2. QED
      BY <1>1, <1>5, <1>6, <2>0, <2>3, <3>1 DEF SenderKnows
  <2>4. QED
    BY <1>6, <2>1, <2>2, <2>3
<1>7. \A m \in Note : NoteSays(m)'
  BY <1>1, <1>5 DEF OutboxInv, NoteSays
<1>8. QED
  BY <1>3, <1>4, <1>6, <1>7 DEF OutboxInv

\* A new attempt, with a number no worker has.
LEMMA ClaimNoteStep ==
  ASSUME OutboxInv, NEW s \in Sender, NEW n \in Note, ClaimNote(s, n)
  PROVE  OutboxInv'
<1> DEFINE a == attempts[n] + 1
           row == [state |-> "sending", attempt |-> a, lease |-> "live"]
<1>0. OutboxTypeOK /\ a \in Nat
  BY DEF OutboxInv, OutboxTypeOK
<1>1. /\ notes[n].state = "pending" /\ attempts' = [attempts EXCEPT ![n] = @ + 1]
      /\ notes' = [notes EXCEPT ![n] = row] /\ Job(s, "claimed", n, a, "unknown")
      /\ UNCHANGED <<arrived, retries, sendMishaps>>
  BY DEF ClaimNote
<1>2. row.state = "sending" /\ row.attempt = a
  OBVIOUS
<1>3. /\ sender'[s] # NoJob /\ sender'[s].step = "claimed" /\ sender'[s].note = n
      /\ sender'[s].attempt = a /\ \A q \in Sender \ {s} : sender'[q] = sender[q]
  BY <1>0, <1>1, JobRow DEF Status
<1>4. /\ attempts'[n] = a /\ \A m \in Note \ {n} : attempts'[m] = attempts[m] /\ notes'[m] = notes[m]
      /\ notes'[n] = row
  BY <1>0, <1>1 DEF OutboxTypeOK
<1>5. OutboxTypeOK'
  BY <1>0, <1>1, JobRow DEF OutboxTypeOK, Status
<1> HIDE DEF row
<1>6. \A m \in Note : Unsent(m) => Unsent(m)'
  <2>1. \A m \in Note : Outstanding(m)' => Outstanding(m)
    BY <1>3 DEF Outstanding
  <2>2. QED
    BY <1>1, <2>1 DEF Unsent
<1>7. Unsent(n)
  BY <1>1 DEF OutboxInv, NoteSays
<1>8. \A q \in Sender \ {s} : Sends(q)' => Sends(q) /\ sender[q].attempt \in Nat /\ sender[q].note \in Note
  BY <1>0, <1>3 DEF Sends, OutboxTypeOK
<1>9. \A q \in Sender : sender[q] # NoJob /\ sender[q].note = n
          /\ sender[q].step \in {"claimed", "resolved", "sending", "query", "finish"} => sender[q].attempt < a
  BY <1>0 DEF OutboxInv, SenderKnows, OutboxTypeOK
<1>10. Numbered'
  BY <1>0, <1>2, <1>4 DEF OutboxInv, Numbered, OutboxTypeOK
<1>11. OneSender'
  <2>1. \A q \in Sender \ {s} : Sends(q)' /\ sender'[q].note = n => sender'[q].attempt # a
    BY <1>0, <1>3, <1>8, <1>9 DEF Sends
  <2>2. QED
    BY <1>3, <1>8, <2>1 DEF OutboxInv, OneSender
<1>12. SenderKnows(s)'
  <2>1. 1 <= a /\ a <= a
    BY <1>0 DEF OutboxTypeOK
  <2> HIDE DEF a
  <2>2. n \notin arrived' /\ \A q \in Sender : ~(sender'[q].step = "sending" /\ sender'[q].note = n)
    BY <1>6, <1>7 DEF Unsent, Outstanding
  <2>3. QED
    BY <1>3, <1>4, <2>1, <2>2 DEF SenderKnows, Unsent, Outstanding
<1>13. ASSUME NEW q \in Sender \ {s}, sender[q] # NoJob
       PROVE  SenderKnows(q)'
  <2>0. SenderKnows(q) /\ sender[q].note \in Note /\ sender[q].attempt \in Nat
    BY <1>0, <1>13 DEF OutboxInv, OutboxTypeOK
  <2>1. CASE sender[q].note = n
    <3>1. sender[q].step # "sending"
      BY <1>1, <2>0, <2>1 DEF SenderKnows
    <3>2. sender[q].step \in {"claimed", "resolved", "sending", "query", "finish"} =>
            sender[q].attempt < a /\ attempts[n] <= attempts'[n]
      BY <1>0, <1>4, <1>9, <1>13, <2>1 DEF OutboxTypeOK
    <3>3. QED
      BY <1>0, <1>1, <1>2, <1>3, <1>4, <2>0, <2>1, <3>1, <3>2 DEF SenderKnows
  <2>2. CASE sender[q].note # n
    <3>1. \A p \in Sender : Sends(p)' /\ sender'[p].note = sender[q].note => Sends(p) /\ sender'[p] = sender[p]
      BY <1>3, <1>8, <2>2
    <3>2. QED
      BY <1>1, <1>3, <1>4, <1>6, <2>0, <2>2, <3>1 DEF SenderKnows
  <2>3. QED
    BY <2>1, <2>2
<1>14. \A m \in Note : NoteSays(m)'
  BY <1>1, <1>2, <1>4, <1>6 DEF OutboxInv, NoteSays
<1>15. QED
  BY <1>3, <1>5, <1>10, <1>11, <1>12, <1>13, <1>14 DEF OutboxInv

\* The owner of the attempt begins to send it.
LEMMA StartStep ==
  ASSUME OutboxInv, NEW s \in Sender, sender[s] # NoJob, sender[s].step = "resolved",
         CanSend(sender[s].note, sender[s].attempt), Onward(s, "sending"),
         UNCHANGED <<notes, attempts, arrived, retries, sendMishaps>>
  PROVE  OutboxInv'
<1> DEFINE n == sender[s].note
<1>0. OutboxTypeOK /\ n \in Note /\ sender[s].attempt \in Nat /\ SenderKnows(s)
  BY DEF OutboxInv, OutboxTypeOK
<1>1. /\ sender'[s] # NoJob /\ sender'[s].step = "sending" /\ sender'[s].note = n
      /\ sender'[s].attempt = sender[s].attempt /\ \A q \in Sender \ {s} : sender'[q] = sender[q]
  BY <1>0, OnwardRow
<1>2. OutboxTypeOK'
  BY <1>0, OnwardRow DEF OutboxTypeOK
<1>3. notes[n].attempt = sender[s].attempt /\ notes[n].state = "sending" /\ Sends(s)
  BY DEF CanSend, Sends
<1>4. \A q \in Sender : Sends(q)' => Sends(q) /\ sender'[q].note = sender[q].note /\ sender'[q].attempt = sender[q].attempt
  BY <1>1, <1>3 DEF Sends
<1> HIDE DEF n
<1>5. \A m \in Note \ {n} : Unsent(m) => Unsent(m)'
  <2>1. \A m \in Note \ {n} : Outstanding(m)' => Outstanding(m)
    BY <1>1 DEF Outstanding
  <2>2. QED
    BY <2>1 DEF Unsent
<1>6. Numbered' /\ OneSender'
  BY <1>4 DEF OutboxInv, Numbered, OneSender
<1>7. SenderKnows(s)'
  BY <1>0, <1>1, <1>3 DEF SenderKnows, n
<1>8. ASSUME NEW q \in Sender \ {s}, sender[q] # NoJob
      PROVE  SenderKnows(q)'
  <2>0. SenderKnows(q) /\ sender[q].note \in Note
    BY <1>8 DEF OutboxInv, OutboxTypeOK
  <2>1. CASE sender[q].note # n
    BY <1>1, <1>4, <1>5, <2>0, <2>1 DEF SenderKnows
  <2>2. CASE sender[q].note = n /\ sender[q].step \in {"claimed", "resolved"}
    <3>1. notes[n].attempt # sender[q].attempt
      BY <1>3, <1>8, <2>2 DEF OutboxInv, OneSender, Sends, n
    <3>2. QED
      BY <1>1, <2>0, <2>2, <3>1 DEF SenderKnows
  <2>3. CASE sender[q].note = n /\ sender[q].step = "finish"
    <3>1. ~(sender[q].status = "not_sent" /\ notes[n].attempt = sender[q].attempt)
      BY <1>3, <2>0, <2>3 DEF SenderKnows, n
    <3>2. QED
      BY <1>1, <2>0, <2>3, <3>1 DEF SenderKnows
  <2>4. CASE sender[q].note = n /\ sender[q].step \notin {"claimed", "resolved", "finish"}
    BY <1>1, <2>0, <2>4 DEF SenderKnows
  <2>5. QED
    BY <2>1, <2>2, <2>3, <2>4
<1>9. \A m \in Note : NoteSays(m)'
  BY <1>3, <1>5 DEF OutboxInv, NoteSays
<1>10. QED
  BY <1>1, <1>2, <1>6, <1>7, <1>8, <1>9 DEF OutboxInv

\* It arrives, whatever the worker learns of it.
LEMMA ArriveStep ==
  ASSUME OutboxInv, NEW s \in Sender, sender[s] # NoJob, sender[s].step = "sending",
         arrived' = arrived \cup {sender[s].note}, NEW status \in {"delivered", "unknown"},
         Job(s, "finish", sender[s].note, sender[s].attempt, status),
         UNCHANGED <<notes, attempts, retries, sendMishaps>>
  PROVE  OutboxInv'
<1> DEFINE n == sender[s].note
<1>0. OutboxTypeOK /\ n \in Note /\ sender[s].attempt \in Nat /\ SenderKnows(s)
  BY DEF OutboxInv, OutboxTypeOK
<1>1. /\ sender'[s] # NoJob /\ sender'[s].step = "finish" /\ sender'[s].note = n
      /\ sender'[s].status = status
      /\ sender'[s].attempt = sender[s].attempt /\ \A q \in Sender \ {s} : sender'[q] = sender[q]
  BY <1>0, JobRow DEF Status
<1>2. OutboxTypeOK'
  BY <1>0, JobRow DEF OutboxTypeOK, Status
<1>3. /\ notes[n].attempt = sender[s].attempt /\ notes[n].state \in {"sending", "unknown", "delivered"}
      /\ Sends(s) /\ Outstanding(n)
  BY <1>0 DEF SenderKnows, Sends, Outstanding
<1>4. \A q \in Sender : Sends(q)' => q # s /\ Sends(q)
  BY <1>1 DEF Sends
<1> HIDE DEF n
<1>5. \A m \in Note \ {n} : Unsent(m) => Unsent(m)'
  <2>1. \A m \in Note : Outstanding(m)' => Outstanding(m)
    BY <1>1 DEF Outstanding
  <2>2. QED
    BY <2>1 DEF Unsent, n
<1>6. Numbered' /\ OneSender'
  BY <1>1, <1>4 DEF OutboxInv, Numbered, OneSender
<1>7. SenderKnows(s)'
  BY <1>0, <1>1 DEF SenderKnows, n
<1>8. ASSUME NEW q \in Sender \ {s}, sender[q] # NoJob
      PROVE  SenderKnows(q)'
  <2>0. SenderKnows(q) /\ sender[q].note \in Note
    BY <1>8 DEF OutboxInv, OutboxTypeOK
  <2>1. CASE sender[q].note # n
    BY <1>1, <1>4, <1>5, <2>0, <2>1 DEF SenderKnows, n
  <2>2. CASE sender[q].note = n /\ sender[q].step \in {"claimed", "resolved"}
    <3>1. notes[n].attempt # sender[q].attempt
      BY <1>3, <1>8, <2>2 DEF OutboxInv, OneSender, Sends, n
    <3>2. QED
      BY <1>1, <2>0, <2>2, <3>1 DEF SenderKnows
  <2>3. CASE sender[q].note = n /\ sender[q].step = "finish"
    <3>1. ~(/\ sender[q].status = "not_sent" /\ notes[n].attempt = sender[q].attempt
            /\ notes[n].state \in {"sending", "unknown"})
      BY <1>3, <2>0, <2>3 DEF SenderKnows, Unsent
    <3>2. QED
      BY <1>1, <2>0, <2>3, <3>1 DEF SenderKnows
  <2>4. CASE sender[q].note = n /\ sender[q].step \notin {"claimed", "resolved", "finish"}
    BY <1>1, <2>0, <2>4 DEF SenderKnows
  <2>5. QED
    BY <2>1, <2>2, <2>3, <2>4
<1>9. \A m \in Note : NoteSays(m)'
  BY <1>3, <1>5 DEF OutboxInv, NoteSays, n
<1>10. QED
  BY <1>1, <1>2, <1>6, <1>7, <1>8, <1>9 DEF OutboxInv

\* A row that is out settles or becomes unknown, on the word of a worker or because
\* its lease has passed.
LEMMA RowSettles ==
  ASSUME OutboxInv, OutboxTypeOK', NEW n \in Note, UNCHANGED <<attempts, arrived>>,
         \A m \in Note \ {n} : notes'[m] = notes[m],
         notes[n].state \in {"sending", "unknown"},
         notes'[n].state \in {"unknown", "delivered", "failed"}, notes'[n].attempt = notes[n].attempt,
         notes'[n].state = "delivered" => n \in arrived,
         notes'[n].state = "failed" => Unsent(n),
         \A s \in Sender : sender'[s] # NoJob => sender'[s] = sender[s]
  PROVE  OutboxInv'
<1>1. \A m \in Note : Unsent(m) => Unsent(m)'
  <2>1. \A m \in Note : Outstanding(m)' => Outstanding(m)
    BY DEF Outstanding, NoJob
  <2>2. QED
    BY <2>1 DEF Unsent
<1>2. \A q \in Sender : Sends(q)' => Sends(q) /\ sender'[q] = sender[q]
  BY DEF Sends
<1>3. Numbered' /\ OneSender'
  BY <1>2 DEF OutboxInv, Numbered, OneSender
<1>4. ASSUME NEW q \in Sender, sender'[q] # NoJob
      PROVE  SenderKnows(q)'
  <2>0. SenderKnows(q) /\ sender[q].note \in Note /\ sender'[q] = sender[q]
    BY <1>4 DEF OutboxInv, OutboxTypeOK
  <2>1. CASE sender[q].note # n
    BY <1>1, <1>2, <2>0, <2>1 DEF SenderKnows
  <2>2. CASE sender[q].note = n /\ sender[q].step = "sending"
    <3>1. notes'[n].state # "failed"
      BY <2>0, <2>2 DEF Unsent, Outstanding
    <3>2. QED
      BY <2>0, <2>2, <3>1 DEF SenderKnows
  <2>3. CASE sender[q].note = n /\ sender[q].step # "sending"
    BY <1>1, <2>0, <2>3 DEF SenderKnows
  <2>4. QED
    BY <2>1, <2>2, <2>3
<1>5. \A m \in Note : NoteSays(m)'
  BY <1>1 DEF OutboxInv, NoteSays
<1>6. QED
  BY <1>3, <1>4, <1>5 DEF OutboxInv


\* Every step keeps the invariant.
LEMMA OutboxStep ==
  ASSUME OutboxInv, [OutboxNext]_outboxVars
  PROVE  OutboxInv'
<1>0. /\ OutboxTypeOK
      /\ \A s \in Sender : sender[s] # NoJob =>
           sender[s].note \in Note /\ sender[s].attempt \in Nat /\ sender[s].status \in Status /\ SenderKnows(s)
      /\ \A s \in Sender : sender[s].step # "idle" => sender[s] # NoJob
  BY DEF OutboxInv, OutboxTypeOK, NoJob
<1>1. CASE UNCHANGED outboxVars
  BY <1>1 DEF outboxVars, OutboxInv, OutboxTypeOK, Numbered, OneSender, Sends, SenderKnows, NoteSays,
     Unsent, Outstanding
<1>2. ASSUME NEW n \in Note, Enqueue(n) \/ CancelNote(n) \/ RetryNote(n)
      PROVE  OutboxInv'
  <2> DEFINE row == notes'[n]
  <2>1. /\ notes[n].state \in {"absent", "pending", "failed"} /\ UNCHANGED <<attempts, arrived, sender>>
        /\ retries' \in [Note -> Nat] /\ sendMishaps' \in Nat
    BY <1>0, <1>2 DEF Enqueue, CancelNote, RetryNote, Retriable, OutboxTypeOK
  <2>2. /\ notes' \in [Note -> [state : {"absent", "pending", "sending", "delivered", "unknown", "failed", "cancelled"},
                                attempt : Nat, lease : {"live", "expired"}]]
        /\ notes'[n].state \in {"pending", "cancelled"} /\ notes'[n].attempt \in {0, notes[n].attempt}
        /\ \A m \in Note \ {n} : notes'[m] = notes[m]
    BY <1>0, <1>2 DEF Enqueue, CancelNote, RetryNote, Requeued, OutboxTypeOK
  <2>3. OutboxTypeOK'
    BY <1>0, <2>1, <2>2 DEF OutboxTypeOK
  <2>4. QED
    BY <2>1, <2>2, <2>3, NoteMoves
<1>3. ASSUME NEW s \in Sender, RetryWake(s)
      PROVE  OutboxInv'
  <2>1. /\ sender[s].step = "retry" /\ sender[s] # NoJob /\ sender[s].note \in Note
        /\ UNCHANGED <<attempts, arrived, retries, sendMishaps>>
    BY <1>0, <1>3 DEF RetryWake
  <2>2. CASE Drops(s) /\ UNCHANGED notes
    <3>1. OutboxTypeOK'
      BY <1>0, <2>1, <2>2, DropRow DEF OutboxTypeOK
    <3>2. QED
      BY <1>0, <2>1, <2>2, <3>1, DropRow, WorkerMoves DEF Sends
  <2>3. CASE notes[sender[s].note].state = "failed" /\ notes' = Requeued(sender[s].note) /\ Onward(s, "tick")
    <3>1. /\ sender'[s] # NoJob /\ sender'[s].step = "tick" /\ sender'[s].note = sender[s].note
          /\ sender'[s].attempt = sender[s].attempt /\ sender'[s].status = sender[s].status
          /\ \A q \in Sender \ {s} : sender'[q] = sender[q]
      BY <1>0, <2>1, <2>3, OnwardRow
    <3>2. /\ notes' \in [Note -> [state : {"absent", "pending", "sending", "delivered", "unknown", "failed", "cancelled"},
                                  attempt : Nat, lease : {"live", "expired"}]]
          /\ notes'[sender[s].note].state = "pending" /\ notes'[sender[s].note].attempt = 0
          /\ \A m \in Note \ {sender[s].note} : notes'[m] = notes[m]
      BY <1>0, <2>1, <2>3 DEF Requeued, OutboxTypeOK
    <3>3. OutboxTypeOK'
      BY <1>0, <2>1, <2>3, <3>2, OnwardRow DEF OutboxTypeOK
    <3>4. QED
      BY <2>1, <2>3, <3>1, <3>2, <3>3, NoteMoves
  <2>4. QED
    BY <1>3, <2>2, <2>3 DEF RetryWake, Retriable
<1>4. ASSUME NEW s \in Sender, Drops(s), UNCHANGED <<notes, attempts, arrived, retries>>, sendMishaps' \in Nat
      PROVE  OutboxInv'
  <2>1. OutboxTypeOK'
    BY <1>0, <1>4, DropRow DEF OutboxTypeOK
  <2>2. QED
    BY <1>0, <1>4, <2>1, DropRow, WorkerMoves DEF Sends
<1>5. ASSUME NEW s \in Sender, NEW n \in Note, NEW a \in Nat, NEW status \in Status,
             NEW step \in {"query", "finish", "retry"}, Job(s, step, n, a, status),
             UNCHANGED <<notes, attempts, arrived, retries, sendMishaps>>, SenderKnows(s)'
      PROVE  OutboxInv'
  <2>1. OutboxTypeOK'
    BY <1>0, <1>5, JobRow DEF OutboxTypeOK
  <2>2. /\ sender'[s].step = step /\ \A q \in Sender \ {s} : sender'[q] = sender[q]
    BY <1>0, <1>5, JobRow
  <2>3. QED
    BY <1>5, <2>1, <2>2, WorkerMoves DEF Sends
<1>6. ASSUME NEW s \in Sender, ResolveDelivery(s)
      PROVE  OutboxInv'
  <2> DEFINE n == sender[s].note
  <2>1. /\ sender[s].step = "claimed" /\ sender[s] # NoJob /\ n \in Note /\ sender[s].attempt \in Nat
        /\ Sends(s) /\ UNCHANGED <<notes, attempts, arrived, retries, sendMishaps>> /\ SenderKnows(s)
    BY <1>0, <1>6 DEF ResolveDelivery, Sends
  <2>2. CASE Onward(s, "resolved")
    <3>1. /\ sender'[s] # NoJob /\ sender'[s].step = "resolved" /\ sender'[s].note = n
          /\ sender'[s].attempt = sender[s].attempt /\ \A q \in Sender \ {s} : sender'[q] = sender[q]
      BY <1>0, <2>1, <2>2, OnwardRow
    <3>2. OutboxTypeOK'
      BY <1>0, <2>1, <2>2, OnwardRow DEF OutboxTypeOK
    <3>3. SenderKnows(s)'
      BY <2>1, <3>1 DEF SenderKnows, Unsent, Outstanding
    <3>4. QED
      BY <2>1, <3>1, <3>2, <3>3, WorkerMoves
  <2>3. CASE Job(s, "finish", n, sender[s].attempt, "not_sent")
    <3>1. /\ sender'[s] # NoJob /\ sender'[s].step = "finish" /\ sender'[s].note = n
          /\ sender'[s].status = "not_sent"
          /\ sender'[s].attempt = sender[s].attempt /\ \A q \in Sender \ {s} : sender'[q] = sender[q]
      BY <1>0, <2>1, <2>3, JobRow DEF Status
    <3>2. \A q \in Sender : Sends(q)' /\ sender'[q].note = n => sender'[q].attempt # sender[s].attempt
      BY <2>1, <3>1 DEF OutboxInv, OneSender, Sends
    <3>3. SenderKnows(s)'
      BY <2>1, <3>1, <3>2 DEF SenderKnows, Unsent, Outstanding
    <3>4. QED
      BY <1>5, <2>1, <2>3, <3>3 DEF Status
  <2>4. QED
    BY <1>6, <2>2, <2>3 DEF ResolveDelivery
<1>7. ASSUME NEW s \in Sender, CheckLease(s)
      PROVE  OutboxInv'
  BY <1>0, <1>4, <1>7, StartStep DEF CheckLease, OutboxTypeOK
<1>8. ASSUME NEW s \in Sender, SendNote(s)
      PROVE  OutboxInv'
  <2> DEFINE n == sender[s].note
  <2>1. /\ sender[s].step = "sending" /\ sender[s] # NoJob /\ n \in Note /\ sender[s].attempt \in Nat
        /\ Sends(s) /\ UNCHANGED <<notes, attempts, retries, sendMishaps>> /\ SenderKnows(s)
    BY <1>0, <1>8 DEF SendNote, Sends
  <2>2. ASSUME NEW status \in {"not_sent", "unknown"}, UNCHANGED arrived,
               status = "not_sent" => /\ n \notin arrived
                                      /\ ~\E q \in Sender \ {s} : sender[q].step = "sending" /\ sender[q].note = n,
               Job(s, "finish", n, sender[s].attempt, status)
        PROVE  OutboxInv'
    <3>1. /\ sender'[s] # NoJob /\ sender'[s].step = "finish" /\ sender'[s].note = n
          /\ sender'[s].status = status
          /\ sender'[s].attempt = sender[s].attempt /\ \A q \in Sender \ {s} : sender'[q] = sender[q]
      BY <1>0, <2>1, <2>2, JobRow DEF Status
    <3>2. \A q \in Sender : Sends(q)' /\ sender'[q].note = n => sender'[q].attempt # sender[s].attempt
      BY <2>1, <3>1 DEF OutboxInv, OneSender, Sends
    <3>3. SenderKnows(s)'
      BY <2>1, <2>2, <3>1, <3>2 DEF SenderKnows, Unsent, Outstanding
    <3>4. QED
      BY <1>5, <2>1, <2>2, <3>3 DEF Status
  <2>3. QED
    BY <1>8, <2>1, <2>2, ArriveStep DEF SendNote
<1>9. ASSUME NEW s \in Sender, NEW n \in Note, Reconcile(s, n)
      PROVE  OutboxInv'
  <2>1. /\ notes[n].state = "unknown" /\ Job(s, "query", n, notes[n].attempt, "unknown")
        /\ notes[n].attempt \in Nat /\ notes[n].attempt >= 1 /\ notes[n].attempt <= attempts[n]
        /\ UNCHANGED <<notes, attempts, arrived, retries, sendMishaps>>
    BY <1>0, <1>9 DEF Reconcile, OutboxTypeOK, OutboxInv, Numbered
  <2>2. SenderKnows(s)'
    BY <1>0, <2>1, JobRow DEF SenderKnows, Status
  <2>3. QED
    BY <1>5, <2>1, <2>2 DEF Status
<1>10. ASSUME NEW s \in Sender, QueryChannel(s)
       PROVE  OutboxInv'
  <2> DEFINE n == sender[s].note
             proof == IF n \in arrived THEN "delivered" ELSE IF Outstanding(n) THEN "unknown" ELSE "not_sent"
  <2>1. /\ sender[s].step = "query" /\ sender[s] # NoJob /\ n \in Note /\ sender[s].attempt \in Nat
        /\ UNCHANGED <<notes, attempts, arrived, retries, sendMishaps>> /\ SenderKnows(s)
    BY <1>0, <1>10 DEF QueryChannel
  <2>2. PICK status \in {proof, "unknown"} : Job(s, "finish", n, sender[s].attempt, status)
    BY <1>10 DEF QueryChannel
  <2>3. /\ status \in Status /\ (status = "delivered" => n \in arrived)
        /\ status = "not_sent" => n \notin arrived /\ ~Outstanding(n)
    BY DEF Status
  <2> HIDE DEF proof
  <2>4. /\ sender'[s] # NoJob /\ sender'[s].step = "finish" /\ sender'[s].note = n
        /\ sender'[s].status = status
        /\ sender'[s].attempt = sender[s].attempt /\ \A q \in Sender \ {s} : sender'[q] = sender[q]
    BY <1>0, <2>1, <2>2, <2>3, JobRow
  <2>5. SenderKnows(s)'
    BY <2>1, <2>3, <2>4 DEF SenderKnows, Unsent, Outstanding
  <2>6. QED
    BY <1>5, <2>1, <2>2, <2>3, <2>5
<1>11. ASSUME NEW s \in Sender, NEW n \in Note, LookAtHistory(s, n)
       PROVE  OutboxInv'
  <2>1. /\ Job(s, "retry", n, notes[n].attempt, "unknown") /\ notes[n].attempt \in Nat
        /\ UNCHANGED <<notes, attempts, arrived, retries, sendMishaps>>
    BY <1>0, <1>11 DEF LookAtHistory, OutboxTypeOK
  <2>2. SenderKnows(s)'
    BY <1>0, <2>1, JobRow DEF SenderKnows, Status
  <2>3. QED
    BY <1>5, <2>1, <2>2 DEF Status
<1>12. ASSUME NEW s \in Sender, Finish(s)
       PROVE  OutboxInv'
  <2> DEFINE n == sender[s].note
             state == IF sender[s].status = "not_sent" THEN "failed" ELSE sender[s].status
  <2>1. /\ sender[s].step = "finish" /\ sender[s] # NoJob /\ n \in Note /\ sender[s].status \in Status
        /\ Drops(s) /\ UNCHANGED <<attempts, arrived, retries, sendMishaps>> /\ SenderKnows(s)
    BY <1>0, <1>12 DEF Finish
  <2>2. CASE ~Finishes(n, sender[s].attempt)
    <3>1. UNCHANGED notes /\ sendMishaps' \in Nat
      BY <1>0, <1>12, <2>1, <2>2 DEF Finish, OutboxTypeOK
    <3>2. QED
      BY <1>4, <2>1, <3>1
  <2>3. CASE Finishes(n, sender[s].attempt)
    <3>1. notes' = [notes EXCEPT ![n] = [@ EXCEPT !.state = state, !.lease = "expired"]]
      BY <1>12, <2>3 DEF Finish
    <3>2. /\ notes[n].attempt = sender[s].attempt /\ notes[n].state \in {"sending", "unknown"}
          /\ state \in {"unknown", "delivered", "failed"}
      BY <2>1, <2>3 DEF Finishes, Status
    <3>3. /\ state = "delivered" => n \in arrived
          /\ state = "failed" => Unsent(n)
      BY <2>1, <3>2 DEF SenderKnows, Status
    <3> HIDE DEF state
    <3> DEFINE row == [notes[n] EXCEPT !.state = state, !.lease = "expired"]
    <3>a. notes' = [notes EXCEPT ![n] = row]
      BY <3>1
    <3>b. notes[n] \in [state : {"absent", "pending", "sending", "delivered", "unknown", "failed", "cancelled"},
                        attempt : Nat, lease : {"live", "expired"}]
      BY <1>0, <2>1 DEF OutboxTypeOK
    <3>c. /\ row.state = state /\ row.attempt = notes[n].attempt
          /\ row \in [state : {"absent", "pending", "sending", "delivered", "unknown", "failed", "cancelled"},
                      attempt : Nat, lease : {"live", "expired"}]
      BY <3>2, <3>b
    <3> HIDE DEF row
    <3>4. /\ notes'[n].state = state /\ notes'[n].attempt = notes[n].attempt
          /\ \A m \in Note \ {n} : notes'[m] = notes[m]
          /\ notes' \in [Note -> [state : {"absent", "pending", "sending", "delivered", "unknown", "failed", "cancelled"},
                                  attempt : Nat, lease : {"live", "expired"}]]
      BY <1>0, <2>1, <3>a, <3>c DEF OutboxTypeOK
    <3>5. OutboxTypeOK'
      BY <1>0, <2>1, <3>4, DropRow DEF OutboxTypeOK
    <3>6. \A q \in Sender : sender'[q] # NoJob => sender'[q] = sender[q]
      BY <1>0, <2>1, DropRow
    <3>7. QED
      BY <2>1, <3>2, <3>3, <3>4, <3>5, <3>6, RowSettles
  <2>4. QED
    BY <2>2, <2>3
<1>13. ASSUME NEW n \in Note, RecoverExpired(n)
       PROVE  OutboxInv'
  <2>1. /\ notes[n].state = "sending" /\ notes' = [notes EXCEPT ![n] = [@ EXCEPT !.state = "unknown"]]
        /\ UNCHANGED <<attempts, arrived, sender, retries, sendMishaps>>
    BY <1>13 DEF RecoverExpired
  <2>2. /\ notes'[n].state = "unknown" /\ notes'[n].attempt = notes[n].attempt
        /\ \A m \in Note \ {n} : notes'[m] = notes[m]
    BY <1>0, <2>1 DEF OutboxTypeOK
  <2>3. OutboxTypeOK'
    BY <1>0, <2>1 DEF OutboxTypeOK
  <2>4. QED
    BY <2>1, <2>2, <2>3, RowSettles
<1>14. ASSUME NEW n \in Note, ExpireLease(n)
       PROVE  OutboxInv'
  <2>1. /\ notes' = [notes EXCEPT ![n] = [@ EXCEPT !.lease = "expired"]]
        /\ UNCHANGED <<attempts, arrived, sender, retries>> /\ sendMishaps' \in Nat
    BY <1>0, <1>14 DEF ExpireLease, SendMishap, OutboxTypeOK
  <2>2. \A m \in Note : notes'[m].state = notes[m].state /\ notes'[m].attempt = notes[m].attempt
    BY <1>0, <2>1 DEF OutboxTypeOK
  <2>3. OutboxTypeOK'
    BY <1>0, <2>1 DEF OutboxTypeOK
  <2>4. \A m \in Note : Unsent(m)' <=> Unsent(m)
    BY <2>1 DEF Unsent, Outstanding
  <2>5. \A s \in Sender : sender[s] # NoJob => SenderKnows(s)'
    BY <1>0, <2>1, <2>2, <2>4 DEF SenderKnows, Sends
  <2>6. QED
    BY <2>1, <2>2, <2>3, <2>4, <2>5 DEF OutboxInv, Numbered, OneSender, Sends, NoteSays
<1>15. ASSUME NEW s \in Sender, NothingToClaim(s) \/ SenderDies(s)
       PROVE  OutboxInv'
  BY <1>0, <1>4, <1>15 DEF NothingToClaim, SenderDies, SendMishap, OutboxTypeOK
<1>16. QED
  BY <1>1, <1>2, <1>3, <1>6, <1>7, <1>8, <1>9, <1>10, <1>11, <1>12, <1>13, <1>14, <1>15, ClaimNoteStep
     DEF OutboxNext

\* Whoever loses a lease, dies or answers late, what the outbox says of a
\* notification is what happened to it.
THEOREM OutboxIsTrue == OutboxSpec => []OutboxTellsTruth
<1>1. OutboxInv => OutboxTellsTruth
  BY DEF OutboxInv, NoteSays, Unsent, OutboxTellsTruth
<1>2. QED
  BY InitiallyEmpty, OutboxStep, <1>1, PTL DEF OutboxSpec

HIDE OutboxAssumption
-----------------------------------------------------------------------------
(* Payments: money moves once, and is refunded at most once over *)

\* A caller is about an operation that was dispatched; while it has not sent the
\* request nobody has, and a final status it is about to record is the truth.
CallerKnows(c) ==
  /\ money[caller[c].op] \notin {"absent", "prepared"}
  /\ caller[c].step = "claimed" => provider[caller[c].op] = "none"
  /\ caller[c].step = "record" /\ caller[c].status = "succeeded" => provider[caller[c].op] = "moved"
  /\ caller[c].step = "record" /\ caller[c].status = "failed" =>
       provider[caller[c].op] # "moved" /\ ~Underway(caller[c].op)

\* Nobody else has claimed what a caller has claimed.
ClaimedOnce ==
  \A c, d \in Caller : /\ caller[c] # NoCall /\ caller[c].step = "claimed"
                       /\ caller[d] # NoCall /\ caller[d].step = "claimed"
                       /\ caller[c].op = caller[d].op
                       => c = d

\* What the provider has was dispatched, and what is final is what it did.
DispatchTrue(k) ==
  /\ provider[k] # "none" => money[k] \notin {"absent", "prepared"}
  /\ money[k] = "succeeded" => provider[k] = "moved"
  /\ money[k] = "failed" => provider[k] # "moved" /\ ~Underway(k)

\* One charge counts, and the refunds that count fit into a charge that succeeded.
OneCharge == \A c, d \in ChargeKey : Reserving(c) /\ Reserving(d) => c = d

RefundsFit ==
  \A c \in ChargeKey : /\ Refunds(Reserved(c)) <= Bill
                       /\ Reserved(c) # {} => money[c] = "succeeded"

PayInv ==
  /\ PayTypeOK
  /\ \A c \in Caller : caller[c] # NoCall => CallerKnows(c)
  /\ ClaimedOnce
  /\ \A k \in MoneyKey : DispatchTrue(k)
  /\ OneCharge /\ RefundsFit

USE PaymentsAssumption

LEMMA InitiallyUnpaid == PayInit => PayInv
<1> SUFFICES ASSUME PayInit PROVE PayInv
  OBVIOUS
<1>1. PayTypeOK
  BY DEF PayInit, PayTypeOK, Final, NoCall
<1>2. \A c \in ChargeKey : Reserved(c) = {}
  BY DEF PayInit, Reserved, Reserving, MoneyKey
<1>3. RefundsFit
  BY <1>2, SumEmpty DEF RefundsFit, Refunds
<1>4. OneCharge
  BY DEF PayInit, OneCharge, Reserving, MoneyKey
<1>5. ClaimedOnce /\ \A c \in Caller : caller[c] = NoCall
  BY DEF PayInit, ClaimedOnce
<1>6. \A k \in MoneyKey : DispatchTrue(k)
  BY DEF PayInit, DispatchTrue
<1>7. QED
  BY <1>1, <1>3, <1>4, <1>5, <1>6 DEF PayInv

\* The sums of refunds are numbers, and fewer refunds are no more money.
LEMMA RefundSums ==
  ASSUME NEW S \in SUBSET RefundKey, NEW T \in SUBSET S
  PROVE  Refunds(S) \in Nat /\ Refunds(T) \in Nat /\ Refunds(T) <= Refunds(S)
<1>1. IsFiniteSet(S) /\ IsFiniteSet(T)
  BY FS_Subset
<1>2. \A k \in S : RefundAmount[k] \in Nat
  OBVIOUS
<1>3. QED
  BY <1>1, <1>2, SumNat, SumSubset DEF Refunds

\* A step that dispatches nothing anew: what counts may only become less.
LEMMA NothingCounts ==
  ASSUME PayInv, UNCHANGED paymentOf,
         \A k \in MoneyKey : /\ Reserving(k)' => Reserving(k)
                             /\ money[k] = "succeeded" => money'[k] = "succeeded"
  PROVE  OneCharge' /\ RefundsFit'
<1>1. OneCharge'
  BY DEF PayInv, OneCharge, MoneyKey
<1>2. ASSUME NEW c \in ChargeKey
      PROVE  Refunds(Reserved(c))' <= Bill /\ (Reserved(c)' # {} => money'[c] = "succeeded")
  <2> DEFINE S == Reserved(c)
             T == Reserved(c)'
  <2>1. T \in SUBSET S /\ S \in SUBSET RefundKey
    BY DEF Reserved, MoneyKey
  <2>2. Refunds(S) <= Bill /\ (S # {} => money[c] = "succeeded")
    BY DEF PayInv, RefundsFit
  <2>3. Refunds(Reserved(c))' = Refunds(T)
    BY DEF Refunds
  <2> HIDE DEF S, T
  <2>4. Refunds(S) \in Nat /\ Refunds(T) \in Nat /\ Refunds(T) <= Refunds(S)
    BY <2>1, RefundSums
  <2>5. T # {} => money'[c] = "succeeded"
    BY <2>1, <2>2 DEF MoneyKey
  <2>6. QED
    BY <2>2, <2>3, <2>4, <2>5 DEF T
<1>3. QED
  BY <1>1, <1>2 DEF RefundsFit

LEMMA PrepareStep ==
  ASSUME PayInv, NEW k \in MoneyKey,
         \/ k \in ChargeKey /\ PrepareCharge(k)
         \/ k \in RefundKey /\ PrepareRefund(k)
  PROVE  PayInv'
<1>1. /\ money[k] = "absent" /\ money' = [money EXCEPT ![k] = "prepared"]
      /\ UNCHANGED <<paymentOf, provider, caller, payMishaps>>
      /\ k \in ChargeKey => \A c \in ChargeKey : ~Reserving(c)
      /\ k \in RefundKey => /\ money[paymentOf[k]] = "succeeded"
                            /\ Refunds(Reserved(paymentOf[k])) + RefundAmount[k] <= Bill
  BY DEF PrepareCharge, PrepareRefund
<1>2. money'[k] = "prepared" /\ \A x \in MoneyKey \ {k} : money'[x] = money[x]
  BY <1>1 DEF PayInv, PayTypeOK
<1>3. PayTypeOK'
  BY <1>1 DEF PayInv, PayTypeOK
<1>4. \A c \in Caller : caller[c] # NoCall => caller[c].op \in MoneyKey /\ caller[c].op # k
  BY <1>1 DEF PayInv, PayTypeOK, CallerKnows
<1>5. \A x \in MoneyKey : Underway(x)' <=> Underway(x)
  BY <1>1 DEF Underway
<1>6. \A c \in Caller : caller'[c] # NoCall => CallerKnows(c)'
  BY <1>1, <1>2, <1>4, <1>5 DEF PayInv, CallerKnows
<1>7. ClaimedOnce'
  BY <1>1 DEF PayInv, ClaimedOnce
<1>8. \A x \in MoneyKey : DispatchTrue(x)'
  BY <1>1, <1>2, <1>5 DEF PayInv, DispatchTrue
<1>9. Reserving(k)' /\ ~Reserving(k) /\ \A x \in MoneyKey \ {k} : Reserving(x)' <=> Reserving(x)
  BY <1>1, <1>2 DEF Reserving
<1>10. OneCharge'
  BY <1>1, <1>9 DEF PayInv, OneCharge, MoneyKey
<1>11. RefundsFit'
  <2> SUFFICES ASSUME NEW c \in ChargeKey
               PROVE  Refunds(Reserved(c))' <= Bill /\ (Reserved(c)' # {} => money'[c] = "succeeded")
    BY DEF RefundsFit
  <2> DEFINE S == Reserved(c)
             T == Reserved(c)'
  <2>1. S \in SUBSET RefundKey /\ Refunds(S) <= Bill /\ (S # {} => money[c] = "succeeded")
    BY DEF PayInv, RefundsFit, Reserved
  <2>2. Refunds(Reserved(c))' = Refunds(T)
    BY DEF Refunds
  <2>3. money[c] = "succeeded" => money'[c] = "succeeded"
    BY <1>1, <1>2 DEF MoneyKey
  <2>4. CASE k \in RefundKey /\ paymentOf[k] = c
    <3>1. T = S \cup {k} /\ k \notin S /\ T \ {k} = S
      BY <1>1, <1>9, <2>4 DEF Reserved, MoneyKey
    <3>2. T \in SUBSET RefundKey /\ IsFiniteSet(T) /\ \A x \in T : RefundAmount[x] \in Nat
      BY <2>1, <2>4, <3>1, FS_Subset
    <3>3. Refunds(S) + RefundAmount[k] <= Bill /\ money[c] = "succeeded"
      BY <1>1, <2>4
    <3> HIDE DEF S, T
    <3>4. Refunds(T) = RefundAmount[k] + Refunds(S)
      BY <3>1, <3>2, SumTerm DEF Refunds
    <3>5. Refunds(S) \in Nat /\ RefundAmount[k] \in Nat
      BY <2>1, <2>4, RefundSums
    <3>6. QED
      BY <2>2, <2>3, <3>3, <3>4, <3>5 DEF T
  <2>5. CASE ~(k \in RefundKey /\ paymentOf[k] = c)
    <3>1. T = S
      BY <1>1, <1>9, <2>5 DEF Reserved, MoneyKey
    <3> HIDE DEF S, T
    <3>2. QED
      BY <2>1, <2>2, <2>3, <3>1 DEF T
  <2>6. QED
    BY <2>4, <2>5
<1>12. QED
  BY <1>3, <1>6, <1>7, <1>8, <1>10, <1>11 DEF PayInv

\* A caller moves on, or stops: it claims nothing, sends nothing, records nothing.
LEMMA CallerStep ==
  ASSUME PayInv, NEW c \in Caller, UNCHANGED <<money, paymentOf, provider>>, PayTypeOK',
         \A d \in Caller \ {c} : caller'[d] = caller[d],
         caller'[c] # NoCall => CallerKnows(c)' /\ caller'[c].step # "claimed"
  PROVE  PayInv'
<1>1. \A k \in MoneyKey : Underway(k)' => Underway(k)
  BY DEF Underway, PayTypeOK, NoCall
<1>2. \A d \in Caller : caller'[d] # NoCall => CallerKnows(d)'
  BY <1>1 DEF PayInv, CallerKnows, PayTypeOK
<1>3. ClaimedOnce'
  BY DEF PayInv, ClaimedOnce
<1>4. \A k \in MoneyKey : DispatchTrue(k)'
  BY <1>1 DEF PayInv, DispatchTrue
<1>5. OneCharge' /\ RefundsFit'
  BY NothingCounts DEF Reserving
<1>6. QED
  BY <1>2, <1>3, <1>4, <1>5 DEF PayInv

LEMMA ClaimStep ==
  ASSUME PayInv, NEW c \in Caller, NEW k \in MoneyKey, ClaimMoney(c, k)
  PROVE  PayInv'
<1> DEFINE row == [step |-> "claimed", op |-> k, status |-> "unknown"]
<1>1. /\ caller[c] = NoCall /\ money[k] = "prepared" /\ money' = [money EXCEPT ![k] = "running"]
      /\ caller' = [caller EXCEPT ![c] = row] /\ UNCHANGED <<paymentOf, provider, payMishaps>>
  BY DEF ClaimMoney, Calls
<1>2. row.step = "claimed" /\ row.op = k /\ row.status = "unknown" /\ row # NoCall
  BY DEF NoCall
<1> HIDE DEF row
<1>3. /\ caller'[c] = row /\ \A d \in Caller \ {c} : caller'[d] = caller[d]
      /\ money'[k] = "running" /\ \A x \in MoneyKey \ {k} : money'[x] = money[x]
  BY <1>1 DEF PayInv, PayTypeOK
<1>4. PayTypeOK'
  BY <1>1 DEF PayInv, PayTypeOK, row
<1>5. provider[k] = "none" /\ \A d \in Caller : caller[d] # NoCall => caller[d].op \in MoneyKey \ {k}
  BY <1>1 DEF PayInv, PayTypeOK, DispatchTrue, CallerKnows
<1>6. \A x \in MoneyKey \ {k} : Underway(x)' => Underway(x)
  BY <1>1, <1>2, <1>3 DEF Underway
<1>7. \A d \in Caller : caller'[d] # NoCall => CallerKnows(d)'
  <2>1. CallerKnows(c)'
    BY <1>1, <1>2, <1>3, <1>5 DEF CallerKnows
  <2>2. ASSUME NEW d \in Caller \ {c}, caller[d] # NoCall
        PROVE  CallerKnows(d)'
    BY <1>1, <1>3, <1>5, <1>6, <2>2 DEF PayInv, CallerKnows
  <2>3. QED
    BY <1>3, <2>1, <2>2
<1>8. ClaimedOnce'
  BY <1>2, <1>3, <1>5 DEF PayInv, ClaimedOnce
<1>9. \A x \in MoneyKey : DispatchTrue(x)'
  BY <1>1, <1>3, <1>6 DEF PayInv, DispatchTrue
<1>10. OneCharge' /\ RefundsFit'
  BY <1>1, <1>3, NothingCounts DEF Reserving
<1>11. QED
  BY <1>4, <1>7, <1>8, <1>9, <1>10 DEF PayInv

\* The request goes out, or the provider decides about one that is pending.
LEMMA ProviderStep ==
  ASSUME PayInv, NEW k \in MoneyKey, NEW decision \in {"pending", "moved", "declined"},
         provider' = [provider EXCEPT ![k] = decision],
         UNCHANGED <<money, paymentOf, payMishaps>>, PayTypeOK',
         \/ /\ decision # "pending" /\ provider[k] = "pending" /\ UNCHANGED caller
         \/ /\ decision = "pending"
            /\ \E c \in Caller : /\ caller[c].step = "claimed" /\ caller[c].op = k
                                 /\ caller'[c] # NoCall /\ caller'[c].step = "sent" /\ caller'[c].op = k
                                 /\ \A d \in Caller \ {c} : caller'[d] = caller[d]
  PROVE  PayInv'
<1>1. provider'[k] = decision /\ \A x \in MoneyKey \ {k} : provider'[x] = provider[x]
  BY DEF PayInv, PayTypeOK
<1>2. Underway(k) /\ provider[k] # "moved"
  BY DEF PayInv, Underway, CallerKnows, NoCall
<1>3. money[k] \in {"running", "unknown"}
  <2>1. money[k] \notin {"absent", "prepared", "failed"}
    BY <1>2 DEF PayInv, DispatchTrue, CallerKnows, NoCall
  <2>2. QED
    BY <1>2, <2>1 DEF PayInv, PayTypeOK, DispatchTrue, Final
<1>4. \A x \in MoneyKey : Underway(x)' => Underway(x)
  <2>1. \A x \in MoneyKey \ {k} : Underway(x)' => Underway(x)
    BY <1>1 DEF Underway
  <2>2. QED
    BY <1>2, <2>1
<1>5. ASSUME NEW d \in Caller, caller'[d] # NoCall
      PROVE  CallerKnows(d)'
  <2>1. CASE caller'[d] = caller[d] /\ caller[d].op # k
    <3>1. caller[d].op \in MoneyKey
      BY <1>5, <2>1 DEF PayInv, PayTypeOK
    <3>2. QED
      BY <1>1, <1>4, <1>5, <2>1, <3>1 DEF PayInv, CallerKnows
  <2>2. CASE caller'[d] = caller[d] /\ caller[d].op = k
    <3>1. ~(caller[d].step = "record" /\ caller[d].status \in Final)
      BY <1>2, <1>5, <2>2 DEF PayInv, CallerKnows, Final
    <3>2. caller[d].step # "claimed"
      BY <1>5, <2>2 DEF PayInv, ClaimedOnce, CallerKnows, NoCall
    <3>3. QED
      BY <1>3, <2>2, <3>1, <3>2 DEF CallerKnows, Final
  <2>3. CASE caller'[d] # caller[d]
    BY <1>3, <1>5, <2>3 DEF CallerKnows
  <2>4. QED
    BY <2>1, <2>2, <2>3
<1>6. ClaimedOnce'
  BY DEF PayInv, ClaimedOnce
<1>7. \A x \in MoneyKey : DispatchTrue(x)'
  BY <1>1, <1>3, <1>4 DEF PayInv, DispatchTrue
<1>8. OneCharge' /\ RefundsFit'
  BY NothingCounts DEF Reserving
<1>9. QED
  BY <1>5, <1>6, <1>7, <1>8 DEF PayInv


\* What a caller records is the truth, and only where nothing final is recorded.
LEMMA RecordStep ==
  ASSUME PayInv, NEW c \in Caller, caller[c] # NoCall, Record(c)
  PROVE  PayInv'
<1> DEFINE k == caller[c].op
           status == caller[c].status
<1>1. /\ caller[c].step = "record" /\ k \in MoneyKey /\ status \in {"unknown"} \cup Final
      /\ caller' = [caller EXCEPT ![c] = NoCall]
      /\ UNCHANGED <<paymentOf, provider, payMishaps>>
      /\ money' = IF Recordable(k) THEN [money EXCEPT ![k] = status] ELSE money
  BY DEF Record, PayInv, PayTypeOK
<1>2. CallerKnows(c)
  BY DEF PayInv
<1> HIDE DEF k, status
<1>3. /\ caller'[c] = NoCall /\ \A d \in Caller \ {c} : caller'[d] = caller[d]
      /\ \A x \in MoneyKey \ {k} : money'[x] = money[x]
      /\ money'[k] = money[k] \/ (money'[k] = status /\ money[k] \in {"running", "unknown"})
  BY <1>1 DEF PayInv, PayTypeOK, Recordable
<1>4. PayTypeOK'
  BY <1>1 DEF PayInv, PayTypeOK
<1>5. \A x \in MoneyKey : Underway(x)' => Underway(x)
  BY <1>1, <1>3 DEF Underway, NoCall
<1>6. money'[k] \notin {"absent", "prepared"}
  <2>1. money[k] \notin {"absent", "prepared"}
    BY <1>2 DEF CallerKnows, k
  <2>2. QED
    BY <1>1, <1>3, <2>1 DEF Final
<1>7. \A d \in Caller : caller'[d] # NoCall => CallerKnows(d)'
  BY <1>1, <1>3, <1>5, <1>6 DEF PayInv, PayTypeOK, CallerKnows
<1>8. ClaimedOnce'
  BY <1>3 DEF PayInv, ClaimedOnce
<1>9. \A x \in MoneyKey : DispatchTrue(x)'
  <2>1. \A x \in MoneyKey \ {k} : DispatchTrue(x)'
    BY <1>1, <1>3, <1>5 DEF PayInv, DispatchTrue
  <2>2. money'[k] = "succeeded" => provider[k] = "moved"
    BY <1>1, <1>2, <1>3 DEF PayInv, DispatchTrue, CallerKnows, k, status
  <2>3. money'[k] = "failed" => provider[k] # "moved" /\ ~Underway(k)
    BY <1>1, <1>2, <1>3 DEF PayInv, DispatchTrue, CallerKnows, k, status
  <2>4. QED
    BY <1>1, <1>5, <1>6, <2>1, <2>2, <2>3 DEF DispatchTrue
<1>10. OneCharge' /\ RefundsFit'
  BY <1>1, <1>3, NothingCounts DEF Reserving
<1>11. QED
  BY <1>4, <1>7, <1>8, <1>9, <1>10 DEF PayInv

LEMMA CancelStep ==
  ASSUME PayInv, NEW k \in MoneyKey, CancelMoney(k)
  PROVE  PayInv'
<1>1. /\ money[k] = "prepared" /\ money' = [money EXCEPT ![k] = "failed"]
      /\ UNCHANGED <<paymentOf, provider, caller, payMishaps>>
  BY DEF CancelMoney
<1>2. money'[k] = "failed" /\ \A x \in MoneyKey \ {k} : money'[x] = money[x]
  BY <1>1 DEF PayInv, PayTypeOK
<1>3. PayTypeOK'
  BY <1>1 DEF PayInv, PayTypeOK, Final
<1>4. \A x \in MoneyKey : Underway(x)' <=> Underway(x)
  BY <1>1 DEF Underway
<1>5. provider[k] = "none" /\ \A d \in Caller : caller[d] # NoCall => caller[d].op # k
  BY <1>1 DEF PayInv, PayTypeOK, DispatchTrue, CallerKnows
<1>6. ~Underway(k)
  BY <1>5 DEF Underway, NoCall
<1>7. \A d \in Caller : caller'[d] # NoCall => CallerKnows(d)'
  BY <1>1, <1>2, <1>4, <1>5 DEF PayInv, PayTypeOK, CallerKnows
<1>8. ClaimedOnce'
  BY <1>1 DEF PayInv, ClaimedOnce
<1>9. \A x \in MoneyKey : DispatchTrue(x)'
  BY <1>1, <1>2, <1>4, <1>5, <1>6 DEF PayInv, DispatchTrue
<1>10. OneCharge' /\ RefundsFit'
  BY <1>1, <1>2, NothingCounts DEF Reserving
<1>11. QED
  BY <1>3, <1>7, <1>8, <1>9, <1>10 DEF PayInv

\* Every step keeps the invariant.
LEMMA PayStep ==
  ASSUME PayInv, [PayNext]_payVars
  PROVE  PayInv'
<1>0. PayTypeOK
  BY DEF PayInv
<1>1. CASE UNCHANGED payVars
  BY <1>1 DEF payVars, PayInv, PayTypeOK, CallerKnows, ClaimedOnce, DispatchTrue, OneCharge, RefundsFit,
     Reserving, Reserved, Refunds, Underway
<1>2. ASSUME NEW k \in MoneyKey, ProviderDecides(k)
      PROVE  PayInv'
  <2>1. PICK result \in {"moved", "declined"} : provider' = [provider EXCEPT ![k] = result]
    BY <1>2 DEF ProviderDecides
  <2>2. PayTypeOK'
    BY <1>0, <1>2, <2>1 DEF ProviderDecides, PayTypeOK
  <2>3. QED
    BY <1>2, <2>1, <2>2, ProviderStep DEF ProviderDecides
<1>3. ASSUME NEW c \in Caller, Send(c)
      PROVE  PayInv'
  <2> DEFINE row == [step |-> "sent", op |-> caller[c].op, status |-> "unknown"]
  <2>1. /\ caller[c].step = "claimed" /\ caller[c] # NoCall /\ caller[c].op \in MoneyKey
        /\ provider' = [provider EXCEPT ![caller[c].op] = "pending"]
        /\ caller' = [caller EXCEPT ![c] = row]
        /\ UNCHANGED <<money, paymentOf, payMishaps>>
    BY <1>0, <1>3 DEF Send, Calls, NoCall, PayTypeOK
  <2>2. row.step = "sent" /\ row.op = caller[c].op /\ row # NoCall
    BY DEF NoCall
  <2>3. PayTypeOK'
    BY <1>0, <2>1 DEF PayTypeOK
  <2> HIDE DEF row
  <2>4. caller'[c] = row /\ \A d \in Caller \ {c} : caller'[d] = caller[d]
    BY <1>0, <2>1 DEF PayTypeOK
  <2>5. QED
    BY <2>1, <2>2, <2>3, <2>4, ProviderStep
<1>4. ASSUME NEW c \in Caller, NEW step \in {"query", "record"}, NEW k \in MoneyKey,
             NEW status \in {"unknown"} \cup Final, Calls(c, step, k, status),
             UNCHANGED <<money, paymentOf, provider>>, payMishaps' \in Nat,
             money[k] \notin {"absent", "prepared"},
             status = "succeeded" => provider[k] = "moved",
             status = "failed" => provider[k] # "moved" /\ ~Underway(k)
      PROVE  PayInv'
  <2> DEFINE row == [step |-> step, op |-> k, status |-> status]
  <2>1. row.step = step /\ row.op = k /\ row.status = status
    OBVIOUS
  <2>2. caller' = [caller EXCEPT ![c] = row]
    BY <1>4 DEF Calls
  <2>3. PayTypeOK'
    BY <1>0, <1>4, <2>2 DEF PayTypeOK
  <2> HIDE DEF row
  <2>4. caller'[c] = row /\ \A d \in Caller \ {c} : caller'[d] = caller[d]
    BY <1>0, <2>2 DEF PayTypeOK
  <2>5. Underway(k)' => Underway(k)
    BY <1>4, <2>1, <2>4 DEF Underway
  <2>6. CallerKnows(c)'
    BY <1>4, <2>1, <2>4, <2>5 DEF CallerKnows
  <2>7. QED
    BY <1>4, <2>1, <2>3, <2>4, <2>6, CallerStep
<1>5. \A c \in Caller : caller[c].step \in {"claimed", "sent", "query", "record"} =>
        /\ caller[c] # NoCall /\ caller[c].op \in MoneyKey
        /\ money[caller[c].op] \notin {"absent", "prepared"}
  BY <1>0 DEF PayTypeOK, NoCall, PayInv, CallerKnows
<1>6. ASSUME NEW c \in Caller, Answered(c)
      PROVE  PayInv'
  <2>1. /\ caller[c].step = "sent" /\ provider[caller[c].op] \in {"moved", "declined"}
        /\ Calls(c, "record", caller[c].op, Verdict(caller[c].op))
        /\ UNCHANGED <<money, paymentOf, provider, payMishaps>>
    BY <1>6 DEF Answered
  <2>2. ~\E d \in Caller : caller[d].step = "claimed" /\ caller[d].op = caller[c].op
    BY <1>5, <2>1 DEF PayInv, CallerKnows, NoCall
  <2>3. /\ Verdict(caller[c].op) \in {"unknown"} \cup Final
        /\ Verdict(caller[c].op) = "succeeded" => provider[caller[c].op] = "moved"
        /\ Verdict(caller[c].op) = "failed" => provider[caller[c].op] # "moved" /\ ~Underway(caller[c].op)
    BY <2>1, <2>2 DEF Verdict, Final, Underway
  <2>4. payMishaps' \in Nat
    BY <1>0, <2>1 DEF PayTypeOK
  <2>5. QED
    BY <1>4, <1>5, <2>1, <2>3, <2>4
<1>7. ASSUME NEW c \in Caller, Interrupted(c)
      PROVE  PayInv'
  BY <1>0, <1>4, <1>5, <1>7 DEF Interrupted, PayMishap, PayTypeOK
<1>8. ASSUME NEW c \in Caller, NEW k \in MoneyKey, AskProvider(c, k)
      PROVE  PayInv'
  BY <1>0, <1>4, <1>8 DEF AskProvider, Reconcilable, PayTypeOK
<1>9. ASSUME NEW c \in Caller, QueryAnswered(c)
      PROVE  PayInv'
  <2> DEFINE status == IF Underway(caller[c].op) THEN "unknown" ELSE Verdict(caller[c].op)
  <2>1. /\ caller[c].step = "query" /\ Calls(c, "record", caller[c].op, status)
        /\ UNCHANGED <<money, paymentOf, provider, payMishaps>>
    BY <1>9 DEF QueryAnswered
  <2>2. /\ status \in {"unknown"} \cup Final
        /\ status = "succeeded" => provider[caller[c].op] = "moved"
        /\ status = "failed" => provider[caller[c].op] # "moved" /\ ~Underway(caller[c].op)
    BY DEF Verdict, Final
  <2>3. payMishaps' \in Nat
    BY <1>0, <2>1 DEF PayTypeOK
  <2> HIDE DEF status
  <2>4. QED
    BY <1>4, <1>5, <2>1, <2>2, <2>3
<1>10. ASSUME NEW c \in Caller, CallerDies(c)
       PROVE  PayInv'
  <2>1. /\ caller' = [caller EXCEPT ![c] = NoCall] /\ payMishaps' = payMishaps + 1
        /\ UNCHANGED <<money, paymentOf, provider>>
    BY <1>10 DEF CallerDies, PayMishap
  <2>2. PayTypeOK' /\ caller'[c] = NoCall /\ \A d \in Caller \ {c} : caller'[d] = caller[d]
    BY <1>0, <2>1 DEF PayTypeOK
  <2>3. QED
    BY <2>1, <2>2, CallerStep
<1>11. ASSUME NEW c \in Caller, Record(c)
       PROVE  PayInv'
  BY <1>5, <1>11, RecordStep DEF Record
<1>12. QED
  BY <1>1, <1>2, <1>3, <1>6, <1>7, <1>8, <1>9, <1>10, <1>11, PrepareStep, ClaimStep, CancelStep
     DEF PayNext, MoneyKey

\* Whatever answers get lost and whoever dies, the provider moves the money of an
\* invoice once and refunds no more than that, and what is final is what it did.
THEOREM MoneyMoves == PaySpec => []MoneyMovesOnce
<1>1. PayInv => MoneyMovesOnce
  <2> SUFFICES ASSUME PayInv PROVE MoneyMovesOnce
    OBVIOUS
  <2>0. \A k \in MoneyKey : provider[k] = "moved" => Reserving(k)
    BY DEF PayInv, DispatchTrue, Reserving
  <2>1. Cardinality({k \in ChargeKey : provider[k] = "moved"}) <= 1
    <3> DEFINE moved == {k \in ChargeKey : provider[k] = "moved"}
    <3>1. CASE moved = {}
      BY <3>1, FS_EmptySet
    <3>2. CASE moved # {}
      <4>1. PICK k \in moved : TRUE
        BY <3>2
      <4>2. moved = {k}
        BY <2>0, <4>1 DEF PayInv, OneCharge, MoneyKey
      <4>3. Cardinality(moved) = 1
        <5> HIDE DEF moved
        <5>1. QED
          BY <4>2, FS_Singleton
      <4>4. QED
        BY <4>3
    <3>3. QED
      BY <3>1, <3>2
  <2>2. ASSUME NEW c \in ChargeKey
        PROVE  Refunds({k \in RefundKey : paymentOf[k] = c /\ provider[k] = "moved"})
                 <= IF provider[c] = "moved" THEN Bill ELSE 0
    <3> DEFINE S == Reserved(c)
               T == {k \in RefundKey : paymentOf[k] = c /\ provider[k] = "moved"}
    <3>1. T \in SUBSET S /\ S \in SUBSET RefundKey
      BY <2>0 DEF Reserved, MoneyKey
    <3>2. Refunds(S) <= Bill /\ (S # {} => money[c] = "succeeded")
      BY DEF PayInv, RefundsFit
    <3> HIDE DEF S, T
    <3>3. Refunds(S) \in Nat /\ Refunds(T) \in Nat /\ Refunds(T) <= Refunds(S)
      BY <3>1, RefundSums
    <3>4. CASE provider[c] = "moved"
      BY <3>2, <3>3, <3>4 DEF T
    <3>5. CASE provider[c] # "moved"
      <4>1. money[c] # "succeeded"
        BY <3>5 DEF PayInv, DispatchTrue, MoneyKey
      <4>2. T = {}
        BY <3>1, <3>2, <4>1
      <4>3. Refunds(T) = 0
        BY <4>2, SumEmpty DEF Refunds
      <4>4. QED
        BY <3>5, <4>3 DEF T
    <3>6. QED
      BY <3>4, <3>5
  <2>3. QED
    BY <2>1, <2>2 DEF MoneyMovesOnce, PayInv, DispatchTrue
<1>2. QED
  BY InitiallyUnpaid, PayStep, <1>1, PTL DEF PaySpec

HIDE PaymentsAssumption
-----------------------------------------------------------------------------
(* EventFeed: no event is passed over, for any keys, publishers, workers, page
   limit and mishaps *)

\* The lock of the scope excludes, so that a number that is still in doubt is
\* above every number that a reader can have seen.
Excludes == \A p, q \in Publisher : publisher[p] # NoTransaction /\ publisher[q] # NoTransaction => p = q

Numbers ==
  /\ cursor <= allocated
  /\ \A k \in EventKey : events[k] <= allocated
  /\ \A j, k \in EventKey : events[j] # 0 /\ events[j] = events[k] => j = k
  /\ \A p \in Publisher : publisher[p].step = "inserted" =>
       /\ publisher[p].seq <= allocated /\ cursor < publisher[p].seq
       /\ \A k \in EventKey : events[k] < publisher[p].seq

\* What a worker has in hand: the events next to a position that the cursor
\* has reached, without a gap.
PageOf(w) ==
  /\ tick[w].at <= cursor
  /\ \A k \in tick[w].page : tick[w].at < events[k]
  /\ \A k \in tick[w].page, j \in EventKey : tick[w].at < events[j] /\ events[j] < events[k] => j \in tick[w].page
  /\ tick[w].step # "list" => tick[w].page # {}
  /\ tick[w].step = "acknowledge" => First(tick[w].page) \in scheduled

Pages == \A w \in Worker : tick[w] # Rest => PageOf(w)

FeedInv == FeedTypeOK /\ Excludes /\ Numbers /\ Pages /\ NoEventSkipped

USE EventFeedAssumption

\* A page that is not empty has a first event.
LEMMA FirstIsLeast ==
  ASSUME events \in [EventKey -> Nat], NEW page \in SUBSET EventKey, page # {}
  PROVE  First(page) \in page /\ \A e \in page : events[First(page)] <= events[e]
<1> DEFINE numbers == {events[k] : k \in page}
<1>1. numbers \subseteq Nat /\ numbers # {}
  OBVIOUS
<1>2. PICK n \in numbers : \A m \in numbers : ~(<<m, n>> \in OpToRel(<, Nat))
  <2> HIDE DEF numbers
  <2> QED  BY <1>1, NatLessThanWellFounded, WFMin
<1>3. \A m \in numbers : n <= m
  <2> SUFFICES ASSUME NEW m \in numbers PROVE n <= m
    OBVIOUS
  <2>1. m \in Nat /\ n \in Nat
    BY <1>1, <1>2
  <2>2. ~(m < n)
    BY <1>2, <2>1 DEF OpToRel
  <2> QED  BY <2>1, <2>2
<1>4. \E k \in page : \A e \in page : events[k] <= events[e]
  BY <1>2, <1>3
<1> QED  BY <1>4 DEF First

\* A page leaves no gap behind its start.
LEMMA PageHasNoGap ==
  ASSUME events \in [EventKey -> Nat], NEW n \in Nat,
         NEW k \in PageAfter(n), NEW j \in EventKey, n < events[j], events[j] < events[k]
  PROVE  j \in PageAfter(n)
<1> DEFINE below(x) == {e \in EventKey : events[e] > n /\ events[e] < events[x]}
<1>1. k \in EventKey /\ Cardinality(below(k)) < PageLimit
  BY DEF PageAfter, Before
<1>2. below(j) \subseteq below(k) /\ IsFiniteSet(below(k))
  BY <1>1, FS_Subset
<1>3. /\ Cardinality(below(j)) <= Cardinality(below(k))
      /\ Cardinality(below(j)) \in Nat /\ Cardinality(below(k)) \in Nat
  <2> HIDE DEF below
  <2> QED  BY <1>2, FS_Subset, FS_CardinalityType
<1>4. Cardinality(below(j)) < PageLimit
  BY <1>1, <1>3
<1> QED  BY <1>4 DEF PageAfter, Before

LEMMA Initially == FeedInit => FeedInv
  BY DEF FeedInit, FeedInv, FeedTypeOK, Excludes, Numbers, Pages, NoEventSkipped, NoTransaction, Rest

\* A step of the publishers: what they write to their rows.
LEMMA LockStep ==
  ASSUME FeedInv, NEW p \in Publisher, NEW k \in EventKey, Lock(p, k)
  PROVE  FeedInv'
<1> USE DEF FeedInv
<1>1. /\ publisher' = [publisher EXCEPT ![p] = [step |-> "locked", key |-> k, seq |-> 0]]
      /\ UNCHANGED <<events, allocated, cursor, scheduled, tick, feedMishaps>>
      /\ \A q \in Publisher : publisher[q] = NoTransaction
  BY DEF Lock, LockFree
<1>2. FeedTypeOK'
  BY <1>1 DEF FeedTypeOK
<1>3. Excludes'
  BY <1>1 DEF Excludes, FeedTypeOK
<1>4. Numbers'
  <2>1. \A q \in Publisher : publisher'[q].step = "inserted" => publisher[q].step = "inserted" /\ publisher'[q] = publisher[q]
    BY <1>1 DEF FeedTypeOK
  <2> QED  BY <1>1, <2>1 DEF Numbers
<1>5. Pages' /\ NoEventSkipped'
  BY <1>1 DEF Pages, PageOf, NoEventSkipped, First
<1> QED  BY <1>2, <1>3, <1>4, <1>5

LEMMA AllocateStep ==
  ASSUME FeedInv, NEW p \in Publisher, Allocate(p)
  PROVE  FeedInv'
<1> USE DEF FeedInv
<1> DEFINE row == [step |-> "inserted", key |-> publisher[p].key, seq |-> allocated + 1]
<1>1. publisher[p].step = "locked" /\ publisher[p] # NoTransaction
  BY DEF Allocate, NoTransaction
<1>2. publisher[p] \in [step : {"locked", "inserted"}, key : EventKey, seq : Nat] /\ allocated \in Nat
  BY <1>1 DEF FeedTypeOK
<1>3. row \in [step : {"locked", "inserted"}, key : EventKey, seq : Nat] /\ row.seq = allocated + 1 /\ row.step = "inserted"
  BY <1>2
<1>4. /\ allocated' = allocated + 1 /\ publisher' = [publisher EXCEPT ![p] = row]
      /\ UNCHANGED <<events, cursor, scheduled, tick, feedMishaps>>
  BY DEF Allocate
<1> HIDE DEF row
<1>5. FeedTypeOK'
  BY <1>2, <1>3, <1>4 DEF FeedTypeOK
<1>6. Excludes'
  <2> SUFFICES ASSUME NEW q \in Publisher, NEW r \in Publisher,
                      publisher'[q] # NoTransaction, publisher'[r] # NoTransaction
               PROVE  q = r
    BY DEF Excludes
  <2>1. publisher[q] # NoTransaction /\ publisher[r] # NoTransaction
    BY <1>1, <1>4 DEF FeedTypeOK
  <2> QED  BY <2>1 DEF Excludes
<1>7. Numbers'
  <2>1. \A k \in EventKey : events[k] \in Nat /\ events[k] < allocated + 1
    BY <1>2 DEF FeedTypeOK, Numbers
  <2>2. cursor < allocated + 1 /\ cursor \in Nat
    BY <1>2 DEF FeedTypeOK, Numbers
  <2>3. ASSUME NEW q \in Publisher, publisher'[q].step = "inserted" PROVE q = p
    <3>1. CASE q # p
      <4>1. publisher[q].step = "inserted"
        BY <1>4, <2>3, <3>1 DEF FeedTypeOK
      <4> QED  BY <1>1, <3>1, <4>1 DEF Excludes, NoTransaction
    <3> QED  BY <3>1
  <2>4. publisher'[p] = row
    BY <1>4 DEF FeedTypeOK
  <2> QED  BY <1>2, <1>3, <1>4, <2>1, <2>2, <2>3, <2>4 DEF Numbers, FeedTypeOK
<1>8. Pages' /\ NoEventSkipped'
  BY <1>4 DEF Pages, PageOf, NoEventSkipped, First
<1> QED  BY <1>5, <1>6, <1>7, <1>8

\* The end of a transaction, of either kind.
LEMMA EndOfTransaction ==
  ASSUME FeedTypeOK, Excludes, NEW p \in Publisher, publisher[p] # NoTransaction,
         publisher' = [publisher EXCEPT ![p] = NoTransaction]
  PROVE  \A q \in Publisher : publisher'[q] = NoTransaction
  BY DEF FeedTypeOK, Excludes

LEMMA CommitStep ==
  ASSUME FeedInv, NEW p \in Publisher, Commit(p)
  PROVE  FeedInv'
<1> USE DEF FeedInv
<1> DEFINE n == publisher[p].seq
           key == publisher[p].key
<1>1. publisher[p].step = "inserted" /\ publisher[p] # NoTransaction
  BY DEF Commit, NoTransaction
<1>2. n \in Nat /\ key \in EventKey /\ allocated \in Nat /\ cursor \in Nat
  BY <1>1 DEF FeedTypeOK, NoTransaction
<1>3. n <= allocated /\ cursor < n /\ \A k \in EventKey : events[k] < n
  BY <1>1 DEF Numbers
<1>4. /\ events' = [events EXCEPT ![key] = IF @ = 0 THEN n ELSE @]
      /\ publisher' = [publisher EXCEPT ![p] = NoTransaction]
      /\ UNCHANGED <<allocated, cursor, scheduled, tick, feedMishaps>>
  BY DEF Commit
<1> HIDE DEF n, key
<1>5. events \in [EventKey -> Nat] /\ events' \in [EventKey -> Nat]
  BY <1>2, <1>4 DEF FeedTypeOK
<1>6. \A k \in EventKey : \/ events'[k] = events[k]
                          \/ k = key /\ events[k] = 0 /\ events'[k] = n
  BY <1>2, <1>4, <1>5
<1>7. \A q \in Publisher : publisher'[q] = NoTransaction
  BY <1>1, <1>4, EndOfTransaction
<1>8. FeedTypeOK'
  <2>1. publisher' \in [Publisher -> {NoTransaction} \cup [step : {"locked", "inserted"}, key : EventKey, seq : Nat]]
    BY <1>4 DEF FeedTypeOK
  <2>2. scheduled' \subseteq {k \in EventKey : events'[k] # 0}
    BY <1>4, <1>5, <1>6 DEF FeedTypeOK
  <2> QED  BY <1>4, <1>5, <2>1, <2>2 DEF FeedTypeOK
<1>9. Excludes'
  BY <1>7 DEF Excludes
<1>10. Numbers'
  <2>1. \A q \in Publisher : publisher'[q].step # "inserted"
    BY <1>7 DEF NoTransaction
  <2>2. \A j, k \in EventKey : events'[j] # 0 /\ events'[j] = events'[k] => j = k
    BY <1>2, <1>3, <1>5, <1>6 DEF Numbers
  <2>3. \A k \in EventKey : events'[k] <= allocated'
    BY <1>2, <1>3, <1>4, <1>5, <1>6 DEF Numbers
  <2> QED  BY <1>4, <2>1, <2>2, <2>3 DEF Numbers
<1>11. NoEventSkipped'
  BY <1>2, <1>3, <1>4, <1>5, <1>6 DEF NoEventSkipped
<1>12. Pages'
  <2> SUFFICES ASSUME NEW w \in Worker, tick[w] # Rest PROVE PageOf(w)'
    BY <1>4 DEF Pages
  <2>1. PageOf(w) /\ tick' = tick /\ cursor' = cursor /\ scheduled' = scheduled
    BY <1>4 DEF Pages
  <2>2. tick[w].at \in Nat /\ tick[w].page \subseteq EventKey
    BY DEF FeedTypeOK, Rest
  <2>3. \A k \in tick[w].page : events[k] # 0 /\ events'[k] = events[k]
    BY <1>5, <1>6, <2>1, <2>2 DEF PageOf
  <2>4. First(tick[w].page)' = First(tick[w].page)
    BY <2>1, <2>3 DEF First
  <2>5. \A k \in tick[w].page, j \in EventKey : tick[w].at < events'[j] /\ events'[j] < events'[k] => j \in tick[w].page
    BY <1>2, <1>3, <1>5, <1>6, <2>1, <2>2, <2>3 DEF PageOf
  <2> QED  BY <2>1, <2>3, <2>4, <2>5 DEF PageOf
<1> QED  BY <1>8, <1>9, <1>10, <1>11, <1>12

LEMMA RollbackStep ==
  ASSUME FeedInv, NEW p \in Publisher, Rollback(p)
  PROVE  FeedInv'
<1> USE DEF FeedInv
<1>1. /\ publisher[p] # NoTransaction /\ publisher' = [publisher EXCEPT ![p] = NoTransaction]
      /\ feedMishaps' = feedMishaps + 1
      /\ UNCHANGED <<events, allocated, cursor, scheduled, tick>>
  BY DEF Rollback, FeedMishap
<1>2. \A q \in Publisher : publisher'[q] = NoTransaction
  BY <1>1, EndOfTransaction
<1>3. FeedTypeOK'
  BY <1>1 DEF FeedTypeOK
<1>4. Excludes' /\ Numbers'
  <2>1. \A q \in Publisher : publisher'[q].step # "inserted"
    BY <1>2 DEF NoTransaction
  <2> QED  BY <1>1, <1>2, <2>1 DEF Excludes, Numbers
<1>5. Pages' /\ NoEventSkipped'
  BY <1>1 DEF Pages, PageOf, NoEventSkipped, First
<1> QED  BY <1>3, <1>4, <1>5

\* The steps of the workers.
LEMMA ReadCursorStep ==
  ASSUME FeedInv, NEW w \in Worker, ReadCursor(w)
  PROVE  FeedInv'
<1> USE DEF FeedInv
<1>1. /\ tick' = [tick EXCEPT ![w] = [step |-> "list", at |-> cursor, page |-> {}]]
      /\ UNCHANGED <<events, allocated, publisher, cursor, scheduled, feedMishaps>>
  BY DEF ReadCursor
<1>2. FeedTypeOK'
  BY <1>1 DEF FeedTypeOK
<1>3. Excludes' /\ Numbers' /\ NoEventSkipped'
  BY <1>1 DEF Excludes, Numbers, NoEventSkipped
<1>4. ASSUME NEW v \in Worker, tick'[v] # Rest PROVE PageOf(v)'
  <2>1. CASE v # w
    BY <1>1, <1>4, <2>1 DEF Pages, PageOf, First, FeedTypeOK
  <2>2. CASE v = w
    <3>1. tick'[v] = [step |-> "list", at |-> cursor, page |-> {}] /\ cursor \in Nat
      BY <1>1, <2>2 DEF FeedTypeOK
    <3> QED  BY <1>1, <3>1 DEF PageOf
  <2> QED  BY <2>1, <2>2
<1> QED  BY <1>2, <1>3, <1>4 DEF Pages

LEMMA ListStep ==
  ASSUME FeedInv, NEW w \in Worker, List(w)
  PROVE  FeedInv'
<1> USE DEF FeedInv
<1> DEFINE page == PageAfter(tick[w].at)
           row == IF page = {} THEN Rest ELSE [step |-> "event", at |-> tick[w].at, page |-> page]
<1>1. /\ tick[w].step = "list" /\ tick[w] # Rest
      /\ tick' = [tick EXCEPT ![w] = row]
      /\ UNCHANGED <<events, allocated, publisher, cursor, scheduled, feedMishaps>>
  BY DEF List, Rest
<1>2. tick[w].at \in Nat /\ events \in [EventKey -> Nat]
  BY <1>1 DEF FeedTypeOK, Rest
<1>3. page \subseteq EventKey /\ \A k \in page : tick[w].at < events[k]
  BY <1>2 DEF PageAfter
<1>4. \A k \in page, j \in EventKey : tick[w].at < events[j] /\ events[j] < events[k] => j \in page
  BY <1>2, PageHasNoGap
<1>5. row \in {Rest} \cup [step : {"list", "event", "acknowledge"}, at : Nat, page : SUBSET EventKey]
  BY <1>2, <1>3
<1>6. row # Rest => row.step = "event" /\ row.at = tick[w].at /\ row.page = page /\ page # {}
  OBVIOUS
<1> HIDE DEF row, page
<1>7. FeedTypeOK'
  BY <1>1, <1>5 DEF FeedTypeOK
<1>8. Excludes' /\ Numbers' /\ NoEventSkipped'
  BY <1>1 DEF Excludes, Numbers, NoEventSkipped
<1>9. ASSUME NEW v \in Worker, tick'[v] # Rest PROVE PageOf(v)'
  <2>1. CASE v # w
    BY <1>1, <1>9, <2>1 DEF Pages, PageOf, First, FeedTypeOK
  <2>2. CASE v = w
    <3>1. tick'[v] = row
      BY <1>1, <2>2 DEF FeedTypeOK
    <3>2. tick[w].at <= cursor
      BY <1>1 DEF Pages, PageOf
    <3> QED  BY <1>1, <1>3, <1>4, <1>6, <1>9, <3>1, <3>2 DEF PageOf
  <2> QED  BY <2>1, <2>2
<1> QED  BY <1>7, <1>8, <1>9 DEF Pages

LEMMA ScheduleStep ==
  ASSUME FeedInv, NEW w \in Worker, ScheduleEvent(w)
  PROVE  FeedInv'
<1> USE DEF FeedInv
<1> DEFINE page == tick[w].page
<1>1. /\ tick[w].step = "event" /\ tick[w] # Rest
      /\ scheduled' = scheduled \cup {First(page)}
      /\ tick' = [tick EXCEPT ![w] = [@ EXCEPT !.step = "acknowledge"]]
      /\ UNCHANGED <<events, allocated, publisher, cursor, feedMishaps>>
  BY DEF ScheduleEvent, Rest
<1>2. tick[w] \in [step : {"list", "event", "acknowledge"}, at : Nat, page : SUBSET EventKey]
  BY <1>1 DEF FeedTypeOK
<1>3. PageOf(w) /\ page # {} /\ events \in [EventKey -> Nat]
  BY <1>1 DEF Pages, PageOf, FeedTypeOK
<1>4. First(page) \in page
  BY <1>2, <1>3, FirstIsLeast
<1>5. First(page) \in EventKey /\ events[First(page)] # 0
  BY <1>2, <1>3, <1>4 DEF PageOf
<1>6. FeedTypeOK'
  BY <1>1, <1>2, <1>5 DEF FeedTypeOK
<1>7. Excludes' /\ Numbers' /\ NoEventSkipped'
  BY <1>1 DEF Excludes, Numbers, NoEventSkipped
<1>8. ASSUME NEW v \in Worker, tick'[v] # Rest PROVE PageOf(v)'
  <2>1. CASE v # w
    BY <1>1, <1>8, <2>1 DEF Pages, PageOf, First, FeedTypeOK
  <2>2. CASE v = w
    <3>1. tick'[v].step = "acknowledge" /\ tick'[v].at = tick[w].at /\ tick'[v].page = page
      BY <1>1, <1>2, <2>2 DEF FeedTypeOK
    <3>2. tick'[v].page = page /\ events' = events
      BY <1>1, <3>1
    <3>3. First(tick[v].page)' = First(page)
      BY <3>2 DEF First
    <3>4. First(tick[v].page)' \in scheduled'
      BY <1>1, <3>3
    <3> QED  BY <1>1, <1>3, <3>1, <3>4 DEF PageOf
  <2> QED  BY <2>1, <2>2
<1> QED  BY <1>6, <1>7, <1>8 DEF Pages

\* The cursor moves over the first event of the page only: the one with an
\* intent, and with no event between it and the cursor.
LEMMA AcknowledgeStep ==
  ASSUME FeedInv, NEW w \in Worker, Acknowledge(w)
  PROVE  FeedInv'
<1> USE DEF FeedInv
<1> DEFINE page == tick[w].page
           at == tick[w].at
           k == First(page)
           rest == page \ {k}
           onward == IF rest = {} THEN Rest ELSE [step |-> "event", at |-> events[k], page |-> rest]
           row == IF cursor' >= events[k] THEN onward ELSE Rest
<1>1. /\ tick[w].step = "acknowledge" /\ tick[w] # Rest
      /\ cursor' = IF cursor = at THEN events[k] ELSE cursor
      /\ tick' = [tick EXCEPT ![w] = row]
      /\ UNCHANGED <<events, allocated, publisher, scheduled, feedMishaps>>
  BY DEF Acknowledge, Rest
<1>2. page \subseteq EventKey /\ at \in Nat /\ events \in [EventKey -> Nat] /\ cursor \in Nat
  BY <1>1 DEF FeedTypeOK, Rest
<1>3. PageOf(w)
  BY <1>1 DEF Pages
<1>4. page # {}
  BY <1>1, <1>3 DEF PageOf
<1>5. k \in page /\ \A e \in page : events[k] <= events[e]
  BY <1>2, <1>4, FirstIsLeast
<1>6. k \in scheduled /\ at < events[k] /\ at <= cursor
  BY <1>1, <1>3, <1>5 DEF PageOf
<1>7. \A e \in page, j \in EventKey : at < events[j] /\ events[j] < events[e] => j \in page
  BY <1>3 DEF PageOf
<1>8. k \in EventKey /\ events[k] \in Nat
  BY <1>2, <1>5
<1>9. row \in {Rest} \cup [step : {"list", "event", "acknowledge"}, at : Nat, page : SUBSET EventKey]
  BY <1>2, <1>8
<1>10. row # Rest => /\ row.step = "event" /\ row.at = events[k] /\ row.page = rest /\ rest # {}
                     /\ cursor' >= events[k]
  OBVIOUS
<1> HIDE DEF page, at, k, row
<1>11. cursor' \in Nat /\ cursor <= cursor' /\ (cursor' = cursor \/ (cursor = at /\ cursor' = events[k]))
  BY <1>1, <1>2, <1>6, <1>8
<1>12. FeedTypeOK'
  BY <1>1, <1>9, <1>11 DEF FeedTypeOK
<1>13. Excludes'
  BY <1>1 DEF Excludes
<1>14. Numbers'
  BY <1>1, <1>8, <1>11 DEF Numbers
<1>15. NoEventSkipped'
  <2> SUFFICES ASSUME NEW j \in EventKey, events[j] # 0, events[j] <= cursor' PROVE j \in scheduled
    BY <1>1 DEF NoEventSkipped
  <2>1. CASE events[j] <= cursor
    BY <2>1 DEF NoEventSkipped
  <2>2. CASE cursor = at /\ cursor' = events[k] /\ at < events[j]
    <3>1. CASE events[j] = events[k]
      BY <1>6, <1>8, <3>1 DEF Numbers
    <3>2. CASE events[j] < events[k]
      BY <1>2, <1>5, <1>7, <1>8, <2>2, <3>2
    <3> QED  BY <1>2, <1>8, <2>2, <3>1, <3>2
  <2> QED  BY <1>2, <1>11, <2>1, <2>2
<1>16. ASSUME NEW v \in Worker, tick'[v] # Rest PROVE PageOf(v)'
  <2>1. CASE v # w
    <3>1. PageOf(v) /\ tick'[v] = tick[v] /\ tick[v].at \in Nat
      BY <1>1, <1>16, <2>1 DEF Pages, FeedTypeOK, Rest
    <3>2. tick[v].at <= cursor'
      BY <1>2, <1>11, <3>1 DEF PageOf
    <3>3. First(tick[v].page)' = First(tick[v].page)
      BY <1>1, <3>1 DEF First
    <3> QED  BY <1>1, <3>1, <3>2, <3>3 DEF PageOf
  <2>2. CASE v = w
    <3>1. tick'[v] = row
      BY <1>1, <2>2 DEF FeedTypeOK
    <3>2. \A e \in rest : events[k] < events[e]
      <4> SUFFICES ASSUME NEW e \in rest PROVE events[k] < events[e]
        OBVIOUS
      <4>1. e \in EventKey /\ e # k /\ events[k] <= events[e] /\ events[e] \in Nat
        BY <1>2, <1>5
      <4>2. events[e] # events[k]
        BY <1>2, <1>6, <1>8, <4>1 DEF Numbers
      <4> QED  BY <1>8, <4>1, <4>2
    <3>3. \A e \in rest, j \in EventKey : events[k] < events[j] /\ events[j] < events[e] => j \in rest
      BY <1>2, <1>6, <1>7, <1>8
    <3> QED  BY <1>1, <1>8, <1>10, <1>11, <1>16, <3>1, <3>2, <3>3 DEF PageOf
  <2> QED  BY <2>1, <2>2
<1> QED  BY <1>12, <1>13, <1>14, <1>15, <1>16 DEF Pages

LEMMA AbandonStep ==
  ASSUME FeedInv, NEW w \in Worker, AbandonTick(w)
  PROVE  FeedInv'
<1> USE DEF FeedInv
<1>1. /\ tick' = [tick EXCEPT ![w] = Rest] /\ feedMishaps' = feedMishaps + 1
      /\ UNCHANGED <<events, allocated, publisher, cursor, scheduled>>
  BY DEF AbandonTick, FeedMishap
<1>2. FeedTypeOK'
  BY <1>1 DEF FeedTypeOK
<1>3. Excludes' /\ Numbers' /\ NoEventSkipped'
  BY <1>1 DEF Excludes, Numbers, NoEventSkipped
<1>4. ASSUME NEW v \in Worker, tick'[v] # Rest PROVE PageOf(v)'
  BY <1>1, <1>4 DEF Pages, PageOf, First, FeedTypeOK
<1> QED  BY <1>2, <1>3, <1>4 DEF Pages

LEMMA NextKeepsInv == FeedInv /\ [FeedNext]_feedVars => FeedInv'
<1> SUFFICES ASSUME FeedInv, [FeedNext]_feedVars PROVE FeedInv'
  OBVIOUS
<1>1. CASE \E p \in Publisher : Allocate(p) \/ Commit(p) \/ Rollback(p) \/ \E k \in EventKey : Lock(p, k)
  BY <1>1, LockStep, AllocateStep, CommitStep, RollbackStep
<1>2. CASE \E w \in Worker : Tick(w) \/ AbandonTick(w)
  BY <1>2, ReadCursorStep, ListStep, ScheduleStep, AcknowledgeStep, AbandonStep DEF Tick
<1>3. CASE UNCHANGED feedVars
  BY <1>3 DEF feedVars, FeedInv, FeedTypeOK, Excludes, Numbers, Pages, PageOf, NoEventSkipped, First
<1> QED  BY <1>1, <1>2, <1>3 DEF FeedNext

\* Every event that a cursor has passed has its intent, however many publish,
\* roll back, read, crash and acknowledge (events/store.js, subscriptions.js,
\* tasks.js).
THEOREM EventsAreScheduled == FeedSpec => []NoEventSkipped
<1>1. FeedSpec => []FeedInv
  BY Initially, NextKeepsInv, PTL DEF FeedSpec
<1>2. FeedInv => NoEventSkipped
  BY DEF FeedInv
<1> QED  BY <1>1, <1>2, PTL

HIDE EventFeedAssumption
=============================================================================
