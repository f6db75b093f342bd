---------------------------- MODULE PUECalculator ----------------------------
(***************************************************************************)
(* backend/pue_calculator.go beside the gateway that stores telemetry: at  *)
(* every tick calculate reads the cooling power of the last five minutes,  *)
(* then the IT power, inserts a record, and reads the newest record back,  *)
(* which Run offers to the router.                                         *)
(*                                                                         *)
(* Time is counted in collection intervals, and the plant draws the same   *)
(* power all the time.  The arithmetic of a record is in PUERecord.        *)
(***************************************************************************)
EXTENDS Sequences, FiniteSetsExt, PUERecord

CONSTANTS
    Devices,      \* the cooling devices
    Power,        \* what each of them draws
    Window,       \* collection intervals in five minutes (10)
    Interval,     \* collection intervals between two calculations (10)
    ITReadings,   \* averages it_power_readings may give; 0 for none as well
    OutCap,       \* capacity of outCh (8)
    MaxTime       \* bound on now

VARIABLES
    now,        \* collection intervals since the start
    telemetry,  \* table device_telemetry
    at,         \* where calculate is
    cooling,    \* its coolingPower
    it,         \* its grossITPower
    records,    \* table pue_records, in the order of time
    out,        \* outCh
    ticked      \* the last tick that was served

vars == <<now, telemetry, at, cooling, it, records, out, ticked>>

Init == /\ now = 0 /\ telemetry = {} /\ at = "idle" /\ cooling = 0 /\ it = 0
        /\ records = <<>> /\ out = <<>> /\ ticked = 0

\* COALESCE(SUM(dt.power), 0) over the samples of the last five minutes.
Recent        == {t \in telemetry : t.time > now - Window}
SumOfSamples  == MapThenSumSet(LAMBDA t : t.power, Recent)

\* GetCoolingTotalPower: the sum over the newest sample of each device.
Newest        == {t \in telemetry : \A u \in telemetry :
                                        u.device = t.device => u.time <= t.time}
TotalPower    == MapThenSumSet(LAMBDA t : t.power, Newest)

-----------------------------------------------------------------------------
\* A collection interval passes; its batch is stored, or lost.
Collect ==
    /\ now < MaxTime /\ now' = now + 1
    /\ \/ telemetry' = telemetry \cup
             {[time |-> now', device |-> d, power |-> Power[d]] : d \in Devices}
       \/ UNCHANGED telemetry
    /\ UNCHANGED <<at, cooling, it, records, out, ticked>>

\* The ticker fires and the first query returns.
ReadCooling ==
    /\ at = "idle" /\ now \div Interval > ticked
    /\ ticked' = now \div Interval
    /\ cooling' = SumOfSamples /\ at' = "it"
    /\ UNCHANGED <<now, telemetry, it, records, out>>

\* The second query returns.
ReadITPower ==
    /\ at = "it"
    /\ \E reading \in ITReadings : it' = GrossITPower(reading)
    /\ at' = "insert"
    /\ UNCHANGED <<now, telemetry, cooling, records, out, ticked>>

\* INSERT INTO pue_records.
InsertRecord ==
    /\ at = "insert"
    /\ records' = Append(records, Record(cooling, it)) /\ at' = "select"
    /\ UNCHANGED <<now, telemetry, cooling, it, out, ticked>>

\* The newest record is read back and offered, without waiting.
Announce ==
    /\ at = "select" /\ at' = "idle"
    /\ out' = IF Len(out) < OutCap THEN Append(out, records[Len(records)]) ELSE out
    /\ UNCHANGED <<now, telemetry, cooling, it, records, ticked>>

\* A statement fails, and calculate returns the error; the INSERT may have
\* stored its row all the same.
StatementFails ==
    /\ at # "idle" /\ at' = "idle"
    /\ \/ UNCHANGED records
       \/ at = "insert" /\ records' = Append(records, Record(cooling, it))
    /\ UNCHANGED <<now, telemetry, cooling, it, out, ticked>>

\* The router takes a record and sets the gauges (EventRouter!RouterTakes).
RouterTakes ==
    /\ out # <<>> /\ out' = Tail(out)
    /\ UNCHANGED <<now, telemetry, at, cooling, it, records, ticked>>

Next == \/ Collect \/ ReadCooling \/ ReadITPower \/ InsertRecord \/ Announce
        \/ StatementFails \/ RouterTakes

Spec == Init /\ [][Next]_vars

-----------------------------------------------------------------------------
\* The cooling power of a record, which the gauge of the total cooling power
\* shows, is what the plant draws: the plant is steady, so it is the sum of the
\* newest samples whenever there are samples.
CoolingIsTotalPower ==
    \A i \in DOMAIN out :
        out[i].cooling > 0 => out[i].cooling = 100 * TotalPower
=============================================================================
