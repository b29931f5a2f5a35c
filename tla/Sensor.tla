------------------------------- MODULE Sensor -------------------------------
(***************************************************************************)
(* sensor.c: how the temperature and humidity sensor is measured and its   *)
(* values reach the input registers.                                       *)
(*                                                                         *)
(* TMR2 (1 ms) releases the next step of the measuring state machine, TMR3 *)
(* (100 ms) asks for the values to be published and for the LED to change. *)
(* Both hand over by flags that App_sensor_run tests and clears in the     *)
(* main loop, without a lock: an interrupt is one action, and the main     *)
(* loop is cut between any test, store and clearing of a flag.             *)
(*                                                                         *)
(* Data: of the measured values only whether there are any, and whether    *)
(* they have been published.  The sensor's answers are arbitrary.          *)
(***************************************************************************)
EXTENDS Integers

CONSTANTS
    Delay,        \* ms of rest before the step of each state, TMR2_IRQHandler
    CountMax,     \* the largest value of the UINT8 i2c_time_cout
    Period,       \* 10: periods of TMR3 before ledFlag; and before invtFlag, too,
                  \* or RecordIntv times that
    RecordIntv    \* what modbus_reg_get(MB_REG_ADDR_RECORD_INTV) returns

States == {"INIT", "REST", "SEND_CMD", "JUDGE_STA", "READ_VAL"}

ASSUME SensorAssumption ==
    /\ CountMax \in Nat
    /\ Delay \in [States -> Nat] /\ \A s \in States : Delay[s] < CountMax
    /\ Period \in Nat /\ RecordIntv \in Nat

VARIABLES
    i2c_sensor_st,   \* the state of the measuring machine
    i2c_time_flag,   \* its next step is due
    i2c_time_cout,   \* ms counted towards it
    invtFlag,        \* the values are to be published
    timerCout,       \* periods of TMR3 counted towards it
    ledFlag, ledCout,\* the same for the LED
    at,              \* where the main loop is in App_sensor_run
    th_msg,          \* the values: none yet, not yet published, published
    waited,          \* ms since the last transaction with the sensor, up to CountMax
    answered,        \* has the sensor answered well, the last time it was asked?
    lost             \* was the last tick of TMR3 for the values cleared unseen?

i2cVars    == <<i2c_sensor_st, i2c_time_flag, i2c_time_cout>>
tmr3Vars   == <<invtFlag, timerCout, ledFlag, ledCout>>
deviceVars == <<waited, answered>>
sensorVars == <<i2cVars, tmr3Vars, at, th_msg, deviceVars, lost>>

SensorInit ==
    /\ i2c_sensor_st = "INIT" /\ i2c_time_flag = FALSE /\ i2c_time_cout = 0
    /\ invtFlag = FALSE /\ timerCout = 0 /\ ledFlag = FALSE /\ ledCout = 0
    /\ at = "led" /\ th_msg = "none"
    /\ waited = 0 /\ answered = TRUE
    /\ lost = FALSE

-----------------------------------------------------------------------------
(***************************************************************************)
(* The interrupts                                                          *)
(***************************************************************************)
\* Mutations of the four below: a step is released a period early, or never, since its
\* delay is too long for the counter; the count goes on from where it was; the interrupt
\* counts while the main loop works.
DueSoon(count)     == count >= Delay[i2c_sensor_st]
DueNever(count)    == count > Delay[i2c_sensor_st] + CountMax
CountAfterOn(count) == count
CountingOn         == TRUE

Counting          == ~i2c_time_flag
Due(count)        == count > Delay[i2c_sensor_st]
CountAfter(count) == IF Due(count) THEN 0 ELSE count

\* TMR2_IRQHandler; the counter has the width of a UINT8.
Tmr2 ==
    LET count == (i2c_time_cout + 1) % (CountMax + 1)
    IN  /\ waited' = IF waited < CountMax THEN waited + 1 ELSE waited
        /\ IF Counting
           THEN i2c_time_flag' = Due(count) /\ i2c_time_cout' = CountAfter(count)
           ELSE UNCHANGED <<i2c_time_flag, i2c_time_cout>>
        /\ UNCHANGED <<i2c_sensor_st, tmr3Vars, at, th_msg, answered, lost>>

\* tmpTimerSum, a UINT16: without a configured interval, the default.
Interval == IF RecordIntv = 0 THEN Period ELSE (RecordIntv * Period) % 65536

\* Mutations of the two below: the counter runs over its limit; a tick takes back what
\* the tick before has asked for.
FiresLate(count, limit) == count > limit + 1
LatchedNot(flag, fires) == fires

Fires(count, limit) == count > limit
Latched(flag, fires) == flag \/ fires

\* TMR3_IRQHandler.  A tick between the test of invtFlag and its clearing is lost.
Tmr3 ==
    LET publish == Fires(timerCout + 1, Interval)
        flash   == Fires(ledCout + 1, Period)
    IN  /\ timerCout' = IF publish THEN 0 ELSE timerCout + 1
        /\ invtFlag'  = Latched(invtFlag, publish)
        /\ ledCout'   = IF flash THEN 0 ELSE ledCout + 1
        /\ ledFlag'   = Latched(ledFlag, flash)
        /\ lost'      = IF publish THEN at = "deal_clear" ELSE lost
        /\ UNCHANGED <<i2cVars, at, th_msg, deviceVars>>

-----------------------------------------------------------------------------
(***************************************************************************)
(* App_sensor_run: app_sensor_ledFlash                                     *)
(***************************************************************************)
LedTest ==
    /\ at = "led"
    /\ at' = IF ledFlag THEN "led_clear" ELSE "th"
    /\ UNCHANGED <<i2cVars, tmr3Vars, th_msg, deviceVars, lost>>

\* The LED changes.
LedFlash ==
    /\ at = "led_clear"
    /\ at' = "th" /\ ledFlag' = FALSE
    /\ UNCHANGED <<i2cVars, invtFlag, timerCout, ledCout, th_msg, deviceVars, lost>>

-----------------------------------------------------------------------------
(***************************************************************************)
(* app_sensor_thRead: the flag is tested, one transaction with the sensor  *)
(* is made and the next state stored, and the flag is cleared.             *)
(***************************************************************************)
ThTest ==
    /\ at = "th"
    /\ at' = IF i2c_time_flag THEN "th_work" ELSE "deal"
    /\ UNCHANGED <<i2cVars, tmr3Vars, th_msg, deviceVars, lost>>

\* The step that is due, with a good or a bad answer of the sensor.
Work(state, ok) ==
    /\ at = "th_work" /\ i2c_sensor_st = state
    /\ waited' = 0 /\ answered' = ok
    /\ UNCHANGED <<i2c_time_flag, i2c_time_cout, tmr3Vars, lost>>

\* The status says whether the sensor is calibrated; if not, it is initialised.
ThInit == \E ok \in BOOLEAN :
    /\ Work("INIT", ok)
    /\ i2c_sensor_st' = IF ok THEN "SEND_CMD" ELSE "REST"
    /\ at' = "th_clear"
    /\ UNCHANGED th_msg

ThRest ==
    /\ Work("REST", answered)
    /\ i2c_sensor_st' = "INIT"
    /\ at' = "th_clear"
    /\ UNCHANGED th_msg

\* The acknowledge of the sensor is not looked at.
ThSendCmd == \E ok \in BOOLEAN :
    /\ Work("SEND_CMD", ok)
    /\ i2c_sensor_st' = "JUDGE_STA"
    /\ at' = "th_clear"
    /\ UNCHANGED th_msg

\* Is it busy?
ThJudge == \E ok \in BOOLEAN :
    /\ Work("JUDGE_STA", ok)
    /\ i2c_sensor_st' = IF ok THEN "READ_VAL" ELSE "JUDGE_STA"
    /\ at' = "th_clear"
    /\ UNCHANGED th_msg

\* The values are read and their CRC is right.
ThReadVal ==
    /\ Work("READ_VAL", TRUE)
    /\ i2c_sensor_st' = "SEND_CMD"
    /\ th_msg' = "unpublished"
    /\ at' = "th_clear"

\* The CRC is wrong: app_sensor_thRead returns, and the flag stays set.
ThReadCrc ==
    /\ Work("READ_VAL", FALSE)
    /\ at' = "deal"
    /\ UNCHANGED <<i2c_sensor_st, th_msg>>

ThClear ==
    /\ at = "th_clear"
    /\ i2c_time_flag' = FALSE
    /\ at' = "deal"
    /\ UNCHANGED <<i2c_sensor_st, i2c_time_cout, tmr3Vars, th_msg, deviceVars, lost>>

-----------------------------------------------------------------------------
(***************************************************************************)
(* app_sensor_dataDeal, and the rest of App_sensor_run                     *)
(***************************************************************************)
DealTest ==
    /\ at = "deal"
    /\ at' = IF invtFlag THEN "deal_fill" ELSE "deal_clear"
    /\ UNCHANGED <<i2cVars, tmr3Vars, th_msg, deviceVars, lost>>

\* The display and app_sensor_modbus_dataFill; without any measurement, zeros.
DealFill ==
    /\ at = "deal_fill"
    /\ at' = "deal_clear"
    /\ th_msg' = IF th_msg = "unpublished" THEN "published" ELSE th_msg
    /\ UNCHANGED <<i2cVars, tmr3Vars, deviceVars, lost>>

DealClear ==
    /\ at = "deal_clear"
    /\ at' = "run"
    /\ invtFlag' = FALSE
    /\ UNCHANGED <<i2cVars, timerCout, ledFlag, ledCout, th_msg, deviceVars, lost>>

\* modbus_run, and the end of App_sensor_run.
RunModbus ==
    /\ at = "run"
    /\ at' = "led"
    /\ UNCHANGED <<i2cVars, tmr3Vars, th_msg, deviceVars, lost>>

-----------------------------------------------------------------------------
ThWork     == ThInit \/ ThRest \/ ThSendCmd \/ ThJudge \/ ThReadVal \/ ThReadCrc
SensorMain == LedTest \/ LedFlash \/ ThTest \/ ThWork \/ ThClear
              \/ DealTest \/ DealFill \/ DealClear \/ RunModbus
SensorNext == SensorMain \/ Tmr2 \/ Tmr3
SensorSpec == SensorInit /\ [][SensorNext]_sensorVars
SensorFair == SensorSpec /\ WF_sensorVars(SensorMain) /\ WF_sensorVars(Tmr2)
              /\ WF_sensorVars(Tmr3)
-----------------------------------------------------------------------------
(***************************************************************************)
(* Properties                                                              *)
(***************************************************************************)
\* The types of the variables.
SensorTypeOK ==
    /\ i2c_sensor_st \in States
    /\ i2c_time_flag \in BOOLEAN /\ i2c_time_cout \in 0 .. CountMax
    /\ invtFlag \in BOOLEAN /\ ledFlag \in BOOLEAN
    /\ timerCout \in 0 .. Interval /\ ledCout \in 0 .. Period
    /\ at \in {"led", "led_clear", "th", "th_work", "th_clear",
               "deal", "deal_fill", "deal_clear", "run"}
    /\ th_msg \in {"none", "unpublished", "published"}
    /\ waited \in 0 .. CountMax
    /\ answered \in BOOLEAN /\ lost \in BOOLEAN

\* A measurement whose CRC was wrong is read again at once.
Retrying == i2c_sensor_st = "READ_VAL" /\ ~answered

\* A step of the measurement is made only after the rest its state asks for: the state
\* the main loop stores is the one whose delay the interrupt takes.
Paced == at = "th_work" /\ ~Retrying => waited > Delay[i2c_sensor_st]

\* The main loop is about a step of the measurement.
Stepping == at \in {"th_work", "th_clear"}

\* What i2c_time_flag hands over: the step is due and nothing is counted, or the
\* main loop is elsewhere.
HandedOver ==
    /\ Stepping => i2c_time_flag
    /\ IF i2c_time_flag THEN i2c_time_cout = 0 ELSE waited >= i2c_time_cout
    /\ i2c_time_flag /\ at # "th_clear" /\ ~Retrying => waited > Delay[i2c_sensor_st]

\* While the main loop is about a step of the measurement, the interrupt leaves the
\* machine's variables alone.
Held == [][Stepping /\ at' = at => i2cVars' = i2cVars]_sensorVars

\* A sensor that from some time on answers well is measured again and again, whatever
\* it answered before.
Measured == at = "th_clear" /\ i2c_sensor_st = "SEND_CMD" /\ th_msg = "unpublished"
Measures == []<>(Measured \/ ~answered)

\* Each measurement reaches the input registers, unless every tick of TMR3 falls between
\* the test of invtFlag and its clearing.
Publishes == []<>(th_msg # "unpublished" \/ lost)

\* The LED keeps changing, although a tick that comes before ledFlag is cleared is
\* merged with the one that set it.
Blinks == []<>(at = "led_clear")
=============================================================================
