---------------------------- MODULE SensorProofs ----------------------------
(***************************************************************************)
(* Proofs about Sensor, for all delays that the counter can hold and every *)
(* period of the timers.                                                   *)
(***************************************************************************)
EXTENDS Sensor, TLAPS

\* What i2c_time_flag stands for, on well-typed variables.
SensorInv == SensorTypeOK /\ HandedOver

\* The limits of the two counters of TMR3.
LEMMA LimitsAreNumbers == Interval \in Nat /\ Period \in Nat
BY SensorAssumption DEF SensorAssumption, Interval

\* The program starts with the invariant.
LEMMA SensorInitInv == SensorInit => SensorInv
<1> SUFFICES ASSUME SensorInit PROVE SensorInv
  OBVIOUS
<1>1. 0 \in 0 .. CountMax /\ 0 \in 0 .. Interval /\ 0 \in 0 .. Period
  BY SensorAssumption, LimitsAreNumbers DEF SensorAssumption
<1>2. SensorTypeOK
  BY <1>1 DEF SensorInit, SensorTypeOK, States
<1>3. HandedOver
  BY DEF SensorInit, HandedOver, Stepping
<1> QED
  BY <1>2, <1>3 DEF SensorInv

\* TMR2 counts, and releases a step when its rest is over.
LEMMA Tmr2Inv == SensorInv /\ Tmr2 => SensorInv'
<1> SUFFICES ASSUME SensorInv, Tmr2 PROVE SensorInv'
  OBVIOUS
<1> DEFINE count == (i2c_time_cout + 1) % (CountMax + 1)
<1> USE DEF SensorInv, tmr3Vars
<1>1. /\ CountMax \in Nat /\ Delay[i2c_sensor_st] \in Nat
      /\ Delay[i2c_sensor_st] < CountMax
  BY SensorAssumption DEF SensorAssumption, SensorTypeOK
<1>2. i2c_time_cout \in 0 .. CountMax /\ waited \in 0 .. CountMax
  BY DEF SensorTypeOK
<1>3. count \in 0 .. CountMax /\ count <= i2c_time_cout + 1
  <2>1. CASE i2c_time_cout = CountMax
    <3>1. count = 0
      BY <2>1, <1>1
    <3> QED
      BY <3>1, <1>1, <1>2
  <2>2. CASE i2c_time_cout < CountMax
    <3>1. count = i2c_time_cout + 1
      BY <2>2, <1>1, <1>2
    <3> QED
      BY <3>1, <2>2, <1>1, <1>2
  <2> QED
    BY <2>1, <2>2, <1>1, <1>2
<1>4. /\ waited' = IF waited < CountMax THEN waited + 1 ELSE waited
      /\ UNCHANGED <<i2c_sensor_st, tmr3Vars, at, th_msg, answered, lost>>
      /\ IF Counting
         THEN i2c_time_flag' = Due(count) /\ i2c_time_cout' = CountAfter(count)
         ELSE UNCHANGED <<i2c_time_flag, i2c_time_cout>>
  BY DEF Tmr2
<1> HIDE DEF count
<1>5. waited' \in 0 .. CountMax /\ waited' >= waited
  BY <1>1, <1>2, <1>4
<1>6. CASE i2c_time_flag
  BY <1>1, <1>2, <1>4, <1>5, <1>6
  DEF SensorTypeOK, HandedOver, Stepping, Retrying, Counting
<1>7. CASE ~i2c_time_flag
  <2>1. waited >= i2c_time_cout /\ ~Stepping
    BY <1>7 DEF HandedOver
  <2>2. waited' >= count
    BY <2>1, <1>1, <1>2, <1>3, <1>4
  <2>3. i2c_time_flag' = Due(count) /\ i2c_time_cout' = CountAfter(count)
    BY <1>4, <1>7 DEF Counting
  <2>4. i2c_time_flag' \in BOOLEAN /\ i2c_time_cout' \in 0 .. CountMax
    BY <2>3, <1>1, <1>3 DEF Due, CountAfter
  <2>5. SensorTypeOK'
    BY <2>4, <1>4, <1>5 DEF SensorTypeOK
  <2>6. /\ i2c_time_flag' => i2c_time_cout' = 0 /\ count > Delay[i2c_sensor_st]
        /\ ~i2c_time_flag' => i2c_time_cout' = count
    BY <2>3 DEF Due, CountAfter
  <2>7. i2c_time_flag' => waited' > Delay[i2c_sensor_st]
    BY <2>2, <2>6, <1>1, <1>3, <1>5
  <2>8. HandedOver'
    BY <2>1, <2>2, <2>6, <2>7, <1>4 DEF HandedOver, Stepping, Retrying
  <2> QED
    BY <2>5, <2>8
<1> QED
  BY <1>6, <1>7

\* TMR3 counts and asks.
LEMMA Tmr3Inv == SensorInv /\ Tmr3 => SensorInv'
<1> SUFFICES ASSUME SensorInv, Tmr3 PROVE SensorInv'
  OBVIOUS
<1> USE DEF SensorInv, i2cVars, deviceVars
<1>1. timerCout' \in 0 .. Interval /\ ledCout' \in 0 .. Period
  BY LimitsAreNumbers DEF Tmr3, Fires, SensorTypeOK
<1>2. invtFlag' \in BOOLEAN /\ ledFlag' \in BOOLEAN /\ lost' \in BOOLEAN
  <2>1. invtFlag' = Latched(invtFlag, Fires(timerCout + 1, Interval))
        /\ ledFlag' = Latched(ledFlag, Fires(ledCout + 1, Period))
        /\ lost' = IF Fires(timerCout + 1, Interval) THEN at = "deal_clear" ELSE lost
    BY DEF Tmr3
  <2>2. lost \in BOOLEAN
    BY DEF SensorTypeOK
  <2> QED
    BY <2>1, <2>2, Zenon DEF Latched
<1>3. UNCHANGED <<i2cVars, at, th_msg, deviceVars>>
  BY DEF Tmr3
<1> QED
  BY <1>1, <1>2, <1>3 DEF SensorTypeOK, HandedOver, Stepping, Retrying

\* A step of the measurement is made while the flag is set, and leaves it set.
LEMMA ThWorkInv == SensorInv /\ ThWork => SensorInv'
<1> SUFFICES ASSUME SensorInv, ThWork PROVE SensorInv'
  OBVIOUS
<1> USE DEF SensorInv, i2cVars, tmr3Vars
<1>1. /\ at = "th_work" /\ i2c_time_flag /\ i2c_time_cout = 0
      /\ waited' = 0 /\ answered' \in BOOLEAN
      /\ UNCHANGED <<i2c_time_flag, i2c_time_cout, tmr3Vars, lost>>
  BY DEF ThWork, ThInit, ThRest, ThSendCmd, ThJudge, ThReadVal, ThReadCrc, Work,
         HandedOver, Stepping, SensorTypeOK
<1>2. /\ i2c_sensor_st' \in States
      /\ th_msg' \in {"none", "unpublished", "published"}
      /\ \/ at' = "th_clear"
         \/ at' = "deal" /\ i2c_sensor_st' = "READ_VAL" /\ answered' = FALSE
  BY DEF ThWork, ThInit, ThRest, ThSendCmd, ThJudge, ThReadVal, ThReadCrc, Work,
         SensorTypeOK, States
<1>3. 0 \in 0 .. CountMax
  BY SensorAssumption DEF SensorAssumption
<1> QED
  BY <1>1, <1>2, <1>3 DEF SensorTypeOK, HandedOver, Stepping, Retrying

\* The rest of App_sensor_run.
LEMMA MainInv == SensorInv /\ SensorMain => SensorInv'
<1> SUFFICES ASSUME SensorInv, SensorMain PROVE SensorInv'
  OBVIOUS
<1> USE DEF SensorInv, SensorTypeOK, HandedOver, Stepping, Retrying, i2cVars, tmr3Vars, deviceVars
<1>1. CASE LedTest
  BY <1>1 DEF LedTest
<1>2. CASE LedFlash
  BY <1>2 DEF LedFlash
<1>3. CASE ThTest
  BY <1>3 DEF ThTest
<1>4. CASE ThWork
  BY <1>4, ThWorkInv
<1>5. CASE ThClear
  <2>1. /\ i2c_time_flag' = FALSE /\ at' = "deal"
        /\ UNCHANGED <<i2c_sensor_st, i2c_time_cout, tmr3Vars, th_msg, deviceVars, lost>>
    BY <1>5 DEF ThClear
  <2>2. i2c_time_cout = 0 /\ waited \in 0 .. CountMax
    BY <1>5 DEF ThClear
  <2>3. SensorTypeOK'
    BY <2>1
  <2>4. waited' >= i2c_time_cout'
    BY <2>1, <2>2, SensorAssumption DEF SensorAssumption
  <2>5. HandedOver'
    BY <2>1, <2>4
  <2> QED
    BY <2>3, <2>5
<1>6. CASE DealTest
  BY <1>6 DEF DealTest
<1>7. CASE DealFill
  BY <1>7 DEF DealFill
<1>8. CASE DealClear
  BY <1>8 DEF DealClear
<1>9. CASE RunModbus
  BY <1>9 DEF RunModbus
<1> QED
  BY <1>1, <1>2, <1>3, <1>4, <1>5, <1>6, <1>7, <1>8, <1>9 DEF SensorMain

\* Every step keeps the invariant.
LEMMA SensorStep == SensorInv /\ [SensorNext]_sensorVars => SensorInv'
<1>1. SensorInv /\ UNCHANGED sensorVars => SensorInv'
  BY DEF SensorInv, SensorTypeOK, HandedOver, Stepping, Retrying, sensorVars, i2cVars,
         tmr3Vars, deviceVars
<1> QED
  BY <1>1, Tmr2Inv, Tmr3Inv, MainInv DEF SensorNext

-----------------------------------------------------------------------------
\* What the flag hands over between TMR2 and the main loop, in every reachable state.
THEOREM HandOver == SensorSpec => []HandedOver
<1>1. SensorInv => HandedOver
  BY DEF SensorInv
<1> QED
  BY <1>1, SensorInitInv, SensorStep, PTL DEF SensorSpec

\* The types of the variables.
THEOREM SensorTypes == SensorSpec => []SensorTypeOK
<1>1. SensorInv => SensorTypeOK
  BY DEF SensorInv
<1> QED
  BY <1>1, SensorInitInv, SensorStep, PTL DEF SensorSpec

\* No step of the measurement comes before the sensor has had the rest its state asks
\* for, unless it repeats a reading with a wrong CRC.
THEOREM MeasurementsPaced == SensorSpec => []Paced
<1>1. HandedOver => Paced
  BY DEF HandedOver, Paced, Stepping
<1> QED
  BY <1>1, HandOver, PTL

\* No interrupt disturbs a step of the measurement.
THEOREM MachineHeld == SensorSpec => Held
<1>1. HandedOver /\ [SensorNext]_sensorVars
        => [Stepping /\ at' = at => i2cVars' = i2cVars]_sensorVars
  <2> SUFFICES ASSUME HandedOver, SensorNext, Stepping, at' = at
               PROVE  i2cVars' = i2cVars
    OBVIOUS
  <2>1. i2c_time_flag
    BY DEF HandedOver
  <2>2. CASE Tmr2
    BY <2>1, <2>2 DEF Tmr2, Counting, i2cVars
  <2>3. CASE Tmr3
    BY <2>3 DEF Tmr3
  <2>4. CASE SensorMain
    BY <2>4 DEF Stepping, SensorMain, LedTest, LedFlash, ThTest, ThWork, ThInit, ThRest,
                ThSendCmd, ThJudge, ThReadVal, ThReadCrc, Work, ThClear, DealTest,
                DealFill, DealClear, RunModbus
  <2> QED
    BY <2>2, <2>3, <2>4 DEF SensorNext
<1> QED
  BY <1>1, HandOver, PTL DEF SensorSpec, Held
=============================================================================
