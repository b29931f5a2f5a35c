--------------------------- MODULE MainLoopProofs ---------------------------
(***************************************************************************)
(* The main loop implements its two parts: what is proved of each of them  *)
(* alone holds when they take turns under all the interrupts.              *)
(***************************************************************************)
EXTENDS MainLoop, SensorProofs, UartRingProofs

\* A step of the loop is a step of App_sensor_run and its timers, or one that they do
\* not see.
LEMMA StepOfSensor == [Next]_vars => [SensorNext]_sensorVars
<1> SUFFICES ASSUME [Next]_vars PROVE [SensorNext]_sensorVars
  OBVIOUS
<1>1. CASE SensorTurn
  BY <1>1 DEF SensorTurn, SensorNext
<1>2. CASE UartTurn
  BY <1>2 DEF UartTurn
<1>3. CASE Tmr2Irq \/ Tmr3Irq
  BY <1>3 DEF Tmr2Irq, Tmr3Irq, SensorNext
<1>4. CASE UartIrq \/ SysTick
  BY <1>4 DEF UartIrq, SysTick
<1>5. CASE UNCHANGED vars
  BY <1>5 DEF vars
<1> QED
  BY <1>1, <1>2, <1>3, <1>4, <1>5 DEF Next, Main

\* The same for the ring buffer, its interrupt and its reader.
LEMMA StepOfRing == [Next]_vars => [UartNext]_uartVars
<1> SUFFICES ASSUME [Next]_vars PROVE [UartNext]_uartVars
  OBVIOUS
<1>1. CASE SensorTurn
  BY <1>1 DEF SensorTurn
<1>2. CASE UartTurn
  BY <1>2 DEF UartTurn, UartNext
<1>3. CASE Tmr2Irq \/ Tmr3Irq
  BY <1>3 DEF Tmr2Irq, Tmr3Irq
<1>4. CASE UartIrq \/ SysTick
  BY <1>4 DEF UartIrq, SysTick, UartNext
<1>5. CASE UNCHANGED vars
  BY <1>5 DEF vars
<1> QED
  BY <1>1, <1>2, <1>3, <1>4, <1>5 DEF Next, Main

\* The loop in Main.c implements the specification of the sensor.
THEOREM LoopRunsSensor == Spec => SensorSpec
<1>1. Init => SensorInit
  BY DEF Init
<1> QED
  BY <1>1, StepOfSensor, PTL DEF Spec, SensorSpec

\* The loop in Main.c implements the specification of the ring buffer.
THEOREM LoopRunsRing == Spec => UartSpec
<1>1. Init => UartInit
  BY DEF Init
<1> QED
  BY <1>1, StepOfRing, PTL DEF Spec, UartSpec

\* Under all interrupts the measurements are paced and undisturbed, and what is read
\* of UART1 was received, in its order.
THEOREM LoopSafe == Spec => [](Paced /\ HandedOver /\ InBounds /\ Aligned /\ Fifo) /\ Held
BY LoopRunsSensor, LoopRunsRing, HandOver, MeasurementsPaced, MachineHeld, ReadsInBounds,
   CountAligned, BytesInOrder, PTL
=============================================================================
