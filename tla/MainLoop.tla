------------------------------ MODULE MainLoop ------------------------------
(***************************************************************************)
(* Main.c: the loop that runs the sensor and then reads UART1, for ever,   *)
(* with the interrupts of TMR2, TMR3, UART1 and SysTick between any two of *)
(* its steps.  Each of the two parts stands still while the loop is in the *)
(* other one, its interrupts do not.                                       *)
(***************************************************************************)
EXTENDS Sensor, UartRing

VARIABLE turn    \* where the loop is: in App_sensor_run or in uart_read

vars == <<sensorVars, uartVars, turn>>

Init == SensorInit /\ UartInit /\ turn = "sensor"

SensorTurn ==
    /\ turn = "sensor"
    /\ SensorMain
    /\ turn' = IF at = "run" THEN "uart" ELSE "sensor"
    /\ UNCHANGED uartVars

UartTurn ==
    /\ turn = "uart"
    /\ UartMain
    /\ turn' = IF uart_at' = "idle" THEN "sensor" ELSE "uart"
    /\ UNCHANGED sensorVars

Main    == SensorTurn \/ UartTurn
Tmr2Irq == Tmr2 /\ UNCHANGED <<uartVars, turn>>
Tmr3Irq == Tmr3 /\ UNCHANGED <<uartVars, turn>>
UartIrq == UartRecv /\ UNCHANGED <<sensorVars, turn>>
SysTick == Elapse /\ UNCHANGED <<sensorVars, turn>>

Next == Main \/ Tmr2Irq \/ Tmr3Irq \/ UartIrq \/ SysTick

Spec     == Init /\ [][Next]_vars
FairSpec == Spec /\ WF_vars(Main) /\ WF_vars(Tmr2Irq) /\ WF_vars(Tmr3Irq) /\ WF_vars(SysTick)
=============================================================================
