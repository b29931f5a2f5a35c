----------------------------- MODULE Registers -----------------------------
(***************************************************************************)
(* modbus/regs.c, the callbacks of sensor.c, modbus_run and modbus_reload, *)
(* and configtool.c: how a request of the bus changes the registers, the   *)
(* configuration and the slave itself.                                     *)
(*                                                                         *)
(* All of it runs in the main loop.  Between two of its steps a            *)
(* millisecond passes or the power fails; a call of storage.c may fail,    *)
(* after it has taken effect or before (what KVStore allows a call).       *)
(*                                                                         *)
(* Data: one register stands for the two of the baud rate, another one for *)
(* the eight of the serial number, each with a value for all that would be *)
(* refused.  The registers only a master looks at are left out.            *)
(***************************************************************************)
EXTENDS Integers, Sequences

CONSTANTS
    MaxAddr,      \* 247, the largest address of a slave
    Rates,        \* the baud rates baudrate_check lets pass
    DefaultRate,  \* 9600
    Serials,      \* serial numbers
    MaxRegs,      \* registers of a request, 123
    MaxFaults,    \* bound on the calls of storage.c that fail
    JunkAddr,     \* what an uninitialised local may hold for an address,
    JunkRate,     \* and for a baud rate
    Window,       \* ms of safe access, 3000
    NoVal         \* of an item that was never stored

Key    == 14134   \* 0x3736 in SAFE_ACCESS_CTRL opens the window
NoRate == 0       \* what baudrate_check refuses
NoSn   == 0       \* an empty serial number, or one with a byte above 127

ASSUME RegistersAssumption ==
    /\ MaxAddr \in Nat \ {0} /\ MaxRegs \in Nat \ {0} /\ Window \in Nat \ {0}
    /\ Rates \subseteq Nat \ {NoRate} /\ DefaultRate \in Rates
    /\ Serials \subseteq Nat \ {NoSn}
    /\ MaxFaults \in Nat /\ NoVal \notin Nat
    /\ JunkAddr \subseteq Nat /\ JunkRate \subseteq Rates \cup {NoRate}

VARIABLES
    flash,            \* the items in the storage
    cache,            \* cfg_cache
    cfg_flag_init,
    regs,             \* the contents of the register segments
    address, baudrate,\* of mb_slave_ctx, and of the port
    flag_safe_access,
    age,              \* ms since lasttime_sa, up to Window, while flag_safe_access
    at,               \* where the program is
    request, written, \* the writes of the request, and how many are done
    to,               \* the address it was sent to, slaveAddress; 0 for all slaves
    reply,            \* the answer: its address, and is it an exception?
    last,             \* how the last call of storage.c about an item went
    faults,           \* how many have failed
    fresh             \* did modbus_run find the window open, and not over, in this pass?

cfgVars   == <<flash, cache, cfg_flag_init, last, faults>>
slaveVars == <<address, baudrate>>
safeVars  == <<flag_safe_access, age, fresh>>
reqVars   == <<request, written, to, reply>>
vars      == <<cfgVars, regs, slaveVars, safeVars, at, reqVars>>

-----------------------------------------------------------------------------
(***************************************************************************)
(* The configuration                                                       *)
(***************************************************************************)
Items     == {"addr", "uart", "sn"}
Default   == [addr |-> 1, uart |-> DefaultRate, sn |-> NoSn]   \* cfg_load_default
Zero      == [addr |-> 0, uart |-> NoRate, sn |-> NoSn]        \* of the RAM
NoAnswer  == [from |-> 0, ok |-> FALSE]

\* The registers, cleared by modbus_regs_init.
Cleared == [SAFE_ACCESS |-> 0, MB_ADDR |-> 0, BAUDRATE |-> NoRate, UID_BUF |-> NoSn,
            UID |-> NoSn]

Init ==
    /\ flash = [i \in Items |-> NoVal]
    /\ cache = Zero /\ cfg_flag_init = FALSE /\ last = [i \in Items |-> "ok"] /\ faults = 0
    /\ regs = Cleared /\ address = 0 /\ baudrate = NoRate
    /\ flag_safe_access = FALSE /\ age = 0 /\ fresh = FALSE
    /\ at = "boot"
    /\ request = <<>> /\ written = 0 /\ to = 0 /\ reply = NoAnswer

\* The power fails: the RAM is as in Init again.
Reset ==
    /\ at # "boot" /\ at' = "boot"
    /\ cache' = Zero /\ cfg_flag_init' = FALSE /\ last' = [i \in Items |-> "ok"]
    /\ regs' = Cleared /\ address' = 0 /\ baudrate' = NoRate
    /\ flag_safe_access' = FALSE /\ age' = 0 /\ fresh' = FALSE
    /\ request' = <<>> /\ written' = 0 /\ to' = 0 /\ reply' = NoAnswer
    /\ UNCHANGED <<flash, faults>>

Fault == faults < MaxFaults /\ faults' = faults + 1

\* A write of the storage: it takes effect or not, and only if it does it may succeed.
Store(item, val) == \E stored, ok \in BOOLEAN :
    /\ ok => stored
    /\ IF ok THEN UNCHANGED faults ELSE Fault
    /\ flash' = IF stored THEN [flash EXCEPT ![item] = val] ELSE flash
    /\ last' = [last EXCEPT ![item] = IF ok THEN "ok" ELSE IF stored THEN "torn" ELSE
                                      IF @ = "torn" THEN "torn" ELSE "failed"]

\* Mutation of CacheAfter: the cache is set though the item could not be saved.
CacheAfterAny(item, val, saved) == [cache EXCEPT ![item] = val]

\* The cache follows the flash.
CacheAfter(item, val, saved) == IF saved THEN [cache EXCEPT ![item] = val] ELSE cache

\* cfg_update_*: what the cache holds already is not saved again.
Update(item, val) ==
    IF cfg_flag_init /\ cache[item] # val
    THEN Store(item, val) /\ cache' = CacheAfter(item, val, last'[item] = "ok")
    ELSE UNCHANGED <<flash, cache, last, faults>>

\* cfg_init: without a storage nothing is initialised, and main goes on.
InitStorage ==
    /\ at = "boot"
    /\ \/ at' = "read_addr" /\ cache' = Default /\ UNCHANGED faults
       \/ at' = "mb_init" /\ UNCHANGED cache /\ Fault
    /\ UNCHANGED <<flash, cfg_flag_init, last, regs, slaveVars, safeVars, reqVars>>

\* cfg_item_init: an item that is not found is written with its default, one that cannot
\* be read is taken to have it.
InitItem(item, here, next) ==
    /\ at = here /\ at' = next
    /\ cfg_flag_init' = (next = "mb_init")
    /\ \/ /\ flash[item] # NoVal
          /\ cache' = [cache EXCEPT ![item] = flash[item]]
          /\ UNCHANGED <<flash, last, faults>>
       \/ /\ flash[item] = NoVal
          /\ Store(item, cache[item])
          /\ UNCHANGED cache
       \/ /\ Fault
          /\ last' = [last EXCEPT ![item] = "torn"]
          /\ UNCHANGED <<flash, cache>>
    /\ UNCHANGED <<regs, slaveVars, safeVars, reqVars>>

InitAddr == InitItem("addr", "read_addr", "read_uart")
InitUart == InitItem("uart", "read_uart", "read_sn")
InitSn   == InitItem("sn", "read_sn", "mb_init")

\* mb_init, modbus_init, modbus_slave_init.  Without a configuration the registers have
\* the baud rate of an uninitialised cfg_uart.
MbInit == \E rate \in IF cfg_flag_init THEN {cache["uart"]} ELSE JunkRate :
    /\ at = "mb_init" /\ at' = "run"
    /\ address' = IF cfg_flag_init THEN cache["addr"] ELSE 1
    /\ baudrate' = IF cfg_flag_init THEN cache["uart"] ELSE NoRate
    /\ regs' = [Cleared EXCEPT !.MB_ADDR = IF cfg_flag_init THEN cache["addr"] ELSE 0,
                               !.BAUDRATE = rate,
                               !.UID = IF cfg_flag_init THEN cache["sn"] ELSE NoSn]
    /\ UNCHANGED <<cfgVars, safeVars, reqVars>>

-----------------------------------------------------------------------------
(***************************************************************************)
(* A request                                                               *)
(***************************************************************************)
\* The segments: their registers in order, and who may write them.  OPT_CTRL and
\* SAFE_ACCESS have registers without an effect between them.
Config  == <<"OPT_CTRL", "SAFE_ACCESS">>
Guarded == <<"MB_ADDR", "BAUDRATE", "UID_BUF">>
RO      == <<"UID">>

Reload == 3
Other  == 0    \* a reset or an upgrade, which is never made, or an unknown operation

Values(reg) ==
    CASE reg = "OPT_CTRL"    -> {Reload, Other}
      [] reg = "SAFE_ACCESS" -> {0, Key, Key + 1}
      [] reg = "MB_ADDR"     -> 0 .. MaxAddr + 1
      [] reg = "BAUDRATE" -> Rates \cup {NoRate}
      [] reg \in {"UID_BUF", "UID"} -> Serials \cup {NoSn}

Names   == DOMAIN Cleared \cup {"OPT_CTRL"}
Writing == UNION {[reg : {r}, val : Values(r)] : r \in Names}

\* The writes of the functions 06, 16 and 22: to n registers that follow one another.
Writes(segment, n) ==
    { w \in [1 .. n -> Writing] : \E first \in 0 .. Len(segment) - n :
          \A i \in 1 .. n : w[i].reg = segment[first + i] }

Requests == UNION { Writes(s, n) : s \in {Config, Guarded, RO}, n \in 1 .. MaxRegs }

\* Mutations of the first two below: any master may write; a value is not looked at.
PermittedAlways(reg) == TRUE
AllowedAlways(reg, val) == TRUE

\* modbus_reg_w_check
Permitted(reg) ==
    \/ \E i \in DOMAIN Config  : reg = Config[i]
    \/ \E i \in DOMAIN Guarded : reg = Guarded[i] /\ flag_safe_access

\* mb_reg_before_write
Allowed(reg, val) ==
    /\ reg = "SAFE_ACCESS" => val \in {0, Key}
    /\ reg = "MB_ADDR" => val \in 1 .. MaxAddr

\* Mutation of Accepts: only the first register is looked at.
AcceptsFirst(writes) == Permitted(writes[1].reg) /\ Allowed(writes[1].reg, writes[1].val)

\* MODBUS_REGQ_W_CHECK for each of them, before the first is written.
Accepts(writes) == \A i \in DOMAIN writes :
                       Permitted(writes[i].reg) /\ Allowed(writes[i].reg, writes[i].val)

\* Mutation of Expired: a window is never closed.
ExpiredNever == FALSE
Expired == age >= Window

\* modbus_run closes a window that is over, or that seems to be: a read of the time is
\* torn when SysTick carries into its upper word, and what it yields is off by 2^32.
Run ==
    /\ at = "run" /\ at' = "frame"
    /\ fresh' = (flag_safe_access /\ age < Window)
    /\ \/ /\ flag_safe_access
          /\ flag_safe_access' = FALSE /\ age' = 0
          /\ regs' = [regs EXCEPT !.SAFE_ACCESS = 0]
       \/ /\ ~(flag_safe_access /\ Expired)
          /\ UNCHANGED <<flag_safe_access, age, regs>>
    /\ UNCHANGED <<cfgVars, slaveVars, reqVars>>

\* A millisecond.
Elapse ==
    /\ flag_safe_access /\ age < Window
    /\ age' = age + 1
    /\ UNCHANGED <<cfgVars, regs, slaveVars, flag_safe_access, fresh, at, reqVars>>

\* modbus_frame_check without a frame, or with one for another slave.
NoFrame ==
    /\ at = "frame" /\ at' = "run" /\ fresh' = FALSE
    /\ UNCHANGED <<cfgVars, regs, slaveVars, flag_safe_access, age, reqVars>>

\* modbusParseRequestRTU: a request to write is checked.
Check == \E writes \in Requests, dest \in {0, address} :
    /\ at = "frame"
    /\ to' = dest
    /\ IF Accepts(writes)
       THEN at' = "write" /\ request' = writes /\ UNCHANGED reply
       ELSE /\ at' = "answer" /\ request' = <<>>
            /\ reply' = [from |-> dest, ok |-> FALSE]
    /\ UNCHANGED <<cfgVars, regs, slaveVars, safeVars, written>>

\* A request to read, by the functions 03 and 04: nothing is written.
Read == \E dest \in {0, address} :
    /\ at = "frame" /\ at' = "write"
    /\ to' = dest
    /\ UNCHANGED <<cfgVars, regs, slaveVars, safeVars, request, written, reply>>

-----------------------------------------------------------------------------
(***************************************************************************)
(* MODBUS_REGQ_W, with the callbacks of sensor.c                           *)
(***************************************************************************)
Write(reg) ==
    /\ at = "write" /\ written < Len(request)
    /\ request[written + 1].reg = reg
    /\ written' = written + 1
    /\ UNCHANGED <<cfgVars, slaveVars, fresh, request, to, reply>>

Value == request[written + 1].val

WritePlain == \E reg \in DOMAIN Cleared \ {"SAFE_ACCESS"} :
    /\ Write(reg)
    /\ regs' = IF Allowed(reg, Value) THEN [regs EXCEPT ![reg] = Value] ELSE regs
    /\ UNCHANGED <<at, flag_safe_access, age>>

\* Mutation of SafeAfter: the window is opened, never closed.
SafeAfterOpen(val) == val = Key \/ flag_safe_access
SafeAfter(val) == val = Key

\* modbus_sa_ctrl.  With a torn lasttime_sa the window is over at once.
WriteSafe ==
    /\ Write("SAFE_ACCESS")
    /\ IF Allowed("SAFE_ACCESS", Value)
       THEN /\ regs' = [regs EXCEPT !.SAFE_ACCESS = Value]
            /\ flag_safe_access' = SafeAfter(Value)
            /\ age' \in IF Value = Key THEN {0, Window} ELSE {0}
       ELSE UNCHANGED <<regs, flag_safe_access, age>>
    /\ UNCHANGED at

\* mb_opt_handle
WriteOpt ==
    /\ Write("OPT_CTRL")
    /\ at' = IF Value = Reload THEN "reload_addr" ELSE "write"
    /\ UNCHANGED <<regs, flag_safe_access, age>>

-----------------------------------------------------------------------------
(***************************************************************************)
(* sensor_reload_config: whatever fails, the next part follows             *)
(***************************************************************************)
ReloadAddr ==
    /\ at = "reload_addr" /\ at' = "reload_uart"
    /\ IF regs.MB_ADDR \in 1 .. MaxAddr THEN Update("addr", regs.MB_ADDR)
                                        ELSE UNCHANGED <<flash, cache, last, faults>>
    /\ UNCHANGED <<cfg_flag_init, regs, slaveVars, safeVars, reqVars>>

ReloadUart ==
    /\ at = "reload_uart" /\ at' = "reload_sn"
    /\ IF regs.BAUDRATE \in Rates THEN Update("uart", regs.BAUDRATE)
                                  ELSE UNCHANGED <<flash, cache, last, faults>>
    /\ UNCHANGED <<cfg_flag_init, regs, slaveVars, safeVars, reqVars>>

\* The registers show the serial number whether or not it could be saved.
ReloadSn ==
    /\ at = "reload_sn" /\ at' = "reload_modbus"
    /\ IF regs.UID_BUF \in Serials
       THEN Update("sn", regs.UID_BUF) /\ regs' = [regs EXCEPT !.UID = regs.UID_BUF]
       ELSE UNCHANGED <<flash, cache, last, faults, regs>>
    /\ UNCHANGED <<cfg_flag_init, slaveVars, safeVars, reqVars>>

\* Mutation of RateAfter: the new baud rate is taken only with a new address.
RateAfterAddr(addr, rate) == IF addr = address THEN baudrate ELSE rate
RateAfter(addr, rate) == rate

\* modbus_reload.  Without a configuration it takes what its locals happen to hold.
ReloadModbus == \E addr \in IF cfg_flag_init THEN {cache["addr"]} ELSE JunkAddr,
                   rate \in IF cfg_flag_init THEN {cache["uart"]} ELSE JunkRate :
    /\ at = "reload_modbus" /\ at' = "write"
    /\ address' = addr /\ baudrate' = RateAfter(addr, rate)
    /\ UNCHANGED <<cfgVars, regs, safeVars, reqVars>>

-----------------------------------------------------------------------------
\* Mutation of Sender: the address the slave has by now.
SenderNow == IF to = 0 THEN 0 ELSE address
Sender == to

\* The answer is packed; to a request for all slaves there is none.
Pack ==
    /\ at = "write" /\ written = Len(request)
    /\ at' = "answer" /\ reply' = [from |-> Sender, ok |-> TRUE]
    /\ UNCHANGED <<cfgVars, regs, slaveVars, safeVars, request, written, to>>

\* It is sent, at the baud rate the port has by now.
Answer ==
    /\ at = "answer" /\ at' = "run"
    /\ request' = <<>> /\ written' = 0 /\ to' = 0 /\ reply' = NoAnswer
    /\ fresh' = FALSE
    /\ UNCHANGED <<cfgVars, regs, slaveVars, flag_safe_access, age>>

-----------------------------------------------------------------------------
Boot  == InitStorage \/ InitAddr \/ InitUart \/ InitSn \/ MbInit
Serve == Run \/ NoFrame \/ Check \/ Read \/ WritePlain \/ WriteSafe \/ WriteOpt
         \/ ReloadAddr \/ ReloadUart \/ ReloadSn \/ ReloadModbus \/ Pack \/ Answer
Main  == Boot \/ Serve
Next  == Main \/ Elapse \/ Reset
Spec  == Init /\ [][Next]_vars
FairSpec == Spec /\ WF_vars(Main) /\ WF_vars(Elapse)
-----------------------------------------------------------------------------
(***************************************************************************)
(* Properties                                                              *)
(***************************************************************************)
Booting   == at \in {"boot", "read_addr", "read_uart", "read_sn", "mb_init"}
Reloading == at \in {"reload_addr", "reload_uart", "reload_sn", "reload_modbus"}

\* The types of the variables.
RegTypeOK ==
    /\ DOMAIN flash = Items /\ flash["addr"] \in (1 .. MaxAddr) \cup {NoVal}
    /\ flash["uart"] \in Rates \cup {NoVal} /\ flash["sn"] \in Serials \cup {NoSn, NoVal}
    /\ cache["addr"] \in 0 .. MaxAddr /\ cache["uart"] \in Rates \cup {NoRate}
    /\ cache["sn"] \in Serials \cup {NoSn}
    /\ cfg_flag_init \in BOOLEAN
    /\ last \in [Items -> {"ok", "failed", "torn"}]
    /\ regs \in [DOMAIN Cleared -> Nat] /\ regs.MB_ADDR \in 0 .. MaxAddr
    /\ address \in (0 .. MaxAddr) \cup JunkAddr /\ baudrate \in Rates \cup {NoRate}
    /\ age \in 0 .. Window /\ faults \in 0 .. MaxFaults

\* What lets a master reconfigure the device changes only in a request that was taken up
\* while the window was open and less than Window old, whatever time passes since.
Configuration == <<regs.MB_ADDR, regs.BAUDRATE, regs.UID_BUF>>
Protected == [][Configuration' # Configuration /\ at # "mb_init" /\ at' # "boot"
                  => flag_safe_access /\ fresh]_vars

\* An answer comes from the address its request was sent to, though the slave may have
\* another one by now; and when it is not an exception, each register holds what the
\* request wrote: no write is skipped by a check that comes too late.
Answered ==
    at = "answer" =>
        /\ reply.from = to
        /\ reply.ok => \A i \in DOMAIN request : request[i].reg \in DOMAIN Cleared =>
                          regs[request[i].reg] = request[i].val

\* What a restart would find in the storage.
AtRestart(item) == IF flash[item] = NoVal THEN Default[item] ELSE flash[item]

\* The configuration in use is the one that outlives a power failure, whatever was saved
\* or failed to be, until a write fails that has taken effect or an item cannot be read.
Saved == cfg_flag_init => \A i \in Items : last[i] # "torn" => AtRestart(i) = cache[i]

\* Outside of a reload the slave has the address and the baud rate that are configured.
Current == cfg_flag_init /\ ~Booting /\ ~Reloading
               => address = cache["addr"] /\ baudrate = cache["uart"]

\* The registers tell a master the truth: about the window, and about the serial number
\* unless it could not be saved.
Shown ==
    /\ flag_safe_access <=> regs.SAFE_ACCESS = Key
    /\ cfg_flag_init /\ ~Booting /\ last["sn"] = "ok" => regs.UID = cache["sn"]

\* A window that no master opens again is closed.
Closes == []<>(~flag_safe_access \/ age = 0)
=============================================================================
