-------------------------- MODULE RegistersProofs --------------------------
(***************************************************************************)
(* Proofs about Registers, for every range of addresses, set of baud rates *)
(* and serial numbers, and any number of faults of the storage.            *)
(***************************************************************************)
EXTENDS Registers, SequenceTheorems, TLAPS

\* The types the proofs need.
CfgTypes ==
    /\ flash \in [Items -> Nat \cup {NoVal}] /\ cache \in [Items -> Nat]
    /\ last \in [Items -> {"ok", "failed", "torn"}]
    /\ cfg_flag_init \in BOOLEAN
    /\ regs \in [DOMAIN Cleared -> Nat]
    /\ flag_safe_access \in BOOLEAN /\ age \in 0 .. Window

\* cfg_init has dealt with the item.
Known(item) == \/ cfg_flag_init
               \/ item = "addr" /\ at \in {"read_uart", "read_sn"}
               \/ item = "uart" /\ at = "read_sn"

\* Until then it has its default.
Loaded == /\ cfg_flag_init => at \notin {"boot", "read_addr", "read_uart", "read_sn"}
          /\ at = "read_addr" => cache = Default
          /\ at = "read_uart" => cache["uart"] = Default["uart"] /\ cache["sn"] = Default["sn"]
          /\ at = "read_sn" => cache["sn"] = Default["sn"]

\* Saved, item by item and during cfg_init.
SavedOf(item) == Known(item) /\ last[item] # "torn" => AtRestart(item) = cache[item]
SavedAll      == \A i \in Items : SavedOf(i)

CfgInv == CfgTypes /\ Loaded /\ SavedAll
-----------------------------------------------------------------------------
\* A default is a number.
LEMMA Numbers == /\ Default \in [Items -> Nat] /\ Zero \in [Items -> Nat]
                 /\ Cleared \in [DOMAIN Cleared -> Nat]
                 /\ Rates \subseteq Nat /\ Serials \subseteq Nat /\ Window \in Nat
                 /\ NoVal \notin Nat
<1>1. DefaultRate \in Nat /\ NoRate = 0 /\ NoSn = 0
  BY RegistersAssumption DEF RegistersAssumption, NoRate, NoSn
<1>2. Default \in [Items -> Nat] /\ Zero \in [Items -> Nat]
  BY <1>1 DEF Default, Zero, Items
<1>3. Cleared \in [DOMAIN Cleared -> Nat]
  BY <1>1 DEF Cleared
<1> QED
  BY <1>2, <1>3, RegistersAssumption DEF RegistersAssumption

\* What a write of the storage does to its item, and that it does nothing to another.
LEMMA StoreEffect ==
    ASSUME CfgTypes, NEW item \in Items, NEW val \in Nat, Store(item, val)
    PROVE  /\ flash' \in [Items -> Nat \cup {NoVal}]
           /\ last' \in [Items -> {"ok", "failed", "torn"}]
           /\ last'[item] = "ok" => flash'[item] = val
           /\ last'[item] = "failed" => flash'[item] = flash[item] /\ last[item] # "torn"
           /\ \A i \in Items \ {item} : flash'[i] = flash[i] /\ last'[i] = last[i]
<1>1. PICK stored \in BOOLEAN, ok \in BOOLEAN :
        /\ ok => stored
        /\ flash' = IF stored THEN [flash EXCEPT ![item] = val] ELSE flash
        /\ last' = [last EXCEPT ![item] = IF ok THEN "ok" ELSE IF stored THEN "torn" ELSE
                                          IF last[item] = "torn" THEN "torn" ELSE "failed"]
  BY DEF Store
<1> QED
  BY <1>1 DEF CfgTypes

\* After an update the cache is what a restart would find, if it was before.
LEMMA UpdateEffect ==
    ASSUME CfgInv, NEW item \in Items, NEW val \in Nat, Update(item, val), Known(item)
    PROVE  /\ flash' \in [Items -> Nat \cup {NoVal}] /\ cache' \in [Items -> Nat]
           /\ last' \in [Items -> {"ok", "failed", "torn"}]
           /\ \A i \in Items : Known(i) /\ last'[i] # "torn" => AtRestart(i)' = cache'[i]
           /\ \A i \in Items \ {item} : cache'[i] = cache[i] /\ last'[i] = last[i]
<1> USE DEF CfgInv
<1>1. CASE cfg_flag_init /\ cache[item] # val
  <2>1. Store(item, val) /\ cache' = CacheAfter(item, val, last'[item] = "ok")
    BY <1>1 DEF Update
  <2>2. /\ flash' \in [Items -> Nat \cup {NoVal}]
        /\ last' \in [Items -> {"ok", "failed", "torn"}]
        /\ last'[item] = "ok" => flash'[item] = val
        /\ last'[item] = "failed" => flash'[item] = flash[item] /\ last[item] # "torn"
        /\ \A i \in Items \ {item} : flash'[i] = flash[i] /\ last'[i] = last[i]
    BY <2>1, StoreEffect
  <2>3. /\ cache' \in [Items -> Nat]
        /\ \A i \in Items \ {item} : cache'[i] = cache[i]
        /\ last'[item] = "ok" => cache'[item] = val
        /\ last'[item] # "ok" => cache'[item] = cache[item]
    BY <2>1 DEF CacheAfter, CfgTypes
  <2>4. ASSUME NEW i \in Items, Known(i), last'[i] # "torn" PROVE AtRestart(i)' = cache'[i]
    <3>1. CASE i # item
      <4>1. AtRestart(i) = cache[i]
        BY <2>2, <2>4, <3>1 DEF SavedAll, SavedOf
      <4> QED
        BY <2>2, <2>3, <3>1, <4>1 DEF AtRestart
    <3>2. CASE i = item /\ last'[item] = "ok"
      BY <2>2, <2>3, <3>2, Numbers DEF AtRestart
    <3>3. CASE i = item /\ last'[item] = "failed"
      <4>1. AtRestart(item) = cache[item]
        BY <2>2, <2>4, <3>3 DEF SavedAll, SavedOf
      <4> QED
        BY <2>2, <2>3, <3>3, <4>1 DEF AtRestart
    <3> QED
      BY <2>2, <2>4, <3>1, <3>2, <3>3
  <2> QED
    BY <2>2, <2>3, <2>4
<1>2. CASE ~(cfg_flag_init /\ cache[item] # val)
  BY <1>2 DEF Update, CfgTypes, SavedAll, SavedOf, AtRestart
<1> QED
  BY <1>1, <1>2

\* The same for a reload, which is made with or without a configuration.
LEMMA ReloadEffect ==
    ASSUME CfgInv, NEW item \in Items, NEW val \in Nat,
           Update(item, val) \/ UNCHANGED <<flash, cache, last, faults>>
    PROVE  /\ flash' \in [Items -> Nat \cup {NoVal}] /\ cache' \in [Items -> Nat]
           /\ last' \in [Items -> {"ok", "failed", "torn"}]
           /\ cfg_flag_init => \A i \in Items : last'[i] # "torn" => AtRestart(i)' = cache'[i]
           /\ \A i \in Items \ {item} : cache'[i] = cache[i] /\ last'[i] = last[i]
<1>1. CASE cfg_flag_init /\ Update(item, val)
  BY <1>1, UpdateEffect DEF Known
<1>2. CASE ~cfg_flag_init \/ UNCHANGED <<flash, cache, last, faults>>
  BY <1>2 DEF Update, CfgInv, CfgTypes, SavedAll, SavedOf, AtRestart, Known
<1> QED
  BY <1>1, <1>2
-----------------------------------------------------------------------------
GuardedNames == {"MB_ADDR", "BAUDRATE", "UID_BUF"}

\* A request writes numbers, and guarded registers only or none of them.
Uniform(writes) == (\E i \in DOMAIN writes : writes[i].reg \in GuardedNames)
                       => \A i \in DOMAIN writes : writes[i].reg \in GuardedNames

\* A request that writes guarded registers is worked on in a fresh window only, and none
\* writes the serial number a master reads.
ReqInv ==
    /\ request \in Seq([reg : Names, val : Nat]) /\ Uniform(request) /\ written \in Nat
    /\ \A i \in DOMAIN request : request[i].reg # "UID"
    /\ Booting => ~flag_safe_access
    /\ Booting \/ at \in {"run", "frame"} => request = <<>>
    /\ at = "frame" /\ flag_safe_access => fresh
    /\ (\E i \in DOMAIN request : request[i].reg \in GuardedNames) => flag_safe_access /\ fresh

RegInv == CfgInv /\ ReqInv /\ Current /\ Shown

\* The registers of the segments.
LEMMA SegmentShape ==
    ASSUME NEW segment \in {Config, Guarded, RO}
    PROVE  /\ Len(segment) \in Nat
           /\ \A i \in 1 .. Len(segment) :
                 segment[i] \in Names /\ (segment[i] \in GuardedNames <=> segment = Guarded)
<1>1. Config # Guarded /\ RO # Guarded
  BY DEF Config, Guarded, RO
<1>2. CASE segment = Config
  <2>1. Len(segment) = 2 /\ segment[1] = "OPT_CTRL" /\ segment[2] = "SAFE_ACCESS"
    BY <1>2 DEF Config
  <2> QED
    BY <1>1, <1>2, <2>1 DEF Names, Cleared, GuardedNames
<1>3. CASE segment = Guarded
  <2>1. /\ Len(segment) = 3 /\ segment[1] = "MB_ADDR" /\ segment[2] = "BAUDRATE"
        /\ segment[3] = "UID_BUF"
    BY <1>3 DEF Guarded
  <2> QED
    BY <1>3, <2>1 DEF Names, Cleared, GuardedNames
<1>4. CASE segment = RO
  <2>1. Len(segment) = 1 /\ segment[1] = "UID"
    BY <1>4 DEF RO
  <2> QED
    BY <1>1, <1>4, <2>1 DEF Names, Cleared, GuardedNames
<1> QED
  BY <1>2, <1>3, <1>4

\* The requests that are enumerated are of that kind.
LEMMA RequestShape ==
    ASSUME NEW writes \in Requests
    PROVE  writes \in Seq([reg : Names, val : Nat]) /\ Uniform(writes)
<1>1. PICK segment \in {Config, Guarded, RO}, n \in 1 .. MaxRegs : writes \in Writes(segment, n)
  BY DEF Requests
<1>2. /\ writes \in [1 .. n -> Writing] /\ n \in Nat
  BY <1>1, RegistersAssumption DEF Writes, RegistersAssumption
<1>3. ASSUME NEW k \in 1 .. n
      PROVE  /\ writes[k] \in [reg : Names, val : Nat]
             /\ writes[k].reg \in GuardedNames <=> segment = Guarded
  <2>1. PICK first \in 0 .. Len(segment) - n : writes[k].reg = segment[first + k]
    BY <1>1 DEF Writes
  <2>2. first + k \in 1 .. Len(segment)
    BY <1>2, SegmentShape
  <2>3. PICK r \in Names : writes[k] \in [reg : {r}, val : Values(r)]
    BY <1>2 DEF Writing
  <2>4. Values(r) \subseteq Nat
    BY Numbers, RegistersAssumption
    DEF Names, Cleared, Values, Reload, Other, Key, NoRate, NoSn, RegistersAssumption
  <2> QED
    BY <2>1, <2>2, <2>3, <2>4, SegmentShape
<1>4. DOMAIN writes = 1 .. n /\ writes \in Seq([reg : Names, val : Nat])
  <2> DEFINE S == [reg : Names, val : Nat]
  <2>1. writes \in [1 .. n -> S] /\ DOMAIN writes = 1 .. n
    BY <1>2, <1>3, Zenon
  <2> HIDE DEF S
  <2>2. writes \in UNION {[1 .. k -> S] : k \in Nat}
    BY <1>2, <2>1
  <2>3. writes \in Seq(S)
    BY <2>2, SeqDef
  <2> QED
    BY <2>1, <2>3 DEF S
<1> QED
  BY <1>3, <1>4 DEF Uniform

\* The program starts with the invariant.
LEMMA RegInitInv == Init => RegInv
<1> SUFFICES ASSUME Init PROVE RegInv
  OBVIOUS
<1>1. CfgInv
  <2>1. /\ flash \in [Items -> Nat \cup {NoVal}]
        /\ last \in [Items -> {"ok", "failed", "torn"}]
    BY DEF Init
  <2>2. CfgTypes
    <3>1. regs \in [DOMAIN Cleared -> Nat] /\ cache \in [Items -> Nat]
      BY Numbers, Zenon DEF Init
    <3>2. age \in 0 .. Window
      BY Numbers DEF Init
    <3> QED
      BY <2>1, <3>1, <3>2 DEF Init, CfgTypes
  <2>3. Loaded /\ SavedAll
    BY DEF Init, Loaded, SavedAll, SavedOf, Known
  <2> QED
    BY <2>2, <2>3 DEF CfgInv
<1>2. ReqInv
  BY DEF Init, ReqInv, Uniform
<1>3. Current /\ Shown
  BY DEF Init, Current, Shown, Booting, Cleared, Key
<1> QED
  BY <1>1, <1>2, <1>3 DEF RegInv

\* A power failure.
LEMMA ResetInv == RegInv /\ Reset => RegInv'
<1> SUFFICES ASSUME RegInv, Reset PROVE RegInv'
  OBVIOUS
<1>1. CfgInv'
  <2>1. flash' \in [Items -> Nat \cup {NoVal}]
    BY DEF Reset, RegInv, CfgInv, CfgTypes
  <2>2. last' \in [Items -> {"ok", "failed", "torn"}]
    BY DEF Reset
  <2>3. CfgTypes'
    <3>1. regs' \in [DOMAIN Cleared -> Nat] /\ cache' \in [Items -> Nat]
      BY Numbers, Zenon DEF Reset
    <3>2. age' \in 0 .. Window
      BY Numbers DEF Reset
    <3> QED
      BY <2>1, <2>2, <3>1, <3>2 DEF Reset, CfgTypes
  <2>4. Loaded' /\ SavedAll'
    BY DEF Reset, Loaded, SavedAll, SavedOf, Known
  <2> QED
    BY <2>3, <2>4 DEF CfgInv
<1>2. ReqInv'
  BY DEF Reset, ReqInv, Uniform
<1>3. Current' /\ Shown'
  BY DEF Reset, Current, Shown, Booting, Cleared, Key
<1> QED
  BY <1>1, <1>2, <1>3 DEF RegInv
-----------------------------------------------------------------------------
\* What a step keeps that has nothing to do with the configuration.
LEMMA CfgKept ==
    ASSUME CfgInv, UNCHANGED cfgVars,
           at \notin {"boot", "read_addr", "read_uart", "read_sn"},
           at' \notin {"boot", "read_addr", "read_uart", "read_sn"},
           regs' \in [DOMAIN Cleared -> Nat], flag_safe_access' \in BOOLEAN,
           age' \in 0 .. Window
    PROVE  CfgInv'
<1>1. CfgTypes' /\ Loaded'
  BY DEF CfgInv, CfgTypes, Loaded, cfgVars
<1>2. ASSUME NEW i \in Items PROVE SavedOf(i)'
  BY <1>2 DEF CfgInv, SavedAll, SavedOf, Known, AtRestart, cfgVars
<1> QED
  BY <1>1, <1>2 DEF CfgInv, SavedAll

\* cfg_init without a storage, or with one.
LEMMA InitStorageInv == RegInv /\ InitStorage => RegInv'
<1> SUFFICES ASSUME RegInv, InitStorage PROVE RegInv'
  OBVIOUS
<1> USE DEF RegInv
<1>1. ~cfg_flag_init /\ ~cfg_flag_init'
  BY DEF InitStorage, CfgInv, Loaded
<1>2. CfgInv'
  <2>1. cache' \in [Items -> Nat]
    BY Numbers DEF InitStorage, CfgInv, CfgTypes
  <2>2. CfgTypes'
    BY <2>1 DEF InitStorage, CfgInv, CfgTypes, safeVars
  <2>3. Loaded' /\ SavedAll'
    BY <1>1 DEF InitStorage, Loaded, SavedAll, SavedOf, Known
  <2> QED
    BY <2>2, <2>3 DEF CfgInv
<1>3. ReqInv'
  BY DEF InitStorage, ReqInv, Uniform, Booting, reqVars, safeVars
<1>4. Current' /\ Shown'
  BY <1>1 DEF InitStorage, Current, Shown, safeVars
<1> QED
  BY <1>2, <1>3, <1>4

\* What cfg_item_init makes of an item.
LEMMA InitItemEffect ==
    ASSUME CfgInv, NEW item \in Items, NEW here, NEW next, InitItem(item, here, next),
           cache[item] = Default[item]
    PROVE  /\ flash' \in [Items -> Nat \cup {NoVal}] /\ cache' \in [Items -> Nat]
           /\ last' \in [Items -> {"ok", "failed", "torn"}]
           /\ last'[item] # "torn" => AtRestart(item)' = cache'[item]
           /\ \A i \in Items \ {item} :
                 flash'[i] = flash[i] /\ cache'[i] = cache[i] /\ last'[i] = last[i]
<1> USE DEF CfgInv, CfgTypes
<1>1. CASE /\ flash[item] # NoVal
           /\ cache' = [cache EXCEPT ![item] = flash[item]]
           /\ UNCHANGED <<flash, last, faults>>
  BY <1>1 DEF AtRestart
<1>2. CASE flash[item] = NoVal /\ Store(item, cache[item]) /\ UNCHANGED cache
  <2>1. cache[item] \in Nat
    OBVIOUS
  <2>2. /\ flash' \in [Items -> Nat \cup {NoVal}]
        /\ last' \in [Items -> {"ok", "failed", "torn"}]
        /\ last'[item] = "ok" => flash'[item] = cache[item]
        /\ last'[item] = "failed" => flash'[item] = flash[item] /\ last[item] # "torn"
        /\ \A i \in Items \ {item} : flash'[i] = flash[i] /\ last'[i] = last[i]
    BY <1>2, <2>1, StoreEffect
  <2>3. last'[item] # "torn" => AtRestart(item)' = cache'[item]
    BY <1>2, <2>1, <2>2, Numbers DEF AtRestart
  <2> QED
    BY <1>2, <2>2, <2>3
<1>3. CASE last' = [last EXCEPT ![item] = "torn"] /\ UNCHANGED <<flash, cache>>
  BY <1>3
<1> QED
  BY <1>1, <1>2, <1>3 DEF InitItem

\* Each item of cfg_init.
LEMMA InitItemInv == RegInv /\ (InitAddr \/ InitUart \/ InitSn) => RegInv'
<1> SUFFICES ASSUME RegInv, InitAddr \/ InitUart \/ InitSn PROVE RegInv'
  OBVIOUS
<1> USE DEF RegInv
<1>1. CASE InitAddr
  <2>1. InitItem("addr", "read_addr", "read_uart") /\ "addr" \in Items
    BY <1>1 DEF InitAddr, Items
  <2>2. cache = Default /\ at = "read_addr" /\ at' = "read_uart" /\ ~cfg_flag_init'
    BY <2>1 DEF InitItem, CfgInv, Loaded
  <2>3. /\ flash' \in [Items -> Nat \cup {NoVal}] /\ cache' \in [Items -> Nat]
        /\ last' \in [Items -> {"ok", "failed", "torn"}]
        /\ last'["addr"] # "torn" => AtRestart("addr")' = cache'["addr"]
        /\ \A i \in Items \ {"addr"} : cache'[i] = cache[i]
    BY <2>1, <2>2, InitItemEffect
  <2>4. Loaded' /\ SavedAll'
    BY <2>2, <2>3 DEF Loaded, SavedAll, SavedOf, Known, Items
  <2>5. CfgInv'
    BY <2>1, <2>2, <2>3, <2>4 DEF InitItem, CfgInv, CfgTypes, safeVars
  <2>6. ReqInv' /\ Current' /\ Shown'
    BY <2>1, <2>2 DEF InitItem, ReqInv, Uniform, Booting, Current, Shown, reqVars, safeVars
  <2> QED
    BY <2>5, <2>6
<1>2. CASE InitUart
  <2>1. InitItem("uart", "read_uart", "read_sn") /\ "uart" \in Items
    BY <1>2 DEF InitUart, Items
  <2>2. /\ cache["uart"] = Default["uart"] /\ cache["sn"] = Default["sn"]
        /\ at = "read_uart" /\ at' = "read_sn" /\ ~cfg_flag_init'
    BY <2>1 DEF InitItem, CfgInv, Loaded
  <2>3. /\ flash' \in [Items -> Nat \cup {NoVal}] /\ cache' \in [Items -> Nat]
        /\ last' \in [Items -> {"ok", "failed", "torn"}]
        /\ last'["uart"] # "torn" => AtRestart("uart")' = cache'["uart"]
        /\ \A i \in Items \ {"uart"} :
              flash'[i] = flash[i] /\ cache'[i] = cache[i] /\ last'[i] = last[i]
    BY <2>1, <2>2, InitItemEffect
  <2>4. last'["addr"] # "torn" => AtRestart("addr")' = cache'["addr"]
    BY <2>2, <2>3 DEF CfgInv, SavedAll, SavedOf, Known, Items, AtRestart
  <2>5. Loaded' /\ SavedAll'
    BY <2>2, <2>3, <2>4 DEF Loaded, SavedAll, SavedOf, Known, Items
  <2>6. CfgInv'
    BY <2>1, <2>2, <2>3, <2>5 DEF InitItem, CfgInv, CfgTypes, safeVars
  <2>7. ReqInv' /\ Current' /\ Shown'
    BY <2>1, <2>2 DEF InitItem, ReqInv, Uniform, Booting, Current, Shown, reqVars, safeVars
  <2> QED
    BY <2>6, <2>7
<1>3. CASE InitSn
  <2>1. InitItem("sn", "read_sn", "mb_init") /\ "sn" \in Items
    BY <1>3 DEF InitSn, Items
  <2>2. cache["sn"] = Default["sn"] /\ at = "read_sn" /\ at' = "mb_init" /\ cfg_flag_init'
    BY <2>1 DEF InitItem, CfgInv, Loaded
  <2>3. /\ flash' \in [Items -> Nat \cup {NoVal}] /\ cache' \in [Items -> Nat]
        /\ last' \in [Items -> {"ok", "failed", "torn"}]
        /\ last'["sn"] # "torn" => AtRestart("sn")' = cache'["sn"]
        /\ \A i \in Items \ {"sn"} :
              flash'[i] = flash[i] /\ cache'[i] = cache[i] /\ last'[i] = last[i]
    BY <2>1, <2>2, InitItemEffect
  <2>4. \A i \in Items \ {"sn"} : last'[i] # "torn" => AtRestart(i)' = cache'[i]
    BY <2>2, <2>3 DEF CfgInv, SavedAll, SavedOf, Known, Items, AtRestart
  <2>5. Loaded' /\ SavedAll'
    BY <2>2, <2>3, <2>4 DEF Loaded, SavedAll, SavedOf
  <2>6. CfgInv'
    BY <2>1, <2>2, <2>3, <2>5 DEF InitItem, CfgInv, CfgTypes, safeVars
  <2>7. ReqInv' /\ Current' /\ Shown'
    BY <2>1, <2>2 DEF InitItem, ReqInv, Uniform, Booting, Current, Shown, reqVars, safeVars
  <2> QED
    BY <2>6, <2>7
<1> QED
  BY <1>1, <1>2, <1>3
\* mb_init.
LEMMA MbInitInv == RegInv /\ MbInit => RegInv'
<1> SUFFICES ASSUME RegInv, MbInit PROVE RegInv'
  OBVIOUS
<1> USE DEF RegInv
<1>1. PICK rate \in (IF cfg_flag_init THEN {cache["uart"]} ELSE JunkRate) :
        /\ at = "mb_init" /\ at' = "run"
        /\ address' = IF cfg_flag_init THEN cache["addr"] ELSE 1
        /\ baudrate' = IF cfg_flag_init THEN cache["uart"] ELSE NoRate
        /\ regs' = [Cleared EXCEPT !.MB_ADDR = IF cfg_flag_init THEN cache["addr"] ELSE 0,
                                   !.BAUDRATE = rate,
                                   !.UID = IF cfg_flag_init THEN cache["sn"] ELSE NoSn]
        /\ UNCHANGED <<cfgVars, safeVars, reqVars>>
  BY DEF MbInit
<1>2. cache["addr"] \in Nat /\ cache["uart"] \in Nat /\ cache["sn"] \in Nat
  BY DEF CfgInv, CfgTypes, Items
<1>3. rate \in Nat /\ NoSn \in Nat
  BY <1>1, <1>2, Numbers, RegistersAssumption DEF RegistersAssumption, NoRate, NoSn
<1>4. regs' \in [DOMAIN Cleared -> Nat] /\ regs'.SAFE_ACCESS = 0
      /\ (cfg_flag_init => regs'.UID = cache["sn"])
  BY <1>1, <1>2, <1>3, Numbers DEF Cleared
<1>5. CfgInv'
  BY <1>1, <1>4, CfgKept DEF CfgInv, CfgTypes, safeVars
<1>6. ReqInv'
  BY <1>1 DEF ReqInv, Uniform, Booting, reqVars, safeVars
<1>7. Current'
  BY <1>1 DEF Current, cfgVars
<1>8. Shown'
  BY <1>1, <1>4 DEF Shown, ReqInv, Booting, cfgVars, safeVars, Key
<1> QED
  BY <1>5, <1>6, <1>7, <1>8

\* The cases of a reload that concern the storage.
LEMMA ReloadItemInv == RegInv /\ (ReloadAddr \/ ReloadUart \/ ReloadSn) => RegInv'
<1> SUFFICES ASSUME RegInv, ReloadAddr \/ ReloadUart \/ ReloadSn PROVE RegInv'
  OBVIOUS
<1> USE DEF RegInv
<1>1. /\ at \in {"reload_addr", "reload_uart", "reload_sn"}
      /\ at' \in {"reload_uart", "reload_sn", "reload_modbus"}
      /\ UNCHANGED <<cfg_flag_init, safeVars, reqVars>>
  BY DEF ReloadAddr, ReloadUart, ReloadSn
<1>2. ASSUME NEW item \in Items, NEW val \in Nat,
             Update(item, val) \/ UNCHANGED <<flash, cache, last, faults>>,
             regs' \in [DOMAIN Cleared -> Nat]
      PROVE  CfgInv'
  <2>1. /\ flash' \in [Items -> Nat \cup {NoVal}] /\ cache' \in [Items -> Nat]
        /\ last' \in [Items -> {"ok", "failed", "torn"}]
        /\ cfg_flag_init => \A i \in Items : last'[i] # "torn" => AtRestart(i)' = cache'[i]
    BY <1>2, ReloadEffect
  <2>2. CfgTypes' /\ Loaded' /\ SavedAll'
    BY <1>1, <1>2, <2>1 DEF CfgInv, CfgTypes, Loaded, SavedAll, SavedOf, Known, safeVars
  <2> QED
    BY <2>2 DEF CfgInv
<1>3. ReqInv'
  BY <1>1 DEF ReqInv, Uniform, Booting, reqVars, safeVars
<1>4. Current'
  BY <1>1 DEF Current, Reloading
<1>5. regs.MB_ADDR \in Nat /\ regs.BAUDRATE \in Nat /\ regs.UID_BUF \in Nat
  BY DEF CfgInv, CfgTypes, Cleared
<1>6. CASE ReloadAddr \/ ReloadUart
  <2>1. PICK item \in {"addr", "uart"}, val \in Nat :
          Update(item, val) \/ UNCHANGED <<flash, cache, last, faults>>
    BY <1>5, <1>6 DEF ReloadAddr, ReloadUart
  <2>2. UNCHANGED regs
    BY <1>6 DEF ReloadAddr, ReloadUart
  <2>3. CfgInv'
    BY <1>2, <2>1, <2>2 DEF CfgInv, CfgTypes, Items
  <2>4. cache'["sn"] = cache["sn"] /\ last'["sn"] = last["sn"]
    BY <2>1, ReloadEffect DEF Items
  <2>5. Shown'
    BY <1>1, <2>2, <2>4 DEF Shown, Booting, safeVars
  <2> QED
    BY <1>3, <1>4, <2>3, <2>5
<1>7. CASE ReloadSn /\ regs.UID_BUF \notin Serials
  <2>1. UNCHANGED <<flash, cache, last, faults, regs>>
    BY <1>7 DEF ReloadSn
  <2>2. CfgInv'
    BY <1>2, <1>5, <2>1 DEF CfgInv, CfgTypes, Items
  <2>3. Shown'
    BY <1>1, <2>1 DEF Shown, Booting, safeVars
  <2> QED
    BY <1>3, <1>4, <2>2, <2>3
<1>8. CASE ReloadSn /\ regs.UID_BUF \in Serials
  <2>1. Update("sn", regs.UID_BUF) /\ regs' = [regs EXCEPT !.UID = regs.UID_BUF]
    BY <1>8 DEF ReloadSn
  <2>2. /\ regs' \in [DOMAIN Cleared -> Nat] /\ regs'.SAFE_ACCESS = regs.SAFE_ACCESS
        /\ regs'.UID = regs.UID_BUF
    BY <1>5, <2>1 DEF CfgInv, CfgTypes, Cleared
  <2>3. CfgInv'
    BY <1>2, <1>5, <2>1, <2>2 DEF Items
  <2>4. cfg_flag_init /\ last'["sn"] = "ok" => cache'["sn"] = regs.UID_BUF
    BY <2>1 DEF Update, CacheAfter, CfgInv, CfgTypes, Items
  <2>5. Shown'
    BY <1>1, <2>2, <2>4 DEF Shown, safeVars
  <2> QED
    BY <1>3, <1>4, <2>3, <2>5
<1> QED
  BY <1>6, <1>7, <1>8
\* modbus_reload.
LEMMA ReloadModbusInv == RegInv /\ ReloadModbus => RegInv'
<1> SUFFICES ASSUME RegInv, ReloadModbus PROVE RegInv'
  OBVIOUS
<1> USE DEF RegInv
<1>1. /\ at = "reload_modbus" /\ at' = "write"
      /\ UNCHANGED <<cfgVars, regs, safeVars, reqVars>>
      /\ cfg_flag_init => address' = cache["addr"] /\ baudrate' = cache["uart"]
  BY DEF ReloadModbus, RateAfter
<1>2. CfgInv'
  BY <1>1, CfgKept DEF CfgInv, CfgTypes, safeVars
<1>3. ReqInv' /\ Current' /\ Shown'
  BY <1>1 DEF ReqInv, Uniform, Booting, Current, Shown, cfgVars, reqVars, safeVars
<1> QED
  BY <1>2, <1>3

\* modbus_run, with a window that is over and with one that is not.
LEMMA RunInv == RegInv /\ Run => RegInv'
<1> SUFFICES ASSUME RegInv, Run PROVE RegInv'
  OBVIOUS
<1> USE DEF RegInv
<1>1. /\ at = "run" /\ at' = "frame" /\ UNCHANGED <<cfgVars, slaveVars, reqVars>>
      /\ fresh' = (flag_safe_access /\ age < Window)
  BY DEF Run
<1>2. CASE flag_safe_access' = FALSE /\ age' = 0 /\ regs' = [regs EXCEPT !.SAFE_ACCESS = 0]
  <2>1. /\ regs' \in [DOMAIN Cleared -> Nat] /\ regs'.SAFE_ACCESS = 0 /\ regs'.UID = regs.UID
    BY <1>2 DEF CfgInv, CfgTypes, Cleared
  <2>2. CfgInv'
    <3>1. 0 \in 0 .. Window
      BY Numbers
    <3> QED
      BY <1>1, <1>2, <2>1, <3>1, CfgKept
  <2>3. ReqInv'
    BY <1>1, <1>2 DEF ReqInv, Uniform, Booting, reqVars
  <2>4. Current' /\ Shown'
    BY <1>1, <1>2, <2>1 DEF Current, Shown, Booting, Reloading, cfgVars, slaveVars, Key
  <2> QED
    BY <2>2, <2>3, <2>4
<1>3. CASE ~(flag_safe_access /\ Expired) /\ UNCHANGED <<flag_safe_access, age, regs>>
  <2>1. UNCHANGED <<flag_safe_access, age, regs>>
    BY <1>3
  <2>2. flag_safe_access => age < Window
    BY <1>3, Numbers DEF Expired, CfgInv, CfgTypes
  <2>3. CfgInv'
    BY <1>1, <2>1, CfgKept DEF CfgInv, CfgTypes
  <2>4. ReqInv'
    BY <1>1, <2>1, <2>2 DEF ReqInv, Uniform, Booting, reqVars
  <2>5. Current' /\ Shown'
    BY <1>1, <2>1 DEF Current, Shown, Booting, Reloading, cfgVars, slaveVars
  <2> QED
    BY <2>3, <2>4, <2>5
<1> QED
  BY <1>2, <1>3 DEF Run

\* A millisecond.
LEMMA ElapseInv == RegInv /\ Elapse => RegInv'
<1> SUFFICES ASSUME RegInv, Elapse PROVE RegInv'
  OBVIOUS
<1> USE DEF RegInv
<1>1. ~Booting
  BY DEF Elapse, ReqInv
<1>2. age' \in 0 .. Window
  BY Numbers DEF Elapse, CfgInv, CfgTypes
<1>3. CfgInv'
  BY <1>1, <1>2, CfgKept DEF Elapse, Booting, CfgInv, CfgTypes
<1>4. ReqInv' /\ Current' /\ Shown'
  BY DEF Elapse, ReqInv, Uniform, Booting, Reloading, Current, Shown, cfgVars, slaveVars, reqVars
<1> QED
  BY <1>3, <1>4

\* What a request that is taken up may write.
LEMMA CheckInv == RegInv /\ Check => RegInv'
<1> SUFFICES ASSUME RegInv, Check PROVE RegInv'
  OBVIOUS
<1> USE DEF RegInv
<1>1. PICK writes \in Requests :
        /\ at = "frame"
        /\ \/ Accepts(writes) /\ at' = "write" /\ request' = writes
           \/ at' = "answer" /\ request' = <<>>
        /\ UNCHANGED <<cfgVars, regs, slaveVars, safeVars, written>>
  BY DEF Check
<1>2. CfgInv'
  BY <1>1, CfgKept DEF CfgInv, CfgTypes, safeVars
<1>3. Current' /\ Shown'
  BY <1>1 DEF Current, Shown, Booting, Reloading, cfgVars, slaveVars, safeVars
<1>4. CASE Accepts(writes) /\ at' = "write" /\ request' = writes
  <2>1. writes \in Seq([reg : Names, val : Nat]) /\ Uniform(writes)
    BY RequestShape
  <2>2. \A i \in DOMAIN writes : Permitted(writes[i].reg)
    BY <1>4 DEF Accepts
  <2>3. \A reg : Permitted(reg) => reg # "UID" /\ (reg \in GuardedNames => flag_safe_access)
    <3>1. \A i \in DOMAIN Config : Config[i] # "UID" /\ Config[i] \notin GuardedNames
      BY DEF Config, GuardedNames
    <3>2. \A i \in DOMAIN Guarded : Guarded[i] # "UID"
      BY DEF Guarded
    <3> QED
      BY <3>1, <3>2 DEF Permitted
  <2>4. flag_safe_access => fresh
    BY <1>1 DEF ReqInv
  <2>5. written' \in Nat
    BY <1>1 DEF ReqInv
  <2> QED
    BY <1>1, <1>2, <1>3, <1>4, <2>1, <2>2, <2>3, <2>4, <2>5
    DEF ReqInv, Booting, safeVars, Uniform
<1>5. CASE at' = "answer" /\ request' = <<>>
  <2>1. ReqInv'
    BY <1>1, <1>5 DEF ReqInv, Uniform, Booting, safeVars
  <2> QED
    BY <1>2, <1>3, <2>1
<1> QED
  BY <1>1, <1>4, <1>5

\* The steps that move a request on and change nothing else.
LEMMA MoveInv == RegInv /\ (NoFrame \/ Read \/ Pack \/ Answer) => RegInv'
<1> SUFFICES ASSUME RegInv, NoFrame \/ Read \/ Pack \/ Answer PROVE RegInv'
  OBVIOUS
<1> USE DEF RegInv
<1>1. /\ at \in {"frame", "write", "answer"} /\ at' \in {"run", "write", "answer"}
      /\ UNCHANGED <<cfgVars, regs, slaveVars, flag_safe_access, age>>
  BY DEF NoFrame, Read, Pack, Answer, safeVars
<1>2. CfgInv'
  BY <1>1, CfgKept DEF CfgInv, CfgTypes
<1>3. Current' /\ Shown'
  BY <1>1 DEF Current, Shown, Booting, Reloading, cfgVars, slaveVars
<1>4. CASE NoFrame
  BY <1>2, <1>3, <1>4 DEF NoFrame, ReqInv, Uniform, Booting, reqVars
<1>5. CASE Read
  BY <1>2, <1>3, <1>5 DEF Read, ReqInv, Uniform, Booting, safeVars
<1>6. CASE Pack
  BY <1>2, <1>3, <1>6 DEF Pack, ReqInv, Uniform, Booting, safeVars
<1>7. CASE Answer
  BY <1>2, <1>3, <1>7 DEF Answer, ReqInv, Uniform, Booting
<1> QED
  BY <1>4, <1>5, <1>6, <1>7
\* What the next write of a request is.
LEMMA WriteShape ==
    ASSUME ReqInv, NEW reg, Write(reg)
    PROVE  /\ written + 1 \in DOMAIN request /\ written' \in Nat
           /\ reg \in Names /\ reg # "UID" /\ Value \in Nat
           /\ reg \in GuardedNames => flag_safe_access /\ fresh
           /\ reg = "SAFE_ACCESS" =>
                 \A i \in DOMAIN request : request[i].reg \notin GuardedNames
<1>1. /\ request \in Seq([reg : Names, val : Nat]) /\ written \in Nat
      /\ written < Len(request) /\ request[written + 1].reg = reg /\ written' = written + 1
  BY DEF ReqInv, Write
<1>2. written + 1 \in DOMAIN request /\ written + 1 \in Nat
  BY <1>1
<1>3. request[written + 1] \in [reg : Names, val : Nat]
  <2>1. written + 1 \in 1 .. Len(request)
    BY <1>1
  <2> QED
    BY <1>1, <2>1, ElementOfSeq, Zenon
<1>4. reg \in Names /\ Value \in Nat
  BY <1>1, <1>3 DEF Value
<1> QED
  BY <1>1, <1>2, <1>4 DEF ReqInv, Uniform, GuardedNames

\* The writes without an effect on the slave.
LEMMA WritePlainInv == RegInv /\ WritePlain => RegInv'
<1> SUFFICES ASSUME RegInv, WritePlain PROVE RegInv'
  OBVIOUS
<1> USE DEF RegInv
<1>1. PICK reg \in DOMAIN Cleared \ {"SAFE_ACCESS"} :
        /\ Write(reg)
        /\ regs' = IF Allowed(reg, Value) THEN [regs EXCEPT ![reg] = Value] ELSE regs
        /\ UNCHANGED <<at, flag_safe_access, age>>
  BY DEF WritePlain
<1>2. /\ at = "write" /\ UNCHANGED <<cfgVars, slaveVars, fresh, request, to, reply>>
  BY <1>1 DEF Write
<1>3. reg # "UID" /\ Value \in Nat /\ written' \in Nat
  BY <1>1, WriteShape
<1>4. /\ regs' \in [DOMAIN Cleared -> Nat] /\ regs'.UID = regs.UID
      /\ regs'.SAFE_ACCESS = regs.SAFE_ACCESS
  BY <1>1, <1>3 DEF CfgInv, CfgTypes, Cleared
<1>5. CfgInv'
  BY <1>1, <1>2, <1>4, CfgKept DEF CfgInv, CfgTypes
<1>6. ReqInv' /\ Current' /\ Shown'
  BY <1>1, <1>2, <1>3, <1>4
  DEF ReqInv, Uniform, Booting, Reloading, Current, Shown, cfgVars, slaveVars
<1> QED
  BY <1>5, <1>6

\* The write that opens or closes the window.
LEMMA WriteSafeInv == RegInv /\ WriteSafe => RegInv'
<1> SUFFICES ASSUME RegInv, WriteSafe PROVE RegInv'
  OBVIOUS
<1> USE DEF RegInv
<1>1. Write("SAFE_ACCESS") /\ UNCHANGED at
  BY DEF WriteSafe
<1>2. at = "write" /\ UNCHANGED <<cfgVars, slaveVars, fresh, request, to, reply>>
  BY <1>1 DEF Write
<1>3. /\ Value \in Nat /\ written' \in Nat
      /\ \A i \in DOMAIN request : request[i].reg \notin GuardedNames
  BY <1>1, WriteShape
<1>4. /\ regs' \in [DOMAIN Cleared -> Nat] /\ regs'.UID = regs.UID
      /\ flag_safe_access' \in BOOLEAN
      /\ flag_safe_access' <=> regs'.SAFE_ACCESS = Key
  BY <1>3 DEF WriteSafe, SafeAfter, CfgInv, CfgTypes, Cleared, Shown
<1>5. age' \in 0 .. Window
  <2>1. age' = 0 \/ age' = Window \/ age' = age
    BY DEF WriteSafe
  <2>2. 0 \in 0 .. Window /\ Window \in 0 .. Window
    BY Numbers
  <2> QED
    BY <2>1, <2>2 DEF CfgInv, CfgTypes
<1>6. CfgInv'
  BY <1>1, <1>2, <1>4, <1>5, CfgKept
<1>7. ReqInv' /\ Current' /\ Shown'
  BY <1>1, <1>2, <1>3, <1>4
  DEF ReqInv, Uniform, Booting, Reloading, Current, Shown, cfgVars, slaveVars
<1> QED
  BY <1>6, <1>7

\* The write that starts a reload.
LEMMA WriteOptInv == RegInv /\ WriteOpt => RegInv'
<1> SUFFICES ASSUME RegInv, WriteOpt PROVE RegInv'
  OBVIOUS
<1> USE DEF RegInv
<1>1. /\ Write("OPT_CTRL") /\ at' \in {"reload_addr", "write"}
      /\ UNCHANGED <<regs, flag_safe_access, age>>
  BY DEF WriteOpt
<1>2. at = "write" /\ UNCHANGED <<cfgVars, slaveVars, fresh, request, to, reply>>
  BY <1>1 DEF Write
<1>3. written' \in Nat
  BY <1>1, WriteShape
<1>4. CfgInv'
  BY <1>1, <1>2, CfgKept DEF CfgInv, CfgTypes
<1>5. ReqInv' /\ Current' /\ Shown'
  BY <1>1, <1>2, <1>3
  DEF ReqInv, Uniform, Booting, Reloading, Current, Shown, cfgVars, slaveVars
<1> QED
  BY <1>4, <1>5

\* Every step.
LEMMA RegStep == RegInv /\ [Next]_vars => RegInv'
<1> SUFFICES ASSUME RegInv, [Next]_vars PROVE RegInv'
  OBVIOUS
<1>1. CASE Boot
  BY <1>1, InitStorageInv, InitItemInv, MbInitInv DEF Boot
<1>2. CASE Serve
  BY <1>2, RunInv, MoveInv, CheckInv, WritePlainInv, WriteSafeInv, WriteOptInv, ReloadItemInv,
     ReloadModbusInv DEF Serve
<1>3. CASE Elapse
  BY <1>3, ElapseInv
<1>4. CASE Reset
  BY <1>4, ResetInv
<1>5. CASE UNCHANGED vars
  <2>1. UNCHANGED <<cfgVars, regs, slaveVars, safeVars, at, reqVars>>
    BY <1>5 DEF vars
  <2>2. CfgInv'
    BY <2>1 DEF RegInv, CfgInv, CfgTypes, Loaded, SavedAll, SavedOf, Known, AtRestart,
                cfgVars, safeVars
  <2>3. ReqInv' /\ Current' /\ Shown'
    BY <2>1 DEF RegInv, ReqInv, Uniform, Booting, Reloading, Current, Shown, cfgVars, slaveVars,
                safeVars, reqVars
  <2> QED
    BY <2>2, <2>3 DEF RegInv
<1> QED
  BY <1>1, <1>2, <1>3, <1>4, <1>5 DEF Next, Main

\* The steps that could reconfigure the device.
LEMMA ProtectedStep ==
    ASSUME RegInv, [Next]_vars, Configuration' # Configuration, at # "mb_init", at' # "boot"
    PROVE  flag_safe_access /\ fresh
<1>1. regs \in [DOMAIN Cleared -> Nat]
  BY DEF RegInv, CfgInv, CfgTypes
<1>2. ASSUME NEW r \in DOMAIN Cleared \ GuardedNames, NEW v,
             regs' = [regs EXCEPT ![r] = v] \/ UNCHANGED regs
      PROVE  FALSE
  BY <1>1, <1>2 DEF Configuration, Cleared, GuardedNames
<1>3. ~UNCHANGED regs
  BY DEF Configuration
<1>4. WritePlain \/ WriteSafe \/ Run \/ ReloadSn
  BY <1>3 DEF Next, Main, Boot, Serve, InitStorage, InitAddr, InitUart, InitSn, InitItem, MbInit,
              NoFrame, Check, Read, WriteOpt, ReloadAddr, ReloadUart, ReloadModbus, Pack, Answer,
              Elapse, Reset, vars
<1>5. ~Run /\ ~WriteSafe /\ ~ReloadSn
  BY <1>2 DEF Run, WriteSafe, ReloadSn, Cleared, GuardedNames
<1>6. PICK reg \in DOMAIN Cleared \ {"SAFE_ACCESS"} :
        Write(reg) /\ (regs' = [regs EXCEPT ![reg] = Value] \/ UNCHANGED regs)
  BY <1>4, <1>5 DEF WritePlain
<1>7. reg \in GuardedNames
  BY <1>2, <1>6
<1> QED
  BY <1>6, <1>7, WriteShape DEF RegInv
-----------------------------------------------------------------------------
\* The configuration in use is the one a restart finds, whatever the storage does to the
\* calls of cfg_init and of sensor_reload_config, up to a write that fails half-way.
THEOREM ConfigurationSaved == Spec => []Saved
<1>1. RegInv => Saved
  BY DEF RegInv, CfgInv, SavedAll, SavedOf, Known, Saved
<1> QED
  BY <1>1, RegInitInv, RegStep, PTL DEF Spec

\* The slave and the port are set to the configuration in use.
THEOREM ConfigurationCurrent == Spec => []Current
<1>1. RegInv => Current
  BY DEF RegInv
<1> QED
  BY <1>1, RegInitInv, RegStep, PTL DEF Spec

\* The registers show the window and the serial number as they are.
THEOREM RegistersTruthful == Spec => []Shown
<1>1. RegInv => Shown
  BY DEF RegInv
<1> QED
  BY <1>1, RegInitInv, RegStep, PTL DEF Spec

\* Without an open window no request changes the configuration's registers.
THEOREM WindowProtects == Spec => Protected
<1>1. RegInv /\ [Next]_vars =>
        [Configuration' # Configuration /\ at # "mb_init" /\ at' # "boot"
            => flag_safe_access /\ fresh]_vars
  BY ProtectedStep
<1> QED
  BY <1>1, RegInitInv, RegStep, PTL DEF Spec, Protected
-----------------------------------------------------------------------------
\* The first n registers of the request hold what it writes.
Done(n) == \A i \in DOMAIN request :
              i <= n /\ request[i].reg \in DOMAIN Cleared
                  => regs[request[i].reg] = request[i].val

\* What a request writes is allowed, no register is written twice, and what has been
\* written stays until the answer.
AnsInv ==
    /\ \A i \in DOMAIN request : Allowed(request[i].reg, request[i].val)
    /\ \A i, j \in DOMAIN request : request[i].reg = request[j].reg => i = j
    /\ Booting \/ at \in {"run", "frame"} => request = <<>> /\ written = 0
    /\ at = "write" \/ Reloading => Done(written)
    /\ at = "answer" => reply.from = to /\ (reply.ok => Done(Len(request)))

\* No register is twice in a segment.
LEMMA RequestDistinct ==
    ASSUME NEW writes \in Requests, NEW i \in DOMAIN writes, NEW j \in DOMAIN writes,
           writes[i].reg = writes[j].reg
    PROVE  i = j
<1>1. PICK segment \in {Config, Guarded, RO}, n \in 1 .. MaxRegs : writes \in Writes(segment, n)
  BY DEF Requests
<1>2. PICK first \in 0 .. Len(segment) - n : \A k \in 1 .. n : writes[k].reg = segment[first + k]
  BY <1>1 DEF Writes
<1>3. DOMAIN writes = 1 .. n /\ n \in Nat
  BY <1>1, RegistersAssumption DEF Writes, RegistersAssumption
<1>4. /\ i \in Nat /\ j \in Nat /\ first \in Nat /\ segment[first + i] = segment[first + j]
      /\ first + i \in 1 .. Len(segment) /\ first + j \in 1 .. Len(segment)
  BY <1>2, <1>3, SegmentShape
<1>5. \A k, l \in 1 .. Len(segment) : segment[k] = segment[l] => k = l
  <2>1. CASE segment = Config
    <3>1. Len(segment) = 2 /\ segment[1] = "OPT_CTRL" /\ segment[2] = "SAFE_ACCESS"
      BY <2>1 DEF Config
    <3> QED
      BY <3>1
  <2>2. CASE segment = Guarded
    <3>1. /\ Len(segment) = 3 /\ segment[1] = "MB_ADDR" /\ segment[2] = "BAUDRATE"
          /\ segment[3] = "UID_BUF"
      BY <2>2 DEF Guarded
    <3> QED
      BY <3>1
  <2>3. CASE segment = RO
    <3>1. Len(segment) = 1
      BY <2>3 DEF RO
    <3> QED
      BY <3>1
  <2> QED
    BY <2>1, <2>2, <2>3
<1> QED
  BY <1>4, <1>5

\* At the start.
LEMMA AnsInit == Init => AnsInv
  BY DEF Init, AnsInv, Booting, Reloading

\* The writes of a request.
LEMMA AnsWrite ==
    ASSUME RegInv, AnsInv, WritePlain \/ WriteSafe \/ WriteOpt
    PROVE  AnsInv'
<1>1. PICK reg :
        /\ Write(reg) /\ at = "write" /\ (at' = "write" \/ Reloading')
        /\ \/ regs' = [regs EXCEPT ![reg] = Value]
           \/ ~Allowed(reg, Value)
           \/ reg = "OPT_CTRL" /\ UNCHANGED regs
  <2>1. CASE WritePlain
    BY <2>1 DEF WritePlain, Write
  <2>2. CASE WriteSafe
    BY <2>2 DEF WriteSafe, Write
  <2>3. CASE WriteOpt
    BY <2>3 DEF WriteOpt, Write, Reloading
  <2> QED
    BY <2>1, <2>2, <2>3
<1>2. /\ UNCHANGED <<request, to, reply>> /\ written' = written + 1 /\ written \in Nat
      /\ request[written + 1].reg = reg /\ Value = request[written + 1].val
      /\ written + 1 \in DOMAIN request
  BY <1>1, WriteShape DEF Write, Value, RegInv, ReqInv
<1>3. Done(written) /\ Allowed(reg, Value)
  BY <1>1, <1>2 DEF AnsInv
<1>4. \A i \in DOMAIN request : i \in Nat /\ (i <= written + 1 => i <= written \/ i = written + 1)
  BY <1>2 DEF RegInv, ReqInv
<1>5. Done(written)'
  <2> SUFFICES ASSUME NEW i \in DOMAIN request, i <= written + 1, request[i].reg \in DOMAIN Cleared
               PROVE  regs'[request[i].reg] = request[i].val
    BY <1>2 DEF Done
  <2>1. regs \in [DOMAIN Cleared -> Nat] /\ "OPT_CTRL" \notin DOMAIN Cleared
    BY DEF RegInv, CfgInv, CfgTypes, Cleared
  <2>2. CASE i = written + 1
    BY <1>1, <1>2, <1>3, <2>1, <2>2
  <2>3. CASE i # written + 1
    <3>1. request[i].reg # reg
      BY <1>2, <2>3 DEF AnsInv
    <3>2. regs[request[i].reg] = request[i].val
      BY <1>3, <1>4, <2>3 DEF Done
    <3> QED
      BY <1>1, <1>3, <2>1, <3>1, <3>2
  <2> QED
    BY <2>2, <2>3
<1> QED
  BY <1>1, <1>2, <1>5 DEF AnsInv, Booting, Reloading, Done
\* A request that is taken up, or refused.
LEMMA AnsCheck == RegInv /\ AnsInv /\ Check => AnsInv'
<1> SUFFICES ASSUME RegInv, AnsInv, Check PROVE AnsInv'
  OBVIOUS
<1>1. PICK writes \in Requests, dest \in {0, address} :
        /\ at = "frame" /\ to' = dest
        /\ \/ Accepts(writes) /\ at' = "write" /\ request' = writes
           \/ at' = "answer" /\ request' = <<>> /\ reply' = [from |-> dest, ok |-> FALSE]
        /\ UNCHANGED <<cfgVars, regs, slaveVars, safeVars, written>>
  BY DEF Check
<1>2. written' = 0
  BY <1>1 DEF AnsInv
<1>3. CASE Accepts(writes) /\ at' = "write" /\ request' = writes
  <2>1. \A i \in DOMAIN writes : Allowed(writes[i].reg, writes[i].val)
    BY <1>3 DEF Accepts
  <2>2. \A i, j \in DOMAIN writes : writes[i].reg = writes[j].reg => i = j
    BY RequestDistinct
  <2>3. \A i \in DOMAIN writes : ~(i <= 0)
    BY RequestShape
  <2>4. Done(written)'
    BY <1>2, <1>3, <2>3 DEF Done
  <2> QED
    BY <1>2, <1>3, <2>1, <2>2, <2>4 DEF AnsInv, Booting, Reloading
<1>4. CASE at' = "answer" /\ request' = <<>> /\ reply' = [from |-> dest, ok |-> FALSE]
  BY <1>1, <1>2, <1>4 DEF AnsInv, Booting, Reloading
<1> QED
  BY <1>1, <1>3, <1>4

\* The steps that change neither the request nor what its registers hold.
LEMMA AnsKept ==
    ASSUME RegInv, AnsInv, UNCHANGED <<request, written, to, reply>>,
           \A i \in DOMAIN request : request[i].reg \in DOMAIN Cleared =>
               regs'[request[i].reg] = regs[request[i].reg],
           (Booting \/ at \in {"run", "frame"} \/ (request' = <<>> /\ written' = 0))
               \/ ~(Booting' \/ at' \in {"run", "frame"}),
           at' = "write" \/ Reloading' =>
               at = "write" \/ Reloading \/ request = <<>>,
           at' = "answer" => at = "answer"
    PROVE  AnsInv'
<1>1. Done(written) => Done(written)'
  BY DEF Done
<1>2. Done(Len(request)) => Done(Len(request))'
  BY DEF Done
<1>3. request = <<>> => Done(written)
  BY DEF Done
<1> QED
  BY <1>1, <1>2, <1>3 DEF AnsInv

\* Every step.
LEMMA AnsStep == RegInv /\ AnsInv /\ [Next]_vars => AnsInv'
<1> SUFFICES ASSUME RegInv, AnsInv, [Next]_vars PROVE AnsInv'
  OBVIOUS
<1>1. CASE Boot
  <2>1. Booting /\ UNCHANGED <<request, written, to, reply>>
    BY <1>1 DEF Boot, InitStorage, InitAddr, InitUart, InitSn, InitItem, MbInit, Booting, reqVars
  <2>2. request' = <<>> /\ written' = 0
    BY <2>1 DEF AnsInv
  <2>3. Booting' \/ at' = "run"
    BY <1>1 DEF Boot, InitStorage, InitAddr, InitUart, InitSn, InitItem, MbInit, Booting
  <2> QED
    BY <2>2, <2>3 DEF AnsInv, Done, Booting, Reloading
<1>2. CASE Run \/ NoFrame \/ Read
  <2>1. request = <<>> /\ written = 0
    BY <1>2 DEF Run, NoFrame, Read, AnsInv
  <2>2. request' = <<>> /\ written' = 0 /\ at' \in {"run", "frame", "write"}
    BY <1>2, <2>1 DEF Run, NoFrame, Read, reqVars
  <2>3. AnsInv'
    BY <2>2 DEF AnsInv, Done, Reloading, Booting
  <2> QED
    BY <2>3
<1>3. CASE Check
  BY <1>3, AnsCheck
<1>4. CASE WritePlain \/ WriteSafe \/ WriteOpt
  BY <1>4, AnsWrite
<1>5. CASE ReloadAddr \/ ReloadUart \/ ReloadSn \/ ReloadModbus
  <2>1. /\ Reloading /\ (Reloading' \/ at' = "write")
        /\ UNCHANGED <<request, written, to, reply>>
        /\ UNCHANGED regs \/ \E v : regs' = [regs EXCEPT !.UID = v]
    BY <1>5 DEF ReloadAddr, ReloadUart, ReloadSn, ReloadModbus, Reloading, reqVars
  <2>2. /\ regs \in [DOMAIN Cleared -> Nat]
        /\ \A i \in DOMAIN request : request[i].reg # "UID"
    BY DEF RegInv, CfgInv, CfgTypes, ReqInv
  <2>3. \A i \in DOMAIN request : request[i].reg \in DOMAIN Cleared =>
            regs'[request[i].reg] = regs[request[i].reg]
    BY <2>1, <2>2
  <2> QED
    BY <2>1, <2>3, AnsKept DEF Booting, Reloading
<1>6. CASE Pack
  <2>1. /\ at = "write" /\ written = Len(request) /\ at' = "answer"
        /\ reply' = [from |-> to, ok |-> TRUE]
        /\ UNCHANGED <<regs, request, written, to>>
    BY <1>6 DEF Pack, Sender
  <2>2. Done(Len(request))
    BY <2>1 DEF AnsInv
  <2>3. Done(Len(request))'
    BY <2>1, <2>2 DEF Done
  <2> QED
    BY <2>1, <2>3 DEF AnsInv, Booting, Reloading
<1>7. CASE Answer \/ Reset
  BY <1>7 DEF Answer, Reset, AnsInv, Booting, Reloading
<1>8. CASE Elapse \/ UNCHANGED vars
  <2>1. UNCHANGED <<regs, at, request, written, to, reply>>
    BY <1>8 DEF Elapse, vars, reqVars
  <2> QED
    BY <2>1 DEF AnsInv, Done, Booting, Reloading
<1> QED
  BY <1>1, <1>2, <1>3, <1>4, <1>5, <1>6, <1>7, <1>8 DEF Next, Main, Serve

\* Every answer has the address of its request, and one that is not an exception is true.
THEOREM AnswersTrue == Spec => []Answered
<1>1. RegInv /\ AnsInv => Answered
  <2> SUFFICES ASSUME RegInv, AnsInv, at = "answer" PROVE Answered
    BY DEF Answered
  <2>1. \A i \in DOMAIN request : i <= Len(request)
    BY DEF RegInv, ReqInv
  <2> QED
    BY <2>1 DEF AnsInv, Done, Answered
<1> QED
  BY <1>1, RegInitInv, RegStep, AnsInit, AnsStep, PTL DEF Spec
-----------------------------------------------------------------------------
\* What an item may have in the storage, and what in the cache before it is initialised.
Legal  == [addr |-> 1 .. MaxAddr, uart |-> Rates, sn |-> Serials \cup {NoSn}]
Cached == [addr |-> 0 .. MaxAddr, uart |-> Rates \cup {NoRate}, sn |-> Serials \cup {NoSn}]

TypeInv ==
    /\ \A i \in Items : flash[i] \in Legal[i] \cup {NoVal} /\ cache[i] \in Cached[i]
    /\ regs.MB_ADDR \in 0 .. MaxAddr
    /\ address \in (0 .. MaxAddr) \cup JunkAddr /\ baudrate \in Rates \cup {NoRate}
    /\ faults \in 0 .. MaxFaults

\* Defaults and what the locals hold by chance are among them.
LEMMA LegalValues ==
    /\ \A i \in Items : Legal[i] \subseteq Cached[i] /\ Default[i] \in Legal[i]
                        /\ Zero[i] \in Cached[i]
    /\ 0 \in 0 .. MaxAddr /\ 1 \in 0 .. MaxAddr /\ 0 \in 0 .. MaxFaults
    /\ JunkRate \subseteq Rates \cup {NoRate} /\ 1 .. MaxAddr \subseteq 0 .. MaxAddr
  BY RegistersAssumption DEF Items, Legal, Cached, Default, Zero, RegistersAssumption, NoRate

\* A fault is counted.
LEMMA FaultTypes == TypeInv /\ Fault => faults' \in 0 .. MaxFaults
<1>1. \A n \in 0 .. MaxFaults : n < MaxFaults => n + 1 \in 0 .. MaxFaults
  BY RegistersAssumption DEF RegistersAssumption
<1> QED
  BY <1>1 DEF TypeInv, Fault

\* A legal value is stored, or cached, or nothing changes.
LEMMA StoreTypes ==
    ASSUME TypeInv, CfgTypes, NEW item \in Items, NEW val \in Legal[item], Store(item, val)
    PROVE  /\ \A i \in Items : flash'[i] \in Legal[i] \cup {NoVal}
           /\ faults' \in 0 .. MaxFaults
<1>1. /\ flash' = [flash EXCEPT ![item] = val] \/ flash' = flash
      /\ faults' = faults \/ Fault
  BY DEF Store
<1>2. faults' \in 0 .. MaxFaults
  BY <1>1, FaultTypes DEF TypeInv
<1> QED
  BY <1>1, <1>2 DEF TypeInv, CfgTypes

\* The same for an update of the configuration.
LEMMA UpdateTypes ==
    ASSUME TypeInv, CfgTypes, NEW item \in Items, NEW val \in Legal[item],
           Update(item, val) \/ UNCHANGED <<flash, cache, last, faults>>
    PROVE  /\ \A i \in Items : flash'[i] \in Legal[i] \cup {NoVal} /\ cache'[i] \in Cached[i]
           /\ faults' \in 0 .. MaxFaults
<1>1. CASE Store(item, val) /\ cache' = CacheAfter(item, val, last'[item] = "ok")
  <2>1. cache' = [cache EXCEPT ![item] = val] \/ cache' = cache
    BY <1>1 DEF CacheAfter
  <2>2. \A i \in Items : cache'[i] \in Cached[i]
    BY <2>1, LegalValues DEF TypeInv, CfgTypes
  <2> QED
    BY <1>1, <2>2, StoreTypes
<1>2. CASE UNCHANGED <<flash, cache, last, faults>>
  BY <1>2 DEF TypeInv
<1> QED
  BY <1>1, <1>2 DEF Update

\* At the start.
LEMMA TypeInit == Init => TypeInv
  BY LegalValues DEF Init, TypeInv, Cleared, NoRate

\* The steps of cfg_init.
LEMMA TypeBoot == RegInv /\ TypeInv /\ (InitStorage \/ InitAddr \/ InitUart \/ InitSn) => TypeInv'
<1> SUFFICES ASSUME RegInv, TypeInv, InitStorage \/ InitAddr \/ InitUart \/ InitSn PROVE TypeInv'
  OBVIOUS
<1>1. UNCHANGED <<regs, address, baudrate>>
  BY DEF InitStorage, InitAddr, InitUart, InitSn, InitItem, slaveVars
<1>2. CASE InitStorage
  <2>1. faults' \in 0 .. MaxFaults
    BY <1>2, FaultTypes DEF InitStorage, TypeInv
  <2>2. \A i \in Items : cache'[i] \in Cached[i]
    BY <1>2, LegalValues DEF InitStorage, TypeInv
  <2>3. UNCHANGED flash
    BY <1>2 DEF InitStorage
  <2> QED
    BY <1>1, <2>1, <2>2, <2>3 DEF TypeInv
<1>3. ASSUME NEW item \in Items, NEW here, NEW next, InitItem(item, here, next),
             cache[item] = Default[item]
      PROVE  TypeInv'
  <2>1. CASE /\ flash[item] # NoVal
             /\ cache' = [cache EXCEPT ![item] = flash[item]]
             /\ UNCHANGED <<flash, last, faults>>
    BY <1>1, <2>1, LegalValues DEF TypeInv, RegInv, CfgInv, CfgTypes
  <2>2. CASE Store(item, cache[item]) /\ UNCHANGED cache
    <3>1. cache[item] \in Legal[item]
      BY <1>3, LegalValues
    <3> QED
      BY <1>1, <2>2, <3>1, StoreTypes DEF TypeInv, RegInv, CfgInv
  <2>3. CASE Fault /\ UNCHANGED <<flash, cache>>
    BY <1>1, <2>3, FaultTypes DEF TypeInv
  <2> QED
    BY <1>3, <2>1, <2>2, <2>3 DEF InitItem
<1>4. "addr" \in Items /\ "uart" \in Items /\ "sn" \in Items
  BY DEF Items
<1>5. CASE InitAddr
  BY <1>3, <1>4, <1>5 DEF InitAddr, InitItem, RegInv, CfgInv, Loaded
<1>6. CASE InitUart
  BY <1>3, <1>4, <1>6 DEF InitUart, InitItem, RegInv, CfgInv, Loaded
<1>7. CASE InitSn
  BY <1>3, <1>4, <1>7 DEF InitSn, InitItem, RegInv, CfgInv, Loaded
<1> QED
  BY <1>2, <1>5, <1>6, <1>7

\* The steps of a reload.
LEMMA TypeReload == RegInv /\ TypeInv /\ (ReloadAddr \/ ReloadUart \/ ReloadSn \/ ReloadModbus)
                        => TypeInv'
<1> SUFFICES ASSUME RegInv, TypeInv, ReloadAddr \/ ReloadUart \/ ReloadSn \/ ReloadModbus
             PROVE  TypeInv'
  OBVIOUS
<1>1. CASE ReloadModbus
  <2>1. UNCHANGED <<flash, cache, faults, regs>>
    BY <1>1 DEF ReloadModbus, cfgVars
  <2>2. /\ address' = cache["addr"] \/ address' \in JunkAddr
        /\ baudrate' = cache["uart"] \/ baudrate' \in JunkRate
    BY <1>1 DEF ReloadModbus, RateAfter
  <2>3. cache["addr"] \in 0 .. MaxAddr /\ cache["uart"] \in Rates \cup {NoRate}
    BY DEF TypeInv, Items, Cached
  <2> QED
    BY <2>1, <2>2, <2>3, LegalValues DEF TypeInv
<1>2. CASE ReloadAddr \/ ReloadUart \/ ReloadSn
  <2>1. UNCHANGED <<address, baudrate>> /\ regs'.MB_ADDR = regs.MB_ADDR
    BY <1>2 DEF ReloadAddr, ReloadUart, ReloadSn, slaveVars, RegInv, CfgInv, CfgTypes, Cleared
  <2>2. PICK item \in Items : \E val \in Legal[item] :
          Update(item, val) \/ UNCHANGED <<flash, cache, last, faults>>
    <3>1. \A i \in Items : Default[i] \in Legal[i]
      BY LegalValues
    <3>2. /\ Legal["addr"] = 1 .. MaxAddr /\ Legal["uart"] = Rates
          /\ Serials \subseteq Legal["sn"] /\ Items = {"addr", "uart", "sn"}
      BY DEF Legal, Items
    <3> QED
      BY <1>2, <3>1, <3>2 DEF ReloadAddr, ReloadUart, ReloadSn
  <2>3. /\ \A i \in Items : flash'[i] \in Legal[i] \cup {NoVal} /\ cache'[i] \in Cached[i]
        /\ faults' \in 0 .. MaxFaults
    BY <2>2, UpdateTypes DEF RegInv, CfgInv
  <2> QED
    BY <2>1, <2>3 DEF TypeInv
<1> QED
  BY <1>1, <1>2
\* Every step.
LEMMA TypeStep == RegInv /\ TypeInv /\ [Next]_vars => TypeInv'
<1> SUFFICES ASSUME RegInv, TypeInv, [Next]_vars PROVE TypeInv'
  OBVIOUS
<1>1. CASE InitStorage \/ InitAddr \/ InitUart \/ InitSn
  BY <1>1, TypeBoot
<1>2. CASE MbInit
  <2>1. /\ UNCHANGED <<flash, cache, faults>>
        /\ address' = cache["addr"] \/ address' = 1
        /\ baudrate' = cache["uart"] \/ baudrate' = NoRate
        /\ regs'.MB_ADDR = cache["addr"] \/ regs'.MB_ADDR = 0
    BY <1>2 DEF MbInit, cfgVars, Cleared
  <2>2. cache["addr"] \in 0 .. MaxAddr /\ cache["uart"] \in Rates \cup {NoRate}
    BY DEF TypeInv, Items, Cached
  <2> QED
    BY <2>1, <2>2, LegalValues DEF TypeInv
<1>3. CASE ReloadAddr \/ ReloadUart \/ ReloadSn \/ ReloadModbus
  BY <1>3, TypeReload
<1>4. CASE Reset
  <2>1. /\ UNCHANGED <<flash, faults>> /\ cache' = Zero /\ regs'.MB_ADDR = 0 /\ address' = 0
        /\ baudrate' = NoRate
    BY <1>4 DEF Reset, Cleared
  <2> QED
    BY <2>1, LegalValues DEF TypeInv
<1>5. CASE WritePlain
  <2>1. UNCHANGED <<flash, cache, faults, address, baudrate>>
    BY <1>5 DEF WritePlain, Write, cfgVars, slaveVars
  <2>2. regs'.MB_ADDR = regs.MB_ADDR \/ regs'.MB_ADDR \in 1 .. MaxAddr
    BY <1>5 DEF WritePlain, Allowed, RegInv, CfgInv, CfgTypes, Cleared
  <2> QED
    BY <2>1, <2>2, LegalValues DEF TypeInv
<1>6. CASE Run \/ WriteSafe
  <2>1. UNCHANGED <<flash, cache, faults, address, baudrate>>
    BY <1>6 DEF Run, WriteSafe, Write, cfgVars, slaveVars
  <2>2. regs'.MB_ADDR = regs.MB_ADDR
    BY <1>6 DEF Run, WriteSafe, RegInv, CfgInv, CfgTypes, Cleared
  <2> QED
    BY <2>1, <2>2 DEF TypeInv
<1>7. CASE NoFrame \/ Check \/ Read \/ WriteOpt \/ Pack \/ Answer \/ Elapse \/ UNCHANGED vars
  <2>1. UNCHANGED <<flash, cache, faults, address, baudrate, regs>>
    BY <1>7 DEF NoFrame, Check, Read, WriteOpt, Write, Pack, Answer, Elapse, vars, cfgVars,
                slaveVars
  <2> QED
    BY <2>1 DEF TypeInv
<1> QED
  BY <1>1, <1>2, <1>3, <1>4, <1>5, <1>6, <1>7 DEF Next, Main, Boot, Serve

\* An address or a baud rate that would be refused is neither stored nor configured.
THEOREM RegisterTypes == Spec => []RegTypeOK
<1>1. RegInv /\ TypeInv => RegTypeOK
  <2> SUFFICES ASSUME RegInv, TypeInv PROVE RegTypeOK
    OBVIOUS
  <2>1. /\ Legal["addr"] = 1 .. MaxAddr /\ Legal["uart"] = Rates
        /\ Legal["sn"] = Serials \cup {NoSn}
        /\ Cached["addr"] = 0 .. MaxAddr /\ Cached["uart"] = Rates \cup {NoRate}
        /\ Cached["sn"] = Serials \cup {NoSn}
        /\ "addr" \in Items /\ "uart" \in Items /\ "sn" \in Items
    BY DEF Legal, Cached, Items
  <2>2. /\ flash["addr"] \in (1 .. MaxAddr) \cup {NoVal}
        /\ flash["uart"] \in Rates \cup {NoVal}
        /\ flash["sn"] \in Serials \cup {NoSn, NoVal}
        /\ cache["addr"] \in 0 .. MaxAddr /\ cache["uart"] \in Rates \cup {NoRate}
        /\ cache["sn"] \in Serials \cup {NoSn}
    BY <2>1 DEF TypeInv
  <2>3. /\ DOMAIN flash = Items /\ cfg_flag_init \in BOOLEAN
        /\ last \in [Items -> {"ok", "failed", "torn"}]
        /\ regs \in [DOMAIN Cleared -> Nat] /\ age \in 0 .. Window
    BY DEF RegInv, CfgInv, CfgTypes
  <2>4. /\ regs.MB_ADDR \in 0 .. MaxAddr /\ address \in (0 .. MaxAddr) \cup JunkAddr
        /\ baudrate \in Rates \cup {NoRate} /\ faults \in 0 .. MaxFaults
    BY DEF TypeInv
  <2> QED
    BY <2>2, <2>3, <2>4, Zenon DEF RegTypeOK
<1> QED
  BY <1>1, RegInitInv, RegStep, TypeInit, TypeStep, PTL DEF Spec
=============================================================================
