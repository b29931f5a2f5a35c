------------------------------ MODULE CutErase ------------------------------
(***************************************************************************)
(* storage.c where a power loss can cut the erase of a page short.         *)
(*                                                                         *)
(* The data flash erases in blocks of EEPROM_PAGE_SIZE, and a page of the  *)
(* storage is ST_PAGE_SIZE = 4 * EEPROM_PAGE_SIZE: EEPROM_ERASE erases its *)
(* blocks one after the other, the one with the status byte first.  A      *)
(* power loss between two blocks leaves a page that is erased by its       *)
(* status and still holds what was programmed from some block on, the      *)
(* remains.  st_init leaves them there (InitErasedPage): an item can later *)
(* be programmed over them, or st_page_scan take them for items.           *)
(*                                                                         *)
(* A behaviour is followed until one of these two happens.  What the store *)
(* does afterwards depends on the bytes, and nothing is said of it.        *)
(*                                                                         *)
(* Assumed: blocks are erased in ascending order, each is erased or not.   *)
(***************************************************************************)
EXTENDS Storage

CONSTANT BlockStarts    \* where, in a page, the second and later erase blocks begin

ASSUME BlocksAssumption == BlockStarts \subseteq Offsets

VARIABLE junk           \* per page, the units of it that are remains

cutVars == <<vars, junk>>

CutInit == Init /\ junk = [p \in Pages |-> {}]

-----------------------------------------------------------------------------
\* The next step of the code erases page p.  (The erase of the whole flash at a format
\* is left out: cut short it leaves no header, and st_init begins it again.)
Erasing(p) ==
    \/ pc = "del_erase" /\ p = tgt.page /\ Emptied(p)
    \/ pc = "realign" /\ p = cur.page /\ RealignOffs = {}
    \/ pc = "scan" /\ p = cur.page /\ flash[p].status = "FULL"
                   /\ ~ScanFails(p) /\ ItemCount(flash[p]) = 0
    \/ pc = "erase_all" /\ p = cur.page /\ pages[p].status # "ERASED"

\* Power is lost when the blocks before b are erased.  An earlier cut may have left
\* remains behind the last item.
EraseCut ==
    /\ AllowPowerLoss
    /\ \E p \in Pages, b \in BlockStarts :
          /\ Erasing(p)
          /\ flash' = [flash EXCEPT ![p] = BlankPage]
          /\ junk' = [junk EXCEPT ![p] =
                 {u \in Offsets : b <= u /\ (u < flash[p].used \/ u \in @)}]
    /\ Restart

\* An erase that is carried out leaves no remains.
Remaining == [p \in Pages |-> IF Erasing(p) /\ pc' # "boot" THEN {} ELSE junk[p]]

StorageStep == Next /\ junk' = Remaining

\* An item has been programmed over remains; the scan is to read remains for the header
\* of an item, since no erased cell ends the items before them.
Overwritten == \E p \in Pages : \E u \in junk[p] : u < flash[p].used
Misread     == /\ pc = "scan" /\ flash[cur.page].status # "ERASED" /\ ~ScanFails(cur.page)
               /\ flash[cur.page].used \in junk[cur.page]
Undefined   == Overwritten \/ Misread

CutNext     == ~Undefined /\ (StorageStep \/ EraseCut)
CutSpec     == CutInit /\ [][CutNext]_cutVars
\* Sequential code goes on.
CutFairSpec == CutSpec /\ WF_cutVars(~Undefined /\ Step /\ junk' = Remaining)

-----------------------------------------------------------------------------
(***************************************************************************)
(* Properties                                                              *)
(***************************************************************************)
\* The flash is only used as flash can be.  Outside the erase of a page an item is
\* programmed right behind the last one, or has its index cleared, a status byte only
\* loses bits, and no programmed byte becomes free.  A place behind the last item is
\* one of erased cells unless the last erase of its page was cut short: the one
\* exception, which ErasedIsBlank is about.
Programs(old, new) ==
    /\ \/ new.status = old.status
       \/ old.status = "ERASED"
       \/ new.status = "FULL"
    /\ new.used # old.used =>
          old.used \in Offsets /\ new.used = old.used + Size(new.cell[old.used])
    /\ \A o \in Offsets :
          \/ new.cell[o] = old.cell[o]
          \/ old.cell[o] # Blank /\ new.cell[o] = Erased(old.cell[o])
          \/ /\ old.cell[o] = Blank /\ o = old.used
             /\ new.used = o + Size(new.cell[o]) /\ new.used <= PageContent
FlashDiscipline ==
    [][\A p \in Pages : flash'[p] = BlankPage \/ Programs(flash[p], flash'[p])]_flash

\* Every call returns and every st_init ends: no loop over pages, items or copies
\* runs for ever.
Terminates == []<>(pc = "idle" \/ Undefined)

\* storage.h: "The page is empty(all bytes are 0xff), Page is not used to store any
\* data at this point."
ErasedIsBlank ==
    Loaded => \A p \in Pages : pages[p].status = "ERASED" => junk[p] = {}
=============================================================================
