------------------------- MODULE StorageMapProofs -------------------------
(***************************************************************************)
(* Proofs about storage.c, part three: the store is the map KVStore        *)
(* promises.  The argument follows a call from its search to its return:   *)
(* what the search has seen, what the replacement has written and deleted, *)
(* and how many copies every key has in the meantime.                      *)
(***************************************************************************)
EXTENDS StorageItemsProofs

USE SizesAssumption, NamesAssumption DEF Pages, NoPage, Offsets, flashVars, ctxVars, callVars

-----------------------------------------------------------------------------
(***************************************************************************)
(* When it is one.                                                         *)
(***************************************************************************)
\* A call or a realign gives up for want of a page, or st_init erases everything.
CutShort == \/ pc' = "erase_all"
            \/ rc' = "error"
            \/ pc # "alloc" /\ pc' = "copied" /\ RealignOffs # {}

\* A realign moves the item the call has found and is about to replace: the place
\* st_write_item keeps of it is no longer where it is.
Overtaken == Moving /\ MovedItem.key = op.key /\ pc' # pc

Undisturbed == ~CutShort /\ ~Overtaken

NoFaults == ~AllowPowerLoss /\ ZeroCrc = {}

-----------------------------------------------------------------------------
(***************************************************************************)
(* The invariant.                                                          *)
(***************************************************************************)
At(c)     == flash[c[1]].cell[c[2]]
Places    == Pages \X Offsets
LastPlace == <<srch.last.page, srch.last.off>>
OldPlaces == IF srch.cnt = 1 THEN {LastPlace} ELSE {}
Here      == <<cur.page, cur.off>>

\* The pages the search has been through, and the items of the page it is in.
Back(p) == Distance(p, srch.start)
Seen(c) == \/ Back(c[1]) < Back(cur.page)
           \/ c[1] = cur.page /\ (pc = "next" \/ c[2] < cur.off)

\* A write finds the old copy, is replacing it, has both copies, has the new one.
Searching == pc \in {"find", "accept", "next"}
Replacing == \/ pc \in {"alloc", "realign", "open", "copied", "full", "activate", "put"}
             \/ pc = "put_full" /\ ret = "realign"
Both      == (pc = "put_full" /\ ret = "write") \/ pc = "del"
Replaced  == pc = "del_erase" \/ (pc = "return" /\ op.kind = "write")

\* What the place of the main loop says of the call.  The search never deletes a copy.
PhaseInv ==
    /\ pc # "erase_all"
    /\ Initing => op = NoOp /\ ret = "none"
    /\ ~Initing => op.kind \in {"read", "write"} /\ op.key \in Keys
    /\ Searching => ret = "none"
    /\ Deleting => ret = "old" /\ srch.cnt = 1 /\ (pc = "del" => tgt = srch.last)
    /\ op.kind = "read" => (Searching \/ pc = "return") /\ ret = "none"
    /\ ret = "old" => Deleting \/ pc = "return"

\* Every page has been scanned.
ScannedInv == \A p \in Pages : Ready(p) => pages[p].status # "UNAVAILABLE"

\* What the search says of the copies it has seen.
SeekInv ==
    /\ srch.cnt <= 1
    /\ srch.loc = IF srch.cnt = 1 THEN srch.last ELSE NoLoc
    /\ Searching =>
          /\ srch.cnt + srch.hits <= 1
          /\ srch.cnt + srch.hits = 0 => \A c \in Copies(op.key) : ~Seen(c)
          /\ srch.cnt + srch.hits = 0 /\ pc # "accept" => srch.res = NoVal
          /\ srch.cnt + srch.hits = 1 =>
                /\ pc # "accept"
                /\ LastPlace \in Copies(op.key) /\ Seen(LastPlace)
                /\ srch.res = At(LastPlace).val
          /\ pc = "accept" => Here \in Copies(op.key) /\ srch.res = At(Here).val

\* The old copy stays until the new one is there; what a realign moves is not it.
ReplaceInv ==
    /\ Moved => At(Here).key # op.key
    /\ Replacing => Copies(op.key) = OldPlaces
    /\ Both => \E n \in Places \ OldPlaces :
                  Copies(op.key) = OldPlaces \cup {n} /\ At(n).val = op.val
    /\ Replaced => \E n \in Places : Copies(op.key) = {n} /\ At(n).val = op.val

\* Every key has one copy, but for the one being replaced, and for what a realign has
\* moved and not yet erased.
Split(c, d) ==
    /\ Realigning /\ c[1] = cur.page /\ d[1] # cur.page
    /\ c[2] < cur.off \/ (c[2] = cur.off /\ pc = "put_full")
    /\ At(c).val = At(d).val
UniqueInv ==
    \A k \in Keys : \/ Both /\ k = op.key
                    \/ \A c, d \in Copies(k) : c = d \/ Split(c, d) \/ Split(d, c)

MapInv == PhaseInv /\ ScannedInv /\ SeekInv /\ ReplaceInv /\ UniqueInv
Known  == IInv /\ CountInv /\ MoveInv /\ SoleInv /\ MapInv

-----------------------------------------------------------------------------
(***************************************************************************)
(* What the invariants say of the variables, and of places.                *)
(***************************************************************************)
LEMMA KnownTypes ==
    ASSUME Known
    PROVE  /\ StateTypeOK /\ CallTypeOK
           /\ cur.page \in Pages /\ cur.off \in Nat
           /\ srch.start \in Pages /\ srch.cnt \in Nat /\ srch.hits \in Nat
           /\ op.key \in Keys \cup {NoKey} /\ op.val \in Vals \cup {NoVal}
           /\ \A p \in Pages : flash[p] \in FlashPage /\ pages[p] \in RamPage
BY TypeSplit DEF Known, IInv, StateTypeOK, CallTypeOK

\* A place holds a copy of a key if the item there has it and verifies.
LEMMA CopyAt ==
    ASSUME NEW k
    PROVE  /\ \A c : c \in Copies(k) <=> c \in Places /\ At(c).key = k /\ At(c).val \in Vals
           /\ \A c : (c \in Copies(k))' <=>
                        c \in Places /\ At(c)'.key = k /\ At(c)'.val \in Vals
BY DEF Copies, Holds, At, Places

LEMMA PlacesHere ==
    ASSUME NEW c \in Places
    PROVE  c[1] \in Pages /\ c[2] \in Offsets /\ c = <<c[1], c[2]>>
BY DEF Places

\* With no write ever torn, an item that was not erased verifies.
LEMMA AllVerify ==
    ASSUME NoFaults, CountInv, NEW p \in Pages, NEW o \in Offsets,
           flash[p].cell[o].key # NoKey
    PROVE  flash[p].cell[o].val \in Vals /\ flash[p].cell[o].key \in Keys
BY DEF NoFaults, CountInv, PagesFine, PageFine, ItemsFine

\* The copies of a key stay where they are.
LiveKept == \A p \in Pages : \A o \in Offsets :
               flash[p].cell[o].val \in Vals \/ flash'[p].cell[o].val \in Vals
               => flash'[p].cell[o] = flash[p].cell[o]

LEMMA CopiesKept ==
    ASSUME LiveKept, NEW k
    PROVE  Copies(k)' = Copies(k) /\ \A c \in Copies(k) : At(c)' = At(c)
<1>1. \A c \in Places : At(c).val \in Vals \/ At(c)'.val \in Vals => At(c)' = At(c)
  BY DEF LiveKept, Places, At
<1>2. \A c : c \in Copies(k)' <=> c \in Copies(k)
  BY <1>1, CopyAt
<1>3. Copies(k)' = Copies(k)
  BY <1>2 DEF Copies
<1> QED BY <1>1, <1>3, CopyAt

-----------------------------------------------------------------------------
(***************************************************************************)
(* What a step does to the copies of the keys.                             *)
(***************************************************************************)
\* Where an item was or is, and it is not the same, it was not one that verifies.
LEMMA BootLive ==
    ASSUME NoFaults, IInv, CountInv, LoadHeader \/ InitUsedPage
    PROVE  LiveKept
<1>0. StateTypeOK /\ CallTypeOK /\ BlankAtFirst
  BY TypeSplit DEF IInv, CountInv
<1>1. CASE LoadHeader
  <2>1. CASE header
    BY <1>1, <2>1 DEF LoadHeader, LiveKept
  <2>2. CASE ~header
    <3>1. \A p \in Pages : flash[p] = BlankPage /\ flash'[p] = BlankPage
      BY <1>0, <1>1, <2>2 DEF LoadHeader, BlankAtFirst
    <3> QED BY <3>1 DEF LiveKept
  <2> QED BY <2>1, <2>2
<1>2. CASE InitUsedPage
  <2>1. PICK p : p = cur.page
    OBVIOUS
  <2>2. p \in Pages /\ flash \in [Pages -> FlashPage]
    BY <1>0, <2>1 DEF CallTypeOK, StateTypeOK
  <2>3. \/ flash' = [flash EXCEPT ![p] = BlankPage] /\ ItemCount(flash[p]) = 0
        \/ flash' = [flash EXCEPT ![p] = Scanned(@)]
    BY <1>2, <2>1 DEF InitUsedPage
  <2>4. \A q \in Pages \ {p} : flash'[q] = flash[q]
    BY <2>2, <2>3
  <2>5. ASSUME NEW o \in Offsets,
               flash[p].cell[o].val \in Vals \/ flash'[p].cell[o].val \in Vals
        PROVE  flash'[p].cell[o] = flash[p].cell[o]
    <3>1. CASE flash'[p] = BlankPage /\ ItemCount(flash[p]) = 0
      <4>1. LiveOffs(flash[p]) = {}
        BY <3>1, LiveNone DEF ItemCount
      <4>2. flash[p].cell[o].val \in Vals
        BY <2>5, <3>1 DEF BlankPage, Blank
      <4>3. Live(flash[p].cell[o])
        BY <2>2, <4>2 DEF Live, CountInv, PagesFine, PageFine, ItemsFine
      <4> QED BY <4>1, <4>3 DEF LiveOffs
    <3>2. CASE flash'[p] = Scanned(flash[p])
      <4>1. flash'[p].cell[o] =
               IF flash[p].cell[o].key \in Keys /\ flash[p].cell[o].val = NoVal
               THEN Erased(flash[p].cell[o]) ELSE flash[p].cell[o]
        BY <2>2, <3>2 DEF Scanned, FlashPage
      <4> QED BY <2>2, <2>5, <4>1 DEF Erased
    <3> QED BY <2>2, <2>3, <3>1, <3>2
  <2> QED BY <2>4, <2>5 DEF LiveKept
<1> QED BY <1>1, <1>2

LEMMA EraseLive ==
    ASSUME NoFaults, IInv, CountInv, DeleteErase
    PROVE  LiveKept
<1>0. StateTypeOK /\ ErasedCounted /\ Located
  BY TypeSplit DEF IInv, CountInv
<1>1. PICK t : t = tgt.page
  OBVIOUS
<1>2. t \in Pages /\ pc = "del_erase"
  BY <1>0, <1>1 DEF DeleteErase, Located
<1>3. CASE Emptied(t)
  <2>1. ErasePage(t)
    BY <1>1, <1>3 DEF DeleteErase
  <2>2. /\ \A q \in Pages \ {t} : flash'[q] = flash[q]
        /\ flash'[t] = flash[t] \/ flash'[t] = BlankPage
    BY <1>0, <1>2, <2>1, ErasePageCounts
  <2>3. pages[t].item_cnt = 0 /\ PageFine(t) /\ Ready(t) /\ ~Uncounted(t)
    BY <1>2, <1>3 DEF Emptied, CountInv, PagesFine, Ready, Loaded, Uncounted
  <2>4. Cardinality(LiveOffs(flash[t])) = 0
    BY <2>3, LiveFinite DEF PageFine, CountFine, NoFaults
  <2>5. ASSUME NEW o \in Offsets PROVE flash[t].cell[o].val \notin Vals
    <3>1. ~Live(flash[t].cell[o])
      BY <2>4, LiveNone DEF LiveOffs
    <3> QED BY <2>3, <3>1 DEF Live, PageFine, ItemsFine
  <2> QED BY <2>2, <2>5 DEF LiveKept, BlankPage, Blank
<1>4. CASE ~Emptied(t)
  BY <1>1, <1>4 DEF DeleteErase, LiveKept
<1> QED BY <1>3, <1>4

LEMMA StepKinds ==
    ASSUME NoFaults, IInv, CountInv, [Next]_vars, pc # "erase_all"
    PROVE  LiveKept \/ DeleteMark \/ RealignErase \/ Put
<1>1. CASE CellsKept
  BY <1>1 DEF CellsKept, LiveKept
<1>2. CASE LoadHeader \/ InitUsedPage
  BY <1>2, BootLive
<1>3. CASE DeleteErase
  BY <1>3, EraseLive
<1>4. ~EraseAll /\ ~TornWrite
  BY DEF EraseAll, TornWrite, NoFaults
<1>5. ~RealignDrop
  <2>1. SUFFICES ASSUME RealignDrop PROVE FALSE
    OBVIOUS
  <2>2. PICK o : o = FirstOff(RealignOffs)
    OBVIOUS
  <2>3. o \in RealignOffs /\ flash[cur.page].cell[o].val = NoVal
    BY <2>1, <2>2, RealignOffIn DEF RealignDrop, MovedItem
  <2>4. cur.page \in Pages /\ o \in Offsets /\ flash[cur.page].cell[o].key # NoKey
    BY <2>3, TypeSplit DEF RealignOffs, Passed, IInv, CallTypeOK
  <2> QED BY <2>3, <2>4, AllVerify
<1> QED BY <1>1, <1>2, <1>3, <1>4, <1>5, OthersKeepCells DEF Alters

\* What DeleteMark, RealignErase and Put do to the copies.
LEMMA MarkCopies ==
    ASSUME Known, DeleteMark, NEW k,
           NEW t, t = <<tgt.page, tgt.off>>
    PROVE  /\ t \in Places /\ At(t).key = op.key
           /\ Copies(k)' = Copies(k) \ {t}
           /\ \A c \in Copies(k) \ {t} : At(c)' = At(c)
<1>0. /\ StateTypeOK /\ tgt.page \in Pages /\ tgt.off \in Offsets
      /\ flash \in [Pages -> FlashPage]
  BY KnownTypes DEF Known, CountInv, Located, DeleteMark, StateTypeOK
<1>1. PICK p \in Pages, off \in Offsets : p = tgt.page /\ off = tgt.off
  BY <1>0
<1>2. /\ flash[p].cell[off].key = op.key
      /\ flash' = [flash EXCEPT ![p].cell[off] = Erased(@)]
  BY <1>1 DEF DeleteMark
<1>3. /\ flash'[p].cell[off].val = NoVal
      /\ \A q \in Pages, o \in Offsets : <<q, o>> # t => flash'[q].cell[o] = flash[q].cell[o]
  BY <1>0, <1>1, <1>2 DEF FlashPage, Erased
<1>4. /\ t \in Places /\ At(t).key = op.key /\ At(t)'.val = NoVal
      /\ \A c \in Places : c # t => At(c)' = At(c)
  BY <1>1, <1>2, <1>3 DEF At, Places
<1>5. \A c : c \in Copies(k)' <=> c \in Copies(k) /\ c # t
  BY <1>4, CopyAt
<1>6. Copies(k)' = Copies(k) \ {t}
  BY <1>5 DEF Copies
<1> QED BY <1>4, <1>6, CopyAt

LEMMA PutCopies ==
    ASSUME Known, Put, NEW k
    PROVE  \E n \in Places :
              /\ n[1] = dst /\ At(n) = Blank /\ At(n)' = PutItem
              /\ n \notin Copies(k)
              /\ Copies(k)' = Copies(k) \cup (IF PutItem.key = k THEN {n} ELSE {})
              /\ \A c \in Copies(k) : At(c)' = At(c)
<1>1. PICK d : d = dst
  OBVIOUS
<1>2. /\ d \in Pages /\ flash[d].used \in Offsets
      /\ flash[d].cell[flash[d].used] = Blank
      /\ flash'[d].cell[flash[d].used] = PutItem
      /\ \A o \in Offsets \ {flash[d].used} : flash'[d].cell[o] = flash[d].cell[o]
      /\ \A q \in Pages \ {d} : flash'[q] = flash[q]
  BY <1>1, PutDoes DEF Known
<1>3. Live(PutItem)
  BY PutItemLive DEF Put, Known
<1>4. PICK n : n = <<d, flash[d].used>>
  OBVIOUS
<1>5. /\ n \in Places /\ n[1] = dst /\ At(n) = Blank /\ At(n)' = PutItem
      /\ \A c \in Places : c # n => At(c)' = At(c)
  BY <1>1, <1>2, <1>4 DEF At, Places
<1>6. n \notin Copies(k)
  BY <1>5, CopyAt DEF Blank
<1>7. \A c : c \in Copies(k)' <=> c \in Copies(k) \/ (PutItem.key = k /\ c = n)
  BY <1>3, <1>5, <1>6, CopyAt DEF Live
<1>8. Copies(k)' = Copies(k) \cup (IF PutItem.key = k THEN {n} ELSE {})
  BY <1>7 DEF Copies
<1> QED BY <1>5, <1>6, <1>8, CopyAt

LEMMA RealignEraseCopies ==
    ASSUME NoFaults, Known, RealignErase, NEW k, NEW p, p = cur.page
    PROVE  /\ p \in Pages
           /\ Copies(k)' = {c \in Copies(k) : c[1] # p}
           /\ \A c \in Copies(k)' : At(c)' = At(c)
           /\ \A c \in Copies(k) : c[1] = p => c[2] < cur.off
<1>0. /\ StateTypeOK /\ CallTypeOK /\ p \in Pages /\ ErasedCounted /\ Destination
      /\ flash \in [Pages -> FlashPage] /\ cur.off \in Nat
  BY KnownTypes DEF Known, CountInv, StateTypeOK
<1>1. pc = "realign" /\ RealignOffs = {} /\ ErasePage(p)
  BY DEF RealignErase
<1>2. pages[p].status = "FULL" /\ Mirrors(p)
  BY <1>0, <1>1 DEF Destination, Known, IInv, Mirrored, Loaded
<1>3. /\ \A q \in Pages \ {p} : flash'[q] = flash[q]
      /\ flash'[p] = BlankPage
  BY <1>0, <1>1, <1>2, ErasePageCounts
<1>4. /\ \A c \in Places : c[1] # p => At(c)' = At(c)
      /\ \A c \in Places : c[1] = p => At(c)'.val \notin Vals
  BY <1>3 DEF At, Places, BlankPage, Blank
<1>5. \A c : c \in Copies(k)' <=> c \in Copies(k) /\ c[1] # p
  BY <1>4, CopyAt
<1>6. Copies(k)' = {c \in Copies(k) : c[1] # p}
  BY <1>5 DEF Copies
<1>7. ASSUME NEW c \in Copies(k), c[1] = p, ~(c[2] < cur.off) PROVE FALSE
  <2>1. PICK o \in Offsets : c = <<p, o>>
    BY <1>7, CopyAt DEF Places
  <2>2. flash[p].cell[o].val \in Vals /\ cur.off <= o
    BY <1>0, <1>7, <2>1, CopyAt DEF At
  <2>3. flash[p].cell[o].key # NoKey
    BY <1>0, <2>2 DEF Known, CountInv, PagesFine, PageFine, ItemsFine
  <2>4. o < pages[p].bytes_used
    <3>1. ~(flash[p].used <= o)
      BY <1>0, <2>2 DEF Known, IInv, FlashShape, Blank
    <3>2. pages[p].bytes_used = flash[p].used /\ flash[p].used \in Nat
      BY <1>0, <1>2 DEF Mirrors, FlashPage
    <3> QED BY <3>1, <3>2
  <2>5. o \in RealignOffs
    BY <2>2, <2>3, <2>4 DEF RealignOffs, Passed, NoFaults
  <2> QED BY <1>1, <2>5
<1> QED BY <1>0, <1>4, <1>6, <1>7, CopyAt

-----------------------------------------------------------------------------
(***************************************************************************)
(* The search, backwards from where it starts.                             *)
(***************************************************************************)
LEMMA BackFacts ==
    ASSUME NEW s \in Pages, NEW p \in Pages
    PROVE  /\ Distance(p, s) \in 0 .. NPages - 1
           /\ \A q \in Pages : Distance(q, s) = Distance(p, s) => q = p
           /\ LastPage(p) # s => Distance(LastPage(p), s) = Distance(p, s) + 1
           /\ LastPage(p) = s => Distance(p, s) = NPages - 1
BY DEF Distance, LastPage

\* The next page is one further back, so that what has been seen stays seen and
\* nothing else is; after the last page everything has been seen.
LEMMA SeenNext ==
    ASSUME Known, FindNext, NEW c \in Places
    PROVE  Seen(c)' <=> Seen(c)
<1>1. PICK p \in Pages, s \in Pages : p = cur.page /\ s = srch.start
  BY KnownTypes
<1>2. /\ pc = "next" /\ pc' = "find" /\ LastPage(p) # s
      /\ cur'.page = LastPage(p) /\ cur'.off = 0 /\ srch'.start = s
  BY <1>1 DEF FindNext
<1>3. PICK q \in Pages : q = c[1]
  BY PlacesHere
<1>4. Seen(c) <=> Distance(q, s) < Distance(p, s) \/ q = p
  BY <1>1, <1>2, <1>3 DEF Seen, Back
<1>5. Seen(c)' <=> Distance(q, s) < Distance(LastPage(p), s)
  <2>1. ~(c[2] < 0)
    BY PlacesHere
  <2> QED BY <1>1, <1>2, <1>3, <2>1 DEF Seen, Back
<1>6. /\ Distance(LastPage(p), s) = Distance(p, s) + 1
      /\ Distance(p, s) \in Nat /\ Distance(q, s) \in Nat
      /\ Distance(q, s) = Distance(p, s) => q = p
  <2>1. Distance(LastPage(p), s) = Distance(p, s) + 1
    BY <1>2, BackFacts
  <2> QED BY <2>1, BackFacts, DistanceType
<1> QED BY <1>4, <1>5, <1>6

LEMMA SeenAll ==
    ASSUME Known, pc = "next", LastPage(cur.page) = srch.start, NEW c \in Places
    PROVE  Seen(c)
<1>1. PICK p \in Pages, s \in Pages : p = cur.page /\ s = srch.start
  BY KnownTypes
<1>2. PICK q \in Pages : q = c[1]
  BY PlacesHere
<1>3. /\ Distance(p, s) = NPages - 1
      /\ Distance(q, s) \in 0 .. NPages - 1
      /\ Distance(q, s) = Distance(p, s) => q = p
  BY <1>1, BackFacts
<1> QED BY <1>1, <1>2, <1>3 DEF Seen, Back

\* During a search the key has one copy.
LEMMA OneSearched ==
    ASSUME Known, Searching, NEW c \in Copies(op.key), NEW d \in Copies(op.key)
    PROVE  c = d
<1>1. ~Both /\ ~Realigning /\ op.key \in Keys
  BY DEF Known, IInv, Arguments, Searching, Both, Realigning, Moved
<1> QED BY <1>1 DEF Known, MapInv, UniqueInv, Split

\* Between the place the search of a page has reached and the next match, and behind
\* the last match, there is no copy of the key.
LEMMA NoneSkipped ==
    ASSUME Known, NoFaults, pc = "find", NEW c \in Copies(op.key), c[1] = cur.page,
           cur.off <= c[2]
    PROVE  c[2] \in MatchOffs
<1>1. c[1] \in Pages /\ c[2] \in Offsets /\ flash[c[1]].cell[c[2]].key = op.key
      /\ flash[c[1]].cell[c[2]].val \in Vals
  BY CopyAt, PlacesHere DEF At
<1>2. Mirrors(cur.page) /\ flash[cur.page] \in FlashPage /\ cur.page \in Pages
  BY KnownTypes DEF Known, IInv, Mirrored, Loaded
<1>3. ~(flash[c[1]].used <= c[2])
  BY <1>1 DEF Known, IInv, FlashShape, Blank
<1>4. c[2] < pages[cur.page].bytes_used
  BY <1>1, <1>2, <1>3 DEF Mirrors, FlashPage
<1> QED BY <1>1, <1>4 DEF MatchOffs

LEMMA MatchIsCopy ==
    ASSUME Known, NoFaults, pc = "find", NEW o \in MatchOffs
    PROVE  /\ o \in Offsets /\ cur.off <= o
           /\ <<cur.page, o>> \in Copies(op.key)
<1>1. cur.page \in Pages /\ op.key \in Keys /\ op.key # NoKey
  BY KnownTypes DEF Known, IInv, Arguments
<1>2. o \in Offsets /\ cur.off <= o /\ flash[cur.page].cell[o].key = op.key
  BY DEF MatchOffs
<1>3. flash[cur.page].cell[o].val \in Vals
  BY <1>1, <1>2, AllVerify DEF Known
<1> QED BY <1>1, <1>2, <1>3, CopyAt DEF At, Places

\* The first match is the first copy the search sees.
LEMMA FirstMatch ==
    ASSUME Known, NoFaults, FindMatch
    PROVE  /\ srch.cnt = 0 /\ srch.hits = 0
           /\ pc' = "accept" /\ UNCHANGED <<tgt, ret>>
<1>1. PICK o \in MatchOffs : TRUE
  BY DEF FindMatch
<1>2. pc = "find" /\ Searching
  BY DEF FindMatch, Searching
<1>3. cur.off <= o /\ <<cur.page, o>> \in Copies(op.key)
  BY <1>1, <1>2, MatchIsCopy
<1>4. ~Seen(<<cur.page, o>>)
  <2>1. cur.page \in Pages /\ srch.start \in Pages /\ cur.off \in Nat /\ o \in Nat
    BY KnownTypes DEF MatchOffs
  <2>2. Back(cur.page) \in Nat
    BY <2>1, DistanceType DEF Back
  <2> QED BY <1>2, <1>3, <2>1, <2>2 DEF Seen
<1>5. srch.cnt + srch.hits # 1
  <2>1. SUFFICES ASSUME srch.cnt + srch.hits = 1 PROVE FALSE
    OBVIOUS
  <2>2. LastPlace \in Copies(op.key) /\ Seen(LastPlace)
    BY <1>2, <2>1 DEF Known, MapInv, SeekInv
  <2> QED BY <1>2, <1>3, <1>4, <2>2, OneSearched
<1>6. srch.cnt = 0 /\ srch.hits = 0
  BY <1>2, <1>5, KnownTypes DEF Known, MapInv, SeekInv
<1>7. srch.last.page \notin Pages
  BY <1>6 DEF Known, SoleInv, SearchInv
<1> QED BY <1>6, <1>7 DEF FindMatch, Valid

\* The search writes nothing to the flash.
LEMMA FindQuiet ==
    ASSUME Find
    PROVE  /\ UNCHANGED <<flashVars, ctxVars, op>>
           /\ Copies(op.key)' = Copies(op.key)
           /\ \A c : At(c)' = At(c)
<1>1. UNCHANGED <<flashVars, ctxVars, op>>
  BY DEF Find, FindSkip, FindMatch, FindAccept, FindPageEnd, FindNext, ReadDone, WriteFound
<1> QED BY <1>1 DEF Copies, Holds, At

LEMMA FindMap ==
    ASSUME Known, NoFaults, Find
    PROVE  PhaseInv' /\ SeekInv' /\ ReplaceInv'
<1>0. /\ UNCHANGED <<flashVars, ctxVars, op>> /\ Copies(op.key)' = Copies(op.key)
      /\ \A c : At(c)' = At(c)
  BY FindQuiet
<1>1. Searching /\ PhaseInv /\ SeekInv
  BY DEF Find, FindSkip, FindMatch, FindAccept, FindPageEnd, FindNext, ReadDone, WriteFound,
         Searching, Known, MapInv
<1>2. /\ CallTypeOK /\ cur.page \in Pages /\ cur.off \in Nat
      /\ srch.cnt \in Nat /\ srch.hits \in Nat /\ op.key \in Keys
  BY <1>1, KnownTypes DEF PhaseInv, Searching, Initing
<1>3. CASE FindSkip
  <2>1. /\ pc = "find" /\ pc' = "next" /\ UNCHANGED callVars
        /\ cur.off = 0 /\ ~InUse(cur.page)
    BY <1>2, <1>3 DEF FindSkip, Entered
  <2>2. ASSUME NEW c \in Copies(op.key) PROVE c[1] # cur.page
    <3>1. SUFFICES ASSUME c[1] = cur.page PROVE FALSE
      OBVIOUS
    <3>2. pages[cur.page].status = "ERASED"
      <4>1. Ready(cur.page)
        BY <2>1 DEF Ready, Loaded
      <4> QED BY <1>2, <2>1, <4>1, KnownTypes
              DEF Known, MapInv, ScannedInv, InUse, RamPage, RamStatus, FlashStatus
    <3>3. \A o \in Offsets : flash[cur.page].cell[o] = Blank
      BY <1>2, <2>1, <3>2, KnownTypes, ErasedIsEmpty
         DEF Known, IInv, Mirrored, Loaded, CountInv, PagesFine
    <3> QED BY <3>1, <3>3, CopyAt, PlacesHere DEF At, Blank
  <2>3. \A c \in Copies(op.key) : Seen(c)' <=> Seen(c)
    BY <2>1, <2>2 DEF Seen, Back
  <2>4. LastPlace' = LastPlace /\ srch' = srch
    BY <2>1 DEF LastPlace
  <2>5. SeekInv'
    BY <1>0, <1>1, <2>1, <2>3, <2>4 DEF SeekInv, Searching
  <2> QED BY <1>0, <1>1, <2>1, <2>5
          DEF PhaseInv, ReplaceInv, Initing, Searching, Deleting, Moved, Replacing, Both, Replaced
<1>4. CASE FindMatch
  <2>1. PICK o : o = FirstOff(MatchOffs)
    BY Zenon
  <2>2. /\ pc = "find" /\ o \in MatchOffs
    BY <1>4, <2>1, FirstOffIn DEF FindMatch, MatchOffs
  <2>3. /\ srch.cnt = 0 /\ srch.hits = 0
        /\ pc' = "accept" /\ UNCHANGED <<tgt, ret>>
    BY <1>4, FirstMatch
  <2>4. /\ cur' = [cur EXCEPT !.off = o]
        /\ srch' = [srch EXCEPT !.res = flash[cur.page].cell[o].val]
    BY <1>4, <2>1, <2>3 DEF FindMatch
  <2>5. /\ cur'.page = cur.page /\ cur'.off = o
        /\ srch'.cnt = srch.cnt /\ srch'.hits = srch.hits /\ srch'.last = srch.last
        /\ srch'.loc = srch.loc /\ srch'.start = srch.start
        /\ srch'.res = flash[cur.page].cell[o].val
    BY <1>2, <2>4 DEF CallTypeOK
  <2>6. PICK h : h = <<cur.page, o>>
    OBVIOUS
  <2>7. h \in Copies(op.key) /\ Here' = h /\ At(h).val = flash[cur.page].cell[o].val
    BY <2>2, <2>5, <2>6, MatchIsCopy DEF Here, At
  <2>8. \A c \in Copies(op.key) : c = h
    BY <1>1, <2>7, OneSearched
  <2>9. ~(Seen(h)')
    <3>1. o \in Nat
      BY <2>2 DEF MatchOffs
    <3>2. Back(cur.page) \in Nat
      BY <1>2, KnownTypes, DistanceType DEF Back
    <3> QED BY <2>3, <2>5, <2>6, <3>1, <3>2 DEF Seen, Back
  <2>10. SeekInv'
    <3>1. At(Here)' = At(h)
      BY <1>0, <2>7 DEF At
    <3> QED BY <1>0, <1>1, <2>3, <2>5, <2>7, <2>8, <2>9, <3>1 DEF SeekInv
  <2> QED BY <1>0, <1>1, <2>2, <2>3, <2>10
          DEF PhaseInv, ReplaceInv, Initing, Searching, Deleting, Moved, Replacing, Both, Replaced
<1>5. CASE FindAccept
  <2>1. /\ pc = "accept" /\ pc' = "find" /\ UNCHANGED <<tgt, ret>>
        /\ srch' = [srch EXCEPT !.last = cur, !.hits = @ + 1]
        /\ cur' = [cur EXCEPT !.off = @ + Size(flash[cur.page].cell[cur.off])]
    BY <1>5 DEF FindAccept
  <2>2. cur.off \in Offsets /\ Here \in Copies(op.key) /\ srch.res = At(Here).val
    BY <1>1, <2>1 DEF SeekInv, Known, IInv, Arguments
  <2>3. PICK n \in Nat : n > 0 /\ n = Size(flash[cur.page].cell[cur.off])
    BY <1>2, <2>2, KnownTypes, ItemTypes DEF FlashPage
  <2>4. /\ srch'.cnt = srch.cnt /\ srch'.hits = srch.hits + 1 /\ srch'.last = cur
        /\ srch'.loc = srch.loc /\ srch'.start = srch.start /\ srch'.res = srch.res
        /\ cur'.page = cur.page /\ cur'.off = cur.off + n
    BY <1>2, <2>1, <2>3 DEF CallTypeOK
  <2>5. srch.cnt = 0 /\ srch.hits = 0
    BY <1>1, <1>2, <2>1 DEF SeekInv
  <2>6. PICK h : h = Here
    OBVIOUS
  <2>7. LastPlace' = h /\ h \in Copies(op.key) /\ At(h)' = At(h) /\ srch.res = At(h).val
    BY <1>0, <2>2, <2>4, <2>6 DEF LastPlace, Here
  <2>8. Seen(h)'
    BY <1>2, <2>2, <2>3, <2>4, <2>6 DEF Seen, Here
  <2>9. SeekInv'
    <3>1. At(LastPlace)' = At(h)
      BY <1>0, <2>7 DEF At
    <3>2. (LastPlace \in Copies(op.key))' /\ Seen(LastPlace)'
      <4>1. Seen(LastPlace)'
        BY <2>7, <2>8 DEF Seen
      <4> QED BY <1>0, <2>7, <4>1
    <3> QED BY <1>0, <1>1, <2>1, <2>4, <2>5, <2>7, <3>1, <3>2 DEF SeekInv
  <2> QED BY <1>0, <1>1, <2>1, <2>9
          DEF PhaseInv, ReplaceInv, Initing, Searching, Deleting, Moved, Replacing, Both, Replaced
<1>6. CASE FindPageEnd
  <2>1. PICK cnt : cnt = srch.cnt + srch.hits
    OBVIOUS
  <2>2. pc = "find" /\ MatchOffs = {} /\ UNCHANGED cur
    BY <1>6 DEF FindPageEnd
  <2>3. cnt \in {0, 1}
    BY <1>1, <1>2, <2>1 DEF SeekInv
  <2>4. /\ pc' = "next" /\ UNCHANGED <<tgt, ret>>
        /\ srch' = [srch EXCEPT !.cnt = cnt, !.hits = 0,
                                !.loc = IF cnt = 1 THEN srch.last ELSE @]
    BY <1>6, <2>1, <2>3 DEF FindPageEnd, Surplus, Sole
  <2>5. /\ srch'.cnt = cnt /\ srch'.hits = 0 /\ srch'.last = srch.last
        /\ srch'.loc = (IF cnt = 1 THEN srch.last ELSE srch.loc)
        /\ srch'.start = srch.start /\ srch'.res = srch.res
    BY <1>2, <2>4 DEF CallTypeOK
  <2>6. \A c \in Copies(op.key) : c[1] = cur.page => c[2] < cur.off
    BY <1>2, <2>2, NoneSkipped, CopyAt, PlacesHere
  <2>7. \A c \in Copies(op.key) : Seen(c)' <=> Seen(c)
    BY <2>2, <2>4, <2>5, <2>6 DEF Seen, Back
  <2>8. LastPlace' = LastPlace /\ (Seen(LastPlace)' <=> Seen(LastPlace) \/ LastPlace[1] = cur.page)
    BY <1>2, <2>2, <2>4, <2>5 DEF LastPlace, Seen, Back
  <2>9. SeekInv'
    <3>1. PICK l : l = LastPlace
      OBVIOUS
    <3>2. At(LastPlace)' = At(l) /\ LastPlace' = l
      BY <1>0, <2>8, <3>1 DEF At
    <3>3. cnt = 0 => srch.cnt = 0
      BY <1>2, <2>1
    <3> QED BY <1>0, <1>1, <2>1, <2>2, <2>3, <2>4, <2>5, <2>7, <2>8, <3>1, <3>2, <3>3
            DEF SeekInv, Searching
  <2> QED BY <1>0, <1>1, <2>2, <2>4, <2>9
          DEF PhaseInv, ReplaceInv, Initing, Searching, Deleting, Moved, Replacing, Both, Replaced
<1>7. CASE FindNext
  <2>1. /\ pc = "next" /\ pc' = "find" /\ UNCHANGED <<srch, tgt, ret>>
    BY <1>7 DEF FindNext
  <2>2. \A c \in Copies(op.key) : Seen(c)' <=> Seen(c)
    BY <1>7, SeenNext, CopyAt
  <2>3. SeekInv'
    <3>1. PICK l : l = LastPlace
      OBVIOUS
    <3>2. At(LastPlace)' = At(l) /\ LastPlace' = l /\ (Seen(LastPlace)' <=> Seen(l)')
      BY <1>0, <2>1, <3>1 DEF At, LastPlace, Seen
    <3> QED BY <1>0, <1>1, <2>1, <2>2, <3>1, <3>2 DEF SeekInv, Searching
  <2> QED BY <1>0, <1>1, <2>1, <2>3
          DEF PhaseInv, ReplaceInv, Initing, Searching, Deleting, Moved, Replacing, Both, Replaced
<1>8. CASE ReadDone
  <2>1. /\ pc = "next" /\ pc' = "return" /\ op.kind = "read" /\ UNCHANGED <<srch, tgt, ret>>
    BY <1>8 DEF ReadDone, Finish
  <2>2. SeekInv'
    BY <1>1, <2>1 DEF SeekInv, Searching
  <2> QED BY <1>0, <1>1, <2>1, <2>2
          DEF PhaseInv, ReplaceInv, Initing, Searching, Deleting, Moved, Replacing, Both, Replaced
<1>9. CASE WriteFound
  <2>1. /\ pc = "next" /\ pc' = "alloc" /\ op.kind = "write" /\ UNCHANGED <<srch, tgt, ret>>
        /\ LastPage(cur.page) = srch.start
    BY <1>9 DEF WriteFound
  <2>2. SeekInv'
    BY <1>1, <2>1 DEF SeekInv, Searching
  <2>3. srch.hits = 0 /\ OldPlaces' = OldPlaces
    BY <2>1 DEF Known, SoleInv, SearchInv, OldPlaces, LastPlace
  <2>4. \A c \in Copies(op.key) : Seen(c)
    BY <2>1, SeenAll, CopyAt
  <2>5. Copies(op.key) = OldPlaces
    <3>1. CASE srch.cnt = 0
      BY <1>1, <2>3, <2>4, <3>1 DEF SeekInv, OldPlaces
    <3>2. CASE srch.cnt = 1
      <4>1. LastPlace \in Copies(op.key)
        BY <1>1, <2>3, <3>2 DEF SeekInv
      <4> QED BY <1>1, <3>2, <4>1, OneSearched DEF OldPlaces
    <3> QED BY <1>1, <1>2, <3>1, <3>2 DEF SeekInv
  <2> QED BY <1>0, <1>1, <2>1, <2>2, <2>3, <2>5
          DEF PhaseInv, ReplaceInv, Initing, Searching, Deleting, Moved, Replacing, Both, Replaced
<1> QED BY <1>3, <1>4, <1>5, <1>6, <1>7, <1>8, <1>9 DEF Find

-----------------------------------------------------------------------------
(***************************************************************************)
(* The deletion of the old copy.                                           *)
(***************************************************************************)
\* It is where the search found it, and its page is counted to hold it.
LEMMA DeleteFinds ==
    ASSUME Known, NoFaults, pc = "del"
    PROVE  /\ pages[tgt.page].item_cnt > 0
           /\ flash[tgt.page].cell[tgt.off].key = op.key
           /\ LastPlace = <<tgt.page, tgt.off>> /\ LastPlace \in Copies(op.key)
<1>1. /\ srch.cnt = 1 /\ tgt = srch.last /\ LastPlace = <<tgt.page, tgt.off>>
      /\ LastPlace \in Copies(op.key)
  BY DEF Known, MapInv, PhaseInv, ReplaceInv, Deleting, Both, OldPlaces, LastPlace
<1>2. PICK p \in Pages, o \in Offsets : p = tgt.page /\ o = tgt.off
  BY <1>1, CopyAt, PlacesHere
<1>3. flash[p].cell[o].key = op.key /\ flash[p].cell[o].val \in Vals
  BY <1>1, <1>2, CopyAt DEF At
<1>4. PageFine(p) /\ Ready(p) /\ ~Uncounted(p) /\ pages[p].item_cnt \in Nat
  BY KnownTypes, CntTypes DEF Known, CountInv, PagesFine, Ready, Loaded, Uncounted
<1>5. o \in LiveOffs(flash[p])
  BY <1>3, <1>4 DEF LiveOffs, Live, PageFine, ItemsFine
<1>6. Cardinality(LiveOffs(flash[p])) # 0 /\ Cardinality(LiveOffs(flash[p])) \in Nat
  BY <1>5, LiveNone, LiveFinite
<1>7. Cardinality(LiveOffs(flash[p])) <= pages[p].item_cnt
  BY <1>4 DEF PageFine, CountFine, NoFaults
<1> QED BY <1>1, <1>2, <1>3, <1>4, <1>6, <1>7

LEMMA DeleteMap ==
    ASSUME Known, NoFaults, Delete
    PROVE  PhaseInv' /\ SeekInv' /\ ReplaceInv'
<1>0. /\ UNCHANGED <<op, srch, cur, ret, tgt>> /\ Deleting
      /\ PhaseInv /\ SeekInv /\ ReplaceInv
  BY DEF Delete, DeleteSkip, DeleteMismatch, DeleteMark, DeleteErase, Deleting, Known, MapInv
<1>1. ret = "old" /\ srch.cnt = 1 /\ op.kind = "write" /\ op.key \in Keys
  BY <1>0 DEF PhaseInv, Deleting, Searching, Initing
<1>2. pc' # "return" => pc' = "del_erase"
  BY <1>1 DEF Delete, DeleteSkip, DeleteMismatch, DeleteMark, DeleteErase, AfterDelete, Finish
<1>3. PhaseInv' /\ SeekInv'
  BY <1>0, <1>1, <1>2 DEF PhaseInv, SeekInv, Initing, Searching, Deleting
<1>4. PICK k : k = op.key
  OBVIOUS
<1>5. (\E n \in Places : Copies(k) = {n} /\ At(n).val = op.val)'
  <2>1. CASE DeleteMark
    <3>1. PICK t : t = <<tgt.page, tgt.off>>
      OBVIOUS
    <3>2. OldPlaces = {t}
      BY <1>1, <2>1, <3>1, DeleteFinds DEF DeleteMark, OldPlaces
    <3>3. PICK n \in Places \ OldPlaces :
             Copies(k) = OldPlaces \cup {n} /\ At(n).val = op.val
      BY <1>0, <1>4, <2>1 DEF DeleteMark, ReplaceInv, Both
    <3>4. Copies(k)' = {n} /\ At(n)' = At(n)
      BY <2>1, <3>1, <3>2, <3>3, MarkCopies
    <3> QED BY <1>0, <3>3, <3>4
  <2>2. CASE DeleteErase
    <3>1. LiveKept
      BY <2>2, EraseLive DEF Known
    <3>2. PICK n \in Places : Copies(k) = {n} /\ At(n).val = op.val
      BY <1>0, <1>4, <2>2 DEF DeleteErase, ReplaceInv, Replaced
    <3>3. Copies(k)' = Copies(k) /\ At(n)' = At(n)
      BY <3>1, <3>2, CopiesKept
    <3> QED BY <1>0, <3>2, <3>3
  <2>3. ~DeleteSkip /\ ~DeleteMismatch
    BY DeleteFinds DEF DeleteSkip, DeleteMismatch
  <2> QED BY <2>1, <2>2, <2>3 DEF Delete
<1>6. (\E n \in Places : Copies(op.key) = {n} /\ At(n).val = op.val)'
  BY <1>0, <1>4, <1>5 DEF Copies, Holds
<1>7. ~(Moved') /\ ~(Replacing') /\ ~(Both')
  BY <1>1, <1>2 DEF Moved, Replacing, Both
<1> QED BY <1>3, <1>6, <1>7 DEF ReplaceInv

-----------------------------------------------------------------------------
(***************************************************************************)
(* The page for the new copy, and the realign.                             *)
(***************************************************************************)
\* A step that keeps all copies, and after which the replacement still goes on.
LEMMA ReplaceStep ==
    ASSUME Known, UNCHANGED <<op, srch>>, Replacing, Replacing', ret' # "old",
           Copies(op.key)' = Copies(op.key),
           Moved' => At(Here)'.key # op.key
    PROVE  PhaseInv' /\ SeekInv' /\ ReplaceInv'
<1>1. PhaseInv /\ SeekInv /\ ReplaceInv
  BY DEF Known, MapInv
<1>2. /\ ~(Both') /\ ~(Replaced') /\ ~(Deleting') /\ ~(Searching') /\ ~(Initing')
      /\ pc' # "erase_all" /\ pc' # "return"
  BY DEF Replacing, Both, Replaced, Deleting, Searching, Initing
<1>3. op.kind = "write" /\ op.key \in Keys
  BY <1>1 DEF PhaseInv, Replacing, Searching, Initing
<1>4. OldPlaces' = OldPlaces
  BY DEF OldPlaces, LastPlace
<1> QED BY <1>1, <1>2, <1>3, <1>4 DEF PhaseInv, SeekInv, ReplaceInv

LEMMA AllocateMap ==
    ASSUME Known, NoFaults, Allocate, Undisturbed
    PROVE  PhaseInv' /\ SeekInv' /\ ReplaceInv'
<1>1. /\ pc \in {"alloc", "copied", "full", "activate"} /\ UNCHANGED <<op, srch>>
      /\ rc' # "error" /\ Replacing
  BY DEF Allocate, AllocFits, AllocFirst, AllocNoRealign, AllocRealign, AllocRetry, CloseActive,
         OpenNew, NoRoom, Undisturbed, CutShort, Replacing
<1>2. /\ pc' \in {"alloc", "realign", "copied", "full", "activate", "put"}
      /\ ret' \in {ret, "write"} /\ (pc' = "put" => ret' = "write")
  BY <1>1
     DEF Allocate, AllocFits, AllocFirst, AllocNoRealign, AllocRealign, AllocRetry, CloseActive,
         OpenNew, NoRoom, UsePage, Finish
<1>3. ret' # "old" /\ ~(Moved') /\ Replacing'
  BY <1>1, <1>2 DEF Known, MapInv, PhaseInv, Deleting, Moved, Replacing
<1>4. LiveKept
  <2>1. [Next]_vars /\ ~DeleteMark /\ ~RealignErase /\ ~Put /\ pc # "erase_all"
    BY <1>1 DEF Next, Step, DeleteMark, RealignErase, Put
  <2> QED BY <2>1, StepKinds DEF Known
<1>5. Copies(op.key)' = Copies(op.key)
  <2>1. PICK k : k = op.key
    OBVIOUS
  <2>2. Copies(k)' = Copies(k)
    BY <1>4, CopiesKept
  <2> QED BY <1>1, <2>1, <2>2 DEF Copies, Holds
<1> QED BY <1>1, <1>3, <1>5, ReplaceStep

\* The item a realign is moving is behind what it has passed, and verifies.
LEMMA MovedLives ==
    ASSUME Known, NoFaults, Moved
    PROVE  /\ Here \in Places /\ At(Here).val \in Vals /\ At(Here).key \in Keys
           /\ RealignOffs # {}
<1>1. PICK p \in Pages, o \in Offsets : p = cur.page /\ o = cur.off
  BY KnownTypes DEF Moved, Known, IInv, Arguments
<1>2. flash[p].cell[o].val \in Vals
  BY <1>1 DEF Known, CountInv, Destination
<1>3. flash[p].cell[o].key \in Keys
  BY <1>2 DEF Known, CountInv, PagesFine, PageFine, ItemsFine
<1>4. ~(flash[p].used <= o) /\ Mirrors(p) /\ flash[p] \in FlashPage
  BY <1>2, KnownTypes DEF Known, IInv, FlashShape, Blank, Mirrored, Loaded, Moved
<1>5. o < pages[p].bytes_used
  BY <1>4 DEF Mirrors, FlashPage
<1>6. o \in RealignOffs
  BY <1>1, <1>3, <1>5 DEF RealignOffs, Passed, NoFaults
<1> QED BY <1>1, <1>2, <1>3, <1>6 DEF Here, At, Places

LEMMA RealignMap ==
    ASSUME Known, NoFaults, Realign, Undisturbed
    PROVE  PhaseInv' /\ SeekInv' /\ ReplaceInv'
<1>1. /\ UNCHANGED <<op, srch>> /\ Replacing /\ op.key \in Keys
      /\ PhaseInv /\ ReplaceInv /\ pc \in {"realign", "open"} /\ ret # "old"
  BY DEF Realign, RealignDrop, RealignFull, RealignOpen, RealignFits, RealignErase, Moving,
         Replacing, Known, MapInv, PhaseInv, Initing, Deleting
<1>2. [Next]_vars /\ ~DeleteMark /\ ~Put /\ pc # "erase_all"
  BY <1>1 DEF Next, Step, DeleteMark, Put
<1>3. PICK k : k = op.key
  OBVIOUS
<1>4. CASE RealignErase
  <2>1. PICK p : p = cur.page
    OBVIOUS
  <2>2. /\ p \in Pages /\ Copies(k)' = {c \in Copies(k) : c[1] # p}
        /\ \A c \in Copies(k) : c[1] = p => c[2] < cur.off
    BY <1>4, <2>1, RealignEraseCopies
  <2>3. Copies(k) = OldPlaces
    BY <1>1, <1>3 DEF ReplaceInv
  <2>4. ASSUME NEW c \in Copies(k), c[1] = p PROVE FALSE
    <3>1. PICK o \in Offsets : c = <<p, o>> /\ o < cur.off
      BY <2>2, <2>4, CopyAt, PlacesHere
    <3>2. flash[p].cell[o].key = k /\ o \in LiveOffs(flash[p])
      BY <1>1, <1>3, <3>1, CopyAt DEF At, LiveOffs, Live
    <3>3. KeyElsewhere(p, k)
      BY <1>4, <2>1, <3>1, <3>2 DEF RealignErase, Known, MoveInv, Realigning, PassedBelow
    <3>4. PICK q \in Pages \ {p}, o2 \in Offsets : Holds(q, o2, k)
      BY <3>3 DEF KeyElsewhere
    <3>5. <<q, o2>> \in Copies(k) /\ <<q, o2>> # c
      BY <3>1, <3>4, CopiesHold
    <3> QED BY <2>3, <3>5 DEF OldPlaces
  <2>5. Copies(k)' = Copies(k)
    BY <2>2, <2>4
  <2>6. Copies(op.key)' = Copies(op.key)
    BY <1>1, <1>3, <2>5 DEF Copies, Holds
  <2>7. Replacing' /\ ~(Moved') /\ ret' # "old"
    BY <1>1, <1>4 DEF RealignErase, Replacing, Moved
  <2> QED BY <1>1, <2>6, <2>7, ReplaceStep
<1>5. CASE ~RealignErase
  <2>1. LiveKept
    BY <1>2, <1>5, StepKinds DEF Known
  <2>2. Copies(k)' = Copies(k) /\ \A c \in Places : At(c).val \in Vals => At(c)' = At(c)
    <3>1. Copies(k)' = Copies(k)
      BY <2>1, CopiesKept
    <3> QED BY <2>1, <3>1 DEF LiveKept, Places, At
  <2>3. Copies(op.key)' = Copies(op.key)
    BY <1>1, <1>3, <2>2 DEF Copies, Holds
  <2>4. CASE RealignOpen
    <3>1. Moved /\ UNCHANGED cur /\ Replacing' /\ Moved' /\ ret' # "old"
      BY <2>4 DEF RealignOpen, Moved, Replacing
    <3>2. PICK h \in Places : h = Here /\ At(h).val \in Vals
      BY <3>1, MovedLives
    <3>3. At(Here)' = At(h)
      <4>1. At(h)' = At(h) /\ Here' = h
        BY <2>2, <3>1, <3>2 DEF Here
      <4> QED BY <4>1 DEF At
    <3>4. At(h).key # op.key
      BY <1>1, <3>1, <3>2 DEF ReplaceInv
    <3> QED BY <1>1, <2>3, <3>1, <3>3, <3>4, ReplaceStep
  <2>5. CASE RealignDrop
    <3>1. Replacing' /\ ~(Moved') /\ ret' # "old"
      BY <1>1, <2>5 DEF RealignDrop, Moving, Replacing, Moved
    <3> QED BY <1>1, <2>3, <3>1, ReplaceStep
  <2>6. CASE RealignFull \/ RealignFits
    <3>1. Moving /\ MovedItem.val # NoVal
      BY <2>6 DEF RealignFull, RealignFits
    <3>2. PICK o : o = FirstOff(RealignOffs)
      OBVIOUS
    <3>3. o \in RealignOffs /\ MovedItem = flash[cur.page].cell[o]
      BY <3>1, <3>2, RealignOffIn DEF MovedItem
    <3>4. pc' \in {"open", "put"} /\ cur' = [cur EXCEPT !.off = o]
      <4>1. CASE RealignFull
        <5>1. pc' # "copied"
          BY <1>1, <3>1, <4>1 DEF Undisturbed, CutShort, Moving
        <5> QED BY <3>2, <4>1, <5>1 DEF RealignFull
      <4>2. CASE RealignFits
        BY <3>2, <4>2 DEF RealignFits
      <4> QED BY <2>6, <4>1, <4>2
    <3>5. PICK p \in Pages : p = cur.page
      BY KnownTypes
    <3>6. cur'.page = p /\ cur'.off = o
      BY <3>4, <3>5, KnownTypes DEF CallTypeOK
    <3>7. /\ o \in Offsets /\ flash[p].cell[o].val \in Vals
          /\ flash[p].cell[o].key # op.key
      <4>1. o \in Offsets /\ flash[p].cell[o].key # NoKey
        BY <3>3, <3>5 DEF RealignOffs, Passed
      <4>2. MovedItem.key # op.key
        BY <3>1, <3>4 DEF Undisturbed, Overtaken, Moving
      <4> QED BY <3>3, <3>5, <4>1, <4>2, AllVerify DEF Known
    <3>8. At(Here)' = flash[p].cell[o]
      <4>1. flash'[p].cell[o] = flash[p].cell[o]
        BY <2>1, <3>7 DEF LiveKept
      <4> QED BY <3>6, <4>1 DEF At, Here
    <3>9. Replacing' /\ ret' # "old"
      BY <1>1, <2>6, <3>4 DEF Replacing, RealignFull, RealignFits
    <3> QED BY <1>1, <2>3, <3>7, <3>8, <3>9, ReplaceStep
  <2> QED BY <1>5, <2>4, <2>5, <2>6 DEF Realign
<1> QED BY <1>4, <1>5

-----------------------------------------------------------------------------
(***************************************************************************)
(* The new copy.                                                           *)
(***************************************************************************)
\* The old copy is deleted next if there is one.
LEMMA PutGoesOn ==
    ASSUME Known, PutReturns, pc \in {"put", "put_full"}, ret = "write"
    PROVE  \/ /\ srch.cnt = 1 /\ ret' = "old" /\ pc' = "del" /\ tgt' = srch.last
              /\ UNCHANGED rc
           \/ srch.cnt = 0 /\ UNCHANGED ret /\ pc' = "return" /\ rc' = "ok"
<1>1. srch.cnt \in {0, 1} /\ srch.loc = IF srch.cnt = 1 THEN srch.last ELSE NoLoc
  BY KnownTypes DEF Known, MapInv, SeekInv
<1>2. srch.cnt = 1 => srch.last.page \in Pages
  BY KnownTypes DEF Known, CountInv, Located
<1>3. srch.cnt = 0 => srch.loc.page \notin Pages
  BY <1>1 DEF NoLoc
<1> QED BY <1>1, <1>2, <1>3 DEF PutReturns, Valid, Finish

LEMMA PutFailsNot == ASSUME Known, NoFaults, PutFails, Undisturbed PROVE FALSE
<1>1. pc = "put" /\ ret \in {"write", "realign"}
  BY DEF PutFails, Known, IInv, Arguments
<1>2. CASE ret = "write"
  BY <1>2 DEF PutFails, Finish, Undisturbed, CutShort
<1>3. CASE ret = "realign"
  BY <1>1, <1>3, MovedLives DEF Moved, PutFails, Undisturbed, CutShort
<1> QED BY <1>1, <1>2, <1>3

LEMMA PutLive == ASSUME Known, NoFaults, PutFull PROVE LiveKept
<1>1. [Next]_vars /\ ~DeleteMark /\ ~RealignErase /\ ~Put /\ pc # "erase_all"
  BY DEF PutFull, Next, Step, Write, DeleteMark, RealignErase, Put
<1> QED BY <1>1, StepKinds DEF Known

LEMMA MovedMap ==
    ASSUME Known, NoFaults, Put \/ PutFull, ret = "realign"
    PROVE  PhaseInv' /\ SeekInv' /\ ReplaceInv'
<1>1. /\ UNCHANGED <<op, srch>> /\ pc \in {"put", "put_full"} /\ Moved /\ Replacing
  BY DEF Put, PutFull, Moved, Replacing
<1>2. \/ pc' = "realign" /\ ret' = "realign"
      \/ Put /\ pc' = "put_full" /\ UNCHANGED <<cur, ret>>
  <2>1. PutReturns \/ (Put /\ pc' = "put_full" /\ UNCHANGED <<cur, ret>>)
    BY DEF Put, PutFull
  <2> QED BY <1>1, <2>1, PutReturnsTo DEF Known
<1>3. PICK k : k = op.key
  OBVIOUS
<1>4. PICK h \in Places : h = Here /\ At(h).val \in Vals /\ At(h).key # op.key
  BY <1>1, MovedLives DEF Known, MapInv, ReplaceInv
<1>5. Copies(k)' = Copies(k) /\ At(h)' = At(h)
  <2>1. CASE Put
    <3>1. PutItem = At(h)
      BY <1>4 DEF PutItem, At, Here
    <3>2. Copies(k)' = Copies(k)
      <4>1. PICK n : Copies(k)' = Copies(k) \cup (IF PutItem.key = k THEN {n} ELSE {})
        BY <2>1, PutCopies
      <4> QED BY <1>3, <1>4, <3>1, <4>1
    <3>3. PICK k2 : k2 = At(h).key
      OBVIOUS
    <3>4. h \in Copies(k2)
      BY <1>4, <3>3, CopyAt
    <3>5. At(h)' = At(h)
      BY <2>1, <3>4, PutCopies
    <3> QED BY <3>2, <3>5
  <2>2. CASE PutFull
    <3>1. LiveKept
      BY <2>2, PutLive
    <3>2. Copies(k)' = Copies(k)
      BY <3>1, CopiesKept
    <3> QED BY <1>4, <3>1, <3>2 DEF LiveKept, Places, At
  <2> QED BY <2>1, <2>2
<1>6. Copies(op.key)' = Copies(op.key)
  BY <1>1, <1>3, <1>5 DEF Copies, Holds
<1>7. Replacing' /\ ret' # "old"
  BY <1>2 DEF Replacing
<1>8. ASSUME Moved' PROVE At(Here)'.key # op.key
  <2>1. UNCHANGED cur
    BY <1>2, <1>8 DEF Moved
  <2>2. At(Here)' = At(h)
    BY <1>4, <1>5, <2>1 DEF At, Here
  <2> QED BY <1>4, <2>2
<1> QED BY <1>1, <1>6, <1>7, <1>8, ReplaceStep

LEMMA NewCopyMap ==
    ASSUME Known, NoFaults, Put \/ PutFull, ret = "write"
    PROVE  PhaseInv' /\ SeekInv' /\ ReplaceInv'
<1>1. /\ UNCHANGED <<op, srch>> /\ pc \in {"put", "put_full"}
      /\ PhaseInv /\ SeekInv /\ ReplaceInv
  BY DEF Put, PutFull, Known, MapInv
<1>2. op.kind = "write" /\ op.key \in Keys /\ op.val \in Vals
  BY <1>1 DEF Known, IInv, Arguments
<1>3. \/ Put /\ pc' = "put_full" /\ UNCHANGED ret
      \/ srch.cnt = 1 /\ ret' = "old" /\ pc' = "del" /\ tgt' = srch.last
      \/ srch.cnt = 0 /\ UNCHANGED ret /\ pc' = "return"
  <2>1. PutReturns \/ (Put /\ pc' = "put_full" /\ UNCHANGED ret)
    BY DEF Put, PutFull
  <2> QED BY <1>1, <2>1, PutGoesOn
<1>4. PhaseInv' /\ SeekInv'
  BY <1>1, <1>2, <1>3 DEF PhaseInv, SeekInv, Initing, Searching, Deleting
<1>5. PICK k : k = op.key
  OBVIOUS
<1>6. \E n \in Places \ OldPlaces : /\ Copies(k)' = OldPlaces \cup {n}
                                    /\ At(n)'.val = op.val
  <2>1. CASE Put
    <3>1. Copies(k) = OldPlaces
      BY <1>1, <1>5, <2>1 DEF Put, ReplaceInv, Replacing
    <3>2. PutItem = NewItem(op.key, op.val)
      BY DEF PutItem
    <3>3. PICK n \in Places :
             /\ At(n)' = PutItem /\ n \notin Copies(k)
             /\ Copies(k)' = Copies(k) \cup (IF PutItem.key = k THEN {n} ELSE {})
      BY <2>1, PutCopies
    <3> QED BY <1>5, <3>1, <3>2, <3>3 DEF NewItem
  <2>2. CASE PutFull
    <3>1. PICK n \in Places \ OldPlaces : Copies(k) = OldPlaces \cup {n} /\ At(n).val = op.val
      BY <1>1, <1>5, <2>2 DEF PutFull, ReplaceInv, Both
    <3>2. Copies(k)' = Copies(k) /\ \A c \in Copies(k) : At(c)' = At(c)
      BY <2>2, PutLive, CopiesKept
    <3> QED BY <3>1, <3>2
  <2> QED BY <2>1, <2>2
<1>7. PICK n \in Places \ OldPlaces : /\ Copies(k)' = OldPlaces \cup {n}
                                      /\ At(n)'.val = op.val
  BY <1>6
<1>8. Copies(op.key)' = OldPlaces \cup {n} /\ OldPlaces' = OldPlaces
  BY <1>1, <1>5, <1>7 DEF Copies, Holds, OldPlaces, LastPlace
<1>9. ~(Moved') /\ ~(Replacing')
  BY <1>3 DEF Moved, Replacing
<1>10. Replaced' => OldPlaces = {}
  BY <1>3 DEF Replaced, OldPlaces
<1>11. (\E m \in Places \ OldPlaces :
           Copies(op.key) = OldPlaces \cup {m} /\ At(m).val = op.val)'
  BY <1>1, <1>7, <1>8
<1>12. Replaced' => (\E m \in Places : Copies(op.key) = {m} /\ At(m).val = op.val)'
  BY <1>1, <1>7, <1>8, <1>10
<1> QED BY <1>4, <1>9, <1>11, <1>12 DEF ReplaceInv

LEMMA WriteMap ==
    ASSUME Known, NoFaults, Write, Undisturbed
    PROVE  PhaseInv' /\ SeekInv' /\ ReplaceInv'
<1>1. Put \/ PutFull
  BY PutFailsNot DEF Write
<1>2. ret \in {"write", "realign"}
  BY <1>1 DEF Put, PutFull, Known, IInv, Arguments
<1> QED BY <1>1, <1>2, MovedMap, NewCopyMap

-----------------------------------------------------------------------------
(***************************************************************************)
(* The rest of the steps.                                                  *)
(***************************************************************************)
LEMMA BootMap ==
    ASSUME Known, Boot, Undisturbed
    PROVE  PhaseInv' /\ SeekInv' /\ ReplaceInv'
<1>1. /\ UNCHANGED <<op, srch, ret>> /\ Initing /\ Initing' /\ pc' # "erase_all"
      /\ PhaseInv /\ SeekInv
  BY DEF Boot, LoadHeader, HeaderInit, InitErasedPage, InitUsedPage, InitFails, EraseAll, PageDone,
         Initing, Known, MapInv, PhaseInv, Undisturbed, CutShort
<1>2. ~(Searching') /\ ~(Deleting') /\ ~(Moved') /\ ~(Replacing') /\ ~(Both') /\ ~(Replaced')
  BY <1>1 DEF Initing, Searching, Deleting, Moved, Replacing, Both, Replaced
<1> QED BY <1>1, <1>2 DEF PhaseInv, SeekInv, ReplaceInv, NoOp

LEMMA IdleMap ==
    ASSUME Known, Return \/ Fail, NoFaults
    PROVE  PhaseInv' /\ SeekInv' /\ ReplaceInv'
<1>1. /\ op' = NoOp /\ srch' = NoSearch /\ ret' = "none" /\ pc' \in {"idle", "boot"}
  BY DEF Return, Fail, Reset, PowerLoss, TornWrite, Restart, NoFaults
<1> QED BY <1>1 DEF PhaseInv, SeekInv, ReplaceInv, NoOp, NoSearch, Initing, Searching, Deleting,
                    Moved, Replacing, Both, Replaced

LEMMA CallMap ==
    ASSUME Known, Call
    PROVE  PhaseInv' /\ SeekInv' /\ ReplaceInv'
<1>1. PICK o : StartFind(o) /\ o.kind \in {"read", "write"} /\ o.key \in Keys
  <2>1. PICK k \in Keys : ReadItem(k) \/ \E v \in Vals : WriteItem(k, v)
    BY DEF Call
  <2>2. CASE ReadItem(k)
    BY <2>2 DEF ReadItem
  <2>3. CASE \E v \in Vals : WriteItem(k, v)
    <3>1. PICK v \in Vals : WriteItem(k, v)
      BY <2>3
    <3> QED BY <3>1 DEF WriteItem
  <2> QED BY <2>1, <2>2, <2>3
<1>2. /\ pc = "idle" /\ pc' = "find" /\ op' = o /\ ret' = "none"
      /\ srch'.cnt = 0 /\ srch'.hits = 0 /\ srch'.loc = NoLoc /\ srch'.res = NoVal
      /\ cur'.off = 0 /\ cur'.page = srch'.start /\ cur'.page \in Pages
  <2>1. page_active \in Pages \cup {NoPage} /\ 0 \in Pages
    BY KnownTypes DEF StateTypeOK
  <2> QED BY <1>1, <2>1 DEF StartFind, NoSearch, Known, MapInv, PhaseInv, Initing, Valid
<1>3. ASSUME NEW c \in Copies(op.key)' PROVE ~(Seen(c)')
  <2>1. c[1] \in Pages /\ c[2] \in Offsets
    BY <1>3 DEF Copies
  <2>2. PICK s \in Pages : s = srch'.start /\ s = cur'.page
    BY <1>2
  <2>3. Distance(s, s) = 0 /\ Distance(c[1], s) \in Nat
    BY <2>1, DistanceType DEF Distance
  <2> QED BY <1>2, <2>1, <2>2, <2>3 DEF Seen, Back
<1>4. ~(Deleting') /\ ~(Moved') /\ ~(Replacing') /\ ~(Both') /\ ~(Replaced')
  BY <1>2 DEF Deleting, Moved, Replacing, Both, Replaced
<1> QED BY <1>1, <1>2, <1>3, <1>4 DEF PhaseInv, SeekInv, ReplaceInv, Searching, Initing

-----------------------------------------------------------------------------
(***************************************************************************)
(* One copy of every key.                                                  *)
(***************************************************************************)
\* Which steps a realign takes.
LEMMA RealignSteps ==
    ASSUME NoFaults, [Next]_vars, Realigning
    PROVE  Realign \/ PutFails \/ Put \/ PutFull \/ UNCHANGED vars
<1>1. pc \in {"realign", "open", "put", "put_full"}
  BY DEF Realigning, Moved
<1>2. ~Boot /\ ~Find /\ ~Delete /\ ~Allocate /\ ~Return /\ ~Call
  BY <1>1 DEF Boot, LoadHeader, HeaderInit, InitErasedPage, InitUsedPage, InitFails, EraseAll,
              Find, FindSkip, FindMatch, FindAccept, FindPageEnd, FindNext, ReadDone, WriteFound,
              Delete, DeleteSkip, DeleteMismatch, DeleteMark, DeleteErase, Allocate, AllocFits,
              AllocFirst, AllocNoRealign, AllocRealign, AllocRetry, CloseActive, OpenNew, NoRoom,
              Return, Call, ReadItem, WriteItem, StartFind
<1>3. ~Fail
  BY <1>1 DEF Fail, Reset, PowerLoss, TornWrite, NoFaults
<1> QED BY <1>2, <1>3 DEF Next, Step, Write

\* A realign goes on until it erases its page, and what it has passed stays passed.
LEMMA RealignGoesOn ==
    ASSUME Known, NoFaults, [Next]_vars, Undisturbed, Realigning, ~RealignErase
    PROVE  /\ Realigning' /\ cur'.page = cur.page
           /\ \/ cur.off < cur'.off
              \/ /\ cur.off = cur'.off
                 /\ Put \/ pc = "put_full" => pc' = "put_full"
<1>0. /\ cur.off \in Nat /\ CallTypeOK /\ pc \in {"realign", "open", "put", "put_full"}
      /\ pc \in {"put", "put_full"} => ret = "realign"
  BY KnownTypes DEF Realigning, Moved
<1>1. CASE UNCHANGED vars /\ ~Put
  <2>1. UNCHANGED <<cur, pc, ret, flash>>
    BY <1>1 DEF vars
  <2> QED BY <1>0, <1>1, <2>1 DEF Realigning, Moved
<1>2. CASE RealignDrop \/ RealignFull \/ RealignFits
  <2>1. pc = "realign" /\ RealignOffs # {} /\ Moving
    BY <1>2 DEF RealignDrop, RealignFull, RealignFits, Moving
  <2>2. PICK o : o = FirstOff(RealignOffs)
    OBVIOUS
  <2>3. o \in Nat /\ cur.off <= o
    <3>1. o \in RealignOffs
      BY <2>1, <2>2, RealignOffIn
    <3> QED BY <3>1 DEF RealignOffs
  <2>4. pc' # "copied"
    BY <2>1 DEF Undisturbed, CutShort
  <2>5. /\ pc' \in {"realign", "open"} \/ (pc' = "put" /\ ret' = "realign")
        /\ cur' = [cur EXCEPT !.off = o] /\ ~Put
    BY <1>2, <2>1, <2>2, <2>4 DEF RealignDrop, RealignFull, RealignFits, Put
  <2>6. cur'.page = cur.page /\ cur'.off = o
    BY <1>0, <2>5 DEF CallTypeOK
  <2> QED BY <1>0, <2>1, <2>3, <2>5, <2>6 DEF Realigning, Moved
<1>3. CASE RealignOpen
  BY <1>0, <1>3 DEF RealignOpen, Realigning, Moved, Put
<1>4. CASE Put \/ PutFull
  <2>1. PutReturns \/ (Put /\ pc' = "put_full" /\ UNCHANGED <<cur, ret>>)
    BY <1>4 DEF Put, PutFull
  <2>2. ret = "realign" /\ pc \in {"put", "put_full"}
    BY <1>0, <1>4 DEF Put, PutFull
  <2>3. CASE PutReturns
    <3>1. PICK n \in Nat : n > 0 /\ n = Size(PutItem)
      BY <2>2, PutItemType DEF Known
    <3>2. pc' = "realign" /\ cur'.page = cur.page /\ cur'.off = cur.off + n
      BY <2>2, <2>3, <3>1, PutReturnsTo DEF Known
    <3> QED BY <1>0, <3>1, <3>2 DEF Realigning
  <2>4. CASE Put /\ pc' = "put_full" /\ UNCHANGED <<cur, ret>>
    BY <1>0, <2>2, <2>4 DEF Realigning, Moved
  <2> QED BY <2>1, <2>3, <2>4
<1> QED BY <1>1, <1>2, <1>3, <1>4, RealignSteps, PutFailsNot DEF Realign

\* So does what it has copied.
LEMMA SplitStays ==
    ASSUME Known, NoFaults, [Next]_vars, Undisturbed, ~RealignErase,
           NEW c \in Places, NEW d \in Places, Split(c, d), At(c)' = At(c), At(d)' = At(d)
    PROVE  Split(c, d)'
<1>1. Realigning /\ cur.off \in Nat /\ c[2] \in Nat
  BY KnownTypes, PlacesHere DEF Split
<1>2. /\ Realigning' /\ cur'.page = cur.page
      /\ \/ cur.off < cur'.off
         \/ cur.off = cur'.off /\ (pc = "put_full" => pc' = "put_full")
  BY <1>1, RealignGoesOn
<1>3. cur'.off \in Nat
  <2>1. IInv'
    BY NextIInv DEF Known
  <2> QED BY <2>1, TypeSplit DEF IInv, CallTypeOK
<1>4. \/ c[2] < cur.off
      \/ c[2] = cur.off /\ pc = "put_full"
  BY DEF Split
<1>5. c[2] < cur'.off \/ (c[2] = cur'.off /\ pc' = "put_full")
  BY <1>1, <1>2, <1>3, <1>4
<1>6. c[1] = cur'.page /\ d[1] # cur'.page /\ At(c)'.val = At(d)'.val
  BY <1>2 DEF Split
<1> QED BY <1>2, <1>5, <1>6 DEF Split

\* Which steps a call takes while its key has two copies.
LEMMA BothSteps ==
    ASSUME NoFaults, [Next]_vars, Both
    PROVE  DeleteSkip \/ DeleteMismatch \/ DeleteMark \/ PutFull \/ UNCHANGED vars
<1>1. pc \in {"put_full", "del"}
  BY DEF Both
<1>2. ~Boot /\ ~Find /\ ~Realign /\ ~Allocate /\ ~Return /\ ~Call
  BY <1>1 DEF Boot, LoadHeader, HeaderInit, InitErasedPage, InitUsedPage, InitFails, EraseAll,
              Find, FindSkip, FindMatch, FindAccept, FindPageEnd, FindNext, ReadDone, WriteFound,
              Realign, RealignDrop, RealignFull, RealignOpen, RealignFits, RealignErase, Moving,
              Allocate, AllocFits, AllocFirst, AllocNoRealign, AllocRealign, AllocRetry,
              CloseActive, OpenNew, NoRoom, Return, Call, ReadItem, WriteItem, StartFind
<1>3. ~Fail /\ ~PutFails /\ ~Put /\ ~DeleteErase
  BY <1>1 DEF Fail, Reset, PowerLoss, TornWrite, NoFaults, PutFails, Put, DeleteErase
<1> QED BY <1>2, <1>3 DEF Next, Step, Write, Delete

LEMMA NextUnique ==
    ASSUME Known, NoFaults, [Next]_vars, Undisturbed, ReplaceInv'
    PROVE  UniqueInv'
<1> SUFFICES ASSUME NEW k \in Keys, ~(Both' /\ k = op'.key),
                    NEW c \in Copies(k)', NEW d \in Copies(k)'
             PROVE  c = d \/ Split(c, d)' \/ Split(d, c)'
  BY DEF UniqueInv
<1>0. UniqueInv /\ PhaseInv /\ pc # "erase_all" /\ c \in Places /\ d \in Places
  BY CopyAt DEF Known, MapInv, PhaseInv
<1>1. CASE Replaced' /\ k = op'.key
  <2>1. PICK n \in Places : Copies(op.key)' = {n}
    BY <1>1 DEF ReplaceInv
  <2>2. Copies(op.key)' = Copies(k)'
    BY <1>1 DEF Copies, Holds
  <2> QED BY <2>1, <2>2
<1>2. CASE Both /\ k = op.key
  <2>1. CASE DeleteSkip \/ DeleteMismatch
    BY <2>1, DeleteFinds DEF DeleteSkip, DeleteMismatch
  <2>2. CASE DeleteMark
    BY <1>1, <1>2, <2>2 DEF DeleteMark, Replaced
  <2>3. CASE PutFull
    <3>1. /\ UNCHANGED op /\ op.kind = "write"
          /\ pc = "put_full" /\ ret = "write" /\ PutReturns
      BY <1>2, <2>3 DEF PutFull, Both, Known, IInv, Arguments
    <3>2. pc' = "del" \/ pc' = "return"
      BY <3>1, PutGoesOn
    <3> QED BY <1>1, <1>2, <3>1, <3>2 DEF Both, Replaced
  <2>4. CASE UNCHANGED vars
    BY <1>2, <2>4 DEF vars, Both
  <2> QED BY <1>2, <2>1, <2>2, <2>3, <2>4, BothSteps
<1>3. CASE ~(Both /\ k = op.key) /\ ~(Replaced' /\ k = op'.key)
  <2>1. \A x, y \in Copies(k) : x = y \/ Split(x, y) \/ Split(y, x)
    BY <1>0, <1>3 DEF UniqueInv
  <2>2. CASE LiveKept /\ ~RealignErase
    <3>1. Copies(k)' = Copies(k) /\ \A x \in Copies(k) : At(x)' = At(x)
      BY <2>2, CopiesKept
    <3> QED BY <1>0, <2>1, <2>2, <3>1, SplitStays
  <2>3. CASE DeleteMark
    <3>1. Copies(k)' \subseteq Copies(k)
      <4>1. PICK t : t = <<tgt.page, tgt.off>>
        OBVIOUS
      <4> QED BY <2>3, <4>1, MarkCopies
    <3>2. ~Realigning
      BY <2>3 DEF DeleteMark, Realigning, Moved
    <3> QED BY <2>1, <3>1, <3>2 DEF Split
  <2>4. CASE RealignErase
    <3>1. PICK p : p = cur.page
      OBVIOUS
    <3>2. c \in Copies(k) /\ d \in Copies(k) /\ c[1] # p /\ d[1] # p
      BY <2>4, <3>1, RealignEraseCopies
    <3> QED BY <2>1, <3>1, <3>2 DEF Split
  <2>5. CASE Put /\ ret = "write"
    <3>1. PutItem.key = op.key /\ UNCHANGED op /\ op.kind = "write"
      BY <2>5 DEF Put, PutItem, NewItem, Known, IInv, Arguments
    <3>2. pc' = "put_full" \/ pc' = "del" \/ pc' = "return"
      <4>1. PutReturns \/ pc' = "put_full"
        BY <2>5 DEF Put
      <4> QED BY <2>5, <4>1, PutGoesOn DEF Put
    <3>3. k # op.key
      <4>1. pc' = "put_full" => ret' = "write"
        BY <2>5 DEF Put, PutReturns, Finish
      <4> QED BY <1>3, <3>1, <3>2, <4>1 DEF Both, Replaced
    <3>4. Copies(k)' = Copies(k)
      <4>1. PICK n : Copies(k)' = Copies(k) \cup (IF PutItem.key = k THEN {n} ELSE {})
        BY <2>5, PutCopies
      <4> QED BY <3>1, <3>3, <4>1
    <3>5. ~Realigning
      BY <2>5 DEF Put, Realigning, Moved
    <3> QED BY <2>1, <3>4, <3>5 DEF Split
  <2>6. CASE Put /\ ret # "write"
    <3>1. Moved /\ ret = "realign" /\ pc = "put"
      BY <2>6 DEF Put, Moved, Known, IInv, Arguments
    <3>2. PICK h \in Places : /\ h = Here /\ h = <<cur.page, cur.off>>
                              /\ At(h).val \in Vals /\ PutItem = At(h)
      BY <3>1, MovedLives DEF PutItem, At, Here
    <3>3. PICK n \in Places :
             /\ n[1] = dst /\ At(n)' = PutItem /\ n \notin Copies(k)
             /\ Copies(k)' = Copies(k) \cup (IF PutItem.key = k THEN {n} ELSE {})
             /\ \A x \in Copies(k) : At(x)' = At(x)
      BY <2>6, PutCopies
    <3>4. \A x \in Copies(k), y \in Copies(k) : x = y \/ Split(x, y)' \/ Split(y, x)'
      <4>1. ~RealignErase
        BY <3>1 DEF RealignErase
      <4> QED BY <2>1, <3>3, <4>1, SplitStays, CopyAt
    <3>5. CASE PutItem.key # k
      BY <3>3, <3>4, <3>5
    <3>6. CASE PutItem.key = k
      <4>1. h \in Copies(k)
        BY <3>2, <3>6, CopyAt
      <4>2. ASSUME NEW x \in Copies(k) PROVE x = h
        <5>1. ~Split(h, x) /\ ~Split(x, h)
          BY <3>1, <3>2, KnownTypes DEF Split
        <5> QED BY <2>1, <4>1, <5>1
      <4>3. Split(h, n)'
        <5>1. Realigning /\ ~RealignErase
          BY <3>1 DEF Realigning, RealignErase
        <5>2. /\ Realigning' /\ cur'.page = cur.page
              /\ cur.off < cur'.off \/ (cur.off = cur'.off /\ pc' = "put_full")
          BY <2>6, <5>1, RealignGoesOn
        <5>3. dst # cur.page
          BY <3>1 DEF Known, CountInv, Destination
        <5>4. At(h)'.val = At(n)'.val
          BY <3>2, <3>3, <4>1
        <5> QED BY <3>2, <3>3, <5>2, <5>3, <5>4 DEF Split
      <4> QED BY <3>3, <3>6, <4>2, <4>3
    <3> QED BY <3>5, <3>6
  <2> QED BY <1>0, <2>2, <2>3, <2>4, <2>5, <2>6, StepKinds DEF Known
<1> QED BY <1>1, <1>2, <1>3

\* Once a page has been scanned, its status is one the flash can have.
LEMMA StatusStays ==
    ASSUME StateTypeOK, UNCHANGED pages \/ (\E p : \E s \in {"ACTIVE", "FULL"} : SetStatus(p, s))
                        \/ (\E p \in Pages : ErasePage(p)), NEW q \in Pages
    PROVE  pages'[q].status \in {pages[q].status} \cup FlashStatus
<1>1. pages \in [Pages -> RamPage]
  BY DEF StateTypeOK
<1>2. CASE UNCHANGED pages
  BY <1>2
<1>3. CASE \E p : \E s \in {"ACTIVE", "FULL"} : SetStatus(p, s)
  BY <1>1, <1>3 DEF SetStatus, RamPage, FlashStatus, ctxVars
<1>4. CASE \E p \in Pages : ErasePage(p)
  BY <1>1, <1>4 DEF ErasePage, RamPage, FlashStatus
<1> QED BY <1>2, <1>3, <1>4

LEMMA NextScanned ==
    ASSUME Known, NoFaults, [Next]_vars
    PROVE  ScannedInv'
<1> SUFFICES ASSUME NEW q \in Pages, Ready(q)' PROVE pages'[q].status # "UNAVAILABLE"
  BY DEF ScannedInv
<1>0. /\ StateTypeOK /\ CallTypeOK /\ ScannedInv /\ pc # "erase_all" /\ pages \in [Pages -> RamPage]
      /\ "UNAVAILABLE" \notin FlashStatus /\ cur.page \in Pages
  BY KnownTypes DEF Known, MapInv, PhaseInv, FlashStatus, StateTypeOK
<1>1. CASE Boot
  <2>1. CASE LoadHeader \/ HeaderInit
    <3>1. pc' \in {"scan", "format"} /\ cur'.page = 0
      BY <2>1 DEF LoadHeader, HeaderInit, Known, IInv, Mirrored
    <3> QED BY <3>1 DEF Ready, Loaded
  <2>2. CASE InitErasedPage \/ InitUsedPage
    <3>1. /\ PageDone /\ pc = "scan"
          /\ q # cur.page => pages'[q] = pages[q]
          /\ pages'[cur.page].status \in FlashStatus
      <4>1. CASE InitErasedPage
        BY <1>0, <4>1 DEF InitErasedPage, FlashStatus, RamPage
      <4>2. CASE InitUsedPage
        <5>1. PICK p \in Pages : p = cur.page
          BY <1>0
        <5>2. flash[p].status \in FlashStatus
          BY KnownTypes DEF FlashPage
        <5>3. \/ pages' = [pages EXCEPT ![p].status = "ERASED"]
              \/ \E n, b : pages' = [pages EXCEPT ![p] =
                     [status |-> flash[p].status, item_cnt |-> n, bytes_used |-> b]]
          BY <4>2, <5>1 DEF InitUsedPage
        <5>4. pages'[p].status \in FlashStatus /\ \A r \in Pages \ {p} : pages'[r] = pages[r]
          <6>1. CASE pages' = [pages EXCEPT ![p].status = "ERASED"]
            <7>1. \A r \in Pages \ {p} : pages'[r] = pages[r]
              BY <1>0, <6>1
            <7>2. pages'[p].status = "ERASED"
              BY <1>0, <6>1 DEF RamPage
            <7> QED BY <7>1, <7>2 DEF FlashStatus
          <6>2. CASE \E n, b : pages' = [pages EXCEPT ![p] =
                     [status |-> flash[p].status, item_cnt |-> n, bytes_used |-> b]]
            <7>1. PICK n, b : pages' = [pages EXCEPT ![p] =
                     [status |-> flash[p].status, item_cnt |-> n, bytes_used |-> b]]
              BY <6>2
            <7>2. \A r \in Pages \ {p} : pages'[r] = pages[r]
              BY <1>0, <7>1
            <7>3. pages'[p].status = flash[p].status
              BY <1>0, <7>1
            <7> QED BY <5>2, <7>2, <7>3
          <6> QED BY <5>3, <6>1, <6>2
        <5> QED BY <4>2, <5>1, <5>4 DEF InitUsedPage
      <4> QED BY <2>2, <4>1, <4>2
    <3>2. q # cur.page => Ready(q)
      BY <1>0, <3>1, PageDoneReady
    <3> QED BY <1>0, <3>1, <3>2 DEF ScannedInv
  <2>3. CASE InitFails
    BY <2>3 DEF InitFails, Ready, Loaded
  <2> QED BY <1>0, <1>1, <2>1, <2>2, <2>3 DEF Boot, EraseAll
<1>2. CASE Fail
  BY <1>2 DEF Fail, Reset, PowerLoss, TornWrite, Restart, Ready, Loaded
<1>3. CASE ~Boot /\ ~Fail
  <2>1. pages'[q].status \in {pages[q].status} \cup FlashStatus
    <3>1. CASE Find \/ Return \/ Call \/ UNCHANGED vars
      <4>1. UNCHANGED pages
        BY <3>1 DEF Find, FindSkip, FindMatch, FindAccept, FindPageEnd, FindNext, ReadDone,
                    WriteFound, Return, Call, ReadItem, WriteItem, StartFind, vars
      <4> QED BY <4>1
    <3>2. CASE Delete
      <4>1. CASE DeleteMark
        BY <1>0, <4>1 DEF DeleteMark, RamPage
      <4>2. CASE ~DeleteMark
        <5>1. UNCHANGED pages \/ (ErasePage(tgt.page) /\ pc = "del_erase")
          BY <3>2, <4>2 DEF Delete, DeleteSkip, DeleteMismatch, DeleteErase
        <5>2. pc = "del_erase" => tgt.page \in Pages
          BY DEF Known, CountInv, Located
        <5> QED BY <1>0, <5>1, <5>2, StatusStays
      <4> QED BY <4>1, <4>2
    <3>3. CASE Allocate
      <4>1. UNCHANGED pages \/ (\E p : \E s \in {"ACTIVE", "FULL"} : SetStatus(p, s))
        <5>1. CASE CloseActive
          BY <5>1 DEF CloseActive
        <5>2. CASE OpenNew
          BY <5>2 DEF OpenNew
        <5>3. CASE ~CloseActive /\ ~OpenNew
          BY <3>3, <5>3
             DEF Allocate, AllocFits, AllocFirst, AllocNoRealign, AllocRealign, AllocRetry
        <5> QED BY <5>1, <5>2, <5>3
      <4> QED BY <1>0, <4>1, StatusStays
    <3>4. CASE Realign
      <4>1. CASE RealignDrop
        BY <1>0, <4>1 DEF RealignDrop, RamPage
      <4>2. CASE ~RealignDrop
        <5>1. \/ UNCHANGED pages \/ (\E p : \E s \in {"ACTIVE", "FULL"} : SetStatus(p, s))
              \/ ErasePage(cur.page)
          <6>1. CASE RealignFull
            BY <6>1 DEF RealignFull
          <6>2. CASE RealignOpen
            BY <6>2 DEF RealignOpen
          <6>3. CASE RealignFits \/ RealignErase
            BY <6>3 DEF RealignFits, RealignErase
          <6> QED BY <3>4, <4>2, <6>1, <6>2, <6>3 DEF Realign
        <5> QED BY <1>0, <5>1, StatusStays
      <4> QED BY <4>1, <4>2
    <3>5. CASE Write
      BY <1>0, <3>5, SMTT(40) DEF Write, PutFails, Put, PutFull, RamPage, FlashStatus
    <3> QED BY <1>3, <3>1, <3>2, <3>3, <3>4, <3>5 DEF Next, Step
  <2>2. Ready(q)
    <3>1. CASE UNCHANGED vars
      BY <3>1 DEF vars, Ready, Loaded
    <3>2. CASE ~(UNCHANGED vars)
      <4>1. Loaded
        BY <1>3, <3>2
           DEF Next, Step, Loaded, Find, FindSkip, FindMatch, FindAccept, FindPageEnd, FindNext,
               ReadDone, WriteFound, Delete, DeleteSkip, DeleteMismatch, DeleteMark, DeleteErase,
               Realign, RealignDrop, RealignFull, RealignOpen, RealignFits, RealignErase, Moving,
               Allocate, AllocFits, AllocFirst, AllocNoRealign, AllocRealign, AllocRetry,
               CloseActive, OpenNew, NoRoom, Return, Call, ReadItem, WriteItem, StartFind,
               Write, PutFails, Put, PutFull
      <4> QED BY <4>1 DEF Ready
    <3> QED BY <3>1, <3>2
  <2> QED BY <1>0, <2>1, <2>2 DEF ScannedInv
<1> QED BY <1>1, <1>2, <1>3

LEMMA InitMapInv == Init => MapInv
<1> SUFFICES ASSUME Init PROVE MapInv
  OBVIOUS
<1>1. \A k \in Keys : Copies(k) = {}
  BY DEF Init, Copies, Holds, BlankPage, Blank
<1>2. ScannedInv
  BY DEF Init, ScannedInv, Ready, Loaded
<1>3. PhaseInv /\ SeekInv /\ ReplaceInv
  BY DEF Init, PhaseInv, SeekInv, ReplaceInv, Initing, Searching, Deleting, Moved, Replacing,
         Both, Replaced, NoSearch, NoOp
<1> QED BY <1>1, <1>2, <1>3 DEF MapInv, UniqueInv

LEMMA StutterMapInv == ASSUME MapInv, UNCHANGED vars PROVE MapInv'
<1>1. PhaseInv /\ SeekInv /\ ReplaceInv /\ UniqueInv /\ ScannedInv
  BY DEF MapInv
<1>2. PhaseInv'
  BY <1>1 DEF vars, PhaseInv, Initing, Searching, Deleting
<1>3. /\ UNCHANGED <<flash, op, srch, cur, pc, ret, dst>>
      /\ Copies(op.key)' = Copies(op.key) /\ Here' = Here /\ LastPlace' = LastPlace
      /\ \A k : Copies(k)' = Copies(k)
      /\ \A c : At(c)' = At(c) /\ (Seen(c)' <=> Seen(c))
  BY DEF vars, Copies, Holds, At, Here, LastPlace, Seen, Back
<1>4. /\ At(Here)' = At(Here) /\ At(LastPlace)' = At(LastPlace)
      /\ (Seen(LastPlace)' <=> Seen(LastPlace)) /\ OldPlaces' = OldPlaces
  BY <1>3 DEF At, Seen, Back, OldPlaces
<1>5. SeekInv'
  BY <1>1, <1>3, <1>4 DEF SeekInv, Searching
<1>6. ReplaceInv'
  BY <1>1, <1>3, <1>4 DEF ReplaceInv, Moved, Replacing, Both, Replaced
<1>7. \A c, d : Split(c, d)' <=> Split(c, d)
  BY <1>3 DEF Split, Realigning, Moved
<1>8. UniqueInv'
  BY <1>1, <1>3, <1>7 DEF UniqueInv, Both
<1>9. ScannedInv'
  BY <1>1 DEF vars, ScannedInv, Ready, Loaded
<1> QED BY <1>2, <1>5, <1>6, <1>8, <1>9 DEF MapInv

LEMMA NextMapInv ==
    ASSUME NoFaults, Known, [Next]_vars, [Undisturbed]_vars
    PROVE  MapInv'
<1>1. CASE UNCHANGED vars
  BY <1>1, StutterMapInv DEF Known
<1>2. CASE Next /\ Undisturbed
  <2>1. PhaseInv' /\ SeekInv' /\ ReplaceInv'
    BY <1>2, BootMap, FindMap, DeleteMap, AllocateMap, RealignMap, WriteMap, IdleMap, CallMap
       DEF Next, Step
  <2> QED BY <1>2, <2>1, NextScanned, NextUnique DEF MapInv
<1> QED BY <1>1, <1>2

\* The invariant of the map (storage.c, st_find_item and st_write_item with all they call):
\* as long as no call is cut short and no realign overtakes one, the search misses no copy,
\* the old copy is where it was found until the new one is written, and no key has two.
THEOREM MapKept ==
    ASSUME NoFaults
    PROVE  Spec /\ [][Undisturbed]_vars => []Known
<1>1. Known /\ [Next]_vars /\ [Undisturbed]_vars => Known'
  BY NextIInv, NextCountInv, NextMoveInv, NextSoleInv, NextMapInv DEF Known, NoFaults
<1>2. Init => Known
  BY InitIInv, InitCountInv, InitMoveInv, InitSoleInv, InitMapInv DEF Known
<1> QED BY <1>1, <1>2, PTL DEF Spec

LEMMA KnownOneCopy == Known => OneCopy
<1> SUFFICES ASSUME Known, pc = "idle", NEW k \in Keys PROVE Cardinality(Copies(k)) <= 1
  BY DEF OneCopy
<1>1. \A c, d \in Copies(k) : c = d
  BY DEF Known, MapInv, UniqueInv, Both, Split, Realigning, Moved
<1>2. Copies(k) = {} \/ \E c : Copies(k) = {c}
  BY <1>1
<1>3. CASE Copies(k) = {}
  BY <1>3, FS_EmptySet
<1>4. CASE \E c : Copies(k) = {c}
  <2>1. Cardinality(Copies(k)) = 1
    BY <1>4, FS_Singleton
  <2> QED BY <2>1
<1> QED BY <1>2, <1>3, <1>4

\* OneCopy (storage.c, st_write_item): as long as no call is cut short and no realign
\* overtakes one, between two calls no key has two copies.
THEOREM OneCopyKept ==
    ASSUME NoFaults
    PROVE  Spec /\ [][Undisturbed]_vars => []OneCopy
<1> QED BY MapKept, KnownOneCopy, PTL

-----------------------------------------------------------------------------
(***************************************************************************)
(* The map: what KVStore's variables are, and how a step changes them.     *)
(***************************************************************************)
\* The call has programmed its item for k.
Written(k) == op.kind = "write" /\ op.key = k /\ Programmed

LEMMA AbsWritten ==
    /\ \A k \in Keys : Written(k) => AbsStore[k] = op.val
    /\ \A k \in Keys : Written(k)' => AbsStore'[k] = op'.val
BY DEF Written, AbsStore

LEMMA StoredCopies ==
    /\ \A k : Stored(k) <=> Copies(k) # {}
    /\ \A k : Stored(k)' <=> Copies(k)' # {}
<1>1. ASSUME NEW k PROVE Stored(k) <=> Copies(k) # {}
  <2>1. ASSUME NEW p \in Pages, NEW o \in Offsets, Holds(p, o, k) PROVE Copies(k) # {}
    BY <2>1, CopiesHold
  <2>2. ASSUME NEW c \in Copies(k) PROVE Stored(k)
    BY <2>2, AnotherStored
  <2> QED BY <2>1, <2>2 DEF Stored
<1>2. ASSUME NEW k PROVE Stored(k)' <=> Copies(k)' # {}
  <2>1. ASSUME NEW p \in Pages, NEW o \in Offsets, Holds(p, o, k)' PROVE Copies(k)' # {}
    BY <2>1, CopiesHold
  <2>2. ASSUME NEW c \in Copies(k)' PROVE Stored(k)'
    BY <2>2 DEF Copies, Stored
  <2> QED BY <2>1, <2>2 DEF Stored
<1> QED BY <1>1, <1>2

\* A key without a copy has no value; with copies that agree it has theirs.
LEMMA AbsNone ==
    /\ \A k \in Keys : ~Written(k) /\ Copies(k) = {} => AbsStore[k] = NoVal
    /\ \A k \in Keys : ~(Written(k)') /\ Copies(k)' = {} => AbsStore'[k] = NoVal
BY StoredCopies DEF Written, AbsStore

LEMMA AbsSome ==
    ASSUME NEW k \in Keys, NEW v, ~Written(k), Copies(k) # {},
           \A c \in Copies(k) : At(c).val = v
    PROVE  AbsStore[k] = v
<1>1. PICK d : d = CHOOSE c \in Copies(k) : TRUE
  OBVIOUS
<1>2. d \in Copies(k)
  BY <1>1
<1>3. AbsStore[k] = flash[d[1]].cell[d[2]].val
  BY <1>1, StoredCopies DEF AbsStore, Written
<1> QED BY <1>2, <1>3 DEF At

LEMMA AbsSomeNext ==
    ASSUME NEW k \in Keys, NEW v, ~(Written(k)'), Copies(k)' # {},
           \A c \in Copies(k)' : At(c)'.val = v
    PROVE  AbsStore'[k] = v
<1>1. PICK d : d = CHOOSE c \in Copies(k)' : TRUE
  OBVIOUS
<1>2. d \in Copies(k)'
  BY <1>1
<1>3. AbsStore'[k] = flash'[d[1]].cell[d[2]].val
  BY <1>1, StoredCopies DEF AbsStore, Written
<1> QED BY <1>2, <1>3 DEF At

LEMMA AbsSame ==
    (\A k \in Keys : AbsStore'[k] = AbsStore[k]) => AbsStore' = AbsStore
BY DEF AbsStore

\* All copies of a key agree, but for the one being replaced.
LEMMA SameVal ==
    ASSUME Known, NEW k \in Keys, ~Written(k), NEW c \in Copies(k), NEW d \in Copies(k)
    PROVE  At(c).val = At(d).val
<1>1. ~(Both /\ k = op.key)
  <2>1. Both => op.kind = "write" /\ Programmed
    BY DEF Known, MapInv, PhaseInv, Both, Deleting, Searching, Initing, Programmed, IInv, Arguments
  <2> QED BY <2>1 DEF Written
<1> QED BY <1>1 DEF Known, MapInv, UniqueInv, Split

\* A step that leaves a key no other value than it had, and a value if it had one.
ValueKept(k) ==
    /\ Copies(k)' = {} <=> Copies(k) = {}
    /\ \A c \in Copies(k)' : \E d \in Copies(k) : At(c)'.val = At(d).val

LEMMA StepKeepsValue ==
    ASSUME Known, NoFaults, [Next]_vars, NEW k \in Keys,
           Put /\ ret = "write" => k # op.key,
           DeleteMark => k # op.key
    PROVE  ValueKept(k)
<1>0. pc # "erase_all"
  BY DEF Known, MapInv, PhaseInv
<1>1. CASE LiveKept
  BY <1>1, CopiesKept DEF ValueKept
<1>2. CASE DeleteMark
  <2>1. PICK t : t = <<tgt.page, tgt.off>>
    OBVIOUS
  <2>2. /\ At(t).key = op.key /\ Copies(k)' = Copies(k) \ {t}
        /\ \A c \in Copies(k) \ {t} : At(c)' = At(c)
    BY <1>2, <2>1, MarkCopies
  <2>3. t \notin Copies(k)
    BY <1>2, <2>2, CopyAt
  <2> QED BY <2>2, <2>3 DEF ValueKept
<1>3. CASE RealignErase
  <2>1. PICK p : p = cur.page
    OBVIOUS
  <2>2. /\ p \in Pages
        /\ Copies(k)' = {c \in Copies(k) : c[1] # p}
        /\ \A c \in Copies(k)' : At(c)' = At(c)
        /\ \A c \in Copies(k) : c[1] = p => c[2] < cur.off
    BY <1>3, <2>1, RealignEraseCopies
  <2>3. ASSUME NEW c \in Copies(k), c[1] = p PROVE \E d \in Copies(k) : d[1] # p
    <3>1. PICK o \in Offsets : c = <<p, o>> /\ o < cur.off
      BY <2>2, <2>3, CopyAt, PlacesHere
    <3>2. flash[p].cell[o].key = k /\ o \in LiveOffs(flash[p])
      BY <3>1, CopyAt DEF At, LiveOffs, Live
    <3>3. KeyElsewhere(p, k)
      BY <1>3, <2>1, <3>1, <3>2 DEF RealignErase, Known, MoveInv, Realigning, PassedBelow
    <3>4. PICK q \in Pages \ {p}, o2 \in Offsets : Holds(q, o2, k)
      BY <3>3 DEF KeyElsewhere
    <3>5. <<q, o2>> \in Copies(k)
      BY <3>4, CopiesHold
    <3> QED BY <3>5
  <2> QED BY <2>2, <2>3 DEF ValueKept
<1>4. CASE Put
  <2>1. PICK n \in Places :
           /\ At(n)' = PutItem /\ n \notin Copies(k)
           /\ Copies(k)' = Copies(k) \cup (IF PutItem.key = k THEN {n} ELSE {})
           /\ \A c \in Copies(k) : At(c)' = At(c)
    BY <1>4, PutCopies
  <2>2. CASE PutItem.key # k
    BY <2>1, <2>2 DEF ValueKept
  <2>3. CASE PutItem.key = k
    <3>1. ret = "realign" /\ pc = "put"
      BY <1>4, <2>3 DEF Put, PutItem, NewItem, Known, IInv, Arguments
    <3>2. PICK h \in Places : h = Here /\ At(h).val \in Vals /\ PutItem = At(h)
      BY <3>1, MovedLives DEF Moved, PutItem, At, Here
    <3>3. h \in Copies(k)
      BY <2>3, <3>2, CopyAt
    <3> QED BY <2>1, <2>3, <3>2, <3>3 DEF ValueKept
  <2> QED BY <2>2, <2>3
<1> QED BY <1>0, <1>1, <1>2, <1>3, <1>4, StepKinds DEF Known

\* Such a step leaves the map as it is, when the call has not programmed its item for the
\* key, or has before and after.
LEMMA ValueKeptAbs ==
    ASSUME Known, NEW k \in Keys, ValueKept(k), ~Written(k), ~(Written(k)')
    PROVE  AbsStore'[k] = AbsStore[k]
<1>1. CASE Copies(k) = {}
  BY <1>1, AbsNone DEF ValueKept
<1>2. CASE Copies(k) # {}
  <2>1. PICK v : \A c \in Copies(k) : At(c).val = v
    <3>1. PICK d \in Copies(k) : TRUE
      BY <1>2
    <3>2. \A c \in Copies(k) : At(c).val = At(d).val
      BY SameVal
    <3> QED BY <3>2
  <2>2. AbsStore[k] = v
    BY <1>2, <2>1, AbsSome
  <2>3. Copies(k)' # {} /\ \A c \in Copies(k)' : At(c)'.val = v
    BY <1>2, <2>1 DEF ValueKept
  <2>4. AbsStore'[k] = v
    BY <2>3, AbsSomeNext
  <2> QED BY <2>2, <2>4
<1> QED BY <1>1, <1>2

LEMMA MapStutter ==
    ASSUME Known, NoFaults, [Next]_vars, UNCHANGED op, Programmed' <=> Programmed,
           ~(Put /\ ret = "write"), ~(DeleteMark /\ ~Programmed)
    PROVE  AbsStore' = AbsStore
<1> SUFFICES ASSUME NEW k \in Keys PROVE AbsStore'[k] = AbsStore[k]
  BY AbsSame
<1>1. Written(k)' <=> Written(k)
  BY DEF Written
<1>2. CASE Written(k)
  BY <1>1, <1>2, AbsWritten
<1>3. CASE ~Written(k)
  <2>1. DeleteMark => k # op.key
    <3>1. DeleteMark => op.kind = "write"
      BY DEF DeleteMark, Known, MapInv, PhaseInv, Searching, Initing
    <3> QED BY <1>3, <3>1 DEF Written
  <2>2. ValueKept(k)
    BY <2>1, StepKeepsValue, SMTT(40)
  <2> QED BY <1>1, <1>3, <2>2, ValueKeptAbs
<1> QED BY <1>2, <1>3

\* A step that changes the map at the key of the call only.
LEMMA AbsUpdate ==
    ASSUME op.key \in Keys, AbsStore'[op.key] = op.val,
           \A k \in Keys \ {op.key} : AbsStore'[k] = AbsStore[k]
    PROVE  AbsStore' = [AbsStore EXCEPT ![op.key] = op.val]
<1>1. DOMAIN AbsStore = Keys
  BY DEF AbsStore
<1>2. \A k \in Keys : AbsStore'[k] = [AbsStore EXCEPT ![op.key] = op.val][k]
  BY <1>1
<1> QED BY <1>2, ZenonT(60) DEF AbsStore

\* The call has written: whatever the map held at its key, now it holds the new value.
LEMMA OpWritten ==
    ASSUME Known, NoFaults, [Next]_vars, MapInv', UNCHANGED op, op.kind = "write", op.key \in Keys,
           Programmed' \/ (pc' = "return" /\ ~(Programmed')), ~DeleteMark
    PROVE  AbsStore' = [AbsStore EXCEPT ![op.key] = op.val]
<1>1. PICK k \in Keys : k = op.key
  OBVIOUS
<1>2. AbsStore'[k] = op.val
  <2>1. CASE Programmed'
    BY <1>1, <2>1, AbsWritten DEF Written
  <2>2. CASE pc' = "return" /\ ~(Programmed')
    <3>1. (\E n \in Places : Copies(op.key) = {n} /\ At(n).val = op.val)'
      BY <2>2 DEF MapInv, ReplaceInv, Replaced
    <3>2. PICK n \in Places : Copies(op.key)' = {n} /\ At(n)'.val = op.val
      BY <3>1
    <3>3. Copies(k)' = {n}
      BY <1>1, <3>2 DEF Copies, Holds
    <3> QED BY <2>2, <3>2, <3>3, AbsSomeNext DEF Written
  <2> QED BY <2>1, <2>2
<1>3. ASSUME NEW j \in Keys \ {op.key} PROVE AbsStore'[j] = AbsStore[j]
  <2>1. ~Written(j) /\ ~(Written(j)')
    BY <1>3 DEF Written
  <2> QED BY <1>3, <2>1, StepKeepsValue, ValueKeptAbs
<1> QED BY <1>1, <1>2, <1>3, AbsUpdate

LEMMA QuietKV ==
    ASSUME Known, NoFaults, [Next]_vars, UNCHANGED op, Programmed' <=> Programmed,
           ~(Put /\ ret = "write"), ~(DeleteMark /\ ~Programmed),
           (pc # "return" /\ pc' # "return") \/ UNCHANGED <<pc, rc, srch>>
    PROVE  UNCHANGED KV!vars
<1>1. AbsReply' = AbsReply
  BY DEF AbsReply
<1> QED BY <1>1, MapStutter DEF KV!vars

\* A write answers.
LEMMA AnswerKV ==
    ASSUME UNCHANGED op, op.kind = "write", pc # "return", pc' = "return", rc' = "ok",
           AbsStore' = [AbsStore EXCEPT ![op.key] = op.val]
    PROVE  KV!Next
<1>1. op # NoOp
  BY DEF NoOp
<1>2. AbsReply = <<"none", NoVal>> /\ AbsReply' = <<"ok", NoVal>>
  BY DEF AbsReply
<1>3. KV!Answer
  BY <1>1, <1>2 DEF KV!Answer, KV!NoReply
<1> QED BY <1>3 DEF KV!Next

LEMMA FindKV ==
    ASSUME Known, NoFaults, Next, Find, MapInv'
    PROVE  KV!Next \/ UNCHANGED KV!vars
<1>1. /\ UNCHANGED op /\ Searching /\ PhaseInv /\ SeekInv /\ PhaseInv' /\ ret = "none"
  BY DEF Find, FindSkip, FindMatch, FindAccept, FindPageEnd, FindNext, ReadDone, WriteFound,
         Searching, Known, MapInv, PhaseInv
<1>2. CASE ~ReadDone
  <2>1. pc' \in {"accept", "next", "find", "alloc", "del"} /\ ret' # "old"
    BY <1>1, <1>2
       DEF Find, FindSkip, FindMatch, FindAccept, FindPageEnd, FindNext, WriteFound
  <2>2. pc # "return" /\ pc' # "return" /\ pc' # "put_full" /\ ~Put /\ ~DeleteMark
        /\ ~Programmed /\ ~(Programmed')
    BY <1>1, <2>1 DEF Searching, Put, DeleteMark, Programmed
  <2> QED BY <1>1, <2>2, QuietKV
<1>3. CASE ReadDone
  <2>1. /\ pc = "next" /\ LastPage(cur.page) = srch.start /\ op.kind = "read"
        /\ rc' = (IF srch.cnt = 0 THEN "absent" ELSE "ok") /\ pc' = "return"
        /\ UNCHANGED <<flash, srch, ret>>
    BY <1>3 DEF ReadDone, Finish
  <2>2. ~Programmed /\ ~(Programmed') /\ ~Put /\ ~DeleteMark
    BY <1>1, <2>1 DEF Programmed, Put, DeleteMark
  <2>3. AbsStore' = AbsStore
    BY <1>1, <2>2, MapStutter
  <2>4. PICK k \in Keys : k = op.key
    BY <2>1 DEF Known, IInv, Arguments
  <2>5. srch.hits = 0 /\ srch.cnt \in {0, 1}
    BY <1>1, <2>1, KnownTypes DEF SeekInv, Known, SoleInv, SearchInv
  <2>6. AbsReply = <<"none", NoVal>> /\ AbsReply' = <<rc', srch.res>>
    BY <1>1, <2>1 DEF AbsReply
  <2>7. IF AbsStore[k] = NoVal THEN rc' = "absent" /\ srch.res = NoVal
                               ELSE rc' = "ok" /\ srch.res = AbsStore[k]
    <3>1. CASE srch.cnt = 0
      <4>1. Copies(k) = {}
        BY <1>1, <2>1, <2>4, <2>5, <3>1, SeenAll, CopyAt DEF SeekInv
      <4>2. AbsStore[k] = NoVal
        BY <2>2, <4>1, AbsNone DEF Written
      <4> QED BY <1>1, <2>1, <2>5, <3>1, <4>2 DEF SeekInv
    <3>2. CASE srch.cnt = 1
      <4>1. PICK l : l = LastPlace /\ l \in Copies(k) /\ srch.res = At(l).val
        BY <1>1, <2>4, <2>5, <3>2 DEF SeekInv
      <4>2. \A c \in Copies(k) : At(c).val = srch.res
        BY <1>1, <2>4, <4>1, OneSearched
      <4>3. AbsStore[k] = srch.res
        BY <2>2, <4>1, <4>2, AbsSome DEF Written
      <4>4. srch.res \in Vals
        BY <4>1, CopyAt
      <4> QED BY <2>1, <3>2, <4>3, <4>4
    <3> QED BY <2>5, <3>1, <3>2
  <2>8. op # NoOp
    BY <2>1 DEF NoOp
  <2>9. KV!Answer
    BY <1>1, <2>1, <2>3, <2>4, <2>6, <2>7, <2>8 DEF KV!Answer, KV!NoReply
  <2> QED BY <2>9 DEF KV!Next
<1> QED BY <1>2, <1>3

LEMMA DeleteKV ==
    ASSUME Known, NoFaults, Next, Delete, MapInv'
    PROVE  KV!Next \/ UNCHANGED KV!vars
<1>1. /\ UNCHANGED <<op, ret>> /\ Deleting /\ ret = "old" /\ op.kind = "write" /\ op.key \in Keys
  BY DEF Delete, DeleteSkip, DeleteMismatch, DeleteMark, DeleteErase, Deleting, Known, MapInv,
         PhaseInv, Searching, Initing
<1>2. Programmed /\ Programmed'
  BY <1>1 DEF Programmed
<1>3. CASE DeleteMark
  <2>1. pc # "return" /\ pc' # "return" /\ ~Put
    BY <1>3 DEF DeleteMark, Put
  <2> QED BY <1>1, <1>2, <2>1, QuietKV
<1>4. CASE DeleteErase
  <2>1. pc # "return" /\ pc' = "return" /\ rc' = "ok" /\ ~DeleteMark
    BY <1>1, <1>4 DEF DeleteErase, DeleteMark, AfterDelete, Finish
  <2> QED BY <1>1, <1>2, <2>1, OpWritten, AnswerKV
<1> QED BY <1>3, <1>4, DeleteFinds DEF Delete, DeleteSkip, DeleteMismatch

LEMMA AllocateKV ==
    ASSUME Known, NoFaults, Next, Allocate \/ Realign, Undisturbed
    PROVE  UNCHANGED KV!vars
<1>1. /\ pc \in {"alloc", "copied", "full", "activate", "realign", "open"} /\ UNCHANGED op
      /\ rc' # "error" /\ ret # "old"
  BY DEF Allocate, AllocFits, AllocFirst, AllocNoRealign, AllocRealign, AllocRetry, CloseActive,
         OpenNew, NoRoom, Realign, RealignDrop, RealignFull, RealignOpen, RealignFits, RealignErase,
         Moving, Undisturbed, CutShort, Known, MapInv, PhaseInv, Deleting
<1>2. /\ pc' \in {"alloc", "realign", "copied", "full", "activate", "put", "open"}
      /\ ret' \in {ret, "write", "realign"}
  <2>1. CASE Allocate
    BY <1>1, <2>1
       DEF Allocate, AllocFits, AllocFirst, AllocNoRealign, AllocRealign, AllocRetry, CloseActive,
           OpenNew, NoRoom, UsePage, Finish
  <2>2. CASE Realign
    BY <2>2 DEF Realign, RealignDrop, RealignFull, RealignOpen, RealignFits, RealignErase, Moving
  <2> QED BY <2>1, <2>2
<1>3. ~Programmed /\ ~(Programmed') /\ ~Put /\ ~DeleteMark
  BY <1>1, <1>2 DEF Programmed, Put, DeleteMark
<1> QED BY <1>1, <1>2, <1>3, QuietKV

LEMMA WriteKV ==
    ASSUME Known, NoFaults, Next, Write, Undisturbed, MapInv'
    PROVE  KV!Next \/ UNCHANGED KV!vars
<1>1. (Put \/ PutFull) /\ UNCHANGED op /\ op.kind = "write" /\ op.key \in Keys
  BY PutFailsNot DEF Write, Put, PutFull, Known, IInv, Arguments
<1>2. /\ pc \in {"put", "put_full"} /\ ret \in {"write", "realign"}
      /\ (PutReturns \/ (Put /\ pc' = "put_full" /\ UNCHANGED <<ret, rc>>))
      /\ ~DeleteMark /\ UNCHANGED <<op, srch>>
  BY <1>1 DEF Put, PutFull, Known, IInv, Arguments, DeleteMark
<1>3. CASE ret = "realign"
  <2>1. pc' \in {"realign", "put_full"} /\ ret' = "realign"
    BY <1>2, <1>3, PutReturnsTo DEF Known
  <2>2. ~Programmed /\ ~(Programmed')
    BY <1>3, <2>1 DEF Programmed
  <2> QED BY <1>2, <1>3, <2>1, <2>2, QuietKV
<1>4. CASE ret = "write"
  <2>1. \/ Put /\ pc' = "put_full" /\ ret' = "write"
        \/ pc' = "del" /\ ret' = "old"
        \/ pc' = "return" /\ rc' = "ok" /\ ret' = "write"
    BY <1>2, <1>4, PutGoesOn
  <2>2. Programmed' \/ (pc' = "return" /\ ~(Programmed'))
    BY <2>1 DEF Programmed
  <2>3. AbsStore' = [AbsStore EXCEPT ![op.key] = op.val]
    BY <1>1, <1>2, <2>2, OpWritten
  <2>4. CASE pc' = "return"
    BY <1>1, <1>2, <2>1, <2>3, <2>4, AnswerKV
  <2>5. CASE pc' # "return"
    <3>1. AbsReply' = AbsReply
      BY <1>2, <2>5 DEF AbsReply
    <3>2. op # NoOp
      BY <1>1 DEF NoOp
    <3>3. KV!Apply
      BY <1>1, <1>2, <2>3, <3>1, <3>2 DEF KV!Apply
    <3> QED BY <3>3 DEF KV!Next
  <2> QED BY <2>4, <2>5
<1> QED BY <1>2, <1>3, <1>4

LEMMA IdleKV ==
    ASSUME Known, NoFaults, Next, Boot \/ Fail \/ Call \/ Return, MapInv'
    PROVE  KV!Next \/ UNCHANGED KV!vars
<1>1. CASE Boot \/ Fail
  <2>1. Initing /\ Initing' /\ PhaseInv /\ PhaseInv'
    BY <1>1 DEF Boot, LoadHeader, HeaderInit, InitErasedPage, InitUsedPage, InitFails, EraseAll,
                PageDone, Initing, Fail, Reset, PowerLoss, TornWrite, Restart, NoFaults, Known, MapInv
  <2>2. /\ UNCHANGED op /\ ~Programmed /\ ~(Programmed') /\ ~Put /\ ~DeleteMark
        /\ pc # "return" /\ pc' # "return"
    BY <2>1 DEF PhaseInv, Initing, Programmed, Put, DeleteMark
  <2> QED BY <2>2, QuietKV
<1>2. CASE Call
  <2>1. /\ pc = "idle" /\ pc' = "find" /\ UNCHANGED <<flash, ret>> /\ op = NoOp /\ ret = "none"
        /\ \E k \in Keys : \/ op' = [kind |-> "read", key |-> k, val |-> NoVal]
                           \/ \E v \in Vals : op' = [kind |-> "write", key |-> k, val |-> v]
    BY <1>2 DEF Call, ReadItem, WriteItem, StartFind, Known, MapInv, PhaseInv, Initing
  <2>2. ~Programmed /\ ~(Programmed')
    BY <2>1 DEF Programmed
  <2>3. AbsStore' = AbsStore
    <3> SUFFICES ASSUME NEW k \in Keys PROVE AbsStore'[k] = AbsStore[k]
      BY AbsSame
    <3>1. ~Written(k) /\ ~(Written(k)')
      BY <2>2 DEF Written
    <3>2. ValueKept(k)
      BY <2>1 DEF ValueKept, Copies, Holds, At
    <3> QED BY <3>1, <3>2, ValueKeptAbs
  <2>4. AbsReply' = AbsReply
    BY <2>1 DEF AbsReply
  <2>5. KV!Begin
    BY <2>1, <2>3, <2>4 DEF KV!Begin
  <2> QED BY <2>5 DEF KV!Next
<1>3. CASE Return
  <2>1. /\ pc = "return" /\ pc' = "idle" /\ op' = NoOp /\ ret' = "none" /\ UNCHANGED flash
        /\ op.kind \in {"read", "write"} /\ op.key \in Keys
    BY <1>3 DEF Return, Known, MapInv, PhaseInv, Initing
  <2>2. ASSUME NEW k \in Keys PROVE AbsStore'[k] = AbsStore[k]
    <3>1. ~(Written(k)')
      BY <2>1 DEF Written, NoOp
    <3>2. ValueKept(k)
      BY <2>1 DEF ValueKept, Copies, Holds, At
    <3>3. CASE ~Written(k)
      BY <3>1, <3>2, <3>3, ValueKeptAbs
    <3>4. CASE Written(k)
      <4>1. k = op.key /\ op.kind = "write"
        BY <3>4 DEF Written
      <4>2. PICK n \in Places : Copies(k) = {n} /\ At(n).val = op.val
        BY <2>1, <4>1 DEF Known, MapInv, ReplaceInv, Replaced
      <4>3. Copies(k)' = {n} /\ At(n)'.val = op.val
        BY <2>1, <4>2 DEF Copies, Holds, At
      <4>4. AbsStore'[k] = op.val
        BY <3>1, <4>3, AbsSomeNext
      <4> QED BY <3>4, <4>4, AbsWritten
    <3> QED BY <3>3, <3>4
  <2>3. AbsStore' = AbsStore
    BY <2>2, AbsSame
  <2>4. AbsReply' = <<"none", NoVal>>
    BY <2>1 DEF AbsReply
  <2>5. op # NoOp
    BY <2>1 DEF NoOp
  <2>6. KV!End
    BY <2>1, <2>3, <2>4, <2>5 DEF KV!End, KV!NoReply
  <2> QED BY <2>6 DEF KV!Next
<1> QED BY <1>1, <1>2, <1>3

LEMMA NextKV ==
    ASSUME Known, NoFaults, [Next]_vars, [Undisturbed]_vars, MapInv'
    PROVE  [KV!Next]_(KV!vars)
<1>1. CASE UNCHANGED vars
  BY <1>1 DEF vars, KV!vars, AbsStore, AbsReply, Programmed, Stored, Copies, Holds
<1>2. CASE Next /\ Undisturbed
  BY <1>2, FindKV, DeleteKV, AllocateKV, WriteKV, IdleKV DEF Next, Step
<1> QED BY <1>1, <1>2

LEMMA InitKV == Init => KV!Init
<1> SUFFICES ASSUME Init PROVE KV!Init
  OBVIOUS
<1>1. ASSUME NEW k \in Keys PROVE AbsStore[k] = NoVal
  <2>1. Copies(k) = {}
    BY DEF Init, Copies, Holds, BlankPage, Blank
  <2> QED BY <2>1, AbsNone DEF Init, Written, NoOp
<1>2. AbsStore = [k \in Keys |-> NoVal]
  BY <1>1 DEF AbsStore
<1> QED BY <1>2 DEF Init, KV!Init, KV!NoReply, AbsReply

\* KVSpec (storage.c, st_read_item and st_write_item with all they call): as long as no
\* call is cut short and no realign overtakes one, the store is the map KVStore describes,
\* for every number of pages and of keys and every sequence of calls, realigns and resets.
THEOREM MapImplemented ==
    ASSUME NoFaults
    PROVE  Spec /\ [][Undisturbed]_vars => KVSpec
<1>1. Known /\ Known' /\ [Next]_vars /\ [Undisturbed]_vars => [KV!Next]_(KV!vars)
  BY NextKV DEF Known
<1> QED BY <1>1, InitKV, MapKept, PTL DEF Spec, KVSpec, KV!Spec

-----------------------------------------------------------------------------
(***************************************************************************)
(* With pages enough, and items that never fill a page to within a header  *)
(* of its end, nothing is cut short or overtaken: there is always a full   *)
(* page with nothing left on it for a realign to erase.                    *)
(***************************************************************************)
\* How far the items written to a page can fill it.
Filling(S) == /\ 0 \in S
              /\ \A n \in S, v \in Vals : n + HeaderSize + ValLen[v] <= PageContent
                                          => n + HeaderSize + ValLen[v] \in S
Fills == {n \in 0 .. PageContent : \A S \in SUBSET (0 .. PageContent) : Filling(S) => n \in S}

\* Every item fits on a page; what is on a page always leaves room for one more header;
\* and there is a page for every key, for every page a restart leaves active, and four.
Roomy == /\ \A v \in Vals : HeaderSize + ValLen[v] <= PageContent
         /\ \A n \in Fills : n + HeaderSize < PageContent
         /\ IsFiniteSet(Keys)
         /\ NPages >= Cardinality(Keys) + MaxRestarts + 4

ActiveOpen == page_active \in Pages /\ pages[page_active].status = "ACTIVE"
Reserve    == IF ActiveOpen THEN 2 ELSE 4

\* The pages that a restart has left active and that are not the active one.
Stale == {p \in Pages : flash[p].status = "ACTIVE" /\ ~(Loaded /\ p = page_active)}

FillInv   == \A p \in Pages : flash[p].used \in Fills
StatusInv == \A p \in Pages : Ready(p) => pages[p].status = flash[p].status
StaleInv  == restarts <= MaxRestarts /\ Cardinality(Stale) <= restarts

\* st_init keeps no full page without an item, and takes a page in use for the active one.
BootInv ==
    /\ pc = "scan" => \A p \in Pages : p < cur.page /\ pages[p].status = "FULL"
                                       => LiveOffs(flash[p]) # {}
    /\ page_active = NoPage /\ pc # "activate" =>
          \A p \in Pages : Ready(p) => pages[p].status = "ERASED"

PlacesInv == FillInv /\ StatusInv /\ StaleInv /\ BootInv

\* What is left of the erased pages as st_get_available_page goes on.
StageInv ==
    /\ pc \notin {"erase_all", "open", "put_full"} /\ rc # "error"
    /\ Loaded /\ pc # "activate" => page_erased >= Reserve
    /\ pc = "realign" => ActiveOpen /\ RealignOffs = {}
    /\ pc = "copied" => ActiveOpen
    /\ pc \in {"copied", "full", "activate"} => page_erased >= 3
    /\ pc = "full" => dst = page_active /\ dst \in Pages
    /\ pc = "activate" => dst \in Pages /\ ~ActiveOpen
    /\ pc = "put" => /\ dst = page_active /\ ActiveOpen /\ ret = "write"
                     /\ pages[dst].bytes_used + Need <= PageContent

RoomInv == PlacesInv /\ StageInv

LEMMA FillsClosed ==
    /\ Fills \subseteq Nat /\ 0 \in Fills
    /\ \A n \in Fills, v \in Vals : n + HeaderSize + ValLen[v] <= PageContent
                                    => n + HeaderSize + ValLen[v] \in Fills
<1>1. Fills \subseteq Nat /\ 0 \in Fills
  BY DEF Fills, Filling
<1>2. ASSUME NEW n \in Fills, NEW v \in Vals, n + HeaderSize + ValLen[v] <= PageContent
      PROVE  n + HeaderSize + ValLen[v] \in Fills
  <2>1. n \in Nat /\ ValLen[v] \in Nat
    BY <1>1
  <2>2. n + HeaderSize + ValLen[v] \in 0 .. PageContent
    BY <1>2, <2>1
  <2>3. ASSUME NEW S \in SUBSET (0 .. PageContent), Filling(S)
        PROVE  n + HeaderSize + ValLen[v] \in S
    BY <1>2, <2>3 DEF Fills, Filling
  <2> QED BY <2>2, <2>3 DEF Fills
<1> QED BY <1>1, <1>2

\* Three kinds of pages make up the flash.
LEMMA PagesAdd ==
    ASSUME NEW E \in SUBSET Pages, NEW A \in SUBSET Pages, NEW F \in SUBSET Pages,
           Pages \subseteq E \cup A \cup F
    PROVE  /\ Cardinality(E) \in Nat /\ Cardinality(A) \in Nat /\ Cardinality(F) \in Nat
           /\ NPages <= Cardinality(E) + Cardinality(A) + Cardinality(F)
<1>1. IsFiniteSet(Pages) /\ Cardinality(Pages) = NPages
  BY FS_Interval
<1>2. IsFiniteSet(E) /\ IsFiniteSet(A) /\ IsFiniteSet(F)
  BY <1>1, FS_Subset
<1>3. /\ Cardinality(E) \in Nat /\ Cardinality(A) \in Nat /\ Cardinality(F) \in Nat
      /\ Cardinality(E \cap A) \in Nat /\ Cardinality((E \cup A) \cap F) \in Nat
  BY <1>2, FS_CardinalityType, FS_Intersection, FS_Union
<1>4. /\ Cardinality(E \cup A) = Cardinality(E) + Cardinality(A) - Cardinality(E \cap A)
      /\ Cardinality((E \cup A) \cup F) =
            Cardinality(E \cup A) + Cardinality(F) - Cardinality((E \cup A) \cap F)
  BY <1>2, FS_Union
<1>5. Pages = (E \cup A) \cup F
  OBVIOUS
<1>6. NPages = Cardinality((E \cup A) \cup F)
  BY <1>1, <1>5
<1>7. NPages = Cardinality(E) + Cardinality(A) - Cardinality(E \cap A)
               + Cardinality(F) - Cardinality((E \cup A) \cap F)
  BY <1>4, <1>6
<1>8. PICK e \in Nat, a \in Nat, f \in Nat, x \in Nat, y \in Nat :
        /\ e = Cardinality(E) /\ a = Cardinality(A) /\ f = Cardinality(F)
        /\ x = Cardinality(E \cap A) /\ y = Cardinality((E \cup A) \cap F)
  BY <1>3
<1>9. NPages = e + a - x + f - y
  BY <1>7, <1>8
<1>10. NPages <= e + a + f
  BY <1>9
<1> QED BY <1>3, <1>8, <1>10

\* No more pages than keys hold an item.
LEMMA HeldFew ==
    ASSUME Known, NoFaults, pc \in {"scan", "alloc"}, IsFiniteSet(Keys),
           NEW F \in SUBSET Pages, \A p \in F : LiveOffs(flash[p]) # {}
    PROVE  Cardinality(F) <= Cardinality(Keys)
<1>1. IsFiniteSet(F) /\ Cardinality(F) \in Nat /\ Cardinality(Keys) \in Nat
  <2>1. IsFiniteSet(Pages)
    BY FS_Interval
  <2>2. IsFiniteSet(F)
    BY <2>1, FS_Subset
  <2> QED BY <2>2, FS_CardinalityType
<1> SUFFICES ASSUME Cardinality(Keys) < Cardinality(F) PROVE FALSE
  BY <1>1
<1> DEFINE Off(p) == CHOOSE o \in Offsets : Live(flash[p].cell[o])
           g == [p \in F |-> flash[p].cell[Off(p)].key]
<1>2. ASSUME NEW p \in F
      PROVE  Off(p) \in Offsets /\ Live(flash[p].cell[Off(p)])
  BY DEF LiveOffs
<1>3. g \in [F -> Keys]
  BY <1>2 DEF Live
<1>4. PICK p \in F, q \in F : p # q /\ g[p] = g[q]
  <2> HIDE DEF g
  <2>1. \A h \in [F -> Keys] : \E p, q \in F : p # q /\ h[p] = h[q]
    <3> HIDE DEF Pages
    <3> QED BY <1>1, FS_PigeonHole
  <2> QED BY <1>3, <2>1
<1>5. PICK c, d : c = <<p, Off(p)>> /\ d = <<q, Off(q)>>
  BY Zenon
<1>6. g[p] \in Keys /\ c \in Copies(g[p]) /\ d \in Copies(g[p]) /\ c # d
  BY <1>2, <1>3, <1>4, <1>5, CopyAt, ZenonT(60) DEF At, Places, Live
<1>7. ~Both /\ \A x, y : ~Split(x, y)
  BY DEF Both, Split, Realigning, Moved
<1> QED BY <1>6, <1>7 DEF Known, MapInv, UniqueInv

\* The item being written fits the page it goes to, with room for another header.
LEMMA RoomAllowed ==
    ASSUME Known, RoomInv, Roomy, pc = "put"
    PROVE  /\ PutAllowed
           /\ pages[dst].bytes_used = flash[dst].used
           /\ Size(PutItem) = Need
           /\ pages[dst].bytes_used + Size(PutItem) \in Fills
           /\ ~(PageContent - (pages[dst].bytes_used + Size(PutItem)) < HeaderSize)
<1>1. PICK d \in Pages : d = dst
  BY DEF RoomInv, StageInv, ActiveOpen
<1>2. /\ ret = "write" /\ pages[d].status = "ACTIVE" /\ pages[d].bytes_used + Need <= PageContent
      /\ flash[d].used \in Fills
  BY <1>1 DEF RoomInv, StageInv, PlacesInv, FillInv, ActiveOpen
<1>3. pages[d].bytes_used = flash[d].used
  BY DEF Known, IInv, Mirrored, Loaded, Mirrors
<1>4. op.val \in Vals
  BY DEF Known, IInv, Arguments
<1>5. Size(PutItem) = Need
  BY <1>2, <1>4 DEF PutItem, NewItem, Size, Need
<1>6. PICK n \in Fills, v \in Vals : n = flash[d].used /\ v = op.val
  BY <1>2, <1>4
<1>7. /\ n \in Nat /\ ValLen[v] \in Nat /\ Need = HeaderSize + ValLen[v]
      /\ pages[dst].bytes_used = n
  BY <1>1, <1>3, <1>6, FillsClosed DEF Need
<1>8. n + HeaderSize + ValLen[v] \in Fills
  <2>1. n + HeaderSize + ValLen[v] <= PageContent
    BY <1>1, <1>2, <1>7
  <2> QED BY <2>1, FillsClosed
<1>9. PICK m \in Fills : m = n + HeaderSize + ValLen[v]
  BY <1>8
<1>10. m \in Nat /\ m + HeaderSize < PageContent /\ m = pages[dst].bytes_used + Size(PutItem)
  BY <1>5, <1>7, <1>9, FillsClosed DEF Roomy
<1>11. m < PageContent /\ ~(PageContent - m < HeaderSize)
  BY <1>10
<1> QED BY <1>1, <1>2, <1>3, <1>5, <1>10, <1>11 DEF PutAllowed, Valid

\* No step of a roomy store is cut short or overtaken.
LEMMA RoomUndisturbed ==
    ASSUME Known, NoFaults, Roomy, RoomInv, Next
    PROVE  Undisturbed
<1>1. ~Moving
  BY DEF RoomInv, StageInv, Moving
<1>2. ~Overtaken /\ ~RealignDrop /\ ~RealignFull /\ ~RealignFits /\ ~RealignOpen
  BY <1>1 DEF Overtaken, RealignDrop, RealignFull, RealignFits, RealignOpen, RoomInv, StageInv
<1>3. ~InitFails /\ ~EraseAll
  <2>1. pc # "erase_all"
    BY DEF RoomInv, StageInv
  <2>2. PICK p \in Pages : p = cur.page
    BY KnownTypes
  <2>3. PICK n \in Fills : n = flash[p].used
    BY DEF RoomInv, PlacesInv, FillInv
  <2>4. n \in Nat /\ n + HeaderSize < PageContent
    BY FillsClosed DEF Roomy
  <2>5. ~ScanFails(p)
    BY <2>3, <2>4 DEF ScanFails
  <2> QED BY <2>1, <2>2, <2>5 DEF InitFails, EraseAll
<1>4. ~DeleteMismatch /\ ~PutFails
  BY DeleteFinds, RoomAllowed DEF DeleteMismatch, PutFails
<1>5. pc = "activate" => FirstPage(dst, "ERASED") \in Pages
  <2> SUFFICES ASSUME pc = "activate" PROVE FirstPage(dst, "ERASED") \in Pages
    OBVIOUS
  <2>1. dst \in Pages /\ page_erased >= 3
    BY DEF RoomInv, StageInv
  <2>2. ErasedPages # {}
    <3>1. page_erased = Cardinality(ErasedPages) /\ page_erased # 0
      BY <2>1 DEF Known, CountInv, ErasedCounted
    <3> QED BY <3>1, FS_EmptySet
  <2>3. PICK q \in Pages : pages[q].status = "ERASED"
    BY <2>2 DEF ErasedPages
  <2>4. PICK S : S = {p \in Pages : pages[p].status = "ERASED"}
    OBVIOUS
  <2>5. \E p \in S : \A r \in S : Distance(dst, p) <= Distance(dst, r)
    <3>1. S \subseteq Pages /\ S # {}
      BY <2>3, <2>4
    <3> QED BY <2>1, <3>1, NearestPage
  <2>6. FirstPage(dst, "ERASED") =
           CHOOSE p \in S : \A r \in S : Distance(dst, p) <= Distance(dst, r)
    BY <2>1, <2>3, <2>4 DEF FirstPage, Valid
  <2>7. FirstPage(dst, "ERASED") \in S
    BY <2>5, <2>6, Zenon
  <2> QED BY <2>4, <2>7
<1>6. Deleting /\ AfterDelete => pc' \in {"accept", "next", "return"} /\ rc' \in {rc, "ok"}
  BY DEF Deleting, AfterDelete, Finish, Known, IInv, Arguments
<1>7. rc' # "error" /\ pc' # "erase_all"
  <2>1. rc # "error" /\ pc # "erase_all" /\ (pc = "copied" => page_active \in Pages)
    BY DEF RoomInv, StageInv, ActiveOpen
  <2>2. CASE Boot
    BY <2>1, <2>2, <1>3
       DEF Boot, LoadHeader, HeaderInit, InitErasedPage, InitUsedPage, PageDone, callVars
  <2>3. CASE Find \/ Return \/ Call
    BY <2>1, <2>3
       DEF Find, FindSkip, FindMatch, FindAccept, FindPageEnd, FindNext, ReadDone, WriteFound,
           Return, Call, ReadItem, WriteItem, StartFind, Finish
  <2>4. CASE Delete
    BY <2>1, <2>4, <1>4, <1>6
       DEF Delete, DeleteSkip, DeleteMark, DeleteErase, Deleting
  <2>5. CASE Allocate
    BY <2>1, <2>5, <1>5
       DEF Allocate, AllocFits, AllocFirst, AllocNoRealign, AllocRealign, AllocRetry, CloseActive,
           OpenNew, NoRoom, UsePage, Finish, Valid
  <2>6. CASE Realign
    BY <2>1, <2>6, <1>2 DEF Realign, RealignErase
  <2>7. CASE Write
    BY <2>1, <2>7, <1>4 DEF Write, Put, PutFull, PutReturns, Finish
  <2>8. CASE Fail
    BY <2>8 DEF Fail, Reset, PowerLoss, TornWrite, Restart
  <2> QED BY <2>2, <2>3, <2>4, <2>5, <2>6, <2>7, <2>8 DEF Next, Step
<1>8. ~(pc # "alloc" /\ pc' = "copied" /\ RealignOffs # {})
  <2>1. CASE Realign
    BY <2>1, <1>2 DEF Realign, RealignErase
  <2>2. CASE Delete
    BY <2>2, <1>4, <1>6 DEF Delete, DeleteSkip, DeleteMark, DeleteErase, Deleting
  <2>3. CASE ~Realign /\ ~Delete
    BY <2>3, <1>4
       DEF Next, Step, Boot, LoadHeader, HeaderInit, InitErasedPage, InitUsedPage, InitFails,
           EraseAll, PageDone, Find, FindSkip, FindMatch, FindAccept, FindPageEnd, FindNext, ReadDone,
           WriteFound, Return, Call, ReadItem, WriteItem, StartFind, Finish,
           Allocate, AllocFits, AllocFirst, AllocNoRealign, AllocRealign, AllocRetry, CloseActive,
           OpenNew, NoRoom, UsePage, Write, Put, PutFull, PutReturns, Fail, Reset, PowerLoss,
           TornWrite, Restart
  <2> QED BY <2>1, <2>2, <2>3
<1> QED BY <1>2, <1>7, <1>8 DEF Undisturbed, CutShort

\* A subset of the pages has so many pages or fewer.
LEMMA PagesSubset ==
    ASSUME NEW S \in SUBSET Pages, NEW T \in SUBSET S
    PROVE  /\ IsFiniteSet(S) /\ IsFiniteSet(T)
           /\ Cardinality(S) \in Nat /\ Cardinality(T) \in Nat
           /\ Cardinality(T) <= Cardinality(S)
<1>1. IsFiniteSet(Pages)
  BY FS_Interval
<1>2. IsFiniteSet(S)
  BY <1>1, FS_Subset
<1>3. IsFiniteSet(T) /\ Cardinality(T) <= Cardinality(S)
  BY <1>2, FS_Subset
<1> QED BY <1>2, <1>3, FS_CardinalityType

\* A step that opens and closes no page, in a store that is up.
LEMMA PlacesKept ==
    ASSUME Known, RoomInv, Loaded, Loaded', UNCHANGED <<page_active, restarts>>,
           pc = "activate" => pc' = "activate", FillInv',
           \A q \in Pages :
              \/ flash'[q].status = flash[q].status /\ pages'[q].status = pages[q].status
              \/ flash'[q].status = "ERASED" /\ pages'[q].status = "ERASED"
    PROVE  PlacesInv'
<1>1. \A q \in Pages : Ready(q) /\ Ready(q)'
  BY DEF Ready
<1>2. StatusInv'
  BY <1>1 DEF StatusInv, RoomInv, PlacesInv
<1>3. Stale' \subseteq Stale
  BY DEF Stale
<1>4. Stale \in SUBSET Pages /\ restarts \in Nat /\ restarts <= MaxRestarts
      /\ Cardinality(Stale) <= restarts
  BY KnownTypes DEF Stale, CallTypeOK, RoomInv, PlacesInv, StaleInv
<1>5. StaleInv'
  <2>1. PICK S, T : S = Stale /\ T = Stale'
    OBVIOUS
  <2>2. Cardinality(T) <= Cardinality(S) /\ Cardinality(T) \in Nat /\ Cardinality(S) \in Nat
    BY <1>3, <1>4, <2>1, PagesSubset
  <2>3. Cardinality(T) <= restarts
    BY <1>4, <2>1, <2>2
  <2> QED BY <1>4, <2>1, <2>3 DEF StaleInv
<1>6. BootInv'
  BY <1>1 DEF BootInv, RoomInv, PlacesInv, Loaded
<1> QED BY <1>2, <1>5, <1>6 DEF PlacesInv

\* One that leaves the flash and what the RAM says of it alone.
LEMMA PlacesQuiet ==
    ASSUME Known, RoomInv, Loaded, Loaded', UNCHANGED <<flash, pages, page_active, restarts>>,
           pc = "activate" => pc' = "activate"
    PROVE  PlacesInv' /\ ActiveOpen' = ActiveOpen
<1>1. FillInv'
  BY DEF RoomInv, PlacesInv, FillInv
<1>2. \A q \in Pages : flash'[q].status = flash[q].status /\ pages'[q].status = pages[q].status
  OBVIOUS
<1> QED BY <1>1, <1>2, PlacesKept DEF ActiveOpen

LEMMA FindRoom ==
    ASSUME Known, RoomInv, Find \/ Return \/ Call
    PROVE  RoomInv'
<1>1. /\ Loaded /\ Loaded' /\ pc' \in {"accept", "next", "find", "del", "return", "alloc", "idle"}
      /\ UNCHANGED <<flash, pages, page_erased, page_active, restarts>>
      /\ pc # "activate" /\ rc' \in {rc, "absent", "ok", "none"}
  BY DEF Find, FindSkip, FindMatch, FindAccept, FindPageEnd, FindNext, ReadDone, WriteFound,
         Return, Call, ReadItem, WriteItem, StartFind, Finish, Loaded
<1>2. PlacesInv' /\ ActiveOpen' = ActiveOpen
  BY <1>1, PlacesQuiet
<1>3. StageInv'
  BY <1>1, <1>2 DEF RoomInv, StageInv, Reserve
<1> QED BY <1>2, <1>3 DEF RoomInv

\* The erase of a full page.
LEMMA EraseRoom ==
    ASSUME Known, RoomInv, Loaded, Loaded', UNCHANGED <<page_active, restarts>>,
           pc # "activate", NEW p \in Pages, ErasePage(p), pages[p].status = "FULL"
    PROVE  PlacesInv' /\ ActiveOpen' = ActiveOpen /\ page_erased' = page_erased + 1
<1>1. /\ flash \in [Pages -> FlashPage] /\ pages \in [Pages -> RamPage]
  BY KnownTypes DEF StateTypeOK
<1>2. /\ flash' = [flash EXCEPT ![p] = BlankPage]
      /\ pages' = [pages EXCEPT ![p] = [status |-> "ERASED", item_cnt |-> 0, bytes_used |-> 0]]
      /\ page_erased' = page_erased + 1
  BY DEF ErasePage
<1>3. /\ \A q \in Pages \ {p} : flash'[q] = flash[q] /\ pages'[q] = pages[q]
      /\ flash'[p].status = "ERASED" /\ flash'[p].used = 0 /\ pages'[p].status = "ERASED"
  BY <1>1, <1>2 DEF BlankPage
<1>4. FillInv'
  BY <1>3, FillsClosed DEF FillInv, RoomInv, PlacesInv
<1>5. PlacesInv'
  BY <1>3, <1>4, PlacesKept
<1>6. ActiveOpen' = ActiveOpen
  BY <1>3 DEF ActiveOpen
<1> QED BY <1>2, <1>5, <1>6

LEMMA DeleteRoom ==
    ASSUME Known, NoFaults, RoomInv, Delete
    PROVE  RoomInv'
<1>1. DeleteMark \/ DeleteErase
  BY DeleteFinds DEF Delete, DeleteSkip, DeleteMismatch
<1>2. /\ Loaded /\ pc' \in {"del_erase", "accept", "next", "return"} /\ Loaded'
      /\ rc' \in {rc, "ok"} /\ pc # "activate"
      /\ UNCHANGED <<page_active, restarts>> /\ tgt.page \in Pages
      /\ tgt.off \in Offsets /\ page_erased \in Nat
  <2>1. AfterDelete /\ pc = "del_erase" => pc' \in {"accept", "next", "return"} /\ rc' \in {rc, "ok"}
    BY DEF AfterDelete, Finish, Known, IInv, Arguments
  <2>2. /\ pc \in {"del", "del_erase"} /\ pc' \in {"del_erase", "accept", "next", "return"}
        /\ rc' \in {rc, "ok"} /\ UNCHANGED <<page_active, restarts>>
    BY <1>1, <2>1 DEF DeleteMark, DeleteErase, callVars
  <2> QED BY <2>2, KnownTypes DEF Loaded, Known, CountInv, Located, StateTypeOK
<1>3. PlacesInv' /\ ActiveOpen' = ActiveOpen /\ page_erased' \in {page_erased, page_erased + 1}
  <2>1. CASE DeleteMark
    <3>1. PICK p \in Pages, o \in Offsets : p = tgt.page /\ o = tgt.off
      BY <1>2
    <3>2. flash \in [Pages -> FlashPage] /\ pages \in [Pages -> RamPage]
      BY KnownTypes DEF StateTypeOK
    <3>3. /\ flash' = [flash EXCEPT ![p].cell[o] = Erased(@)]
          /\ pages' = [pages EXCEPT ![p].item_cnt = @ - 1]
          /\ page_erased' = page_erased
      BY <2>1, <3>1 DEF DeleteMark
    <3>4. /\ \A q \in Pages : flash'[q].status = flash[q].status /\ flash'[q].used = flash[q].used
          /\ \A q \in Pages : pages'[q].status = pages[q].status
      BY <3>2, <3>3 DEF FlashPage, RamPage
    <3>5. FillInv'
      BY <3>4 DEF FillInv, RoomInv, PlacesInv
    <3>6. PlacesInv'
      BY <1>2, <3>4, <3>5, PlacesKept
    <3> QED BY <1>2, <3>3, <3>4, <3>6 DEF ActiveOpen
  <2>2. CASE DeleteErase
    <3>1. CASE Emptied(tgt.page)
      <4>1. ErasePage(tgt.page) /\ pages[tgt.page].status = "FULL"
        BY <2>2, <3>1 DEF DeleteErase, Emptied
      <4> QED BY <1>2, <4>1, EraseRoom
    <3>2. CASE ~Emptied(tgt.page)
      BY <1>2, <2>2, <3>2, PlacesQuiet DEF DeleteErase
    <3> QED BY <3>1, <3>2
  <2> QED BY <1>1, <2>1, <2>2
<1>4. StageInv'
  BY <1>2, <1>3 DEF RoomInv, StageInv, Reserve
<1> QED BY <1>3, <1>4 DEF RoomInv

LEMMA RealignRoom ==
    ASSUME Known, NoFaults, RoomInv, Realign
    PROVE  RoomInv'
<1>1. RealignErase /\ ActiveOpen /\ pc = "realign"
  BY DEF RoomInv, StageInv, Moving, Realign, RealignDrop, RealignFull, RealignOpen, RealignFits,
         RealignErase
<1>2. /\ ErasePage(cur.page) /\ pages[cur.page].status = "FULL" /\ cur.page \in Pages
      /\ Loaded /\ Loaded' /\ pc' = "copied" /\ UNCHANGED <<page_active, restarts, rc>>
  BY <1>1, KnownTypes DEF RealignErase, Known, CountInv, Destination, Loaded, callVars
<1>3. PlacesInv' /\ ActiveOpen' = ActiveOpen /\ page_erased' = page_erased + 1
  BY <1>1, <1>2, EraseRoom
<1>4. page_erased \in Nat /\ page_erased >= 2 /\ rc # "error"
  BY <1>1, <1>2, KnownTypes DEF RoomInv, StageInv, Reserve, StateTypeOK
<1>5. StageInv'
  BY <1>1, <1>2, <1>3, <1>4 DEF StageInv, Reserve
<1> QED BY <1>3, <1>5 DEF RoomInv

LEMMA WriteRoom ==
    ASSUME Known, NoFaults, Roomy, RoomInv, Write
    PROVE  RoomInv'
<1>1. Put /\ pc = "put" /\ ActiveOpen /\ ret = "write"
  BY RoomAllowed DEF RoomInv, StageInv, Write, PutFails, Put, PutFull
<1>2. /\ PutReturns
      /\ flash' = [flash EXCEPT ![dst] = AppendItem(@, pages[dst].bytes_used, PutItem)]
      /\ page_active' = dst /\ UNCHANGED <<page_erased, restarts>>
  BY <1>1, RoomAllowed DEF Put
<1>3. PICK d \in Pages : d = dst /\ page_active = d
  BY <1>1 DEF RoomInv, StageInv, ActiveOpen
<1>4. /\ pages[d].status = "ACTIVE" /\ pages'[d].status = "ACTIVE"
      /\ flash'[d].used = flash[d].used + Size(PutItem)
      /\ \A q \in Pages \ {d} : flash'[q] = flash[q] /\ pages'[q] = pages[q]
  BY <1>1, <1>3, PutDoes DEF Known
<1>5. flash'[d].status = flash[d].status
  BY <1>2, <1>3, KnownTypes DEF AppendItem, StateTypeOK
<1>6. FillInv'
  <2>1. flash'[d].used \in Fills
    BY <1>1, <1>3, <1>4, RoomAllowed
  <2> QED BY <1>4, <2>1 DEF FillInv, RoomInv, PlacesInv
<1>7. /\ pc' \in {"del", "return"} /\ rc' \in {rc, "ok"} /\ Loaded /\ Loaded' /\ page_active' = page_active
  BY <1>1, <1>2, <1>3 DEF PutReturns, Finish, Loaded
<1>8. PlacesInv'
  BY <1>1, <1>2, <1>4, <1>5, <1>6, <1>7, PlacesKept
<1>9. ActiveOpen'
  BY <1>3, <1>4, <1>7 DEF ActiveOpen
<1>10. StageInv'
  BY <1>1, <1>2, <1>7, <1>9 DEF RoomInv, StageInv, Reserve
<1> QED BY <1>8, <1>10 DEF RoomInv

\* The full page st_realign chooses in a roomy store has no item left to move.
LEMMA RealignEmpty ==
    ASSUME Known, NoFaults, Roomy, RoomInv, AllocRealign, pc = "alloc", ActiveOpen
    PROVE  pc' = "realign" /\ RealignOffs' = {}
<1>1. /\ page_erased <= 2 /\ page_erased \in Nat /\ restarts \in Nat /\ restarts <= MaxRestarts
      /\ page_erased = Cardinality(ErasedPages) /\ Cardinality(Keys) \in Nat /\ Loaded
      /\ Cardinality(Stale) <= restarts
  BY KnownTypes, FS_CardinalityType
     DEF AllocRealign, RealignReserve, StateTypeOK, CallTypeOK, Known, CountInv, ErasedCounted,
         Roomy, RoomInv, PlacesInv, StaleInv, Loaded
<1>2. PICK A : A = {p \in Pages : pages[p].status = "ACTIVE"}
  OBVIOUS
<1>3. A \subseteq Stale \cup {page_active}
  BY <1>1, <1>2 DEF Stale, RoomInv, PlacesInv, StatusInv, Ready
<1>4. Cardinality(A) \in Nat /\ Cardinality(A) <= restarts + 1
  <2>1. PICK S : S = Stale
    OBVIOUS
  <2>2. S \in SUBSET Pages /\ page_active \in Pages
    BY <2>1 DEF Stale, ActiveOpen
  <2>3. IsFiniteSet(S) /\ Cardinality(S) \in Nat
    BY <2>2, PagesSubset
  <2>4. Cardinality(S \cup {page_active}) <= Cardinality(S) + 1
    <3>1. \/ Cardinality(S \cup {page_active}) = Cardinality(S)
          \/ Cardinality(S \cup {page_active}) = Cardinality(S) + 1
      BY <2>3, FS_AddElement, Zenon
    <3> QED BY <2>3, <3>1
  <2>5. /\ Cardinality(A) <= Cardinality(S \cup {page_active}) /\ Cardinality(A) \in Nat
        /\ Cardinality(S \cup {page_active}) \in Nat
    BY <1>3, <2>1, <2>2, PagesSubset
  <2> QED BY <1>1, <2>1, <2>3, <2>4, <2>5
<1>5. /\ FullPages \in SUBSET Pages /\ ErasedPages \in SUBSET Pages /\ A \in SUBSET Pages
      /\ Pages \subseteq ErasedPages \cup A \cup FullPages
  <2>1. ASSUME NEW p \in Pages PROVE pages[p].status \in FlashStatus
    BY <1>1, <2>1, KnownTypes DEF RoomInv, PlacesInv, StatusInv, Ready, FlashPage
  <2> QED BY <1>2, <2>1 DEF ErasedPages, FullPages, FlashStatus
<1>6. Cardinality(FullPages) \in Nat /\ Cardinality(FullPages) > Cardinality(Keys)
  <2>1. PICK E, F : E = ErasedPages /\ F = FullPages
    OBVIOUS
  <2>2. /\ Cardinality(E) \in Nat /\ Cardinality(F) \in Nat
        /\ NPages <= Cardinality(E) + Cardinality(A) + Cardinality(F)
    BY <1>5, <2>1, PagesAdd
  <2>3. PICK e \in Nat, a \in Nat, f \in Nat, k \in Nat :
           e = Cardinality(E) /\ a = Cardinality(A) /\ f = Cardinality(F) /\ k = Cardinality(Keys)
    BY <1>1, <1>4, <2>2
  <2>4. NPages <= e + a + f /\ e <= 2 /\ a <= restarts + 1 /\ NPages >= k + MaxRestarts + 4
    BY <1>1, <1>4, <2>1, <2>2, <2>3 DEF Roomy
  <2>5. f > k
    BY <1>1, <2>4
  <2> QED BY <2>1, <2>3, <2>5
<1>7. PICK e \in FullPages : LiveOffs(flash[e]) = {}
  BY <1>1, <1>5, <1>6, HeldFew DEF Roomy
<1>8. /\ pc' = "realign" /\ cur' = [page |-> RealignPage, off |-> 0]
      /\ UNCHANGED <<flash, pages>>
  BY <1>7 DEF AllocRealign
<1>9. PICK r \in Pages : r = RealignPage
  BY <1>7, RealignPageFound DEF Known, IInv
<1>10. LiveOffs(flash[r]) = {}
  <2>1. pages[e].item_cnt = 0
    <3>1. e \in Pages /\ pages[e].item_cnt \in Nat /\ pages[e].item_cnt <= Cardinality(LiveOffs(flash[e]))
      BY <1>5, <1>7, KnownTypes DEF Known, CountInv, PagesFine, PageFine, CountFine, RamPage
    <3> QED BY <1>7, <3>1, FS_EmptySet
  <2>2. pages[r].item_cnt <= pages[e].item_cnt
    BY <1>7, <1>9, RealignPageFound DEF Known, IInv
  <2>3. Cardinality(LiveOffs(flash[r])) <= pages[r].item_cnt /\ pages[r].item_cnt \in Nat
    BY <1>1, <1>9, KnownTypes
       DEF Known, CountInv, PagesFine, PageFine, CountFine, RamPage, NoFaults, Ready, Uncounted
  <2>4. Cardinality(LiveOffs(flash[r])) = 0
    BY <2>1, <2>2, <2>3, LiveFinite
  <2> QED BY <2>4, LiveNone
<1>11. \A o \in Offsets : flash[r].cell[o].key = NoKey
  BY <1>9, <1>10, AllVerify DEF LiveOffs, Live, Known
<1>12. RealignOffs' = {}
  BY <1>8, <1>9, <1>11 DEF RealignOffs, Passed
<1> QED BY <1>8, <1>12

\* A page is closed or opened: what changes is its status, and what is counted of it.
LEMMA StatusSteps ==
    ASSUME Known, RoomInv, Loaded, NEW p \in Pages, NEW s \in {"ACTIVE", "FULL"}, SetStatus(p, s),
           pages[p].status # s
    PROVE  /\ \A q \in Pages \ {p} : flash'[q] = flash[q] /\ pages'[q].status = pages[q].status
           /\ flash'[p].status = Burn(flash[p].status, s) /\ flash'[p].used = flash[p].used
           /\ pages'[p].status = s /\ pages'[p].bytes_used = pages[p].bytes_used
           /\ page_erased' = (IF pages[p].status = "ERASED" THEN page_erased - 1 ELSE page_erased)
           /\ page_active' = (IF s = "ACTIVE" THEN p
                              ELSE IF pages[p].status = "ACTIVE" THEN NoPage ELSE page_active)
           /\ FillInv'
<1>1. flash \in [Pages -> FlashPage] /\ pages \in [Pages -> RamPage] /\ page_erased \in Nat
  BY KnownTypes DEF StateTypeOK
<1>2. /\ flash' = [flash EXCEPT ![p].status = Burn(@, s)]
      /\ pages' = [pages EXCEPT ![p].status = s]
      /\ page_erased' = Opened(p)
      /\ page_active' = (IF s = "ACTIVE" THEN p
                         ELSE IF pages[p].status = "ACTIVE" THEN NoPage ELSE page_active)
  BY DEF SetStatus, Valid
<1>3. /\ \A q \in Pages \ {p} : flash'[q] = flash[q] /\ pages'[q] = pages[q]
      /\ flash'[p].status = Burn(flash[p].status, s) /\ flash'[p].used = flash[p].used
      /\ pages'[p].status = s /\ pages'[p].bytes_used = pages[p].bytes_used
  BY <1>1, <1>2 DEF FlashPage, RamPage
<1>4. pages[p].status = "ERASED" => page_erased > 0
  <2> SUFFICES ASSUME pages[p].status = "ERASED" PROVE page_erased > 0
    OBVIOUS
  <2>1. p \in ErasedPages
    BY DEF ErasedPages
  <2>2. Cardinality(ErasedPages) # 0
    BY <2>1, ErasedPagesFinite, FS_EmptySet
  <2> QED BY <1>1, <2>2 DEF Known, CountInv, ErasedCounted
<1>5. FillInv'
  BY <1>3 DEF FillInv, RoomInv, PlacesInv
<1> QED BY <1>2, <1>3, <1>4, <1>5 DEF Opened

LEMMA CloseRoom ==
    ASSUME Known, RoomInv, CloseActive
    PROVE  RoomInv'
<1>1. /\ pc = "full" /\ pc' = "activate" /\ Loaded /\ Loaded' /\ UNCHANGED <<restarts, rc, dst>>
      /\ dst \in Pages /\ dst = page_active /\ SetStatus(dst, "FULL")
  BY DEF CloseActive, RoomInv, StageInv, Loaded, callVars
<1>2. /\ page_erased \in Nat /\ page_erased >= 3 /\ page_erased >= Reserve /\ rc # "error"
  BY <1>1, KnownTypes DEF RoomInv, StageInv, StateTypeOK
<1>3. PICK d \in Pages : d = dst
  BY <1>1
<1>4. pages[d].status = flash[d].status /\ d = page_active
  BY <1>1, <1>3 DEF RoomInv, PlacesInv, StatusInv, Ready
<1>5. CASE pages[d].status = "FULL"
  <2>1. UNCHANGED <<flash, pages, page_active, page_erased>>
    BY <1>1, <1>3, <1>5 DEF SetStatus, ctxVars
  <2>2. PlacesInv' /\ ~ActiveOpen /\ ~(ActiveOpen')
    BY <1>1, <1>3, <1>4, <1>5, <2>1, PlacesQuiet DEF ActiveOpen
  <2>3. StageInv'
    BY <1>1, <1>2, <2>1, <2>2 DEF StageInv
  <2> QED BY <2>2, <2>3 DEF RoomInv
<1>6. CASE pages[d].status # "FULL"
  <2>1. /\ \A q \in Pages \ {d} : flash'[q] = flash[q] /\ pages'[q].status = pages[q].status
        /\ flash'[d].status = "FULL" /\ pages'[d].status = "FULL"
        /\ page_erased' = (IF pages[d].status = "ERASED" THEN page_erased - 1 ELSE page_erased)
        /\ page_active' = (IF pages[d].status = "ACTIVE" THEN NoPage ELSE page_active)
        /\ FillInv'
    BY <1>1, <1>3, <1>4, <1>6, StatusSteps DEF Burn
  <2>2. StatusInv'
    BY <1>1, <2>1 DEF RoomInv, PlacesInv, StatusInv, Ready
  <2>3. StaleInv'
    <3>1. Stale' \subseteq Stale
      BY <1>1, <1>4, <2>1 DEF Stale
    <3>2. PICK S, T : S = Stale /\ T = Stale'
      OBVIOUS
    <3>3. S \in SUBSET Pages /\ restarts \in Nat
      BY <3>2, KnownTypes DEF Stale, CallTypeOK
    <3>4. Cardinality(T) <= Cardinality(S) /\ Cardinality(T) \in Nat /\ Cardinality(S) \in Nat
      BY <3>1, <3>2, <3>3, PagesSubset
    <3>5. Cardinality(S) <= restarts /\ restarts <= MaxRestarts
      BY <3>2 DEF RoomInv, PlacesInv, StaleInv
    <3>6. Cardinality(T) <= restarts
      BY <3>3, <3>4, <3>5
    <3> QED BY <1>1, <3>2, <3>5, <3>6 DEF StaleInv
  <2>4. BootInv'
    BY <1>1 DEF BootInv
  <2>5. ~(ActiveOpen')
    <3>1. page_active' = NoPage \/ page_active' = d
      BY <1>4, <2>1
    <3>2. NoPage \notin Pages /\ pages'[d].status # "ACTIVE"
      BY <2>1
    <3> QED BY <3>1, <3>2 DEF ActiveOpen
  <2>6. page_erased' >= 3
    BY <1>2, <1>4, <2>1 DEF Reserve, ActiveOpen
  <2>7. StageInv'
    BY <1>1, <1>2, <2>5, <2>6 DEF StageInv
  <2> QED BY <2>1, <2>2, <2>3, <2>4, <2>7 DEF RoomInv, PlacesInv
<1> QED BY <1>5, <1>6

LEMMA OpenRoom ==
    ASSUME Known, NoFaults, Roomy, RoomInv, OpenNew, Undisturbed
    PROVE  RoomInv'
<1>1. /\ pc = "activate" /\ Loaded /\ UNCHANGED restarts /\ ~ActiveOpen
      /\ page_erased \in Nat /\ page_erased >= 3 /\ rc # "error"
  BY KnownTypes DEF OpenNew, RoomInv, StageInv, Loaded, StateTypeOK
<1>2. PICK p \in Pages : p = FirstPage(dst, "ERASED")
  BY DEF OpenNew, Finish, Undisturbed, CutShort, Valid
<1>3. /\ SetStatus(p, "ACTIVE") /\ pages[p].status = "ERASED" /\ dst' = p /\ pc' = "put"
      /\ ret' = "write" /\ UNCHANGED <<rc, op>> /\ Loaded'
  BY <1>2, FirstPageFound DEF OpenNew, UsePage, Valid, Loaded
<1>4. /\ \A q \in Pages \ {p} : flash'[q] = flash[q] /\ pages'[q].status = pages[q].status
      /\ pages'[p].status = "ACTIVE" /\ pages'[p].bytes_used = pages[p].bytes_used
      /\ page_erased' = page_erased - 1 /\ page_active' = p /\ FillInv'
      /\ flash'[p].status = Burn(flash[p].status, "ACTIVE")
  BY <1>1, <1>3, StatusSteps
<1>5. flash[p].status = "ERASED" /\ pages[p].bytes_used = flash[p].used /\ flash[p] = BlankPage
  BY <1>1, <1>3 DEF RoomInv, PlacesInv, StatusInv, Ready, Known, IInv, Mirrored, Mirrors, FlashShape
<1>6. StatusInv'
  BY <1>1, <1>4, <1>5 DEF RoomInv, PlacesInv, StatusInv, Ready, Burn
<1>7. StaleInv'
  <2>1. Stale' \subseteq Stale
    <3> SUFFICES ASSUME NEW q \in Stale' PROVE q \in Stale
      OBVIOUS
    <3>1. q \in Pages /\ q # p /\ flash[q].status = "ACTIVE"
      BY <1>3, <1>4 DEF Stale
    <3>2. pages[q].status = "ACTIVE"
      BY <1>1, <3>1 DEF RoomInv, PlacesInv, StatusInv, Ready
    <3>3. q # page_active
      BY <1>1, <3>1, <3>2 DEF ActiveOpen
    <3> QED BY <3>1, <3>3 DEF Stale
  <2>2. PICK S, T : S = Stale /\ T = Stale'
    OBVIOUS
  <2>3. S \in SUBSET Pages /\ restarts \in Nat
    BY <2>2, KnownTypes DEF Stale, CallTypeOK
  <2>4. Cardinality(T) <= Cardinality(S) /\ Cardinality(T) \in Nat /\ Cardinality(S) \in Nat
    BY <2>1, <2>2, <2>3, PagesSubset
  <2>5. Cardinality(S) <= restarts /\ restarts <= MaxRestarts
    BY <2>2 DEF RoomInv, PlacesInv, StaleInv
  <2>6. Cardinality(T) <= restarts
    BY <2>3, <2>4, <2>5
  <2> QED BY <1>1, <2>2, <2>5, <2>6 DEF StaleInv
<1>8. BootInv'
  BY <1>3, <1>4 DEF BootInv
<1>9. ActiveOpen'
  BY <1>4 DEF ActiveOpen
<1>10. pages'[p].bytes_used + Need' <= PageContent
  <2>1. pages'[p].bytes_used = 0
    BY <1>4, <1>5 DEF BlankPage
  <2>2. op'.val \in Vals
    BY <1>1, <1>3 DEF Known, IInv, Arguments
  <2>3. Need' <= PageContent /\ Need' \in Nat
    BY <2>2 DEF Need, Roomy
  <2>4. PICK n \in Nat, b \in Nat : n = Need' /\ b = pages'[p].bytes_used
    BY <2>1, <2>3
  <2>5. b + n <= PageContent
    <3>1. b = 0
      BY <2>1, <2>4
    <3>2. n <= PageContent
      BY <2>3, <2>4
    <3> QED BY <3>1, <3>2
  <2> QED BY <2>4, <2>5
<1>11. StageInv'
  BY <1>1, <1>3, <1>4, <1>9, <1>10 DEF StageInv, Reserve
<1> QED BY <1>4, <1>6, <1>7, <1>8, <1>11 DEF RoomInv, PlacesInv

LEMMA AllocateRoom ==
    ASSUME Known, NoFaults, Roomy, RoomInv, Allocate, Undisturbed
    PROVE  RoomInv'
<1>1. CASE CloseActive
  BY <1>1, CloseRoom
<1>2. CASE OpenNew
  BY <1>2, OpenRoom
<1>3. CASE ~CloseActive /\ ~OpenNew
  <2>1. /\ Loaded /\ Loaded' /\ pc \in {"alloc", "copied"}
        /\ UNCHANGED <<flash, pages, page_erased, page_active, op, restarts>>
        /\ page_erased \in Nat /\ page_erased >= Reserve /\ op.val \in Vals
    <3>1. page_erased \in Nat /\ pc \in {"alloc", "copied"} /\ op.val \in Vals
      BY <1>3, KnownTypes
         DEF Allocate, AllocFits, AllocFirst, AllocNoRealign, AllocRealign, AllocRetry, NoRoom,
             StateTypeOK, Known, IInv, Arguments
    <3>2. /\ Loaded /\ Loaded'
          /\ UNCHANGED <<flash, pages, page_erased, page_active, op, restarts>>
      BY <1>3
         DEF Allocate, AllocFits, AllocFirst, AllocNoRealign, AllocRealign, AllocRetry, NoRoom,
             UsePage, Finish, Loaded
    <3> QED BY <3>1, <3>2 DEF RoomInv, StageInv
  <2>2. PlacesInv' /\ ActiveOpen' = ActiveOpen /\ Reserve' = Reserve
    BY <2>1, PlacesQuiet DEF Reserve
  <2>3. rc' # "error" /\ rc # "error"
    BY DEF Undisturbed, CutShort, RoomInv, StageInv
  <2>4. AllocPage = page_active
    <3>1. page_active \in Pages \cup {NoPage}
      BY KnownTypes DEF StateTypeOK
    <3>2. CASE page_active = NoPage
      <4>1. \A p \in Pages : pages[p].status = "ERASED"
        BY <2>1, <3>2 DEF RoomInv, PlacesInv, BootInv, Ready
      <4>2. FirstPage(0, "ACTIVE") = NoPage
        BY <4>1, FirstPageFound
      <4> QED BY <3>2, <4>2 DEF AllocPage
    <3> QED BY <3>1, <3>2 DEF AllocPage, Valid
  <2>5. Need \in Nat \ {0} /\ Need' = Need
    BY <2>1 DEF Need
  <2>6. ASSUME Valid(page_active), Fits(page_active, Need), pc' = "put", dst' = page_active,
               ret' = "write"
        PROVE  StageInv'
    <3>1. PICK a \in Pages : a = page_active
      BY <2>6 DEF Valid
    <3>2. pages[a].status = "ACTIVE"
      BY <2>5, <2>6, <3>1, FitsActive
    <3>3. pages[a].bytes_used \in Nat /\ Need <= PageContent - pages[a].bytes_used
      BY <2>6, <3>1, <3>2, KnownTypes DEF Fits, FreeSize, Valid, RamPage
    <3>4. pages'[dst'].bytes_used + Need' <= PageContent
      BY <2>1, <2>5, <2>6, <3>1, <3>3
    <3>5. ActiveOpen'
      BY <2>2, <3>1, <3>2 DEF ActiveOpen
    <3> QED BY <2>1, <2>2, <2>3, <2>6, <3>4, <3>5 DEF StageInv
  <2>7. CASE AllocFits
    BY <2>2, <2>4, <2>6, <2>7 DEF AllocFits, UsePage, Fits, FreeSize, RoomInv
  <2>8. CASE AllocFirst
    <3>1. ~ActiveOpen /\ dst' \in Pages /\ pc' = "activate"
      BY <2>4, <2>8 DEF AllocFirst, Valid, ActiveOpen
    <3>2. page_erased' >= 3
      BY <2>1, <3>1 DEF Reserve
    <3> QED BY <2>1, <2>2, <2>3, <3>1, <3>2 DEF StageInv, RoomInv
  <2>9. CASE AllocNoRealign
    <3>1. dst' = page_active /\ page_active \in Pages /\ pc' = "full" /\ page_erased > 2
      BY <2>4, <2>9 DEF AllocNoRealign, NoRoom, Valid, RealignReserve
    <3> QED BY <2>1, <2>2, <2>3, <3>1 DEF StageInv, RoomInv
  <2>10. CASE AllocRealign
    <3>1. ActiveOpen /\ pc = "alloc"
      BY <2>1, <2>10 DEF AllocRealign, NoRoom, RealignReserve, Reserve
    <3>2. pc' = "realign" /\ RealignOffs' = {}
      BY <2>10, <3>1, RealignEmpty
    <3> QED BY <2>1, <2>2, <2>3, <3>1, <3>2 DEF StageInv, RoomInv
  <2>11. CASE AllocRetry
    <3>1. ActiveOpen /\ page_erased >= 3 /\ pc = "copied"
      BY <2>11 DEF AllocRetry, RoomInv, StageInv
    <3>2. CASE Fits(page_active, Need)
      BY <2>2, <2>6, <2>11, <3>1, <3>2
         DEF AllocRetry, ActiveOpen, Valid, UsePage, Fits, FreeSize, RoomInv
    <3>3. CASE ~Fits(page_active, Need)
      <4>1. pc' = "full" /\ dst' = page_active
        BY <2>11, <3>3 DEF AllocRetry
      <4> QED BY <2>1, <2>2, <2>3, <3>1, <4>1 DEF StageInv, ActiveOpen, RoomInv
    <3> QED BY <3>2, <3>3
  <2> QED BY <1>3, <2>2, <2>7, <2>8, <2>9, <2>10, <2>11 DEF Allocate, RoomInv
<1> QED BY <1>1, <1>2, <1>3

\* Where st_init is through with the pages, at least four of them are erased.
LEMMA BootLeaves ==
    ASSUME Known, NoFaults, Roomy, RoomInv, pc = "scan", Known', StatusInv', Loaded',
           NEW p, p = cur.page,
           \A q \in Pages : flash'[q].status = "ACTIVE" => flash[q].status = "ACTIVE",
           \A q \in Pages \ {p} : pages'[q] = pages[q] /\ q < p,
           pages'[p].status = "FULL" => LiveOffs(flash[p]) # {}
    PROVE  page_erased' >= 4 /\ page_erased' \in Nat
<1>1. PICK E, A, F : /\ E = {q \in Pages : pages'[q].status = "ERASED"}
                     /\ A = {q \in Pages : pages'[q].status = "ACTIVE"}
                     /\ F = {q \in Pages : pages'[q].status = "FULL"}
  OBVIOUS
<1>2. /\ E \in SUBSET Pages /\ A \in SUBSET Pages /\ F \in SUBSET Pages
      /\ \A q \in Pages : pages'[q].status = flash'[q].status
  BY <1>1 DEF StatusInv, Ready
<1>3. flash' \in [Pages -> FlashPage]
  BY DEF Known, IInv, TypeOK
<1>4. Pages \subseteq E \cup A \cup F
  BY <1>1, <1>2, <1>3 DEF FlashPage, FlashStatus
<1>5. page_erased' = Cardinality(E)
  BY <1>1 DEF Known, CountInv, ErasedCounted, ErasedPages
<1>6. PICK S : S = Stale
  OBVIOUS
<1>7. S \in SUBSET Pages /\ A \in SUBSET S /\ Cardinality(S) <= restarts
      /\ restarts \in Nat /\ restarts <= MaxRestarts
  BY <1>1, <1>2, <1>6, KnownTypes
     DEF Stale, Loaded, RoomInv, PlacesInv, StaleInv, CallTypeOK
<1>8. Cardinality(A) <= Cardinality(S) /\ Cardinality(A) \in Nat /\ Cardinality(S) \in Nat
  BY <1>7, PagesSubset
<1>9. \A q \in F : LiveOffs(flash[q]) # {}
  <2> SUFFICES ASSUME NEW q \in F PROVE LiveOffs(flash[q]) # {}
    OBVIOUS
  <2>1. q \in Pages /\ pages'[q].status = "FULL"
    BY <1>1
  <2>2. q # p => pages[q].status = "FULL" /\ q < cur.page
    BY <2>1
  <2> QED BY <2>1, <2>2 DEF RoomInv, PlacesInv, BootInv
<1>10. Cardinality(F) <= Cardinality(Keys) /\ Cardinality(Keys) \in Nat
  BY <1>2, <1>9, HeldFew, FS_CardinalityType DEF Roomy
<1>11. /\ Cardinality(E) \in Nat /\ Cardinality(F) \in Nat
       /\ NPages <= Cardinality(E) + Cardinality(A) + Cardinality(F)
  BY <1>2, <1>4, PagesAdd
<1>12. PICK e \in Nat, a \in Nat, f \in Nat, k \in Nat :
          e = Cardinality(E) /\ a = Cardinality(A) /\ f = Cardinality(F) /\ k = Cardinality(Keys)
  BY <1>8, <1>10, <1>11
<1>13. a <= restarts
  <2>1. PICK m \in Nat : m = Cardinality(S)
    BY <1>8
  <2> QED BY <1>7, <1>8, <1>12, <2>1
<1>14. NPages <= e + a + f /\ f <= k /\ NPages >= k + MaxRestarts + 4
  BY <1>10, <1>11, <1>12 DEF Roomy
<1>15. e >= 4
  BY <1>7, <1>13, <1>14
<1> QED BY <1>5, <1>12, <1>15

LEMMA ScanRoom ==
    ASSUME Known, NoFaults, Roomy, RoomInv, Known', InitErasedPage \/ InitUsedPage
    PROVE  RoomInv'
<1>1. PICK p \in Pages : p = cur.page
  BY KnownTypes
<1>2. /\ pc = "scan" /\ PageDone /\ UNCHANGED <<restarts, rc>> /\ rc # "error"
      /\ ~Loaded /\ page_erased \in Nat /\ restarts \in Nat
      /\ flash \in [Pages -> FlashPage] /\ pages \in [Pages -> RamPage]
  BY KnownTypes
     DEF InitErasedPage, InitUsedPage, RoomInv, StageInv, Loaded, StateTypeOK, CallTypeOK
<1>3. /\ \A q \in Pages \ {p} : flash'[q] = flash[q] /\ pages'[q] = pages[q]
      /\ flash'[p].status \in {flash[p].status, "ERASED"} /\ flash'[p].used \in Fills
      /\ pages'[p].status = flash'[p].status
      /\ page_active' = NoPage => page_active = NoPage /\ pages'[p].status = "ERASED"
      /\ pages'[p].status = "FULL" => LiveOffs(flash[p]) # {}
  <2>1. flash[p].used \in Fills
    BY DEF RoomInv, PlacesInv, FillInv
  <2>2. CASE InitErasedPage
    BY <1>1, <1>2, <2>1, <2>2 DEF InitErasedPage, flashVars, RamPage
  <2>3. CASE InitUsedPage
    <3>1. page_active' = p /\ p # NoPage /\ flash[p].status \in {"ACTIVE", "FULL"}
      BY <1>1, <1>2, <2>3 DEF InitUsedPage, FlashPage, FlashStatus
    <3>2. CASE flash[p].status = "FULL" /\ ItemCount(flash[p]) = 0
      <4>1. /\ flash' = [flash EXCEPT ![p] = BlankPage]
            /\ pages' = [pages EXCEPT ![p].status = "ERASED"]
        BY <1>1, <2>3, <3>2 DEF InitUsedPage
      <4> QED BY <1>2, <3>1, <4>1, FillsClosed DEF BlankPage, RamPage
    <3>3. CASE ~(flash[p].status = "FULL" /\ ItemCount(flash[p]) = 0)
      <4>1. /\ flash' = [flash EXCEPT ![p] = Scanned(@)]
            /\ \E n, b : pages' = [pages EXCEPT ![p] =
                  [status |-> flash[p].status, item_cnt |-> n, bytes_used |-> b]]
        BY <1>1, <2>3, <3>3 DEF InitUsedPage
      <4>2. Scanned(flash[p]).status = flash[p].status /\ Scanned(flash[p]).used = flash[p].used
        BY <1>2 DEF Scanned, FlashPage
      <4>3. flash[p].status = "FULL" => LiveOffs(flash[p]) # {}
        BY <3>3, FS_EmptySet DEF ItemCount
      <4> QED BY <1>2, <2>1, <3>1, <4>1, <4>2, <4>3
    <3> QED BY <3>2, <3>3
  <2> QED BY <2>2, <2>3
<1>4. /\ IF p + 1 \in Pages THEN pc' = "scan" /\ cur'.page = p + 1
                            ELSE pc' = "idle" /\ \A q \in Pages \ {p} : q < p
      /\ ~(Loaded') <=> p + 1 \in Pages
  BY <1>1, <1>2, KnownTypes, SMTT(40) DEF PageDone, CallTypeOK, Loaded
<1>5. \A q \in Pages : Ready(q)' => q = p \/ (Ready(q) /\ q < p)
  BY <1>1, <1>2, <1>4 DEF Ready, Loaded
<1>6. FillInv'
  BY <1>3 DEF FillInv, RoomInv, PlacesInv
<1>7. StatusInv'
  BY <1>3, <1>5 DEF StatusInv, RoomInv, PlacesInv
<1>8. StaleInv'
  <2>1. Stale' \subseteq Stale
    BY <1>2, <1>3 DEF Stale
  <2>2. PICK S, T : S = Stale /\ T = Stale'
    OBVIOUS
  <2>3. S \in SUBSET Pages
    BY <2>2 DEF Stale
  <2>4. Cardinality(T) <= Cardinality(S) /\ Cardinality(T) \in Nat /\ Cardinality(S) \in Nat
    BY <2>1, <2>2, <2>3, PagesSubset
  <2>5. Cardinality(S) <= restarts /\ restarts <= MaxRestarts
    BY <2>2 DEF RoomInv, PlacesInv, StaleInv
  <2>6. Cardinality(T) <= restarts
    BY <1>2, <2>4, <2>5
  <2> QED BY <1>2, <2>2, <2>5, <2>6 DEF StaleInv
<1>9. BootInv'
  <2>1. ASSUME pc' = "scan", NEW q \in Pages, q < cur'.page, pages'[q].status = "FULL"
        PROVE  LiveOffs(flash'[q]) # {}
    <3>1. LiveOffs(flash[q]) # {}
      <4>1. CASE q = p
        BY <1>3, <2>1, <4>1
      <4>2. CASE q # p
        BY <1>1, <1>2, <1>3, <1>4, <2>1, <4>2, SMTT(40) DEF RoomInv, PlacesInv, BootInv
      <4> QED BY <4>1, <4>2
    <3>2. CASE q # p
      BY <1>3, <3>1, <3>2
    <3>3. CASE q = p
      <4>1. LiveKept
        <5>1. CASE InitErasedPage
          BY <5>1 DEF InitErasedPage, flashVars, LiveKept
        <5> QED BY <5>1, BootLive DEF Known
      <4>2. PICK o \in Offsets : Live(flash[q].cell[o])
        BY <3>1 DEF LiveOffs
      <4>3. Live(flash'[q].cell[o])
        BY <4>1, <4>2 DEF LiveKept, Live
      <4> QED BY <4>3 DEF LiveOffs
    <3> QED BY <3>2, <3>3
  <2>2. ASSUME page_active' = NoPage, NEW q \in Pages, Ready(q)'
        PROVE  pages'[q].status = "ERASED"
    BY <1>2, <1>3, <1>5, <2>2 DEF RoomInv, PlacesInv, BootInv
  <2> QED BY <2>1, <2>2 DEF BootInv
<1>10. StageInv'
  <2>1. CASE p + 1 \in Pages
    BY <1>2, <1>4, <2>1 DEF StageInv
  <2>2. CASE p + 1 \notin Pages
    <3>1. pc' = "idle" /\ Loaded' /\ \A q \in Pages \ {p} : q < p
      BY <1>4, <2>2
    <3>2. \A q \in Pages : flash'[q].status = "ACTIVE" => flash[q].status = "ACTIVE"
      BY <1>3
    <3>3. page_erased' >= 4 /\ page_erased' \in Nat
      BY <1>1, <1>2, <1>3, <1>7, <3>1, <3>2, BootLeaves
    <3> QED BY <1>2, <3>1, <3>3 DEF StageInv, Reserve
  <2> QED BY <2>1, <2>2
<1> QED BY <1>6, <1>7, <1>8, <1>9, <1>10 DEF RoomInv, PlacesInv

LEMMA LoadRoom ==
    ASSUME Known, NoFaults, RoomInv, LoadHeader \/ HeaderInit
    PROVE  RoomInv'
<1>1. /\ pc' \in {"scan", "format"} /\ ~Loaded /\ ~(Loaded') /\ cur'.page = 0
      /\ UNCHANGED <<page_active, restarts, rc>> /\ rc # "error"
  BY DEF LoadHeader, HeaderInit, callVars, ctxVars, Loaded, Known, IInv, Mirrored, RoomInv, StageInv
<1>2. \A q \in Pages : flash'[q].used = flash[q].used /\ flash'[q].status = flash[q].status
  BY DEF LoadHeader, HeaderInit, Known, CountInv, BlankAtFirst
<1>3. \A q \in Pages : ~(Ready(q)')
  BY <1>1 DEF Ready
<1>4. FillInv' /\ StatusInv' /\ BootInv'
  BY <1>1, <1>2, <1>3 DEF FillInv, StatusInv, BootInv, RoomInv, PlacesInv
<1>5. Stale' = Stale
  BY <1>1, <1>2 DEF Stale
<1>6. StaleInv'
  BY <1>1, <1>5 DEF StaleInv, RoomInv, PlacesInv
<1>7. StageInv'
  BY <1>1 DEF StageInv
<1> QED BY <1>4, <1>6, <1>7 DEF RoomInv, PlacesInv

\* A restart forgets which page is the active one.
LEMMA FailRoom ==
    ASSUME Known, NoFaults, RoomInv, Fail
    PROVE  RoomInv'
<1>1. Reset
  BY DEF Fail, PowerLoss, TornWrite, NoFaults
<1>2. /\ pc = "idle" /\ Loaded /\ pc' = "boot" /\ ~(Loaded') /\ rc' = "none" /\ UNCHANGED flash
      /\ cur'.page = 0 /\ restarts < MaxRestarts /\ restarts' = restarts + 1 /\ restarts \in Nat
      /\ page_active \in Pages \cup {NoPage}
  BY <1>1, KnownTypes DEF Reset, Restart, Loaded, CallTypeOK, StateTypeOK
<1>3. FillInv' /\ StatusInv' /\ BootInv' /\ StageInv'
  BY <1>2 DEF FillInv, StatusInv, BootInv, StageInv, Ready, RoomInv, PlacesInv
<1>4. PICK S, T : S = Stale /\ T = Stale'
  OBVIOUS
<1>5. S \in SUBSET Pages /\ T \in SUBSET (S \cup {page_active}) /\ T \in SUBSET Pages
  BY <1>2, <1>4 DEF Stale
<1>6. Cardinality(S) \in Nat /\ Cardinality(T) \in Nat /\ IsFiniteSet(S)
  BY <1>5, PagesSubset
<1>7. IsFiniteSet(S \cup {page_active})
      /\ (\/ Cardinality(S \cup {page_active}) = Cardinality(S)
          \/ Cardinality(S \cup {page_active}) = Cardinality(S) + 1)
  BY <1>6, FS_AddElement, Zenon
<1>8. Cardinality(T) <= Cardinality(S \cup {page_active})
  BY <1>5, <1>7, FS_Subset
<1>9. Cardinality(S) <= restarts /\ restarts <= MaxRestarts
  BY <1>4 DEF RoomInv, PlacesInv, StaleInv
<1>10. Cardinality(T) <= restarts + 1
  BY <1>2, <1>6, <1>7, <1>8, <1>9
<1>11. StaleInv'
  <2>1. restarts + 1 <= MaxRestarts
    BY <1>2
  <2> QED BY <1>2, <1>4, <1>10, <2>1 DEF StaleInv
<1> QED BY <1>3, <1>11 DEF RoomInv, PlacesInv

LEMMA NextRoom ==
    ASSUME Known, NoFaults, Roomy, RoomInv, Next, Known'
    PROVE  RoomInv'
<1>1. Undisturbed
  BY RoomUndisturbed
<1>2. ~InitFails /\ ~EraseAll
  BY <1>1 DEF InitFails, EraseAll, Undisturbed, CutShort, RoomInv, StageInv
<1>3. CASE Boot
  BY <1>2, <1>3, LoadRoom, ScanRoom DEF Boot
<1> QED BY <1>1, <1>3, FindRoom, DeleteRoom, AllocateRoom, RealignRoom, WriteRoom, FailRoom
           DEF Next, Step

LEMMA StutterRoom == ASSUME RoomInv, UNCHANGED vars PROVE RoomInv'
BY DEF vars, flashVars, ctxVars, callVars, RoomInv, PlacesInv, FillInv, StatusInv, StaleInv, Stale,
       BootInv, StageInv, Reserve, ActiveOpen, Ready, Loaded, RealignOffs, Need

LEMMA InitRoom == ASSUME Init PROVE RoomInv
<1>1. FillInv
  BY FillsClosed DEF Init, FillInv, BlankPage
<1>2. Stale = {}
  BY DEF Init, Stale, BlankPage
<1>3. StaleInv
  BY <1>2, FS_EmptySet DEF Init, StaleInv
<1>4. StatusInv /\ BootInv /\ StageInv
  BY DEF Init, StatusInv, BootInv, StageInv, Ready, Loaded
<1> QED BY <1>1, <1>3, <1>4 DEF RoomInv, PlacesInv

LEMMA KnownRoom ==
    ASSUME Known, NoFaults, Roomy, RoomInv, [Next]_vars
    PROVE  Known' /\ RoomInv' /\ [Undisturbed]_vars
<1>1. [Undisturbed]_vars
  BY RoomUndisturbed
<1>2. Known'
  BY <1>1, NextIInv, NextCountInv, NextMoveInv, NextSoleInv, NextMapInv DEF Known, NoFaults
<1>3. RoomInv'
  BY <1>2, NextRoom, StutterRoom
<1> QED BY <1>1, <1>2, <1>3

\* st_get_available_page and st_realign in a roomy store whose writes are not torn: no
\* call is cut short, no realign moves an item, and so none overtakes a call.  A full
\* active page always leaves an empty full page for st_realign to erase.
THEOREM RoomEnough ==
    ASSUME NoFaults, Roomy
    PROVE  Spec => [](Known /\ RoomInv) /\ [][Undisturbed]_vars
<1>1. Known /\ RoomInv /\ [Next]_vars => Known' /\ RoomInv' /\ [Undisturbed]_vars
  BY KnownRoom
<1>2. Init => Known /\ RoomInv
  BY InitIInv, InitCountInv, InitMoveInv, InitSoleInv, InitMapInv, InitRoom DEF Known
<1> QED BY <1>1, <1>2, PTL DEF Spec

\* OneCopy (storage.c, st_write_item): in a roomy store a key has one copy between two
\* calls, whatever is written, however often, and across MaxRestarts resets.
THEOREM RoomyOneCopy ==
    ASSUME NoFaults, Roomy
    PROVE  Spec => []OneCopy
<1> QED BY RoomEnough, KnownOneCopy, PTL

\* KVSpec (storage.c, st_read_item and st_write_item): a roomy store is the map KVStore
\* describes, across MaxRestarts resets.
THEOREM RoomyMap ==
    ASSUME NoFaults, Roomy
    PROVE  Spec => KVSpec
<1> QED BY RoomEnough, MapImplemented, PTL

-----------------------------------------------------------------------------
(***************************************************************************)
(* What storage.h and storage.c say of the store is so of a roomy one.     *)
(***************************************************************************)
LEMMA ReplacedVisible == ASSUME Known PROVE WriteVisible
<1> SUFFICES ASSUME pc = "return", op.kind = "write"
             PROVE  Stored(op.key) /\ FoundFirst(op.key) = op.val
  BY DEF WriteVisible
<1>1. PICK k : k = op.key
  OBVIOUS
<1>2. PICK n \in Places : Copies(k) = {n} /\ At(n).val = op.val
  BY <1>1 DEF Known, MapInv, ReplaceInv, Replaced
<1>3. PICK p \in Pages, o \in Offsets : n = <<p, o>>
  BY DEF Places
<1>4. /\ flash[p].cell[o].key = k /\ flash[p].cell[o].val = op.val /\ op.val \in Vals
      /\ Live(flash[p].cell[o])
  <2>1. At(n) = flash[p].cell[o] /\ At(n).key = k /\ At(n).val \in Vals
    BY <1>2, <1>3, CopyAt DEF At
  <2> QED BY <1>2, <1>3, <2>1 DEF Known, CountInv, PagesFine, PageFine, ItemsFine, Live
<1>5. \A q \in Pages : \A o2 \in LiveCopies(q) :
         flash[q].cell[o2].key = k => q = p /\ o2 = o
  <2> SUFFICES ASSUME NEW q \in Pages, NEW o2 \in LiveCopies(q), flash[q].cell[o2].key = k
               PROVE  q = p /\ o2 = o
    OBVIOUS
  <2>1. <<q, o2>> \in Copies(k)
    BY CopyAt DEF LiveCopies, Live, At, Places
  <2> QED BY <1>2, <1>3, <2>1
<1>6. o \in LiveCopies(p)
  BY <1>4 DEF LiveCopies
<1>7. InUse(p)
  <2>1. Loaded /\ Mirrors(p) /\ pages[p].status # "UNAVAILABLE"
    BY DEF Loaded, Known, IInv, Mirrored, MapInv, ScannedInv, Ready
  <2>2. flash[p].status # "ERASED"
    BY <1>4 DEF Known, IInv, FlashShape, BlankPage, Blank, NamesAssumption
  <2>3. pages[p].status \in RamStatus
    BY KnownTypes DEF RamPage
  <2> QED BY <2>1, <2>2, <2>3 DEF InUse, Mirrors, RamStatus, FlashStatus
<1>8. Holding(k) = {p}
  BY <1>4, <1>5, <1>6, <1>7 DEF Holding
<1>9. Behind(p) <= Behind(p)
  <2>1. Behind(p) \in Nat
    <3>1. PICK a \in Pages : a = IF Valid(page_active) THEN page_active ELSE 0
      BY DEF Valid
    <3> QED BY <3>1, DistanceType DEF Behind
  <2> QED BY <2>1
<1>10. (CHOOSE q \in Holding(k) : \A r \in Holding(k) : Behind(q) <= Behind(r)) = p
  <2> HIDE DEF Behind
  <2> QED BY <1>8, <1>9
<1>11. (CHOOSE o1 \in LiveCopies(p) : /\ flash[p].cell[o1].key = k
             /\ \A o2 \in LiveCopies(p) : flash[p].cell[o2].key = k => o2 <= o1) = o
  <2> DEFINE W(o1) == /\ flash[p].cell[o1].key = k
                      /\ \A o2 \in LiveCopies(p) : flash[p].cell[o2].key = k => o2 <= o1
  <2>1. W(o) /\ \A o1 \in LiveCopies(p) : W(o1) => o1 = o
    <3>1. \A o2 \in LiveCopies(p) : flash[p].cell[o2].key = k => o2 = o
      BY <1>5
    <3>2. o <= o
      OBVIOUS
    <3> QED BY <1>4, <3>1, <3>2
  <2> HIDE DEF W
  <2>2. (CHOOSE o1 \in LiveCopies(p) : W(o1)) = o
    BY <1>6, <2>1, Zenon
  <2> QED BY <2>2 DEF W
<1>12. FoundFirst(k) = op.val
  BY <1>4, <1>10, <1>11 DEF FoundFirst
<1>13. Stored(k)
  BY <1>4 DEF Stored, Holds
<1> QED BY <1>1, <1>12, <1>13

\* What a step of st_init leaves stored.
LEMMA BootStored ==
    ASSUME Known, RoomInv, Next, ~Loaded, NEW k \in Keys, Stored(k), NoFaults
    PROVE  Stored(k)'
<1>1. CASE LoadHeader \/ InitUsedPage
  BY <1>1, BootKeeps DEF Known
<1>2. CASE ~LoadHeader /\ ~InitUsedPage
  <2>1. UNCHANGED flash
    BY <1>2
       DEF Loaded, Next, Step, Boot, HeaderInit, InitErasedPage, InitFails, EraseAll, flashVars,
           RoomInv, StageInv, Find, FindSkip, FindMatch, FindAccept, FindPageEnd, FindNext, ReadDone,
           WriteFound, Return, Call, ReadItem, WriteItem, StartFind, Delete, DeleteSkip,
           DeleteMismatch, DeleteMark, DeleteErase, Allocate, AllocFits, AllocFirst, NoRoom,
           AllocNoRealign, AllocRealign, AllocRetry, CloseActive, OpenNew, Moving, Realign,
           RealignDrop, RealignFull, RealignOpen, RealignFits, RealignErase, Write, PutFails, Put,
           PutFull, Fail, Reset, PowerLoss, TornWrite, NoFaults
  <2> QED BY <2>1, SMTT(40) DEF Stored, Holds
<1> QED BY <1>1, <1>2

\* RestartKeepsKeys (st_page_scan: "erase page if status is FULL and all item was marked
\* as erased") and WriteVisible (st_write_item: "0-success"), which power losses and pages
\* filled to their end break, hold of a roomy store whose writes are not torn.
THEOREM RoomyPromises ==
    ASSUME NoFaults, Roomy
    PROVE  Spec => []WriteVisible /\ RestartKeepsKeys
<1>1. Known /\ RoomInv /\ [Next]_vars
      => [~Loaded => \A k \in Keys : Stored(k) => Stored(k)']_flash
  <2> SUFFICES ASSUME Known, RoomInv, [Next]_vars, flash' # flash, ~Loaded,
                      NEW k \in Keys, Stored(k)
               PROVE  Stored(k)'
    OBVIOUS
  <2>1. Next
    BY DEF vars, flashVars
  <2> QED BY <2>1, BootStored
<1> QED BY <1>1, RoomEnough, ReplacedVisible, PTL DEF Spec, RestartKeepsKeys

=============================================================================
