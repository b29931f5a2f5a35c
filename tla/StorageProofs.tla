--------------------------- MODULE StorageProofs ---------------------------
(***************************************************************************)
(* Proofs about Storage and CutErase, for any number of pages, keys and    *)
(* values, any page geometry, and any number of restarts and power losses. *)
(***************************************************************************)
EXTENDS CutErase, FiniteSetTheorems, WellFoundedInduction, TLAPS

USE SizesAssumption, NamesAssumption DEF Pages, NoPage, Offsets

-----------------------------------------------------------------------------
(***************************************************************************)
(* The operators the actions are built from.                               *)
(***************************************************************************)
LessNat == {ss \in Nat \X Nat : ss[1] < ss[2]}

\* A non-empty set of naturals has a least element.
LEMMA LeastNat ==
    ASSUME NEW S, S \subseteq Nat, S # {}
    PROVE  \E m \in S : \A n \in S : m <= n
<1>1. IsWellFoundedOn(LessNat, Nat)
  <2>1. SUFFICES ASSUME NEW f \in [Nat -> Nat],
                        \A n \in Nat : <<f[n+1], f[n]>> \in LessNat
                 PROVE  FALSE
    BY DEF IsWellFoundedOn
  <2> QED
    BY NatLessThanWellFounded, <2>1 DEF IsWellFoundedOn, LessNat, OpToRel
<1>2. PICK m \in S : \A n \in S : ~(<<n, m>> \in LessNat)
  BY <1>1, WFMin
<1>3. \A n \in S : m <= n
  <2> TAKE n \in S
  <2>1. ~(n < m)
    BY <1>2 DEF LessNat
  <2> QED BY <2>1
<1> QED BY <1>3

\* The walk over the items of a page (FirstOff) picks one of the candidates.
LEMMA FirstOffIn ==
    ASSUME NEW S, S \subseteq Offsets, S # {}
    PROVE  FirstOff(S) \in S
<1>1. S \subseteq Nat
  OBVIOUS
<1>2. \E o \in S : \A o2 \in S : o <= o2
  BY <1>1, LeastNat, Zenon
<1> QED BY <1>2, Zenon DEF FirstOff

LEMMA DistanceType ==
    ASSUME NEW from \in Pages, NEW p \in Pages
    PROVE  Distance(from, p) \in Nat
BY DEF Distance

\* Among any pages there is one that comes first from a given page on.
LEMMA NearestPage ==
    ASSUME NEW from \in Pages, NEW S, S \subseteq Pages, S # {}
    PROVE  \E p \in S : \A q \in S : Distance(from, p) <= Distance(from, q)
<1> DEFINE D == {Distance(from, p) : p \in S}
<1>1. D \subseteq Nat /\ D # {}
  BY DistanceType
<1>2. PICK d \in D : \A e \in D : d <= e
  BY <1>1, LeastNat
<1>3. PICK p \in S : Distance(from, p) = d
  BY <1>2
<1>4. \A q \in S : Distance(from, q) \in D
  OBVIOUS
<1> QED BY <1>2, <1>3, <1>4

\* st_first_page returns a page of the status asked for, or none.
LEMMA FirstPageFound ==
    ASSUME NEW from, NEW status
    PROVE  LET p == FirstPage(from, status)
           IN  p = NoPage \/ (p \in Pages /\ pages[p].status = status)
<1> DEFINE S == {p \in Pages : pages[p].status = status}
<1>1. CASE Valid(from) /\ S # {}
  <2>1. \E p \in S : \A q \in S : Distance(from, p) <= Distance(from, q)
    BY <1>1, NearestPage DEF Valid
  <2> QED BY <1>1, <2>1 DEF FirstPage
<1>2. CASE ~(Valid(from) /\ S # {})
  BY <1>2 DEF FirstPage
<1> QED BY <1>1, <1>2

\* st_realign finds a full page to move when there is one, with as few items as any.
LEMMA RealignPageFound ==
    ASSUME TypeOK, FullPages # {}
    PROVE  /\ RealignPage \in Pages /\ pages[RealignPage].status = "FULL"
           /\ \A q \in FullPages : pages[RealignPage].item_cnt <= pages[q].item_cnt
<1> DEFINE start == IF Valid(page_active) THEN page_active ELSE 0
           counts == {pages[p].item_cnt : p \in FullPages}
           least == {p \in FullPages : \A q \in FullPages :
                                        pages[p].item_cnt <= pages[q].item_cnt}
<1>1. counts \subseteq Nat /\ counts # {}
  <2>1. \A p \in Pages : pages[p].item_cnt \in Nat
    BY DEF TypeOK, RamPage
  <2> QED BY <2>1, ZenonT(60) DEF FullPages
<1>2. PICK c \in counts : \A d \in counts : c <= d
  BY <1>1, LeastNat
<1>3. PICK p \in FullPages : pages[p].item_cnt = c
  BY <1>2
<1>4. \A q \in FullPages : pages[q].item_cnt \in counts
  OBVIOUS
<1>5. least # {} /\ least \subseteq FullPages /\ FullPages \subseteq Pages
  BY <1>2, <1>3, <1>4 DEF FullPages
<1>6. start \in Pages
  BY DEF Valid
<1>7. \E q \in least : \A r \in least : Distance(start, q) <= Distance(start, r)
  BY <1>5, <1>6, NearestPage
<1>8. RealignPage \in least
  BY <1>7 DEF RealignPage
<1> QED BY <1>5, <1>8 DEF FullPages

\* The number of items a scan counts is a number.
LEMMA ItemCountType == ASSUME NEW pg PROVE ItemCount(pg) \in Nat
<1>1. IsFiniteSet(Offsets)
  BY FS_Interval
<1>2. IsFiniteSet(LiveOffs(pg))
  BY <1>1, FS_Subset DEF LiveOffs
<1> QED BY <1>2, FS_CardinalityType DEF ItemCount

LEMMA LastPageType == ASSUME NEW p \in Pages PROVE LastPage(p) \in Pages
BY DEF LastPage

LEMMA ItemTypes ==
    /\ Blank \in Item
    /\ \A it \in Item : Erased(it) \in Item /\ Size(it) \in Nat /\ Size(it) > 0
    /\ \A k \in Keys, v \in Vals : NewItem(k, v) \in Item
BY DEF Blank, Item, Erased, Size, NewItem

LEMMA BlankPageType == BlankPage \in FlashPage
BY ItemTypes DEF BlankPage, FlashPage, FlashStatus

\* A page stays well shaped and mirrored if nothing happens to it.
LEMMA FlashShapeKept == FlashShape /\ UNCHANGED flash => FlashShape'
BY DEF FlashShape

LEMMA MirrorsKept ==
    ASSUME NEW p \in Pages, Mirrors(p), UNCHANGED <<flash, pages>>
    PROVE  Mirrors(p)'
BY DEF Mirrors

\* Outside st_init the mirroring of every page is all that is asked.
LEMMA LoadedMirrored ==
    ASSUME Loaded', \A p \in Pages : Mirrors(p)'
    PROVE  Mirrored'
BY DEF Mirrored, Loaded

LEMMA MirroredKept ==
    ASSUME Mirrored, Loaded, Loaded', UNCHANGED <<flash, pages>>
    PROVE  Mirrored'
<1>1. \A p \in Pages : Mirrors(p)
  BY DEF Mirrored
<1>2. \A p \in Pages : Mirrors(p)'
  BY <1>1, MirrorsKept
<1> QED BY <1>2, LoadedMirrored

\* The type of what SetStatus and ErasePage change.
StateTypeOK ==
    /\ flash \in [Pages -> FlashPage]
    /\ pages \in [Pages -> RamPage]
    /\ page_erased \in Nat
    /\ page_active \in Pages \cup {NoPage}

\* st_page_status_update keeps the flash well shaped and mirrored.
LEMMA SetStatusKeeps ==
    ASSUME StateTypeOK, FlashShape, \A q \in Pages : Mirrors(q),
           NEW p, NEW s \in {"ACTIVE", "FULL"}, SetStatus(p, s)
    PROVE  /\ StateTypeOK'
           /\ FlashShape'
           /\ \A q \in Pages : Mirrors(q)'
           /\ p \in Pages => pages'[p].status = s
<1>1. CASE ~Valid(p) \/ pages[p].status = s
  BY <1>1 DEF SetStatus, StateTypeOK, FlashShape, Mirrors, ctxVars, Valid
<1>2. CASE ~(~Valid(p) \/ pages[p].status = s)
  <2> USE <1>2
  <2>1. /\ p \in Pages
        /\ flash' = [flash EXCEPT ![p].status = Burn(flash[p].status, s)]
        /\ pages' = [pages EXCEPT ![p].status = s]
        /\ page_erased' = Opened(p)
        /\ page_active' \in Pages \cup {NoPage}
    BY DEF SetStatus, Valid, StateTypeOK
  <2>2. Burn(flash[p].status, s) \in {"ACTIVE", "FULL"}
    BY DEF Burn
  <2>3. flash' \in [Pages -> FlashPage]
    BY <2>1, <2>2 DEF StateTypeOK, FlashPage, FlashStatus
  <2>4. pages' \in [Pages -> RamPage]
    BY <2>1 DEF StateTypeOK, RamPage, RamStatus, FlashStatus
  <2>5. page_erased' \in Nat
    BY <2>1 DEF StateTypeOK, Opened
  <2>6. FlashShape'
    BY <2>1, <2>2 DEF FlashShape, StateTypeOK, FlashPage
  <2>7. \A q \in Pages : Mirrors(q)'
    BY <2>1, <2>2 DEF Mirrors, StateTypeOK, FlashPage, RamPage
  <2> QED BY <2>1, <2>3, <2>4, <2>5, <2>6, <2>7 DEF StateTypeOK, RamPage
<1> QED BY <1>1, <1>2

\* st_page_erase keeps the flash well shaped and leaves the page mirrored.
LEMMA ErasePageKeeps ==
    ASSUME StateTypeOK, FlashShape, NEW p, ErasePage(p)
    PROVE  /\ flash' \in [Pages -> FlashPage]
           /\ pages' \in [Pages -> RamPage]
           /\ page_erased' \in Nat
           /\ FlashShape'
           /\ \A q \in Pages : Mirrors(q) => Mirrors(q)'
           /\ \A q \in Pages \ {p} : flash'[q] = flash[q] /\ pages'[q] = pages[q]
           /\ p \in Pages => pages'[p].status = "ERASED"
           /\ p \in Pages /\ pages[p].status # "ERASED" => Mirrors(p)'
<1>1. CASE pages[p].status = "ERASED"
  BY <1>1 DEF ErasePage, StateTypeOK, FlashShape, Mirrors
<1>2. CASE pages[p].status # "ERASED"
  <2> DEFINE new == [status |-> "ERASED", item_cnt |-> 0, bytes_used |-> 0]
  <2>1. /\ flash' = [flash EXCEPT ![p] = BlankPage]
        /\ pages' = [pages EXCEPT ![p] = new]
        /\ page_erased' = page_erased + 1
    BY <1>2 DEF ErasePage
  <2>2. new \in RamPage
    BY DEF RamPage, RamStatus, FlashStatus
  <2>3. flash' \in [Pages -> FlashPage]
    BY <2>1, BlankPageType DEF StateTypeOK
  <2>4. pages' \in [Pages -> RamPage]
    BY <2>1, <2>2 DEF StateTypeOK
  <2>5. page_erased' \in Nat
    BY <2>1 DEF StateTypeOK
  <2>6. FlashShape'
    <3>1. ASSUME NEW q \in Pages
          PROVE  flash'[q] = BlankPage \/ flash'[q] = flash[q]
      BY <2>1 DEF StateTypeOK
    <3>2. \A o \in Offsets : BlankPage.cell[o] = Blank
      BY DEF BlankPage
    <3> QED BY <3>1, <3>2 DEF FlashShape
  <2>7. p \in Pages => flash'[p] = BlankPage /\ pages'[p] = new
    BY <2>1 DEF StateTypeOK
  <2>8. p \in Pages => Mirrors(p)' /\ pages'[p].status = "ERASED"
    BY <2>7 DEF Mirrors, BlankPage
  <2>9. \A q \in Pages \ {p} : flash'[q] = flash[q] /\ pages'[q] = pages[q]
    BY <2>1 DEF StateTypeOK
  <2>10. \A q \in Pages \ {p} : Mirrors(q) => Mirrors(q)'
    BY <2>9 DEF Mirrors
  <2> QED BY <2>3, <2>6, <2>8, <2>9, <2>10, <2>4, <2>5
<1> QED BY <1>1, <1>2

\* An item is programmed behind the last byte of a page that is not erased.
LEMMA AppendKeeps ==
    ASSUME StateTypeOK, FlashShape, NEW p \in Pages, flash[p].status # "ERASED",
           NEW it \in Item, flash' = [flash EXCEPT ![p] = AppendItem(@, flash[p].used, it)]
    PROVE  /\ flash' \in [Pages -> FlashPage]
           /\ FlashShape'
           /\ flash'[p].status = flash[p].status
           /\ flash'[p].used = flash[p].used + Size(it)
           /\ \A q \in Pages \ {p} : flash'[q] = flash[q]
<1> DEFINE new == AppendItem(flash[p], flash[p].used, it)
<1>1. flash[p] \in FlashPage /\ Size(it) \in Nat /\ Size(it) > 0
  BY ItemTypes DEF StateTypeOK
<1>2. /\ new \in FlashPage
      /\ new.status = flash[p].status
      /\ new.used = flash[p].used + Size(it)
      /\ \A o \in Offsets : o # flash[p].used => new.cell[o] = flash[p].cell[o]
  <2> DEFINE cells == [flash[p].cell EXCEPT ![flash[p].used] = it]
  <2>1. flash[p].cell \in [Offsets -> Item] /\ flash[p].used \in Nat
    BY <1>1 DEF FlashPage
  <2>2. /\ cells \in [Offsets -> Item]
        /\ \A o \in Offsets : o # flash[p].used => cells[o] = flash[p].cell[o]
    BY <2>1
  <2>3. new = [status |-> flash[p].status, used |-> flash[p].used + Size(it),
               cell |-> cells]
    BY DEF AppendItem
  <2> HIDE DEF cells
  <2> QED BY <1>1, <2>1, <2>2, <2>3 DEF FlashPage
<1>3. /\ flash' = [flash EXCEPT ![p] = new]
      /\ flash'[p] = new
      /\ \A q \in Pages \ {p} : flash'[q] = flash[q]
  BY DEF StateTypeOK
<1> HIDE DEF new
<1>4. flash' \in [Pages -> FlashPage]
  BY <1>2, <1>3 DEF StateTypeOK
<1>5. FlashShape'
  <2>1. \A o \in Offsets : new.used <= o => new.cell[o] = Blank
    <3>1. ASSUME NEW o \in Offsets, new.used <= o
          PROVE  o # flash[p].used /\ flash[p].used <= o
      BY <1>1, <1>2, <3>1 DEF FlashPage
    <3> QED BY <1>2, <3>1 DEF FlashShape
  <2> QED BY <1>2, <1>3, <2>1 DEF FlashShape
<1> QED BY <1>2, <1>3, <1>4, <1>5

\* An item in a page is marked as erased.
LEMMA MarkKeeps ==
    ASSUME StateTypeOK, FlashShape, NEW p, NEW off, flash[p].cell[off].key # NoKey,
           flash' = [flash EXCEPT ![p].cell[off] = Erased(@)]
    PROVE  /\ flash' \in [Pages -> FlashPage]
           /\ FlashShape'
           /\ \A q \in Pages : /\ flash'[q].status = flash[q].status
                               /\ flash'[q].used = flash[q].used
<1>1. CASE p \in Pages /\ off \in Offsets
  <2> USE <1>1
  <2> DEFINE new == [flash[p] EXCEPT !.cell[off] = Erased(flash[p].cell[off])]
  <2>1. flash[p] \in FlashPage
    BY DEF StateTypeOK
  <2>2. Erased(flash[p].cell[off]) \in Item
    BY <2>1, ItemTypes DEF FlashPage
  <2>3. /\ new \in FlashPage
        /\ new.status = flash[p].status
        /\ new.used = flash[p].used
        /\ \A o \in Offsets \ {off} : new.cell[o] = flash[p].cell[o]
    BY <2>1, <2>2 DEF FlashPage
  <2>4. /\ flash'[p] = new
        /\ \A q \in Pages \ {p} : flash'[q] = flash[q]
        /\ flash' \in [Pages -> FlashPage]
    BY <2>3 DEF StateTypeOK
  <2>5. flash[p].cell[off] # Blank
    BY DEF Blank
  <2>6. flash[p].status # "ERASED" /\ ~(flash[p].used <= off)
    BY <2>5 DEF FlashShape, BlankPage
  <2>7. FlashShape'
    BY <2>3, <2>4, <2>6 DEF FlashShape
  <2> QED BY <2>3, <2>4, <2>7
<1>2. CASE p \notin Pages
  <2>1. flash' = flash
    BY <1>2 DEF StateTypeOK
  <2> QED BY <2>1 DEF StateTypeOK, FlashShape
<1>3. CASE p \in Pages /\ off \notin Offsets
  <2>1. flash' = flash
    BY <1>3 DEF StateTypeOK, FlashPage
  <2> QED BY <2>1 DEF StateTypeOK, FlashShape
<1> QED BY <1>1, <1>2, <1>3

\* What TypeOK says beyond the flash and what the RAM knows of it.
CallTypeOK ==
    /\ header \in BOOLEAN
    /\ pc \in PCs
    /\ op \in [kind : {"none", "read", "write"}, key : Keys \cup {NoKey},
               val : Vals \cup {NoVal}]
    /\ cur \in [page : Pages, off : Nat]
    /\ srch \in [start : Pages, cnt : Nat, hits : Nat, last : Location,
                 loc : Location, res : Vals \cup {NoVal}]
    /\ dst \in Pages \cup {NoPage}
    /\ tgt \in Location
    /\ ret \in {"none", "accept", "next", "old", "write", "realign"}
    /\ rc \in {"none", "ok", "absent", "error"}
    /\ restarts \in Nat

LEMMA TypeSplit == (TypeOK <=> StateTypeOK /\ CallTypeOK)
                   /\ (TypeOK' <=> StateTypeOK' /\ CallTypeOK')
BY DEF TypeOK, StateTypeOK, CallTypeOK

LEMMA StateTypeKept == StateTypeOK /\ UNCHANGED <<flash, ctxVars>> => StateTypeOK'
BY DEF StateTypeOK, ctxVars

-----------------------------------------------------------------------------
(***************************************************************************)
(* The inductive invariant: the initial state and st_init.                 *)
(***************************************************************************)
LEMMA InitIInv == Init => IInv
<1> SUFFICES ASSUME Init PROVE IInv
  OBVIOUS
<1>1. StateTypeOK
  <2>1. ZeroPage \in RamPage
    BY DEF ZeroPage, RamPage, RamStatus
  <2> QED BY <2>1, BlankPageType DEF Init, StateTypeOK
<1>2. CallTypeOK
  <2>1. NoLoc \in Location
    BY DEF NoLoc, Location
  <2>2. 0 \in Pages
    OBVIOUS
  <2> QED BY <2>1, <2>2 DEF Init, CallTypeOK, NoOp, NoSearch, PCs
<1>3. FlashShape
  BY DEF Init, FlashShape, BlankPage
<1>4. Mirrored
  BY DEF Init, Mirrored, Loaded
<1>5. Arguments
  BY DEF Init, Arguments, NoOp
<1> QED BY <1>1, <1>2, <1>3, <1>4, <1>5, TypeSplit DEF IInv

\* The end of an iteration of st_page_init's loop: the next page, or all are scanned.
LEMMA PageDoneKeeps ==
    ASSUME CallTypeOK, pc = "scan", PageDone,
           UNCHANGED <<header, op, srch, dst, tgt, ret, rc, restarts>>,
           \A p \in Pages : IF p <= cur.page THEN Mirrors(p)' ELSE pages'[p] = ZeroPage
    PROVE  CallTypeOK' /\ Mirrored'
<1>1. cur.page \in Pages /\ cur.off \in Nat
  BY DEF CallTypeOK
<1>2. CASE cur.page + 1 \in Pages
  <2>1. pc' = "scan" /\ cur' = [cur EXCEPT !.page = cur.page + 1]
    BY <1>2 DEF PageDone
  <2>2. cur' \in [page : Pages, off : Nat] /\ cur'.page = cur.page + 1
    BY <1>2, <2>1 DEF CallTypeOK
  <2>3. CallTypeOK'
    BY <2>1, <2>2 DEF CallTypeOK, PCs
  <2>4. Mirrored'
    BY <1>1, <2>1, <2>2 DEF Mirrored, Loaded
  <2> QED BY <2>3, <2>4
<1>3. CASE cur.page + 1 \notin Pages
  <2>1. pc' = "idle" /\ cur' = [cur EXCEPT !.page = 0]
    BY <1>3 DEF PageDone
  <2>2. cur' \in [page : Pages, off : Nat]
    BY <1>1, <2>1 DEF CallTypeOK
  <2>3. CallTypeOK'
    BY <2>1, <2>2 DEF CallTypeOK, PCs
  <2>4. \A p \in Pages : Mirrors(p)'
    BY <1>1, <1>3
  <2>5. Mirrored'
    BY <2>1, <2>4, LoadedMirrored DEF Loaded
  <2> QED BY <2>3, <2>5
<1> QED BY <1>2, <1>3

LEMMA BootIInv == IInv /\ Boot => IInv'
<1> SUFFICES ASSUME IInv, Boot PROVE IInv'
  OBVIOUS
<1> USE DEF IInv, flashVars, ctxVars, callVars
<1>0. StateTypeOK /\ CallTypeOK
  BY TypeSplit
<1>1. CASE LoadHeader
  <2>1. TypeOK'
    BY <1>1, BlankPageType DEF LoadHeader, TypeOK, PCs
  <2>2. FlashShape'
    <3>1. FlashShape /\ flash' = [p \in Pages |-> BlankPage] => FlashShape'
      BY DEF FlashShape, BlankPage
    <3> QED BY <1>1, <3>1, FlashShapeKept DEF LoadHeader
  <2>3. Mirrored'
    BY <1>0, <1>1 DEF LoadHeader, Mirrored, Loaded, CallTypeOK
  <2>4. Arguments'
    BY <1>1 DEF LoadHeader, Arguments
  <2> QED BY <2>1, <2>2, <2>3, <2>4
<1>2. CASE HeaderInit
  <2>1. TypeOK'
    BY <1>2 DEF HeaderInit, TypeOK, PCs
  <2>2. FlashShape'
    BY <1>2 DEF HeaderInit, FlashShape
  <2>3. Mirrored'
    BY <1>0, <1>2 DEF HeaderInit, Mirrored, Loaded, CallTypeOK
  <2>4. Arguments'
    BY <1>2 DEF HeaderInit, Arguments
  <2> QED BY <2>1, <2>2, <2>3, <2>4
<1>3. CASE InitErasedPage
  <2>1. /\ pages' = [pages EXCEPT ![cur.page].status = "ERASED"]
        /\ flash[cur.page].status = "ERASED" /\ flash' = flash
        /\ pc = "scan" /\ PageDone /\ cur.page \in Pages
    BY <1>0, <1>3 DEF InitErasedPage, CallTypeOK
  <2>2. StateTypeOK'
    <3>1. pages' \in [Pages -> RamPage]
      BY <1>0, <2>1 DEF StateTypeOK, RamPage, RamStatus, FlashStatus
    <3> QED BY <1>0, <1>3, <2>1, <3>1 DEF InitErasedPage, StateTypeOK
  <2>3. flash[cur.page].used = 0 /\ pages[cur.page] = ZeroPage
    BY <2>1 DEF FlashShape, BlankPage, Mirrored
  <2>4. ASSUME NEW p \in Pages
        PROVE  IF p <= cur.page THEN Mirrors(p)' ELSE pages'[p] = ZeroPage
    <3>1. CASE p = cur.page
      BY <1>0, <2>1, <2>3, <3>1 DEF Mirrors, ZeroPage, StateTypeOK
    <3>2. CASE p # cur.page
      BY <1>0, <2>1, <3>2 DEF Mirrored, Mirrors, StateTypeOK
    <3> QED BY <3>1, <3>2
  <2>5. CallTypeOK' /\ Mirrored'
    BY <1>0, <1>3, <2>1, <2>4, PageDoneKeeps DEF InitErasedPage
  <2>6. FlashShape'
    BY <2>1, FlashShapeKept
  <2>7. Arguments'
    BY <1>3 DEF InitErasedPage, PageDone, Arguments
  <2> QED BY <2>2, <2>5, <2>6, <2>7, TypeSplit
<1>4. CASE InitUsedPage
  <2> DEFINE p == cur.page
             erase == flash[p].status = "FULL" /\ ItemCount(flash[p]) = 0
  <2>1. /\ pc = "scan" /\ PageDone /\ p \in Pages
        /\ flash[p].status # "ERASED" /\ page_active' = p
        /\ UNCHANGED <<header, op, srch, dst, tgt, ret, rc, restarts>>
    BY <1>0, <1>4 DEF InitUsedPage, CallTypeOK
  <2>2. flash[p] \in FlashPage /\ pages[p] = ZeroPage
    BY <1>0, <2>1 DEF StateTypeOK, Mirrored
  <2>3. PICK new \in FlashPage, ram \in RamPage :
           /\ flash' = [flash EXCEPT ![p] = new]
           /\ pages' = [pages EXCEPT ![p] = ram]
           /\ ram.bytes_used = new.used
           /\ ram.status = "ERASED" <=> new.status = "ERASED"
           /\ new = BlankPage \/ ( /\ new.status = flash[p].status
                                   /\ new.used = flash[p].used
                                   /\ \A o \in Offsets : flash[p].cell[o] = Blank
                                                         => new.cell[o] = Blank )
           /\ page_erased' \in Nat
    <3>1. CASE erase
      <4> DEFINE ram == [pages[p] EXCEPT !.status = "ERASED"]
      <4>1. ram \in RamPage /\ ram.bytes_used = 0 /\ ram.status = "ERASED"
        BY <2>2 DEF RamPage, RamStatus, FlashStatus, ZeroPage
      <4>2. /\ flash' = [flash EXCEPT ![p] = BlankPage]
            /\ pages' = [pages EXCEPT ![p] = ram]
            /\ page_erased' \in Nat
        BY <1>0, <1>4, <3>1 DEF InitUsedPage, StateTypeOK
      <4>3. BlankPage.used = 0 /\ BlankPage.status = "ERASED"
        BY DEF BlankPage
      <4> HIDE DEF ram
      <4> QED BY <4>1, <4>2, <4>3, BlankPageType
    <3>2. CASE ~erase
      <4> DEFINE cells == [o \in Offsets |->
                    IF flash[p].cell[o].key \in Keys /\ flash[p].cell[o].val = NoVal
                    THEN Erased(flash[p].cell[o]) ELSE flash[p].cell[o]]
                 new == [flash[p] EXCEPT !.cell = cells]
                 ram == [status |-> flash[p].status, item_cnt |-> ItemCount(flash[p]),
                         bytes_used |-> flash[p].used]
      <4>1. /\ flash' = [flash EXCEPT ![p] = new]
            /\ pages' = [pages EXCEPT ![p] = ram]
            /\ page_erased' \in Nat
        BY <1>0, <1>4, <3>2 DEF InitUsedPage, Scanned, BytesUsed, StateTypeOK
      <4>2. cells \in [Offsets -> Item]
        BY <2>2, ItemTypes DEF FlashPage
      <4>3. \A o \in Offsets : flash[p].cell[o] = Blank => cells[o] = Blank
        BY DEF Blank
      <4> HIDE DEF cells
      <4>4. /\ new \in FlashPage /\ new.status = flash[p].status
            /\ new.used = flash[p].used /\ new.cell = cells
        BY <2>2, <4>2 DEF FlashPage
      <4>5. ram \in RamPage
        BY <2>2, ItemCountType DEF FlashPage, RamPage, RamStatus
      <4>6. ram.bytes_used = flash[p].used /\ ram.status = flash[p].status
        OBVIOUS
      <4> HIDE DEF new, ram
      <4> QED BY <4>1, <4>3, <4>4, <4>5, <4>6
    <3> QED BY <3>1, <3>2
  <2>4. StateTypeOK'
    BY <1>0, <2>1, <2>3 DEF StateTypeOK
  <2>5. /\ flash'[p] = new /\ pages'[p] = ram
        /\ \A q \in Pages \ {p} : flash'[q] = flash[q] /\ pages'[q] = pages[q]
    BY <1>0, <2>1, <2>3 DEF StateTypeOK
  <2>6. ASSUME NEW q \in Pages
        PROVE  IF q <= p THEN Mirrors(q)' ELSE pages'[q] = ZeroPage
    <3>1. CASE q = p
      BY <2>1, <2>3, <2>5, <3>1 DEF Mirrors
    <3>2. CASE q # p
      BY <2>1, <2>5, <3>2 DEF Mirrored, Mirrors
    <3> QED BY <3>1, <3>2
  <2>7. CallTypeOK' /\ Mirrored'
    BY <1>0, <2>1, <2>6, PageDoneKeeps
  <2>8. FlashShape'
    <3>1. \A o \in Offsets : BlankPage.cell[o] = Blank
      BY DEF BlankPage
    <3>2. /\ new.status = "ERASED" => new = BlankPage
          /\ \A o \in Offsets : new.used <= o => new.cell[o] = Blank
      BY <2>1, <2>3, <3>1 DEF FlashShape
    <3> QED BY <2>5, <3>2 DEF FlashShape
  <2>9. Arguments'
    BY <2>1 DEF PageDone, Arguments
  <2> QED BY <2>4, <2>7, <2>8, <2>9, TypeSplit
<1>5. CASE InitFails
  <2>1. TypeOK'
    <3>1. StateTypeOK'
      BY <1>0, <1>5, StateTypeKept DEF InitFails
    <3>2. CallTypeOK'
      BY <1>0, <1>5 DEF InitFails, CallTypeOK, PCs
    <3> QED BY <3>1, <3>2, TypeSplit
  <2>2. FlashShape'
    BY <1>5 DEF InitFails, FlashShape
  <2>3. Mirrored'
    BY <1>0, <1>5 DEF InitFails, Mirrored, Mirrors, Loaded, CallTypeOK, ZeroPage
  <2>4. Arguments'
    BY <1>5 DEF InitFails, Arguments
  <2> QED BY <2>1, <2>2, <2>3, <2>4
<1>6. CASE EraseAll
  <2>1. pc = "erase_all" /\ cur.page \in Pages /\ cur.off \in Nat
    BY <1>0, <1>6 DEF EraseAll, CallTypeOK
  <2>2. /\ FlashShape'
        /\ flash' \in [Pages -> FlashPage]
        /\ pages' \in [Pages -> RamPage]
        /\ page_erased' \in Nat
        /\ pages'[cur.page].status = "ERASED"
        /\ \A q \in Pages \ {cur.page} : flash'[q] = flash[q] /\ pages'[q] = pages[q]
        /\ \A q \in Pages : q = cur.page => Mirrors(q)'
    <3>1. ErasePage(cur.page)
      BY <1>6 DEF EraseAll
    <3>2. \A q \in Pages : pages[q].status = "ERASED" => Mirrors(q)
      BY <2>1 DEF Mirrored
    <3>3. PICK p \in Pages : p = cur.page
      BY <2>1
    <3>4. ErasePage(p)
      BY <3>1, <3>3
    <3> QED BY <1>0, <3>2, <3>3, <3>4, ErasePageKeeps
  <2>3. StateTypeOK'
    BY <1>0, <1>6, <2>2 DEF EraseAll, StateTypeOK
  <2>4. ASSUME NEW q \in Pages
        PROVE  /\ pages'[q].status = "ERASED" => Mirrors(q)'
               /\ q <= cur.page => pages'[q].status = "ERASED"
    <3>1. CASE q = cur.page
      BY <2>2, <3>1
    <3>2. CASE q # cur.page
      BY <2>1, <2>2, <3>2 DEF Mirrored, Mirrors
    <3> QED BY <3>1, <3>2
  <2>5. CASE cur.page + 1 \in Pages
    <3>1. pc' = "erase_all" /\ cur' = [cur EXCEPT !.page = cur.page + 1]
      BY <1>6, <2>1, <2>5 DEF EraseAll
    <3>2. CallTypeOK' /\ cur'.page = cur.page + 1
      BY <1>0, <1>6, <2>5, <3>1 DEF EraseAll, CallTypeOK
    <3>3. Mirrored'
      BY <2>1, <2>4, <3>1, <3>2 DEF Mirrored, Loaded
    <3> QED BY <1>6, <2>2, <2>3, <3>1, <3>2, <3>3, TypeSplit DEF EraseAll, Arguments
  <2>6. CASE cur.page + 1 \notin Pages
    <3>1. pc' = "idle" /\ cur' = [cur EXCEPT !.page = 0]
      BY <1>6, <2>6 DEF EraseAll
    <3>2. CallTypeOK'
      BY <1>0, <1>6, <3>1 DEF EraseAll, CallTypeOK, PCs
    <3>3. Mirrored'
      BY <2>1, <2>4, <2>6, <3>1, LoadedMirrored DEF Loaded
    <3> QED BY <1>6, <2>2, <2>3, <3>1, <3>2, <3>3, TypeSplit DEF EraseAll, Arguments
  <2> QED BY <2>5, <2>6
<1> QED BY <1>1, <1>2, <1>3, <1>4, <1>5, <1>6 DEF Boot

-----------------------------------------------------------------------------
(***************************************************************************)
(* The inductive invariant: the search, the deletion and the return.       *)
(***************************************************************************)
\* The steps that only search, decide or return leave the flash and the RAM's idea of
\* it alone, and stay outside st_init.
LEMMA QuietStep ==
    ASSUME IInv, UNCHANGED <<flashVars, ctxVars>>, Loaded, Loaded', CallTypeOK', Arguments'
    PROVE  IInv'
<1>1. StateTypeOK'
  BY StateTypeKept, TypeSplit DEF IInv, flashVars, ctxVars
<1>2. FlashShape'
  BY FlashShapeKept DEF IInv, flashVars
<1>3. Mirrored'
  BY MirroredKept DEF IInv, flashVars, ctxVars
<1> QED BY <1>1, <1>2, <1>3, TypeSplit DEF IInv

Search == [start : Pages, cnt : Nat, hits : Nat, last : Location,
           loc : Location, res : Vals \cup {NoVal}]

LEMMA AcceptSearch ==
    ASSUME NEW s \in Search, NEW c \in Location
    PROVE  [s EXCEPT !.last = c, !.hits = @ + 1] \in Search
<1>1. [s EXCEPT !.last = c] \in Search /\ s.hits + 1 \in Nat
  BY DEF Search
<1>2. [[s EXCEPT !.last = c] EXCEPT !.hits = s.hits + 1] \in Search
  BY <1>1 DEF Search
<1> QED BY <1>2 DEF Search

LEMMA PageEndSearch ==
    ASSUME NEW s \in Search
    PROVE  [s EXCEPT !.cnt = s.cnt + s.hits, !.hits = 0,
                     !.loc = IF Sole(s.cnt + s.hits) THEN s.last ELSE @] \in Search
<1> DEFINE cnt == s.cnt + s.hits
           loc == IF Sole(cnt) THEN s.last ELSE s.loc
           s1 == [s EXCEPT !.cnt = cnt]
           s2 == [s1 EXCEPT !.hits = 0]
<1>1. cnt \in Nat /\ loc \in Location
  BY DEF Search
<1>2. s1 \in Search
  BY <1>1 DEF Search
<1>3. s2 \in Search
  BY <1>2 DEF Search
<1>4. [s2 EXCEPT !.loc = loc] \in Search
  BY <1>1, <1>3 DEF Search
<1>5. [s EXCEPT !.cnt = cnt, !.hits = 0, !.loc = loc] = [s2 EXCEPT !.loc = loc]
  BY DEF Search
<1> QED BY <1>4, <1>5

LEMMA FindIInv == IInv /\ Find => IInv'
<1> SUFFICES ASSUME IInv, Find PROVE IInv'
  OBVIOUS
<1> USE DEF flashVars, ctxVars, callVars
<1>0. StateTypeOK /\ CallTypeOK /\ Arguments
  BY TypeSplit DEF IInv
<1>1. CASE FindSkip
  <2>1. CallTypeOK'
    BY <1>0, <1>1 DEF FindSkip, CallTypeOK, PCs
  <2>2. Arguments'
    BY <1>0, <1>1 DEF FindSkip, Arguments, CallTypeOK
  <2> QED BY <1>1, <2>1, <2>2, QuietStep DEF FindSkip, Loaded
<1>2. CASE FindMatch
  <2>1. PICK o \in Offsets : cur' = [cur EXCEPT !.off = o]
    <3>1. MatchOffs # {} /\ MatchOffs \subseteq Offsets
      BY <1>2 DEF FindMatch, MatchOffs
    <3> QED BY <1>2, <3>1, FirstOffIn DEF FindMatch
  <2>2. PICK r \in Vals \cup {NoVal} : srch' = [srch EXCEPT !.res = r]
    <3>1. cur.page \in Pages
      BY <1>0 DEF CallTypeOK
    <3>2. \A o2 \in Offsets : flash[cur.page].cell[o2].val \in Vals \cup {NoVal}
      <4>1. flash[cur.page] \in FlashPage
        BY <1>0, <3>1 DEF StateTypeOK
      <4>2. \A o2 \in Offsets : flash[cur.page].cell[o2] \in Item
        BY <4>1 DEF FlashPage
      <4> QED BY <4>2 DEF Item
    <3>3. FirstOff(MatchOffs) \in Offsets
      <4>1. MatchOffs # {} /\ MatchOffs \subseteq Offsets
        BY <1>2 DEF FindMatch, MatchOffs
      <4> QED BY <4>1, FirstOffIn
    <3>4. srch.res \in Vals \cup {NoVal}
      BY <1>0 DEF CallTypeOK
    <3> QED BY <1>2, <3>2, <3>3, <3>4 DEF FindMatch
  <2>3. CallTypeOK'
    BY <1>0, <1>2, <2>1, <2>2 DEF FindMatch, CallTypeOK, PCs, Location
  <2>4. Arguments'
    BY <1>0, <1>2, <2>1 DEF FindMatch, Arguments, CallTypeOK
  <2> QED BY <1>2, <2>3, <2>4, QuietStep DEF FindMatch, Loaded
<1>3. CASE FindAccept
  <2>1. cur.page \in Pages /\ cur.off \in Offsets
    BY <1>0, <1>3 DEF FindAccept, CallTypeOK, Arguments
  <2>2. Size(flash[cur.page].cell[cur.off]) \in Nat
    BY <1>0, <2>1, ItemTypes DEF StateTypeOK, FlashPage
  <2>3. srch' \in Search
    BY <1>0, <1>3, <2>1, AcceptSearch DEF FindAccept, CallTypeOK, Search, Location
  <2>4. cur' \in [page : Pages, off : Nat]
    BY <1>0, <1>3, <2>1, <2>2 DEF FindAccept, CallTypeOK
  <2>5. CallTypeOK'
    BY <1>0, <1>3, <2>3, <2>4 DEF FindAccept, CallTypeOK, PCs, Search
  <2>6. Arguments'
    BY <1>0, <1>3 DEF FindAccept, Arguments
  <2> QED BY <1>3, <2>5, <2>6, QuietStep DEF FindAccept, Loaded
<1>4. CASE FindPageEnd
  <2>1. srch' \in Search
    BY <1>0, <1>4, PageEndSearch DEF FindPageEnd, CallTypeOK, Search
  <2>2. CallTypeOK'
    BY <1>0, <1>4, <2>1 DEF FindPageEnd, CallTypeOK, PCs, Search
  <2>3. Arguments'
    BY <1>0, <1>4 DEF FindPageEnd, Arguments, CallTypeOK
  <2> QED BY <1>4, <2>2, <2>3, QuietStep DEF FindPageEnd, Loaded
<1>5. CASE FindNext
  <2>1. CallTypeOK'
    BY <1>0, <1>5, LastPageType DEF FindNext, CallTypeOK, PCs
  <2>2. Arguments'
    BY <1>0, <1>5 DEF FindNext, Arguments, CallTypeOK
  <2> QED BY <1>5, <2>1, <2>2, QuietStep DEF FindNext, Loaded
<1>6. CASE ReadDone
  <2>1. CallTypeOK'
    BY <1>0, <1>6 DEF ReadDone, CallTypeOK, PCs, Finish
  <2>2. Arguments'
    BY <1>0, <1>6 DEF ReadDone, Arguments, CallTypeOK, Finish
  <2> QED BY <1>6, <2>1, <2>2, QuietStep DEF ReadDone, Loaded, Finish
<1>7. CASE WriteFound
  <2>1. CallTypeOK'
    BY <1>0, <1>7 DEF WriteFound, CallTypeOK, PCs, Finish
  <2>2. Arguments'
    BY <1>0, <1>7 DEF WriteFound, Arguments, CallTypeOK, Finish
  <2> QED BY <1>7, <2>1, <2>2, QuietStep DEF WriteFound, Loaded, Finish
<1> QED BY <1>1, <1>2, <1>3, <1>4, <1>5, <1>6, <1>7 DEF Find

LEMMA DeleteIInv == IInv /\ Delete => IInv'
<1> SUFFICES ASSUME IInv, Delete PROVE IInv'
  OBVIOUS
<1> USE DEF flashVars, ctxVars, callVars
<1>0. StateTypeOK /\ CallTypeOK /\ Arguments
  BY TypeSplit DEF IInv
<1>1. CASE DeleteSkip
  <2>1. /\ pc' \in {"accept", "next", "return"}
        /\ rc' \in {rc, "ok"}
        /\ ret = "accept" \/ pc' # "accept"
    BY <1>0, <1>1 DEF DeleteSkip, AfterDelete, Finish, Arguments
  <2>2. CallTypeOK'
    BY <1>0, <1>1, <2>1 DEF DeleteSkip, CallTypeOK, PCs
  <2>3. Arguments'
    BY <1>0, <1>1, <2>1 DEF DeleteSkip, Arguments
  <2> QED BY <1>1, <2>1, <2>2, <2>3, QuietStep DEF DeleteSkip, Loaded
<1>2. CASE DeleteMismatch
  <2>1. CallTypeOK'
    BY <1>0, <1>2 DEF DeleteMismatch, CallTypeOK, PCs, Finish
  <2>2. Arguments'
    BY <1>0, <1>2 DEF DeleteMismatch, Arguments, CallTypeOK, Finish
  <2> QED BY <1>2, <2>1, <2>2, QuietStep DEF DeleteMismatch, Loaded, Finish
<1>3. CASE DeleteMark
  <2>1. /\ flash' \in [Pages -> FlashPage]
        /\ FlashShape'
        /\ \A q \in Pages : /\ flash'[q].status = flash[q].status
                            /\ flash'[q].used = flash[q].used
    <3>1. flash[tgt.page].cell[tgt.off].key # NoKey
      BY <1>0, <1>3 DEF DeleteMark, Arguments
    <3> QED BY <1>0, <1>3, <3>1, MarkKeeps DEF DeleteMark, IInv
  <2>2. /\ pages' \in [Pages -> RamPage]
        /\ \A q \in Pages : /\ pages'[q].status = pages[q].status
                            /\ pages'[q].bytes_used = pages[q].bytes_used
    <3>1. pages' = [pages EXCEPT ![tgt.page].item_cnt = @ - 1]
          /\ pages[tgt.page].item_cnt > 0
      BY <1>3 DEF DeleteMark
    <3>2. CASE tgt.page \in Pages
      <4>1. pages[tgt.page] \in RamPage
        BY <1>0, <3>2 DEF StateTypeOK
      <4>2. pages[tgt.page].item_cnt - 1 \in Nat
        BY <3>1, <4>1 DEF RamPage
      <4> QED BY <1>0, <3>1, <3>2, <4>1, <4>2 DEF StateTypeOK, RamPage
    <3>3. CASE tgt.page \notin Pages
      BY <1>0, <3>1, <3>3 DEF StateTypeOK
    <3> QED BY <3>2, <3>3
  <2>3. StateTypeOK'
    BY <1>0, <1>3, <2>1, <2>2 DEF DeleteMark, StateTypeOK
  <2>4. CallTypeOK'
    BY <1>0, <1>3 DEF DeleteMark, CallTypeOK, PCs
  <2>5. Mirrored'
    <3>1. \A q \in Pages : Mirrors(q)
      BY <1>3 DEF DeleteMark, IInv, Mirrored, Loaded
    <3>2. \A q \in Pages : Mirrors(q)'
      BY <2>1, <2>2, <3>1 DEF Mirrors
    <3> QED BY <1>3, <3>2, LoadedMirrored DEF DeleteMark, Loaded
  <2>6. Arguments'
    BY <1>0, <1>3 DEF DeleteMark, Arguments
  <2> QED BY <2>1, <2>3, <2>4, <2>5, <2>6, TypeSplit DEF IInv
<1>4. CASE DeleteErase
  <2>1. \A q \in Pages : Mirrors(q)
    BY <1>4 DEF DeleteErase, IInv, Mirrored, Loaded
  <2>2. StateTypeOK' /\ FlashShape' /\ \A q \in Pages : Mirrors(q)'
    <3>1. CASE Emptied(tgt.page)
      <4>1. ErasePage(tgt.page) /\ page_active' = page_active
        BY <1>4, <3>1 DEF DeleteErase
      <4> QED BY <1>0, <2>1, <4>1, ErasePageKeeps DEF IInv, StateTypeOK
    <3>2. CASE ~Emptied(tgt.page)
      <4>1. UNCHANGED <<flash, ctxVars>>
        BY <1>4, <3>2 DEF DeleteErase
      <4> QED BY <1>0, <2>1, <4>1, MirrorsKept, FlashShapeKept, StateTypeKept DEF IInv
    <3> QED BY <3>1, <3>2
  <2>3. CallTypeOK'
    BY <1>0, <1>4, ZenonT(60) DEF DeleteErase, AfterDelete, Finish, CallTypeOK, PCs, Arguments
  <2>4. Arguments'
    BY <1>0, <1>4 DEF DeleteErase, AfterDelete, Finish, Arguments
  <2>5. Mirrored'
    BY <1>0, <1>4, <2>2, LoadedMirrored
       DEF DeleteErase, AfterDelete, Finish, Loaded, Arguments
  <2> QED BY <2>2, <2>3, <2>4, <2>5, TypeSplit DEF IInv
<1> QED BY <1>1, <1>2, <1>3, <1>4 DEF Delete

LEMMA ReturnIInv == IInv /\ Return => IInv'
<1> SUFFICES ASSUME IInv, Return PROVE IInv'
  OBVIOUS
<1> USE DEF flashVars, ctxVars
<1>1. CallTypeOK
  BY TypeSplit DEF IInv
<1>2. CallTypeOK'
  <2>1. NoLoc \in Location
    BY DEF NoLoc, Location
  <2>2. 0 \in Pages
    OBVIOUS
  <2> QED BY <1>1, <2>1, <2>2 DEF Return, CallTypeOK, NoOp, NoSearch, PCs
<1>3. Arguments'
  BY DEF Return, Arguments, NoOp
<1> QED BY <1>2, <1>3, QuietStep DEF Return, Loaded

LEMMA CallIInv == IInv /\ Call => IInv'
<1> SUFFICES ASSUME IInv, Call PROVE IInv'
  OBVIOUS
<1> USE DEF flashVars, ctxVars
<1>0. StateTypeOK /\ CallTypeOK
  BY TypeSplit DEF IInv
<1>1. PICK o \in [kind : {"read", "write"}, key : Keys, val : Vals \cup {NoVal}] :
         /\ StartFind(o)
         /\ o.kind = "write" => o.val \in Vals
  <2>1. PICK k \in Keys : ReadItem(k) \/ \E v \in Vals : WriteItem(k, v)
    BY DEF Call
  <2>2. ASSUME ReadItem(k)
        PROVE  \E o \in [kind : {"read", "write"}, key : Keys, val : Vals \cup {NoVal}] :
                  StartFind(o) /\ (o.kind = "write" => o.val \in Vals)
    <3> DEFINE o == [kind |-> "read", key |-> k, val |-> NoVal]
    <3>1. o \in [kind : {"read", "write"}, key : Keys, val : Vals \cup {NoVal}]
      OBVIOUS
    <3>2. StartFind(o) /\ o.kind = "read"
      BY <2>2 DEF ReadItem
    <3> HIDE DEF o
    <3> QED BY <3>1, <3>2
  <2>3. ASSUME NEW v \in Vals, WriteItem(k, v)
        PROVE  \E o \in [kind : {"read", "write"}, key : Keys, val : Vals \cup {NoVal}] :
                  StartFind(o) /\ (o.kind = "write" => o.val \in Vals)
    <3> DEFINE o == [kind |-> "write", key |-> k, val |-> v]
    <3>1. o \in [kind : {"read", "write"}, key : Keys, val : Vals \cup {NoVal}]
      OBVIOUS
    <3>2. StartFind(o) /\ o.val \in Vals
      BY <2>3 DEF WriteItem
    <3> HIDE DEF o
    <3> QED BY <3>1, <3>2
  <2> QED BY <2>1, <2>2, <2>3
<1>2. PICK start \in Pages : /\ cur' = [page |-> start, off |-> 0]
                             /\ srch' = [NoSearch EXCEPT !.start = start]
  <2>1. (IF Valid(page_active) THEN page_active ELSE 0) \in Pages
    BY DEF Valid
  <2> QED BY <1>1, <2>1 DEF StartFind
<1>3. CallTypeOK'
  <2>1. srch' \in [start : Pages, cnt : Nat, hits : Nat, last : Location,
                   loc : Location, res : Vals \cup {NoVal}]
    BY <1>2 DEF NoSearch, NoLoc, Location
  <2> QED BY <1>0, <1>1, <1>2, <2>1 DEF StartFind, CallTypeOK, PCs
<1>4. Arguments'
  BY <1>1 DEF StartFind, Arguments
<1> QED BY <1>1, <1>3, <1>4, QuietStep DEF StartFind, Loaded

-----------------------------------------------------------------------------
(***************************************************************************)
(* The inductive invariant: the allocation and the realign.                *)
(***************************************************************************)
\* A page that has room is the active one.
LEMMA FitsActive ==
    ASSUME NEW p \in Pages, NEW n \in Nat \ {0}, Fits(p, n)
    PROVE  pages[p].status = "ACTIVE"
BY DEF Fits, Valid, FreeSize

LEMMA AllocPageType ==
    ASSUME StateTypeOK PROVE AllocPage \in Pages \cup {NoPage}
BY FirstPageFound DEF AllocPage, StateTypeOK, Valid

\* SetStatus and ErasePage change the flash and the RAM together.
LEMMA StatusStep ==
    ASSUME IInv, Loaded, Loaded', NEW p, NEW s \in {"ACTIVE", "FULL"}, SetStatus(p, s),
           CallTypeOK', Arguments'
    PROVE  IInv'
<1>1. StateTypeOK /\ FlashShape /\ \A q \in Pages : Mirrors(q)
  BY TypeSplit DEF IInv, Mirrored
<1>2. StateTypeOK' /\ FlashShape' /\ \A q \in Pages : Mirrors(q)'
  BY <1>1, SetStatusKeeps
<1> QED BY <1>2, LoadedMirrored, TypeSplit DEF IInv

LEMMA EraseStep ==
    ASSUME IInv, Loaded, Loaded', NEW p, ErasePage(p), UNCHANGED page_active,
           CallTypeOK', Arguments'
    PROVE  IInv'
<1>1. StateTypeOK /\ FlashShape /\ \A q \in Pages : Mirrors(q)
  BY TypeSplit DEF IInv, Mirrored
<1>2. StateTypeOK' /\ FlashShape' /\ \A q \in Pages : Mirrors(q)'
  BY <1>1, ErasePageKeeps DEF StateTypeOK
<1> QED BY <1>2, LoadedMirrored, TypeSplit DEF IInv

LEMMA SetStatusSets ==
    ASSUME IInv, Loaded, NEW p \in Pages, NEW s \in {"ACTIVE", "FULL"}, SetStatus(p, s)
    PROVE  pages'[p].status = s
<1>1. StateTypeOK /\ FlashShape /\ \A q \in Pages : Mirrors(q)
  BY TypeSplit DEF IInv, Mirrored
<1> QED BY <1>1, SetStatusKeeps

LEMMA AllocateIInv == IInv /\ Allocate => IInv'
<1> SUFFICES ASSUME IInv, Allocate PROVE IInv'
  OBVIOUS
<1> USE DEF flashVars, ctxVars, callVars
<1>0. StateTypeOK /\ CallTypeOK /\ Arguments
  BY TypeSplit DEF IInv
<1>a. Need \in Nat \ {0} \/ op.kind # "write"
  BY <1>0 DEF Need, Arguments
<1>1. CASE AllocFits
  <2>1. AllocPage \in Pages /\ op.kind = "write"
    BY <1>0, <1>1 DEF AllocFits, Valid, Arguments
  <2>2. pages[AllocPage].status = "ACTIVE"
    BY <1>a, <1>1, <2>1, FitsActive DEF AllocFits
  <2>3. CallTypeOK'
    BY <1>0, <1>1, <2>1 DEF AllocFits, UsePage, CallTypeOK, PCs
  <2>4. Arguments'
    BY <1>0, <1>1, <2>2 DEF AllocFits, UsePage, Arguments
  <2> QED BY <1>1, <2>3, <2>4, QuietStep DEF AllocFits, UsePage, Loaded
<1>2. CASE AllocFirst
  <2>1. CallTypeOK'
    BY <1>0, <1>2 DEF AllocFirst, CallTypeOK, PCs
  <2>2. Arguments'
    BY <1>0, <1>2 DEF AllocFirst, Arguments, CallTypeOK
  <2> QED BY <1>2, <2>1, <2>2, QuietStep DEF AllocFirst, Loaded
<1>3. CASE AllocNoRealign
  <2>1. CallTypeOK'
    BY <1>0, <1>3, AllocPageType DEF AllocNoRealign, CallTypeOK, PCs, NoRoom
  <2>2. Arguments'
    BY <1>0, <1>3, AllocPageType DEF AllocNoRealign, Arguments, CallTypeOK, NoRoom
  <2> QED BY <1>3, <2>1, <2>2, QuietStep DEF AllocNoRealign, Loaded, NoRoom
<1>4. CASE AllocRealign
  <2>1. FullPages = {} \/ RealignPage \in Pages
    BY RealignPageFound DEF IInv
  <2>2. CallTypeOK'
    BY <1>0, <1>4, <2>1 DEF AllocRealign, NoRoom, CallTypeOK, PCs
  <2>3. Arguments'
    BY <1>0, <1>4 DEF AllocRealign, NoRoom, Arguments
  <2> QED BY <1>4, <2>2, <2>3, QuietStep DEF AllocRealign, NoRoom, Loaded
<1>5. CASE AllocRetry
  <2>1. Fits(page_active, Need) /\ Valid(page_active) => pages[page_active].status = "ACTIVE"
    BY <1>0, <1>a, <1>5, FitsActive DEF AllocRetry, Valid, Arguments
  <2>2. CallTypeOK'
    BY <1>0, <1>5 DEF AllocRetry, UsePage, Finish, CallTypeOK, StateTypeOK, PCs
  <2>3. Arguments'
    BY <1>0, <1>5, <2>1 DEF AllocRetry, UsePage, Finish, Arguments
  <2> QED BY <1>5, <2>2, <2>3, QuietStep DEF AllocRetry, UsePage, Finish, Loaded
<1>6. CASE CloseActive
  <2>1. CallTypeOK'
    BY <1>0, <1>6 DEF CloseActive, CallTypeOK, PCs
  <2>2. Arguments'
    BY <1>0, <1>6 DEF CloseActive, Arguments
  <2> QED BY <1>6, <2>1, <2>2, StatusStep DEF CloseActive, Loaded
<1>7. CASE OpenNew
  <2> DEFINE p == FirstPage(dst, "ERASED")
  <2>1. CASE Valid(p)
    <3>1. /\ SetStatus(p, "ACTIVE") /\ dst' = p /\ p \in Pages
          /\ pc = "activate" /\ pc' = "put" /\ ret' = "write"
          /\ UNCHANGED <<header, op, cur, srch, tgt, rc, restarts>>
      BY <1>7, <2>1 DEF OpenNew, UsePage, Valid
    <3> HIDE DEF p
    <3>2. pages'[p].status = "ACTIVE"
      BY <3>1, SetStatusSets DEF Loaded
    <3>3. CallTypeOK'
      BY <1>0, <3>1 DEF CallTypeOK, PCs
    <3>4. Arguments'
      BY <1>0, <3>1, <3>2 DEF Arguments
    <3> QED BY <3>1, <3>3, <3>4, StatusStep DEF Loaded
  <2>2. CASE ~Valid(p)
    <3>1. CallTypeOK'
      BY <1>0, <1>7, <2>2 DEF OpenNew, Finish, CallTypeOK, PCs
    <3>2. Arguments'
      BY <1>0, <1>7, <2>2 DEF OpenNew, Finish, Arguments
    <3> QED BY <1>7, <2>2, <3>1, <3>2, QuietStep DEF OpenNew, Finish, Loaded
  <2> QED BY <2>1, <2>2
<1> QED BY <1>1, <1>2, <1>3, <1>4, <1>5, <1>6, <1>7 DEF Allocate

\* The item the realign has reached.
LEMMA RealignOffIn ==
    ASSUME Moving
    PROVE  FirstOff(RealignOffs) \in RealignOffs
BY FirstOffIn, SMTT(40) DEF Moving, RealignOffs

LEMMA RealignIInv == IInv /\ Realign => IInv'
<1> SUFFICES ASSUME IInv, Realign PROVE IInv'
  OBVIOUS
<1> USE DEF flashVars, ctxVars, callVars
<1>0. StateTypeOK /\ CallTypeOK /\ Arguments
  BY TypeSplit DEF IInv
<1>a. Moving => FirstOff(RealignOffs) \in Offsets /\ MovedItem.key # NoKey
  BY RealignOffIn DEF RealignOffs, MovedItem, Passed
<1>b. \A o \in Offsets : [cur EXCEPT !.off = o] \in [page : Pages, off : Nat]
                       /\ [cur EXCEPT !.off = o].off = o
  BY <1>0 DEF CallTypeOK
<1>1. CASE RealignDrop
  <2>1. PICK o \in Offsets :
           /\ pc = "realign" /\ pc' = pc
           /\ flash[cur.page].cell[o].key # NoKey
           /\ flash' = [flash EXCEPT ![cur.page].cell[o] = Erased(@)]
           /\ pages' = [pages EXCEPT ![cur.page].item_cnt = IF @ > 0 THEN @ - 1 ELSE 0]
           /\ cur' = [cur EXCEPT !.off = o]
           /\ UNCHANGED <<header, page_erased, page_active, op, srch, dst, tgt, ret, rc,
                          restarts>>
    BY <1>a, <1>1 DEF RealignDrop, MovedItem, Moving
  <2>2. /\ flash' \in [Pages -> FlashPage]
        /\ FlashShape'
        /\ \A q \in Pages : /\ flash'[q].status = flash[q].status
                            /\ flash'[q].used = flash[q].used
    BY <1>0, <2>1, MarkKeeps DEF IInv
  <2>3. /\ pages' \in [Pages -> RamPage]
        /\ \A q \in Pages : /\ pages'[q].status = pages[q].status
                            /\ pages'[q].bytes_used = pages[q].bytes_used
    <3> DEFINE cnt == IF pages[cur.page].item_cnt > 0 THEN pages[cur.page].item_cnt - 1 ELSE 0
    <3>1. cur.page \in Pages
      BY <1>0 DEF CallTypeOK
    <3>2. cnt \in Nat
      BY <1>0, <3>1 DEF StateTypeOK, RamPage
    <3>3. pages' = [pages EXCEPT ![cur.page].item_cnt = cnt]
      BY <2>1
    <3> HIDE DEF cnt
    <3> QED BY <1>0, <3>1, <3>2, <3>3 DEF StateTypeOK, RamPage
  <2>4. StateTypeOK'
    BY <1>0, <2>1, <2>2, <2>3 DEF StateTypeOK
  <2>5. CallTypeOK'
    BY <1>0, <1>b, <2>1 DEF CallTypeOK, PCs
  <2>6. Mirrored'
    <3>1. \A q \in Pages : Mirrors(q)
      BY <2>1 DEF IInv, Mirrored, Loaded
    <3>2. \A q \in Pages : Mirrors(q)'
      BY <2>2, <2>3, <3>1 DEF Mirrors
    <3> QED BY <2>1, <3>2, LoadedMirrored DEF Loaded
  <2>7. Arguments'
    BY <1>0, <2>1 DEF Arguments
  <2> QED BY <2>2, <2>4, <2>5, <2>6, <2>7, TypeSplit DEF IInv
<1>2. CASE RealignFull
  <2> DEFINE p == FirstPage(page_active, "ERASED")
  <2>1. CASE Valid(p)
    <3>1. /\ SetStatus(page_active, "FULL") /\ dst' = p /\ p \in Pages
          /\ pc = "realign" /\ pc' = "open"
          /\ cur' = [cur EXCEPT !.off = FirstOff(RealignOffs)]
          /\ UNCHANGED <<header, op, srch, tgt, ret, rc, restarts>>
      BY <1>2, <2>1 DEF RealignFull, Moving, Valid
    <3> HIDE DEF p
    <3>2. FirstOff(RealignOffs) \in Offsets
      BY <1>a, <1>2 DEF RealignFull
    <3>3. CallTypeOK'
      BY <1>0, <1>b, <3>1, <3>2 DEF CallTypeOK, PCs
    <3>4. Arguments'
      BY <1>0, <1>b, <3>1, <3>2 DEF Arguments
    <3> QED BY <3>1, <3>3, <3>4, StatusStep DEF Loaded
  <2>2. CASE ~Valid(p)
    <3>1. CallTypeOK'
      BY <1>0, <1>2, <2>2 DEF RealignFull, Moving, CallTypeOK, PCs
    <3>2. Arguments'
      BY <1>0, <1>2, <2>2 DEF RealignFull, Moving, Arguments
    <3> QED BY <1>2, <2>2, <3>1, <3>2, QuietStep DEF RealignFull, Moving, Loaded
  <2> QED BY <2>1, <2>2
<1>3. CASE RealignOpen
  <2>1. dst \in Pages /\ cur.off \in Offsets /\ pc = "open"
    BY <1>0, <1>3 DEF RealignOpen, Arguments
  <2>2. pages'[dst].status = "ACTIVE"
    BY <1>3, <2>1, SetStatusSets DEF RealignOpen, Loaded
  <2>3. CallTypeOK'
    BY <1>0, <1>3 DEF RealignOpen, CallTypeOK, PCs
  <2>4. Arguments'
    BY <1>0, <1>3, <2>1, <2>2 DEF RealignOpen, Arguments
  <2> QED BY <1>3, <2>1, <2>3, <2>4, StatusStep DEF RealignOpen, Loaded
<1>4. CASE RealignFits
  <2>1. /\ FirstOff(RealignOffs) \in Offsets
        /\ Size(MovedItem) \in Nat \ {0}
    <3>1. FirstOff(RealignOffs) \in Offsets /\ cur.page \in Pages
      BY <1>0, <1>a, <1>4 DEF RealignFits, CallTypeOK
    <3>2. MovedItem \in Item
      BY <1>0, <3>1 DEF MovedItem, StateTypeOK, FlashPage
    <3> QED BY <3>1, <3>2, ItemTypes
  <2>2. page_active \in Pages => pages[page_active].status = "ACTIVE"
    BY <1>4, <2>1, FitsActive DEF RealignFits
  <2>3. CallTypeOK'
    BY <1>0, <1>b, <1>4, <2>1 DEF RealignFits, Moving, CallTypeOK, StateTypeOK, PCs
  <2>4. Arguments'
    BY <1>0, <1>b, <1>4, <2>1, <2>2 DEF RealignFits, Moving, Arguments
  <2> QED BY <1>4, <2>3, <2>4, QuietStep DEF RealignFits, Moving, Loaded
<1>5. CASE RealignErase
  <2>1. CallTypeOK'
    BY <1>0, <1>5 DEF RealignErase, CallTypeOK, PCs
  <2>2. Arguments'
    BY <1>0, <1>5 DEF RealignErase, Arguments
  <2> QED BY <1>5, <2>1, <2>2, EraseStep DEF RealignErase, Loaded
<1> QED BY <1>1, <1>2, <1>3, <1>4, <1>5 DEF Realign

-----------------------------------------------------------------------------
(***************************************************************************)
(* The inductive invariant: the write of an item, restarts, and the whole. *)
(***************************************************************************)
\* What st_page_write_item is asked to store is an item.
LEMMA PutItemType ==
    ASSUME IInv, pc \in {"put", "put_full"}
    PROVE  PutItem \in Item /\ Size(PutItem) \in Nat /\ Size(PutItem) > 0
<1>1. StateTypeOK /\ CallTypeOK /\ Arguments
  BY TypeSplit DEF IInv
<1>2. CASE ret = "realign"
  <2>1. cur.page \in Pages /\ cur.off \in Offsets
    BY <1>1, <1>2 DEF CallTypeOK, Arguments
  <2>2. PutItem \in Item
    BY <1>1, <1>2, <2>1 DEF PutItem, StateTypeOK, FlashPage
  <2> QED BY <2>2, ItemTypes
<1>3. CASE ret # "realign"
  <2>1. op.key \in Keys /\ op.val \in Vals
    BY <1>1 DEF Arguments
  <2>2. PutItem \in Item
    BY <1>3, <2>1, ItemTypes DEF PutItem
  <2> QED BY <2>2, ItemTypes
<1> QED BY <1>2, <1>3

\* A place st_page_write_item accepts is right behind the last item of an open page.
LEMMA PutPlace ==
    ASSUME IInv, pc = "put", PutAllowed
    PROVE  /\ dst \in Pages
           /\ flash[dst].status # "ERASED"
           /\ pages[dst].bytes_used = flash[dst].used
           /\ pages[dst].status = "ACTIVE"
<1>1. dst \in Pages
  BY DEF PutAllowed, Valid
<1>2. pages[dst].status = "ACTIVE"
  BY <1>1 DEF IInv, Arguments
<1>3. Mirrors(dst)
  BY <1>1 DEF IInv, Mirrored, Loaded
<1> QED BY <1>1, <1>2, <1>3 DEF Mirrors

\* The caller goes on after its item is stored.
LEMMA PutReturnsKeeps ==
    ASSUME IInv, pc \in {"put", "put_full"}, PutReturns,
           UNCHANGED <<header, op, srch, dst, restarts>>
    PROVE  CallTypeOK' /\ Arguments' /\ Loaded'
<1>1. CallTypeOK /\ Arguments
  BY TypeSplit DEF IInv
<1>2. CASE ret = "realign"
  <2>1. /\ pc' = "realign" /\ UNCHANGED <<tgt, ret, rc>>
        /\ cur' = [cur EXCEPT !.off = cur.off + Size(PutItem)]
    BY <1>2 DEF PutReturns
  <2>2. cur' \in [page : Pages, off : Nat]
    BY <1>1, <2>1, PutItemType DEF CallTypeOK
  <2>3. CallTypeOK'
    BY <1>1, <2>1, <2>2 DEF CallTypeOK, PCs
  <2> QED BY <1>1, <2>1, <2>3 DEF Arguments, Loaded
<1>3. CASE ret # "realign" /\ Valid(srch.loc.page)
  <2>1. /\ pc' = "del" /\ tgt' = srch.loc /\ ret' = "old" /\ UNCHANGED <<cur, rc>>
    BY <1>3 DEF PutReturns
  <2>2. CallTypeOK'
    BY <1>1, <2>1 DEF CallTypeOK, PCs
  <2> QED BY <1>1, <2>1, <2>2 DEF Arguments, Loaded
<1>4. CASE ret # "realign" /\ ~Valid(srch.loc.page)
  <2>1. pc' = "return" /\ rc' = "ok" /\ UNCHANGED <<cur, tgt, ret>>
    BY <1>4 DEF PutReturns, Finish
  <2>2. CallTypeOK'
    BY <1>1, <2>1 DEF CallTypeOK, PCs
  <2> QED BY <1>1, <2>1, <2>2 DEF Arguments, Loaded
<1> QED BY <1>2, <1>3, <1>4

LEMMA WriteIInv == IInv /\ Write => IInv'
<1> SUFFICES ASSUME IInv, Write PROVE IInv'
  OBVIOUS
<1> USE DEF flashVars, ctxVars, callVars
<1>0. StateTypeOK /\ CallTypeOK /\ Arguments
  BY TypeSplit DEF IInv
<1>a. \A q \in Pages : Mirrors(q)
  BY DEF Write, PutFails, Put, PutFull, IInv, Mirrored, Loaded
<1>1. CASE PutFails
  <2>1. CallTypeOK'
    BY <1>0, <1>1 DEF PutFails, Finish, CallTypeOK, PCs
  <2>2. Arguments'
    BY <1>0, <1>1 DEF PutFails, Finish, Arguments
  <2> QED BY <1>1, <2>1, <2>2, QuietStep DEF PutFails, Finish, Loaded
<1>2. CASE Put
  <2> DEFINE used == pages[dst].bytes_used + Size(PutItem)
  <2>0. PICK p : p = dst
    OBVIOUS
  <2>1. /\ pc = "put" /\ PutAllowed /\ p \in Pages
        /\ pages[p].status = "ACTIVE" /\ flash[p].status # "ERASED"
        /\ pages[p].bytes_used = flash[p].used
        /\ PutItem \in Item /\ Size(PutItem) \in Nat
        /\ used \in Nat /\ used = flash[p].used + Size(PutItem)
        /\ flash' = [flash EXCEPT ![p] = AppendItem(@, flash[p].used, PutItem)]
        /\ UNCHANGED <<header, page_erased, op, srch, dst, restarts>>
    <3>1. pc = "put" /\ PutAllowed
      BY <1>2 DEF Put
    <3>2. pages[dst].bytes_used \in Nat
      BY <1>0, <3>1, PutPlace DEF StateTypeOK, RamPage
    <3>3. PutItem \in Item /\ Size(PutItem) \in Nat
      BY <3>1, PutItemType
    <3>4. /\ p \in Pages
          /\ pages[p].status = "ACTIVE" /\ flash[p].status # "ERASED"
          /\ pages[p].bytes_used = flash[p].used
      BY <2>0, <3>1, PutPlace
    <3>5. used \in Nat /\ used = flash[p].used + Size(PutItem)
      BY <2>0, <3>2, <3>3, <3>4
    <3>6. flash' = [flash EXCEPT ![dst] = AppendItem(@, pages[dst].bytes_used, PutItem)]
          /\ UNCHANGED <<header, page_erased, op, srch, dst, restarts>>
      BY <1>2 DEF Put
    <3>7. flash' = [flash EXCEPT ![p] = AppendItem(@, flash[p].used, PutItem)]
      BY <2>0, <3>4, <3>6
    <3> QED BY <3>1, <3>3, <3>4, <3>5, <3>6, <3>7
  <2>2. /\ flash' \in [Pages -> FlashPage]
        /\ FlashShape'
        /\ flash'[p].status = flash[p].status
        /\ flash'[p].used = used
        /\ \A q \in Pages \ {p} : flash'[q] = flash[q]
    BY <1>0, <2>1, AppendKeeps DEF IInv
  <2>3. PICK n \in Nat : pages' = [pages EXCEPT ![p].bytes_used = used, ![p].item_cnt = n]
    <3>1. pages[p].item_cnt \in Nat
      BY <1>0, <2>1 DEF StateTypeOK, RamPage
    <3>2. CASE PageContent - used < HeaderSize
      <4>1. pages' = [pages EXCEPT ![p].bytes_used = used]
        BY <1>2, <2>0, <3>2 DEF Put
      <4>2. pages' = [pages EXCEPT ![p].bytes_used = used,
                                   ![p].item_cnt = pages[p].item_cnt]
        BY <1>0, <2>1, <4>1 DEF StateTypeOK, RamPage
      <4> QED BY <3>1, <4>2
    <3>3. CASE ~(PageContent - used < HeaderSize)
      <4> DEFINE n == pages[p].item_cnt + 1
      <4>1. pages' = [pages EXCEPT ![p].bytes_used = used, ![p].item_cnt = n]
        BY <1>2, <2>0, <3>3 DEF Put
      <4>2. n \in Nat
        BY <3>1
      <4> HIDE DEF n
      <4> QED BY <4>1, <4>2
    <3> QED BY <3>2, <3>3
  <2>4. /\ pages' \in [Pages -> RamPage]
        /\ pages'[p].bytes_used = used /\ pages'[p].status = "ACTIVE"
        /\ \A q \in Pages \ {p} : pages'[q] = pages[q]
    BY <1>0, <2>1, <2>3, ZenonT(60) DEF StateTypeOK, RamPage
  <2>5. page_active' \in Pages \cup {NoPage}
    BY <1>0, <1>2, <2>0, <2>1 DEF Put, StateTypeOK
  <2>6. StateTypeOK'
    BY <1>0, <2>1, <2>2, <2>4, <2>5 DEF StateTypeOK
  <2>7. ASSUME NEW q \in Pages PROVE Mirrors(q)'
    <3>1. Mirrors(q)
      BY <1>a, <2>1
    <3>2. CASE q = p
      BY <2>1, <2>2, <2>4, <3>2 DEF Mirrors
    <3>3. CASE q # p
      BY <2>2, <2>4, <3>1, <3>3 DEF Mirrors
    <3> QED BY <3>2, <3>3
  <2>8. CallTypeOK' /\ Arguments' /\ Loaded'
    <3>1. CASE PageContent - used < HeaderSize
      <4>1. pc' = "put_full" /\ UNCHANGED <<cur, tgt, ret, rc>>
        BY <1>2, <3>1 DEF Put
      <4> QED BY <1>0, <2>0, <2>1, <4>1 DEF CallTypeOK, PCs, Arguments, Loaded
    <3>2. CASE ~(PageContent - used < HeaderSize)
      <4>1. PutReturns
        BY <1>2, <3>2 DEF Put
      <4> QED BY <2>1, <4>1, PutReturnsKeeps
    <3> QED BY <3>1, <3>2
  <2> QED BY <2>2, <2>6, <2>7, <2>8, LoadedMirrored, TypeSplit DEF IInv
<1>3. CASE PutFull
  <2>0. PICK p : p = dst
    OBVIOUS
  <2>1. /\ pc = "put_full" /\ p \in Pages /\ PutReturns
        /\ flash' = [flash EXCEPT ![p].status = Burn(flash[p].status, "FULL")]
        /\ pages' = [pages EXCEPT ![p].status = "FULL",
                                  ![p].item_cnt = pages[p].item_cnt + 1]
        /\ page_active' = NoPage
        /\ UNCHANGED <<header, page_erased, op, srch, dst, restarts>>
    BY <1>0, <1>3, <2>0 DEF PutFull, Arguments
  <2>2. Burn(flash[p].status, "FULL") = "FULL"
    BY DEF Burn
  <2>3. /\ flash' \in [Pages -> FlashPage]
        /\ flash'[p].status = "FULL" /\ flash'[p].used = flash[p].used
        /\ flash'[p].cell = flash[p].cell
        /\ \A q \in Pages \ {p} : flash'[q] = flash[q]
    BY <1>0, <2>1, <2>2 DEF StateTypeOK, FlashPage, FlashStatus
  <2>4. FlashShape'
    BY <2>1, <2>3 DEF IInv, FlashShape
  <2>5. /\ pages' \in [Pages -> RamPage]
        /\ pages'[p].bytes_used = pages[p].bytes_used /\ pages'[p].status = "FULL"
        /\ \A q \in Pages \ {p} : pages'[q] = pages[q]
    <3>1. pages[p].item_cnt + 1 \in Nat
      BY <1>0, <2>1 DEF StateTypeOK, RamPage
    <3> QED BY <1>0, <2>1, <3>1 DEF StateTypeOK, RamPage, RamStatus, FlashStatus
  <2>6. StateTypeOK'
    BY <1>0, <2>1, <2>3, <2>5 DEF StateTypeOK
  <2>7. \A q \in Pages : Mirrors(q)'
    BY <1>a, <2>1, <2>3, <2>5 DEF Mirrors
  <2>8. CallTypeOK' /\ Arguments' /\ Loaded'
    BY <2>1, PutReturnsKeeps
  <2> QED BY <2>4, <2>6, <2>7, <2>8, LoadedMirrored, TypeSplit DEF IInv
<1> QED BY <1>1, <1>2, <1>3 DEF Write

\* A restart forgets what is in RAM.
LEMMA RestartKeeps ==
    ASSUME Restart, flash' \in [Pages -> FlashPage], FlashShape', CallTypeOK
    PROVE  IInv'
<1>1. StateTypeOK'
  <2>1. ZeroPage \in RamPage
    BY DEF ZeroPage, RamPage, RamStatus
  <2> QED BY <2>1 DEF Restart, StateTypeOK
<1>2. CallTypeOK'
  <2>1. NoLoc \in Location
    BY DEF NoLoc, Location
  <2>2. 0 \in Pages
    OBVIOUS
  <2> QED BY <2>1, <2>2 DEF Restart, CallTypeOK, NoOp, NoSearch, PCs
<1>3. Mirrored'
  BY DEF Restart, Mirrored, Loaded
<1>4. Arguments'
  BY DEF Restart, Arguments, NoOp
<1> QED BY <1>1, <1>2, <1>3, <1>4, TypeSplit DEF IInv

LEMMA FailIInv == IInv /\ Fail => IInv'
<1> SUFFICES ASSUME IInv, Fail PROVE IInv'
  OBVIOUS
<1>0. StateTypeOK /\ CallTypeOK
  BY TypeSplit DEF IInv
<1>1. CASE (Reset \/ PowerLoss)
  <2>1. Restart /\ UNCHANGED flash
    BY <1>1 DEF Reset, PowerLoss
  <2>2. flash' \in [Pages -> FlashPage] /\ FlashShape'
    BY <1>0, <2>1, FlashShapeKept DEF IInv, StateTypeOK
  <2> QED BY <1>0, <2>1, <2>2, RestartKeeps
<1>2. CASE TornWrite
  <2>1. PICK k \in {BadKey, PutItem.key} :
           flash' = [flash EXCEPT ![dst] = AppendItem(@, pages[dst].bytes_used,
                        [key |-> k, len |-> PutItem.len, val |-> NoVal])]
    BY <1>2 DEF TornWrite
  <2> DEFINE it == [key |-> k, len |-> PutItem.len, val |-> NoVal]
  <2>2. it \in Item
    BY <1>2, PutItemType DEF TornWrite, Item
  <2> HIDE DEF it
  <2>3. Restart /\ pc = "put" /\ PutAllowed
    BY <1>2 DEF TornWrite
  <2>4. dst \in Pages /\ flash[dst].status # "ERASED"
        /\ flash' = [flash EXCEPT ![dst] = AppendItem(@, flash[dst].used, it)]
    BY <2>1, <2>3, PutPlace DEF it
  <2>5. flash' \in [Pages -> FlashPage] /\ FlashShape'
    BY <1>0, <2>2, <2>4, AppendKeeps DEF IInv
  <2> QED BY <1>0, <2>3, <2>5, RestartKeeps
<1> QED BY <1>1, <1>2 DEF Fail

LEMMA StutterIInv == IInv /\ UNCHANGED vars => IInv'
<1> SUFFICES ASSUME IInv, UNCHANGED vars PROVE IInv'
  OBVIOUS
<1> USE DEF vars, flashVars, ctxVars, callVars
<1>1. CallTypeOK'
  BY TypeSplit DEF IInv, CallTypeOK
<1>2. StateTypeOK' /\ FlashShape'
  BY TypeSplit, StateTypeKept, FlashShapeKept DEF IInv
<1>3. Mirrored'
  BY DEF IInv, Mirrored, Mirrors, Loaded
<1>4. Arguments'
  BY DEF IInv, Arguments
<1> QED BY <1>1, <1>2, <1>3, <1>4, TypeSplit DEF IInv

LEMMA NextIInv == IInv /\ [Next]_vars => IInv'
BY BootIInv, FindIInv, DeleteIInv, AllocateIInv, RealignIInv, WriteIInv, ReturnIInv,
   CallIInv, FailIInv, StutterIInv DEF Next, Step

\* Whatever calls, restarts, power losses and torn writes come in whatever order, for
\* any number of pages, keys and values of any length: the RAM's bytes_used is the end
\* of the programmed bytes in the flash, a page is blank exactly where it is thought to
\* be, and no step of storage.c is entered with arguments it cannot handle.
THEOREM Invariance == Spec => []IInv
BY InitIInv, NextIInv, PTL DEF Spec

\* The erase of a page that power is lost in leaves a page without items, whatever else
\* it leaves there.
LEMMA EraseCutIInv == IInv /\ EraseCut => IInv'
<1> SUFFICES ASSUME IInv, EraseCut PROVE IInv'
  OBVIOUS
<1>0. StateTypeOK /\ CallTypeOK /\ FlashShape
  BY TypeSplit DEF IInv
<1>1. PICK p \in Pages : flash' = [flash EXCEPT ![p] = BlankPage]
  BY DEF EraseCut
<1>2. \A q \in Pages : flash'[q] = IF q = p THEN BlankPage ELSE flash[q]
  BY <1>0, <1>1 DEF StateTypeOK
<1>3. flash' \in [Pages -> FlashPage]
  BY <1>0, <1>1, BlankPageType DEF StateTypeOK
<1>4. \A o \in Offsets : BlankPage.cell[o] = Blank
  BY DEF BlankPage
<1>5. FlashShape'
  BY <1>0, <1>2, <1>4 DEF FlashShape
<1> QED BY <1>0, <1>3, <1>5, RestartKeeps DEF EraseCut

LEMMA CutNextIInv == IInv /\ [CutNext]_cutVars => IInv'
BY NextIInv, EraseCutIInv DEF CutNext, StorageStep, cutVars

\* The same where the erase of a page may be cut short, at any block and any number of
\* times, up to the moment the store programs over what such an erase has left, or
\* reads it.
THEOREM CutInvariance == CutSpec => []IInv
<1>1. CutInit => IInv
  BY InitIInv DEF CutInit
<1> QED BY <1>1, CutNextIInv, PTL DEF CutSpec

-----------------------------------------------------------------------------
(***************************************************************************)
(* How the flash is used.                                                  *)
(***************************************************************************)
Disciplined == \A p \in Pages : flash'[p] = BlankPage \/ Programs(flash[p], flash'[p])

LEMMA KeptDisciplined == UNCHANGED flash => Disciplined
BY DEF Disciplined, Programs

LEMMA OnePageDisciplined ==
    ASSUME NEW p, NEW new, StateTypeOK, flash' = [flash EXCEPT ![p] = new],
           p \in Pages => new = BlankPage \/ Programs(flash[p], new)
    PROVE  Disciplined
<1>1. \A q \in Pages : flash'[q] = IF q = p THEN new ELSE flash[q]
  BY DEF StateTypeOK
<1>2. \A q \in Pages : Programs(flash[q], flash[q])
  BY DEF Programs
<1> QED BY <1>1, <1>2 DEF Disciplined

LEMMA SetStatusDisciplined ==
    ASSUME StateTypeOK, NEW p, NEW s \in {"ACTIVE", "FULL"}, SetStatus(p, s)
    PROVE  Disciplined
<1>1. CASE ~Valid(p) \/ pages[p].status = s
  BY <1>1, KeptDisciplined DEF SetStatus
<1>2. CASE ~(~Valid(p) \/ pages[p].status = s)
  <2> DEFINE new == [flash[p] EXCEPT !.status = Burn(flash[p].status, s)]
  <2>1. p \in Pages /\ flash' = [flash EXCEPT ![p] = new]
    BY <1>2 DEF SetStatus, Valid
  <2>2. flash[p] \in FlashPage
    BY <2>1 DEF StateTypeOK
  <2>3. /\ new.cell = flash[p].cell /\ new.used = flash[p].used
        /\ new.status = Burn(flash[p].status, s)
    BY <2>2 DEF FlashPage
  <2>4. new.status = flash[p].status \/ flash[p].status = "ERASED" \/ new.status = "FULL"
    BY <2>2, <2>3 DEF Burn, FlashPage, FlashStatus
  <2>5. Programs(flash[p], new)
    BY <2>3, <2>4 DEF Programs
  <2> HIDE DEF new
  <2> QED BY <2>1, <2>5, OnePageDisciplined
<1> QED BY <1>1, <1>2

LEMMA ErasePageDisciplined ==
    ASSUME StateTypeOK, NEW p, ErasePage(p)
    PROVE  Disciplined
BY KeptDisciplined, OnePageDisciplined DEF ErasePage

LEMMA MarkDisciplined ==
    ASSUME StateTypeOK, NEW p, NEW off, flash[p].cell[off].key # NoKey,
           flash' = [flash EXCEPT ![p].cell[off] = Erased(@)]
    PROVE  Disciplined
<1> DEFINE new == [flash[p] EXCEPT !.cell[off] = Erased(flash[p].cell[off])]
<1>1. flash' = [flash EXCEPT ![p] = new]
  OBVIOUS
<1>2. ASSUME p \in Pages PROVE Programs(flash[p], new)
  <2>1. flash[p] \in FlashPage
    BY <1>2 DEF StateTypeOK
  <2>2. /\ new.status = flash[p].status /\ new.used = flash[p].used
        /\ \A o \in Offsets : new.cell[o] = IF o = off THEN Erased(flash[p].cell[o])
                                                      ELSE flash[p].cell[o]
    BY <2>1 DEF FlashPage
  <2>3. flash[p].cell[off] # Blank
    BY DEF Blank
  <2> HIDE DEF new
  <2> QED BY <2>2, <2>3 DEF Programs
<1> HIDE DEF new
<1> QED BY <1>1, <1>2, OnePageDisciplined

LEMMA AppendDisciplined ==
    ASSUME StateTypeOK, FlashShape, NEW p \in Pages, NEW it \in Item,
           flash[p].used + Size(it) < PageContent,
           flash' = [flash EXCEPT ![p] = AppendItem(@, flash[p].used, it)]
    PROVE  Disciplined
<1> DEFINE new == AppendItem(flash[p], flash[p].used, it)
           off == flash[p].used
<1>1. flash[p] \in FlashPage /\ Size(it) \in Nat /\ Size(it) > 0
  BY ItemTypes DEF StateTypeOK
<1>2. off \in Offsets
  BY <1>1 DEF FlashPage
<1>3. /\ new.status = flash[p].status /\ new.used = off + Size(it)
      /\ \A o \in Offsets : new.cell[o] = IF o = off THEN it ELSE flash[p].cell[o]
  BY <1>1 DEF AppendItem, FlashPage
<1>4. flash[p].cell[off] = Blank
  BY <1>1, <1>2 DEF FlashShape, FlashPage
<1>5. new.used <= PageContent
  BY <1>1, <1>3 DEF FlashPage
<1>6. flash' = [flash EXCEPT ![p] = new]
  OBVIOUS
<1> HIDE DEF new
<1>7. Programs(flash[p], new)
  BY <1>2, <1>3, <1>4, <1>5 DEF Programs
<1> QED BY <1>6, <1>7, OnePageDisciplined

LEMMA ScanDisciplined ==
    ASSUME StateTypeOK, CallTypeOK, InitUsedPage
    PROVE  Disciplined
<1> DEFINE p == cur.page
<1>1. p \in Pages
  BY DEF CallTypeOK
<1>2. CASE flash' = [flash EXCEPT ![p] = BlankPage]
  BY <1>2, OnePageDisciplined
<1>3. CASE flash' = [flash EXCEPT ![p] = Scanned(flash[p])]
  <2> DEFINE new == Scanned(flash[p])
  <2>1. flash[p] \in FlashPage
    BY <1>1 DEF StateTypeOK
  <2>2. /\ new.status = flash[p].status /\ new.used = flash[p].used
        /\ \A o \in Offsets : new.cell[o] =
              IF flash[p].cell[o].key \in Keys /\ flash[p].cell[o].val = NoVal
              THEN Erased(flash[p].cell[o]) ELSE flash[p].cell[o]
    BY <2>1 DEF Scanned, FlashPage
  <2>3. Blank.key \notin Keys
    BY DEF Blank
  <2> HIDE DEF new
  <2>4. Programs(flash[p], new)
    BY <2>2, <2>3 DEF Programs
  <2> QED BY <1>3, <2>4, OnePageDisciplined DEF new
<1> QED BY <1>2, <1>3 DEF InitUsedPage

LEMMA PutDisciplined ==
    ASSUME IInv, pc = "put", PutAllowed, NEW it \in Item, it.len = PutItem.len,
           flash' = [flash EXCEPT ![dst] = AppendItem(@, pages[dst].bytes_used, it)]
    PROVE  Disciplined
<1>1. StateTypeOK /\ FlashShape
  BY TypeSplit DEF IInv
<1>2. dst \in Pages /\ pages[dst].bytes_used = flash[dst].used
  BY PutPlace
<1>3. flash[dst].used + Size(it) < PageContent
  BY <1>2 DEF PutAllowed, Size
<1> QED BY <1>1, <1>2, <1>3, AppendDisciplined

LEMMA NextDisciplined == IInv /\ [Next]_vars => Disciplined
<1> SUFFICES ASSUME IInv, [Next]_vars PROVE Disciplined
  OBVIOUS
<1> USE DEF flashVars
<1>0. StateTypeOK /\ CallTypeOK
  BY TypeSplit DEF IInv
<1>1. CASE Boot
  <2>1. CASE LoadHeader
    <3>1. UNCHANGED flash \/ flash' = [p \in Pages |-> BlankPage]
      BY <2>1 DEF LoadHeader
    <3> QED BY <3>1, KeptDisciplined DEF Disciplined
  <2>2. CASE InitUsedPage
    BY <1>0, <2>2, ScanDisciplined
  <2>3. CASE EraseAll
    BY <1>0, <2>3, ErasePageDisciplined DEF EraseAll
  <2> QED BY <1>1, <2>1, <2>2, <2>3, KeptDisciplined
          DEF Boot, HeaderInit, InitErasedPage, InitFails
<1>2. CASE Find \/ Return \/ Call
  <2>1. UNCHANGED flash
    BY <1>2 DEF Find, FindSkip, FindMatch, FindAccept, FindPageEnd, FindNext, ReadDone,
                WriteFound, Return, Call, ReadItem, WriteItem, StartFind
  <2> QED BY <2>1, KeptDisciplined
<1>3. CASE Delete
  <2>1. CASE DeleteMark
    <3>1. flash[tgt.page].cell[tgt.off].key # NoKey
      BY <2>1 DEF DeleteMark, IInv, Arguments
    <3> QED BY <1>0, <2>1, <3>1, MarkDisciplined DEF DeleteMark
  <2>2. CASE DeleteErase
    BY <1>0, <2>2, ErasePageDisciplined, KeptDisciplined DEF DeleteErase
  <2> QED BY <1>3, <2>1, <2>2, KeptDisciplined DEF Delete, DeleteSkip, DeleteMismatch
<1>4. CASE Allocate
  <2>1. CASE CloseActive
    BY <1>0, <2>1, SetStatusDisciplined DEF CloseActive
  <2>2. CASE OpenNew
    BY <1>0, <2>2, SetStatusDisciplined, KeptDisciplined DEF OpenNew
  <2> QED BY <1>4, <2>1, <2>2, KeptDisciplined
          DEF Allocate, AllocFits, AllocFirst, AllocNoRealign, AllocRealign, AllocRetry
<1>5. CASE Realign
  <2>1. CASE RealignDrop
    <3> DEFINE o == FirstOff(RealignOffs)
    <3>1. flash[cur.page].cell[o].key # NoKey
      BY <2>1, RealignOffIn DEF RealignDrop, RealignOffs, Passed
    <3>2. flash' = [flash EXCEPT ![cur.page].cell[o] = Erased(@)]
      BY <2>1 DEF RealignDrop
    <3> HIDE DEF o
    <3> QED BY <1>0, <3>1, <3>2, MarkDisciplined
  <2>2. CASE RealignFull
    BY <1>0, <2>2, SetStatusDisciplined, KeptDisciplined DEF RealignFull
  <2>3. CASE RealignOpen
    BY <1>0, <2>3, SetStatusDisciplined DEF RealignOpen
  <2>4. CASE RealignErase
    BY <1>0, <2>4, ErasePageDisciplined DEF RealignErase
  <2> QED BY <1>5, <2>1, <2>2, <2>3, <2>4, KeptDisciplined DEF Realign, RealignFits
<1>6. CASE Write
  <2>1. CASE Put
    BY <2>1, PutItemType, PutDisciplined DEF Put
  <2>2. CASE PutFull
    <3> DEFINE new == [flash[dst] EXCEPT !.status = Burn(flash[dst].status, "FULL")]
    <3>1. dst \in Pages /\ flash' = [flash EXCEPT ![dst] = new]
      BY <2>2 DEF PutFull, IInv, Arguments
    <3>2. /\ new.status = "FULL" /\ new.cell = flash[dst].cell
          /\ new.used = flash[dst].used
      BY <1>0, <3>1 DEF StateTypeOK, FlashPage, Burn
    <3>3. Programs(flash[dst], new)
      BY <3>2 DEF Programs
    <3> HIDE DEF new
    <3> QED BY <1>0, <3>1, <3>3, OnePageDisciplined
  <2> QED BY <1>6, <2>1, <2>2, KeptDisciplined DEF Write, PutFails
<1>7. CASE Fail
  <2>1. CASE TornWrite
    <3>1. PICK k \in {BadKey, PutItem.key} :
             flash' = [flash EXCEPT ![dst] = AppendItem(@, pages[dst].bytes_used,
                          [key |-> k, len |-> PutItem.len, val |-> NoVal])]
      BY <2>1 DEF TornWrite
    <3> DEFINE it == [key |-> k, len |-> PutItem.len, val |-> NoVal]
    <3>2. it \in Item /\ it.len = PutItem.len
      BY <2>1, PutItemType DEF TornWrite, Item
    <3> HIDE DEF it
    <3>3. flash' = [flash EXCEPT ![dst] = AppendItem(@, pages[dst].bytes_used, it)]
      BY <3>1 DEF it
    <3> QED BY <2>1, <3>2, <3>3, PutDisciplined DEF TornWrite
  <2> QED BY <1>7, <2>1, KeptDisciplined DEF Fail, Reset, PowerLoss
<1>8. CASE UNCHANGED vars
  BY <1>8, KeptDisciplined DEF vars
<1> QED BY <1>1, <1>2, <1>3, <1>4, <1>5, <1>6, <1>7, <1>8 DEF Next, Step

LEMMA CutDisciplined == IInv /\ [CutNext]_cutVars => [Disciplined]_flash
<1> SUFFICES ASSUME IInv, [CutNext]_cutVars PROVE [Disciplined]_flash
  OBVIOUS
<1>1. CASE [Next]_vars
  BY <1>1, NextDisciplined
<1>2. CASE EraseCut
  <2>1. StateTypeOK
    BY TypeSplit DEF IInv
  <2>2. PICK p \in Pages : flash' = [flash EXCEPT ![p] = BlankPage]
    BY <1>2 DEF EraseCut
  <2> QED BY <2>1, <2>2, OnePageDisciplined
<1> QED BY <1>1, <1>2 DEF CutNext, StorageStep, cutVars

\* Outside the erase of a page, whole or cut short, an item is programmed right behind
\* the last one and inside the page, or has its index cleared; a status byte only loses
\* bits; no programmed byte becomes free.  It is so in any order of calls, restarts,
\* power losses, torn writes and cut erases, up to and including the first item that
\* is programmed over what a cut erase has left.
THEOREM FlashDisciplined == CutSpec => FlashDiscipline
<1>1. CutSpec => [][Disciplined]_flash
  BY CutDisciplined, CutInvariance, PTL DEF CutSpec
<1> QED BY <1>1 DEF FlashDiscipline, Disciplined

=============================================================================
