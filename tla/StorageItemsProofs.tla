------------------------- MODULE StorageItemsProofs -------------------------
(***************************************************************************)
(* Proofs about the items in the flash: that they are counted, that a      *)
(* realign moves them all, that no call loses those of another key, and    *)
(* that a call on a key with one copy does not lose it.  The invariants    *)
(* build on IInv and on each other: CountInv, MoveInv, SoleInv.            *)
(***************************************************************************)
EXTENDS StorageProofs

USE SizesAssumption, NamesAssumption DEF Pages, NoPage, Offsets, flashVars, ctxVars, callVars

-----------------------------------------------------------------------------
(***************************************************************************)
(* The live items of a page, and how many there are.                       *)
(***************************************************************************)
LEMMA LiveFinite ==
    ASSUME NEW pg
    PROVE  IsFiniteSet(LiveOffs(pg)) /\ Cardinality(LiveOffs(pg)) \in Nat
<1>1. IsFiniteSet(Offsets)
  BY FS_Interval
<1>2. IsFiniteSet(LiveOffs(pg))
  BY <1>1, FS_Subset DEF LiveOffs
<1> QED BY <1>2, FS_CardinalityType

LEMMA LiveCopiesOffs ==
    /\ \A p : LiveCopies(p) = LiveOffs(flash[p])
    /\ \A p : LiveCopies(p)' = LiveOffs(flash'[p])
BY DEF LiveCopies, LiveOffs

LEMMA LiveSame ==
    ASSUME NEW pg, NEW new, \A o \in Offsets : new.cell[o] = pg.cell[o]
    PROVE  LiveOffs(new) = LiveOffs(pg)
BY DEF LiveOffs

LEMMA LiveBlank ==
    ASSUME NEW pg, \A o \in Offsets : pg.cell[o] = Blank
    PROVE  LiveOffs(pg) = {} /\ Cardinality(LiveOffs(pg)) = 0
<1>1. LiveOffs(pg) = {}
  BY DEF LiveOffs, Live, Blank
<1> QED BY <1>1, FS_EmptySet

\* An item is stored in a blank cell.
LEMMA LiveOneMore ==
    ASSUME NEW pg, NEW new, NEW off \in Offsets, pg.cell[off] = Blank, Live(new.cell[off]),
           \A o \in Offsets \ {off} : new.cell[o] = pg.cell[o]
    PROVE  /\ LiveOffs(new) = LiveOffs(pg) \cup {off}
           /\ Cardinality(LiveOffs(new)) = Cardinality(LiveOffs(pg)) + 1
<1>1. off \notin LiveOffs(pg)
  BY DEF LiveOffs, Live, Blank
<1>2. LiveOffs(new) = LiveOffs(pg) \cup {off}
  BY DEF LiveOffs
<1> QED BY <1>1, <1>2, LiveFinite, FS_AddElement

\* An item is marked as erased.
LEMMA LiveOneLess ==
    ASSUME NEW pg, NEW new, NEW off \in Offsets, new.cell[off] = Erased(pg.cell[off]),
           \A o \in Offsets \ {off} : new.cell[o] = pg.cell[o]
    PROVE  /\ LiveOffs(new) = LiveOffs(pg) \ {off}
           /\ Cardinality(LiveOffs(new)) = IF Live(pg.cell[off])
                                           THEN Cardinality(LiveOffs(pg)) - 1
                                           ELSE Cardinality(LiveOffs(pg))
<1>1. ~Live(new.cell[off])
  BY DEF Live, Erased
<1>2. LiveOffs(new) = LiveOffs(pg) \ {off}
  BY <1>1 DEF LiveOffs
<1>3. off \in LiveOffs(pg) <=> Live(pg.cell[off])
  BY DEF LiveOffs
<1>4. Cardinality(LiveOffs(pg) \ {off}) =
         IF off \in LiveOffs(pg) THEN Cardinality(LiveOffs(pg)) - 1
                                ELSE Cardinality(LiveOffs(pg))
  BY LiveFinite, FS_RemoveElement
<1> QED BY <1>2, <1>3, <1>4

-----------------------------------------------------------------------------
(***************************************************************************)
(* CountInv: what the RAM counts, and which items can be in the flash.     *)
(***************************************************************************)
\* st_init is through with the page.
Ready(p) == Loaded \/ (pc = "scan" /\ p < cur.page)

\* A content that verifies has an index; in a page that was scanned an index has a
\* content that verifies; and only a torn write leaves one that does not.
ItemsFine(pg, ready) ==
    \A o \in Offsets :
       /\ pg.cell[o].val \in Vals => pg.cell[o].key \in Keys
       /\ ready /\ pg.cell[o].key \in Keys => pg.cell[o].val \in Vals
       /\ ~AllowPowerLoss /\ pg.cell[o].key # NoKey => pg.cell[o].val \in Vals

\* A page holds as many items as it is counted to, and one more while put_full has not
\* counted its item.  Only a full page may hold more: one that a realign has dropped a
\* torn item from.
CountFine(pg, ram, ready, uncounted) ==
    /\ ram.item_cnt <= Cardinality(LiveOffs(pg))
    /\ ready /\ (~AllowPowerLoss \/ ram.status # "FULL") =>
          Cardinality(LiveOffs(pg)) <= ram.item_cnt + (IF uncounted THEN 1 ELSE 0)

PageFine(p) == /\ ItemsFine(flash[p], Ready(p))
               /\ CountFine(flash[p], pages[p], Ready(p), Uncounted(p))
PagesFine   == \A p \in Pages : PageFine(p)

\* Before the header is written the flash is blank.
BlankAtFirst == ~header => pc \in {"boot", "format"} /\ \A p \in Pages : flash[p] = BlankPage

ErasedPages   == {p \in Pages : pages[p].status = "ERASED"}
ErasedCounted == page_erased = Cardinality(ErasedPages)

\* The search records places in pages, and a deletion is asked for one of them.
Placed(l) == l.page \in Pages => l.off \in Offsets
Located ==
    /\ Placed(srch.last) /\ Placed(srch.loc)
    /\ srch.cnt + srch.hits > 0 => srch.last.page \in Pages
    /\ pc \in {"del", "del_erase"} => tgt.page \in Pages /\ tgt.off \in Offsets

\* What st_page_realign moves comes from a full page and verifies, and goes to another
\* page: the one it opens is empty.
Moved == pc = "open" \/ (pc \in {"put", "put_full"} /\ ret = "realign")
Destination ==
    /\ pc = "realign" \/ Moved => pages[cur.page].status = "FULL"
    /\ Moved => dst # cur.page /\ flash[cur.page].cell[cur.off].val \in Vals
    /\ pc = "open" => LiveOffs(flash[dst]) = {}
    /\ pc = "put_full" => /\ pages[dst].status = "ACTIVE"
                          /\ pages[dst].item_cnt < Cardinality(LiveOffs(flash[dst]))

CountInv == PagesFine /\ BlankAtFirst /\ ErasedCounted /\ Located /\ Destination

LEMMA InitCountInv == Init => CountInv
<1> SUFFICES ASSUME Init PROVE CountInv
  OBVIOUS
<1>1. ASSUME NEW p \in Pages PROVE PageFine(p)
  <2>1. flash[p] = BlankPage /\ pages[p] = ZeroPage /\ ~Ready(p)
    BY DEF Init, Ready, Loaded
  <2>2. \A o \in Offsets : flash[p].cell[o] = Blank
    BY <2>1 DEF BlankPage
  <2>3. ItemsFine(flash[p], Ready(p))
    BY <2>2 DEF ItemsFine, Blank
  <2>4. pages[p].item_cnt = 0
    BY <2>1 DEF ZeroPage
  <2> QED BY <2>1, <2>3, <2>4, LiveFinite DEF PageFine, CountFine
<1>2. ErasedCounted
  <2>1. ErasedPages = {}
    BY DEF Init, ErasedPages, ZeroPage
  <2> QED BY <2>1, FS_EmptySet DEF Init, ErasedCounted
<1>3. Located /\ Destination /\ BlankAtFirst
  BY DEF Init, Located, Placed, Destination, Moved, BlankAtFirst, NoSearch, NoLoc
<1> QED BY <1>1, <1>2, <1>3 DEF CountInv, PagesFine

-----------------------------------------------------------------------------
(***************************************************************************)
(* What the operations on a page do to the count.                          *)
(***************************************************************************)
\* The items of a page and their count stay, and so does the status, unless the page
\* is opened when it holds nothing.
LEMMA PageFineKept ==
    ASSUME NEW p \in Pages, PageFine(p),
           \A o \in Offsets : flash'[p].cell[o] = flash[p].cell[o],
           pages'[p].item_cnt = pages[p].item_cnt,
           pages'[p].status = "FULL" \/ pages[p].status # "FULL" \/ LiveOffs(flash[p]) = {},
           pages[p].item_cnt \in Nat,
           Ready(p)' => Ready(p),
           Uncounted(p) => Uncounted(p)'
    PROVE  PageFine(p)'
<1>1. LiveOffs(flash'[p]) = LiveOffs(flash[p])
  BY LiveSame
<1>2. Cardinality(LiveOffs(flash[p])) \in Nat
  BY LiveFinite
<1>3. LiveOffs(flash[p]) = {} => Cardinality(LiveOffs(flash[p])) = 0
  BY FS_EmptySet
<1>4. ItemsFine(flash'[p], Ready(p)')
  BY DEF PageFine, ItemsFine
<1>5. CountFine(flash'[p], pages'[p], Ready(p)', Uncounted(p)')
  <2>1. Uncounted(p)' \in BOOLEAN /\ Uncounted(p) \in BOOLEAN
    BY DEF Uncounted
  <2> QED BY <1>1, <1>2, <1>3, <2>1 DEF PageFine, CountFine
<1> QED BY <1>4, <1>5 DEF PageFine

LEMMA PageFineBlank ==
    ASSUME NEW p \in Pages, \A o \in Offsets : flash'[p].cell[o] = Blank,
           pages'[p].item_cnt = 0
    PROVE  PageFine(p)'
<1>1. Cardinality(LiveOffs(flash'[p])) = 0
  BY LiveBlank
<1>2. ItemsFine(flash'[p], Ready(p)')
  BY DEF ItemsFine, Blank
<1>3. CountFine(flash'[p], pages'[p], Ready(p)', Uncounted(p)')
  BY <1>1 DEF CountFine
<1> QED BY <1>2, <1>3 DEF PageFine

LEMMA ErasedPagesFinite ==
    IsFiniteSet(ErasedPages) /\ Cardinality(ErasedPages) \in Nat
<1>1. IsFiniteSet(Pages)
  BY FS_Interval
<1>2. IsFiniteSet(ErasedPages)
  BY <1>1, FS_Subset DEF ErasedPages
<1> QED BY <1>2, FS_CardinalityType

LEMMA SamePagesErased ==
    ASSUME ErasedCounted, UNCHANGED page_erased,
           \A q \in Pages : pages'[q].status = "ERASED" <=> pages[q].status = "ERASED"
    PROVE  ErasedCounted'
<1>1. ErasedPages' = ErasedPages
  BY DEF ErasedPages
<1> QED BY <1>1 DEF ErasedCounted

LEMMA OnePageErased ==
    ASSUME ErasedCounted, NEW p \in Pages, pages[p].status # "ERASED",
           pages'[p].status = "ERASED", page_erased' = page_erased + 1,
           \A q \in Pages \ {p} : pages'[q].status = pages[q].status
    PROVE  ErasedCounted'
<1>1. ErasedPages' = ErasedPages \cup {p} /\ p \notin ErasedPages
  BY DEF ErasedPages
<1>2. Cardinality(ErasedPages') = Cardinality(ErasedPages) + 1
  BY <1>1, ErasedPagesFinite, FS_AddElement
<1> QED BY <1>2 DEF ErasedCounted

\* st_page_status_update takes an erased page off the count and leaves the items alone.
LEMMA SetStatusCounts ==
    ASSUME StateTypeOK, ErasedCounted, NEW p, NEW s \in {"ACTIVE", "FULL"}, SetStatus(p, s)
    PROVE  /\ ErasedCounted'
           /\ \A q \in Pages : /\ flash'[q].cell = flash[q].cell
                               /\ flash'[q].used = flash[q].used
                               /\ pages'[q].item_cnt = pages[q].item_cnt
                               /\ pages'[q].bytes_used = pages[q].bytes_used
                               /\ q # p => pages'[q].status = pages[q].status
<1>1. CASE ~Valid(p) \/ pages[p].status = s
  <2>1. UNCHANGED <<flash, pages, page_erased>>
    BY <1>1 DEF SetStatus
  <2> QED BY <2>1, SamePagesErased
<1>2. CASE ~(~Valid(p) \/ pages[p].status = s)
  <2>1. /\ p \in Pages
        /\ flash' = [flash EXCEPT ![p].status = Burn(flash[p].status, s)]
        /\ pages' = [pages EXCEPT ![p].status = s]
        /\ page_erased' = Opened(p)
    BY <1>2 DEF SetStatus, Valid
  <2>2. ASSUME NEW q \in Pages
        PROVE  /\ flash'[q].cell = flash[q].cell
               /\ flash'[q].used = flash[q].used
               /\ pages'[q].item_cnt = pages[q].item_cnt
               /\ pages'[q].bytes_used = pages[q].bytes_used
               /\ q # p => pages'[q].status = pages[q].status
    <3>1. flash[q] \in FlashPage /\ pages[q] \in RamPage
      BY DEF StateTypeOK
    <3>2. CASE q = p
      BY <2>1, <3>1, <3>2 DEF StateTypeOK, FlashPage, RamPage
    <3>3. CASE q # p
      BY <2>1, <3>3 DEF StateTypeOK
    <3> QED BY <3>2, <3>3
  <2>3. pages'[p].status = s
    BY <2>1 DEF StateTypeOK, RamPage
  <2>4. ErasedCounted'
    <3>1. ErasedPages' = ErasedPages \ {p}
      BY <2>1, <2>2, <2>3 DEF ErasedPages
    <3>2. Cardinality(ErasedPages') = IF p \in ErasedPages THEN Cardinality(ErasedPages) - 1
                                                           ELSE Cardinality(ErasedPages)
      BY <3>1, ErasedPagesFinite, FS_RemoveElement
    <3>3. Cardinality(ErasedPages') \in Nat /\ Cardinality(ErasedPages) \in Nat
      BY <3>1, ErasedPagesFinite, FS_RemoveElement, FS_CardinalityType
    <3>4. p \in ErasedPages <=> pages[p].status = "ERASED"
      BY <2>1 DEF ErasedPages
    <3> QED BY <2>1, <3>2, <3>3, <3>4 DEF ErasedCounted, Opened
  <2> QED BY <2>2, <2>4
<1> QED BY <1>1, <1>2

\* A page that is erased in RAM is so in the flash: it holds nothing.
LEMMA ErasedIsEmpty ==
    ASSUME StateTypeOK, FlashShape, NEW p \in Pages, Mirrors(p), PageFine(p),
           pages[p].status = "ERASED"
    PROVE  /\ \A o \in Offsets : flash[p].cell[o] = Blank
           /\ LiveOffs(flash[p]) = {}
           /\ pages[p].item_cnt = 0
<1>1. \A o \in Offsets : flash[p].cell[o] = Blank
  BY DEF Mirrors, FlashShape, BlankPage
<1>2. pages[p].item_cnt \in Nat
  BY DEF StateTypeOK, RamPage
<1> QED BY <1>1, <1>2, LiveBlank DEF PageFine, CountFine

\* st_page_erase leaves an empty page that is counted as erased.
LEMMA ErasePageCounts ==
    ASSUME StateTypeOK, ErasedCounted, NEW p \in Pages, ErasePage(p)
    PROVE  /\ ErasedCounted'
           /\ \A q \in Pages \ {p} : flash'[q] = flash[q] /\ pages'[q] = pages[q]
           /\ IF pages[p].status = "ERASED"
              THEN flash'[p] = flash[p] /\ pages'[p] = pages[p]
              ELSE flash'[p] = BlankPage /\ pages'[p].item_cnt = 0
<1>1. CASE pages[p].status = "ERASED"
  <2>1. UNCHANGED <<flash, pages, page_erased>>
    BY <1>1 DEF ErasePage
  <2> QED BY <1>1, <2>1, SamePagesErased
<1>2. CASE pages[p].status # "ERASED"
  <2>1. /\ flash' = [flash EXCEPT ![p] = BlankPage]
        /\ pages' = [pages EXCEPT ![p] = [status |-> "ERASED", item_cnt |-> 0,
                                          bytes_used |-> 0]]
        /\ page_erased' = page_erased + 1
    BY <1>2 DEF ErasePage
  <2>2. /\ flash'[p] = BlankPage /\ pages'[p].item_cnt = 0 /\ pages'[p].status = "ERASED"
        /\ \A q \in Pages \ {p} : flash'[q] = flash[q] /\ pages'[q] = pages[q]
    BY <2>1 DEF StateTypeOK
  <2>3. ErasedCounted'
    BY <1>2, <2>1, <2>2, OnePageErased
  <2> QED BY <1>2, <2>2, <2>3
<1> QED BY <1>1, <1>2

-----------------------------------------------------------------------------
(***************************************************************************)
(* CountInv: the steps that leave the items where they are.                *)
(***************************************************************************)
LEMMA CntTypes ==
    ASSUME StateTypeOK
    PROVE  \A q \in Pages : pages[q].item_cnt \in Nat /\ flash[q] \in FlashPage
BY DEF StateTypeOK, RamPage

\* After st_init the header is in the flash.
LEMMA HeaderThere ==
    ASSUME BlankAtFirst, pc \notin {"boot", "format"}, header' = header, header \in BOOLEAN
    PROVE  header /\ BlankAtFirst'
BY DEF BlankAtFirst

LEMMA QuietCount ==
    ASSUME IInv, CountInv, UNCHANGED <<flashVars, ctxVars>>, Loaded, Loaded',
           pc # "put_full", Located', Destination'
    PROVE  CountInv'
<1>0. StateTypeOK /\ CallTypeOK
  BY TypeSplit DEF IInv
<1>1. ASSUME NEW p \in Pages PROVE PageFine(p)'
  <2>1. Ready(p) /\ ~Uncounted(p) /\ PageFine(p)
    BY DEF Ready, Uncounted, CountInv, PagesFine
  <2> QED BY <1>0, <2>1, CntTypes, PageFineKept
<1>2. ErasedCounted'
  BY SamePagesErased DEF CountInv
<1>3. BlankAtFirst'
  BY <1>0, HeaderThere DEF CountInv, Loaded, CallTypeOK
<1> QED BY <1>1, <1>2, <1>3 DEF CountInv, PagesFine

LEMMA StatusCount ==
    ASSUME IInv, CountInv, Loaded, Loaded', pc # "put_full", UNCHANGED header,
           NEW p, NEW s \in {"ACTIVE", "FULL"}, SetStatus(p, s),
           s = "ACTIVE" /\ p \in Pages =>
              pages[p].status # "FULL" \/ LiveOffs(flash[p]) = {},
           Located', Destination'
    PROVE  CountInv'
<1>0. StateTypeOK /\ CallTypeOK
  BY TypeSplit DEF IInv
<1>1. ErasedCounted' /\ \A q \in Pages : /\ flash'[q].cell = flash[q].cell
                                         /\ pages'[q].item_cnt = pages[q].item_cnt
                                         /\ q # p => pages'[q].status = pages[q].status
  BY <1>0, SetStatusCounts DEF CountInv
<1>2. ASSUME NEW q \in Pages PROVE PageFine(q)'
  <2>1. Ready(q) /\ ~Uncounted(q) /\ PageFine(q)
    BY DEF Ready, Uncounted, CountInv, PagesFine
  <2>2. \/ pages'[q].status = "FULL" \/ pages[q].status # "FULL"
        \/ LiveOffs(flash[q]) = {}
    <3>1. CASE q = p
      BY <3>1, SetStatusSets
    <3>2. CASE q # p
      BY <1>1, <3>2
    <3> QED BY <3>1, <3>2
  <2> QED BY <1>0, <1>1, <2>1, <2>2, CntTypes, PageFineKept
<1>3. BlankAtFirst'
  BY <1>0, HeaderThere DEF CountInv, Loaded, CallTypeOK
<1> QED BY <1>1, <1>2, <1>3 DEF CountInv, PagesFine

\* A page is erased between two calls of st_init.
LEMMA EraseCount ==
    ASSUME IInv, CountInv, Loaded, Loaded', pc # "put_full", UNCHANGED header,
           NEW p \in Pages, ErasePage(p), Located', Destination'
    PROVE  CountInv'
<1>0. StateTypeOK /\ CallTypeOK
  BY TypeSplit DEF IInv
<1>1. /\ ErasedCounted'
      /\ \A q \in Pages \ {p} : flash'[q] = flash[q] /\ pages'[q] = pages[q]
      /\ IF pages[p].status = "ERASED"
         THEN flash'[p] = flash[p] /\ pages'[p] = pages[p]
         ELSE flash'[p] = BlankPage /\ pages'[p].item_cnt = 0
  BY <1>0, ErasePageCounts DEF CountInv
<1>2. ASSUME NEW q \in Pages PROVE PageFine(q)'
  <2>1. Ready(q) /\ ~Uncounted(q) /\ PageFine(q)
    BY DEF Ready, Uncounted, CountInv, PagesFine
  <2>2. CASE flash'[q] = flash[q] /\ pages'[q] = pages[q]
    BY <1>0, <2>1, <2>2, CntTypes, PageFineKept
  <2>3. CASE flash'[q] = BlankPage /\ pages'[q].item_cnt = 0
    BY <2>3, PageFineBlank DEF BlankPage
  <2> QED BY <1>1, <2>2, <2>3
<1>3. BlankAtFirst'
  BY <1>0, HeaderThere DEF CountInv, Loaded, CallTypeOK
<1> QED BY <1>1, <1>2, <1>3 DEF CountInv, PagesFine

-----------------------------------------------------------------------------
(***************************************************************************)
(* CountInv: st_init, the search and the deletion.                         *)
(***************************************************************************)
\* The next iteration of st_page_init's loop has one page more behind it.
LEMMA PageDoneReady ==
    ASSUME CallTypeOK, pc = "scan", PageDone, NEW q \in Pages, q # cur.page, Ready(q)'
    PROVE  Ready(q)
<1>1. cur.page \in Pages /\ cur.page \in Nat /\ q \in Nat
  BY DEF CallTypeOK
<1>2. CASE cur.page + 1 \in Pages
  <2>1. pc' = "scan" /\ cur'.page = cur.page + 1
    BY <1>2 DEF PageDone, CallTypeOK
  <2>2. q < cur.page + 1
    BY <2>1 DEF Ready, Loaded
  <2> QED BY <1>1, <2>2 DEF Ready
<1>3. CASE cur.page + 1 \notin Pages
  <2>1. q < cur.page
    BY <1>1, <1>3
  <2> QED BY <2>1 DEF Ready
<1> QED BY <1>2, <1>3

\* What a scan leaves of a page is fine, and counted.
LEMMA ScannedItems ==
    ASSUME NEW pg \in FlashPage, ItemsFine(pg, FALSE)
    PROVE  /\ LiveOffs(Scanned(pg)) = LiveOffs(pg)
           /\ ItemsFine(Scanned(pg), TRUE)
<1> DEFINE new == Scanned(pg)
<1>1. \A o \in Offsets : new.cell[o] =
         IF pg.cell[o].key \in Keys /\ pg.cell[o].val = NoVal
         THEN Erased(pg.cell[o]) ELSE pg.cell[o]
  BY DEF Scanned, FlashPage
<1>2. \A o \in Offsets : pg.cell[o].val \in Vals \cup {NoVal}
  BY DEF FlashPage, Item
<1> HIDE DEF new
<1>3. \A o \in Offsets :
         \/ /\ new.cell[o] = pg.cell[o]
            /\ ~(pg.cell[o].key \in Keys /\ pg.cell[o].val = NoVal)
         \/ /\ new.cell[o].key = NoKey /\ new.cell[o].val = NoVal
            /\ pg.cell[o].val = NoVal
  <2> TAKE o \in Offsets
  <2>1. CASE pg.cell[o].key \in Keys /\ pg.cell[o].val = NoVal
    <3>1. new.cell[o] = Erased(pg.cell[o])
      BY <1>1, <2>1
    <3> QED BY <2>1, <3>1 DEF Erased
  <2>2. CASE ~(pg.cell[o].key \in Keys /\ pg.cell[o].val = NoVal)
    BY <1>1, <2>2
  <2> QED BY <2>1, <2>2
<1>4. LiveOffs(new) = LiveOffs(pg)
  BY <1>3 DEF LiveOffs, Live
<1>5. ItemsFine(new, TRUE)
  BY <1>2, <1>3 DEF ItemsFine
<1> QED BY <1>4, <1>5 DEF new

\* In st_init no call is being served.
LEMMA BootOther ==
    ASSUME Located, pc' \notin {"del", "del_erase", "open", "put", "put_full", "realign"},
           UNCHANGED srch
    PROVE  Located' /\ Destination'
BY DEF Located, Placed, Destination, Moved

LEMMA BootCount == IInv /\ CountInv /\ Boot => CountInv'
<1> SUFFICES ASSUME IInv, CountInv, Boot PROVE CountInv'
  OBVIOUS
<1>0. /\ StateTypeOK /\ CallTypeOK /\ FlashShape /\ Mirrored
      /\ PagesFine /\ BlankAtFirst /\ ErasedCounted /\ Located
  BY TypeSplit DEF IInv, CountInv
<1>1. CASE LoadHeader
  <2>1. /\ pc = "boot" /\ UNCHANGED <<header, pages, page_erased, srch, cur>>
        /\ IF header THEN pc' = "scan" /\ UNCHANGED flash
                     ELSE pc' = "format" /\ flash' = [p \in Pages |-> BlankPage]
    BY <1>1 DEF LoadHeader
  <2>2. cur.page = 0 /\ \A p \in Pages : pages[p] = ZeroPage
    BY <1>0, <2>1 DEF Mirrored
  <2>3. ASSUME NEW p \in Pages PROVE PageFine(p)'
    <3>1. ~Ready(p)' /\ ~Uncounted(p)
      BY <2>1, <2>2 DEF Ready, Loaded, Uncounted
    <3>2. CASE header
      BY <1>0, <2>1, <3>1, <3>2, CntTypes, PageFineKept DEF PagesFine, ZeroPage
    <3>3. CASE ~header
      <4>1. flash'[p] = BlankPage /\ pages'[p].item_cnt = 0
        BY <2>1, <2>2, <3>3 DEF ZeroPage
      <4> QED BY <4>1, PageFineBlank DEF BlankPage
    <3> QED BY <3>2, <3>3
  <2>4. ErasedCounted'
    BY <1>0, <2>1, SamePagesErased
  <2>5. BlankAtFirst'
    BY <2>1 DEF BlankAtFirst
  <2>6. Located' /\ Destination'
    BY <1>0, <2>1, BootOther
  <2> QED BY <2>3, <2>4, <2>5, <2>6 DEF CountInv, PagesFine
<1>2. CASE HeaderInit
  <2>1. /\ pc = "format" /\ pc' = "scan" /\ header' = TRUE
        /\ UNCHANGED <<flash, pages, page_erased, srch, cur>>
    BY <1>2 DEF HeaderInit
  <2>2. cur.page = 0
    BY <1>0, <2>1 DEF Mirrored
  <2>3. ASSUME NEW p \in Pages PROVE PageFine(p)'
    <3>1. ~Ready(p)' /\ ~Uncounted(p)
      BY <2>1, <2>2 DEF Ready, Loaded, Uncounted
    <3> QED BY <1>0, <2>1, <3>1, CntTypes, PageFineKept DEF PagesFine
  <2>4. ErasedCounted' /\ BlankAtFirst'
    BY <1>0, <2>1, SamePagesErased DEF BlankAtFirst
  <2>5. Located' /\ Destination'
    BY <1>0, <2>1, BootOther
  <2> QED BY <2>3, <2>4, <2>5 DEF CountInv, PagesFine
<1>3. CASE InitErasedPage
  <2>1. /\ pc = "scan" /\ cur.page \in Pages /\ flash[cur.page].status = "ERASED"
        /\ pages' = [pages EXCEPT ![cur.page].status = "ERASED"]
        /\ page_erased' = page_erased + 1 /\ PageDone
        /\ UNCHANGED <<flash, header, srch>>
    BY <1>0, <1>3 DEF InitErasedPage, CallTypeOK
  <2>2. PICK p \in Pages : p = cur.page
    BY <2>1
  <2>3. flash[p] = BlankPage /\ pages[p] = ZeroPage /\ pc' \in {"scan", "idle"}
    BY <1>0, <2>1, <2>2 DEF FlashShape, Mirrored, PageDone
  <2>4. /\ pages'[p].item_cnt = 0 /\ pages'[p].status = "ERASED"
        /\ \A q \in Pages \ {p} : pages'[q] = pages[q]
    BY <1>0, <2>1, <2>2, <2>3 DEF StateTypeOK, ZeroPage
  <2>5. ASSUME NEW q \in Pages PROVE PageFine(q)'
    <3>1. CASE q = p
      BY <2>1, <2>3, <2>4, <3>1, PageFineBlank DEF BlankPage
    <3>2. CASE q # p
      <4>1. (Ready(q)' => Ready(q)) /\ ~Uncounted(q)
        BY <1>0, <2>1, <2>2, <3>2, PageDoneReady DEF Uncounted
      <4> QED BY <1>0, <2>1, <2>4, <3>2, <4>1, CntTypes, PageFineKept DEF PagesFine
    <3> QED BY <3>1, <3>2
  <2>6. ErasedCounted'
    BY <1>0, <2>1, <2>3, <2>4, OnePageErased DEF ZeroPage
  <2>7. BlankAtFirst'
    BY <1>0, <2>1, HeaderThere DEF CallTypeOK
  <2>8. Located' /\ Destination'
    BY <1>0, <2>1, <2>3, BootOther
  <2> QED BY <2>5, <2>6, <2>7, <2>8 DEF CountInv, PagesFine
<1>4. CASE InitUsedPage
  <2>1. /\ pc = "scan" /\ cur.page \in Pages /\ flash[cur.page].status # "ERASED"
        /\ PageDone /\ UNCHANGED <<header, srch>>
    BY <1>0, <1>4 DEF InitUsedPage, CallTypeOK
  <2>2. PICK p \in Pages : p = cur.page
    BY <2>1
  <2>3. /\ pages[p] = ZeroPage /\ pc' \in {"scan", "idle"} /\ flash[p] \in FlashPage
        /\ ItemsFine(flash[p], FALSE) /\ ~Uncounted(p)' /\ PageFine(p)
    BY <1>0, <2>1, <2>2, CntTypes
       DEF Mirrored, PageDone, PagesFine, PageFine, ItemsFine, Uncounted
  <2>4. CASE flash[p].status = "FULL" /\ ItemCount(flash[p]) = 0
    <3>1. /\ flash' = [flash EXCEPT ![p] = BlankPage]
          /\ pages' = [pages EXCEPT ![p].status = "ERASED"]
          /\ page_erased' = page_erased + 1
      BY <1>4, <2>2, <2>4 DEF InitUsedPage
    <3>2. /\ flash'[p] = BlankPage /\ pages'[p].item_cnt = 0 /\ pages'[p].status = "ERASED"
          /\ \A q \in Pages \ {p} : flash'[q] = flash[q] /\ pages'[q] = pages[q]
      BY <1>0, <2>3, <3>1 DEF StateTypeOK, ZeroPage
    <3>3. PageFine(p)'
      BY <3>2, PageFineBlank DEF BlankPage
    <3>4. ErasedCounted'
      BY <1>0, <2>3, <3>1, <3>2, OnePageErased DEF ZeroPage
    <3>5. ASSUME NEW q \in Pages PROVE PageFine(q)'
      <4>1. CASE q # p
        <5>1. (Ready(q)' => Ready(q)) /\ ~Uncounted(q)
          BY <1>0, <2>1, <2>2, <4>1, PageDoneReady DEF Uncounted
        <5> QED BY <1>0, <3>2, <4>1, <5>1, CntTypes, PageFineKept DEF PagesFine
      <4> QED BY <3>3, <4>1
    <3>6. BlankAtFirst' /\ Located' /\ Destination'
      BY <1>0, <2>1, <2>3, HeaderThere, BootOther DEF CallTypeOK
    <3> QED BY <3>4, <3>5, <3>6 DEF CountInv, PagesFine
  <2>5. CASE ~(flash[p].status = "FULL" /\ ItemCount(flash[p]) = 0)
    <3>1. /\ flash' = [flash EXCEPT ![p] = Scanned(flash[p])]
          /\ pages' = [pages EXCEPT ![p] =
                 [status |-> flash[p].status, item_cnt |-> ItemCount(flash[p]),
                  bytes_used |-> BytesUsed(flash[p])]]
          /\ page_erased' = page_erased
      BY <1>4, <2>2, <2>5 DEF InitUsedPage
    <3>2. /\ flash'[p] = Scanned(flash[p]) /\ pages'[p].item_cnt = ItemCount(flash[p])
          /\ pages'[p].status = flash[p].status
          /\ \A q \in Pages \ {p} : flash'[q] = flash[q] /\ pages'[q] = pages[q]
      BY <1>0, <3>1 DEF StateTypeOK
    <3>3. PageFine(p)'
      <4>1. /\ LiveOffs(flash'[p]) = LiveOffs(flash[p])
            /\ ItemsFine(flash'[p], TRUE)
        BY <2>3, <3>2, ScannedItems
      <4>2. CountFine(flash'[p], pages'[p], Ready(p)', Uncounted(p)')
        BY <2>3, <3>2, <4>1, LiveFinite DEF CountFine, ItemCount
      <4>3. ItemsFine(flash'[p], Ready(p)')
        BY <4>1 DEF ItemsFine
      <4> QED BY <4>2, <4>3 DEF PageFine
    <3>4. ErasedCounted'
      BY <1>0, <2>1, <2>2, <2>3, <3>1, <3>2, SamePagesErased DEF ZeroPage
    <3>5. ASSUME NEW q \in Pages PROVE PageFine(q)'
      <4>1. CASE q # p
        <5>1. (Ready(q)' => Ready(q)) /\ ~Uncounted(q)
          BY <1>0, <2>1, <2>2, <4>1, PageDoneReady DEF Uncounted
        <5> QED BY <1>0, <3>2, <4>1, <5>1, CntTypes, PageFineKept DEF PagesFine
      <4> QED BY <3>3, <4>1
    <3>6. BlankAtFirst' /\ Located' /\ Destination'
      BY <1>0, <2>1, <2>3, HeaderThere, BootOther DEF CallTypeOK
    <3> QED BY <3>4, <3>5, <3>6 DEF CountInv, PagesFine
  <2> QED BY <2>4, <2>5
<1>5. CASE InitFails
  <2>1. /\ pc = "scan" /\ pc' = "erase_all"
        /\ UNCHANGED <<flash, header, pages, page_erased, srch>>
    BY <1>5 DEF InitFails
  <2>2. ASSUME NEW p \in Pages PROVE PageFine(p)'
    <3>1. ~Ready(p)' /\ ~Uncounted(p)
      BY <2>1 DEF Ready, Loaded, Uncounted
    <3> QED BY <1>0, <2>1, <3>1, CntTypes, PageFineKept DEF PagesFine
  <2>3. ErasedCounted' /\ BlankAtFirst'
    BY <1>0, <2>1, SamePagesErased, HeaderThere DEF CallTypeOK
  <2>4. Located' /\ Destination'
    BY <1>0, <2>1, BootOther
  <2> QED BY <2>2, <2>3, <2>4 DEF CountInv, PagesFine
<1>6. CASE EraseAll
  <2>1. /\ pc = "erase_all" /\ cur.page \in Pages /\ ErasePage(cur.page)
        /\ UNCHANGED <<header, srch>>
    BY <1>0, <1>6 DEF EraseAll, CallTypeOK
  <2>2. PICK p \in Pages : p = cur.page /\ ErasePage(p)
    BY <2>1
  <2>3. /\ ErasedCounted'
        /\ \A q \in Pages \ {p} : flash'[q] = flash[q] /\ pages'[q] = pages[q]
        /\ IF pages[p].status = "ERASED"
           THEN flash'[p] = flash[p] /\ pages'[p] = pages[p]
           ELSE flash'[p] = BlankPage /\ pages'[p].item_cnt = 0
    BY <1>0, <2>2, ErasePageCounts
  <2>4. ASSUME NEW q \in Pages, pages[q].status = "ERASED"
        PROVE  (\A o \in Offsets : flash[q].cell[o] = Blank) /\ pages[q].item_cnt = 0
    BY <1>0, <2>1, <2>4, ErasedIsEmpty DEF Mirrored, PagesFine
  <2>5. PageFine(p)'
    BY <2>3, <2>4, PageFineBlank DEF BlankPage
  <2>6. ASSUME NEW q \in Pages, q # p PROVE PageFine(q)'
    <3>1. CASE cur.page + 1 \in Pages
      <4>1. pc' = "erase_all"
        BY <1>6, <2>1, <3>1 DEF EraseAll
      <4>2. ~Ready(q)' /\ ~Uncounted(q)
        BY <2>1, <4>1 DEF Ready, Loaded, Uncounted
      <4> QED BY <1>0, <2>3, <2>6, <4>2, CntTypes, PageFineKept DEF PagesFine
    <3>2. CASE cur.page + 1 \notin Pages
      <4>1. q < cur.page
        BY <2>1, <2>2, <2>6, <3>2
      <4>2. pages[q].status = "ERASED"
        BY <1>0, <2>1, <4>1 DEF Mirrored
      <4> QED BY <2>3, <2>4, <2>6, <4>2, PageFineBlank
    <3> QED BY <3>1, <3>2
  <2>7. BlankAtFirst' /\ Located' /\ Destination'
    BY <1>0, <1>6, <2>1, HeaderThere, BootOther DEF EraseAll, CallTypeOK
  <2> QED BY <2>3, <2>5, <2>6, <2>7 DEF CountInv, PagesFine
<1> QED BY <1>1, <1>2, <1>3, <1>4, <1>5, <1>6 DEF Boot

\* Outside the deletion, the realign and the write nothing is asked of the places.
LEMMA FarFromPlaces ==
    ASSUME Located, pc' \notin {"del", "del_erase", "open", "put_full", "realign"},
           pc' = "put" => ret' # "realign", UNCHANGED srch
    PROVE  Located' /\ Destination'
BY DEF Located, Placed, Destination, Moved

LEMMA FindCount == IInv /\ CountInv /\ Find => CountInv'
<1> SUFFICES ASSUME IInv, CountInv, Find PROVE CountInv'
  OBVIOUS
<1>0. /\ StateTypeOK /\ CallTypeOK /\ Arguments /\ Located
      /\ srch.cnt \in Nat /\ srch.hits \in Nat /\ cur.page \in Pages
  BY TypeSplit DEF IInv, CountInv, CallTypeOK
<1>1. CASE FindSkip
  BY <1>0, <1>1, FarFromPlaces, QuietCount DEF FindSkip, Loaded
<1>2. CASE FindMatch
  <2>1. /\ srch'.last = srch.last /\ srch'.loc = srch.loc
        /\ srch'.cnt = srch.cnt /\ srch'.hits = srch.hits
    BY <1>0, <1>2 DEF FindMatch, CallTypeOK
  <2>2. Located' /\ Destination'
    BY <1>0, <1>2, <2>1 DEF FindMatch, Located, Placed, Destination, Moved, Valid
  <2> QED BY <1>2, <2>2, QuietCount DEF FindMatch, Loaded
<1>3. CASE FindAccept
  <2>1. /\ srch'.last = cur /\ srch'.loc = srch.loc /\ cur.off \in Offsets
        /\ srch'.cnt = srch.cnt /\ srch'.hits = srch.hits + 1
    BY <1>0, <1>3 DEF FindAccept, CallTypeOK, Arguments
  <2>2. Located' /\ Destination'
    BY <1>0, <1>3, <2>1 DEF FindAccept, Located, Placed, Destination, Moved
  <2> QED BY <1>3, <2>2, QuietCount DEF FindAccept, Loaded
<1>4. CASE FindPageEnd
  <2> DEFINE cnt == srch.cnt + srch.hits
  <2>1. /\ srch'.last = srch.last /\ srch'.loc = (IF Sole(cnt) THEN srch.last ELSE srch.loc)
        /\ srch'.cnt = cnt /\ srch'.hits = 0
    BY <1>0, <1>4 DEF FindPageEnd, CallTypeOK
  <2>2. /\ pc' \in {"del", "next"}
        /\ pc' = "del" => tgt' = srch.last /\ cnt > 1
    BY <1>4 DEF FindPageEnd, Surplus
  <2>3. Located' /\ Destination'
    BY <1>0, <2>1, <2>2 DEF Located, Placed, Destination, Moved
  <2> QED BY <1>4, <2>3, QuietCount DEF FindPageEnd, Loaded
<1>5. CASE FindNext
  BY <1>0, <1>5, FarFromPlaces, QuietCount DEF FindNext, Loaded
<1>6. CASE ReadDone
  BY <1>0, <1>6, FarFromPlaces, QuietCount DEF ReadDone, Finish, Loaded
<1>7. CASE WriteFound
  BY <1>0, <1>7, FarFromPlaces, QuietCount DEF WriteFound, Loaded
<1> QED BY <1>1, <1>2, <1>3, <1>4, <1>5, <1>6, <1>7 DEF Find

\* An item is marked as erased, and the count is one less, or none.  If the item did not
\* verify, the page is a full one.
LEMMA MarkCounts ==
    ASSUME StateTypeOK, NEW p \in Pages, NEW off \in Offsets, PageFine(p), Loaded, Loaded',
           pc # "put_full",
           flash[p].cell[off].key # NoKey,
           Live(flash[p].cell[off]) \/ pages[p].status = "FULL",
           flash' = [flash EXCEPT ![p].cell[off] = Erased(@)],
           pages[p].item_cnt > 0 => pages'[p].item_cnt = pages[p].item_cnt - 1,
           pages[p].item_cnt = 0 => pages'[p].item_cnt = 0,
           pages'[p].status = pages[p].status,
           pages[p].item_cnt = 0 => ~Live(flash[p].cell[off])
    PROVE  PageFine(p)'
<1>1. flash[p] \in FlashPage /\ pages[p].item_cnt \in Nat
  BY CntTypes
<1>2. /\ flash'[p].cell[off] = Erased(flash[p].cell[off])
      /\ \A o \in Offsets \ {off} : flash'[p].cell[o] = flash[p].cell[o]
  BY <1>1 DEF StateTypeOK, FlashPage
<1>3. Cardinality(LiveOffs(flash'[p])) = IF Live(flash[p].cell[off])
                                         THEN Cardinality(LiveOffs(flash[p])) - 1
                                         ELSE Cardinality(LiveOffs(flash[p]))
  <2> DEFINE pg == flash[p]
             new == flash'[p]
  <2>1. /\ new.cell[off] = Erased(pg.cell[off])
        /\ \A o \in Offsets \ {off} : new.cell[o] = pg.cell[o]
    BY <1>2
  <2> HIDE DEF pg, new
  <2>2. Cardinality(LiveOffs(new)) = IF Live(pg.cell[off]) THEN Cardinality(LiveOffs(pg)) - 1
                                                           ELSE Cardinality(LiveOffs(pg))
    BY <2>1, LiveOneLess
  <2> QED BY <2>2 DEF pg, new
<1>4. Ready(p) /\ ~Uncounted(p)
  BY DEF Ready, Uncounted
<1>5. flash'[p].cell[off].key = NoKey /\ flash'[p].cell[off].val = NoVal
  BY <1>2 DEF Erased
<1>6. ItemsFine(flash'[p], Ready(p)')
  BY <1>2, <1>4, <1>5 DEF PageFine, ItemsFine
<1>7. flash[p].cell[off].val \in Vals => Live(flash[p].cell[off])
  BY DEF PageFine, ItemsFine, Live
<1>8. CountFine(flash'[p], pages'[p], Ready(p)', Uncounted(p)')
  <2>1. Cardinality(LiveOffs(flash[p])) \in Nat /\ Uncounted(p)' \in BOOLEAN
    BY LiveFinite DEF Uncounted
  <2>2. /\ pages[p].item_cnt <= Cardinality(LiveOffs(flash[p]))
        /\ ~AllowPowerLoss \/ pages[p].status # "FULL" =>
              Cardinality(LiveOffs(flash[p])) <= pages[p].item_cnt
    BY <1>1, <1>4, <2>1 DEF PageFine, CountFine
  <2>3. ~AllowPowerLoss => Live(flash[p].cell[off])
    BY <1>7 DEF PageFine, ItemsFine
  <2>4. pages[p].status # "FULL" => Live(flash[p].cell[off])
    OBVIOUS
  <2>5. CASE Live(flash[p].cell[off])
    BY <1>1, <1>3, <2>1, <2>2, <2>5 DEF CountFine
  <2>6. CASE ~Live(flash[p].cell[off])
    <3>1. pages'[p].item_cnt <= Cardinality(LiveOffs(flash[p]))
      BY <1>1, <2>1, <2>2
    <3> QED BY <1>3, <2>1, <2>3, <2>4, <2>6, <3>1 DEF CountFine
  <2> QED BY <2>5, <2>6
<1> QED BY <1>6, <1>8 DEF PageFine

LEMMA DeleteCount == IInv /\ CountInv /\ Delete => CountInv'
<1> SUFFICES ASSUME IInv, CountInv, Delete PROVE CountInv'
  OBVIOUS
<1>0. /\ StateTypeOK /\ CallTypeOK /\ Arguments /\ FlashShape /\ Mirrored
      /\ PagesFine /\ BlankAtFirst /\ ErasedCounted /\ Located
  BY TypeSplit DEF IInv, CountInv
<1>1. CASE DeleteSkip
  <2>1. pc' \in {"accept", "next", "return"}
    BY <1>0, <1>1 DEF DeleteSkip, AfterDelete, Finish, Arguments
  <2> QED BY <1>0, <1>1, <2>1, FarFromPlaces, QuietCount DEF DeleteSkip, Loaded
<1>2. CASE DeleteMismatch
  BY <1>0, <1>2, FarFromPlaces, QuietCount DEF DeleteMismatch, Finish, Loaded
<1>3. CASE DeleteMark
  <2>1. PICK p \in Pages, off \in Offsets : p = tgt.page /\ off = tgt.off
    BY <1>0, <1>3 DEF DeleteMark, Located
  <2>2. /\ pc = "del" /\ pages[p].item_cnt > 0 /\ flash[p].cell[off].key = op.key
        /\ flash' = [flash EXCEPT ![p].cell[off] = Erased(@)]
        /\ pages' = [pages EXCEPT ![p].item_cnt = @ - 1]
        /\ pc' = "del_erase"
        /\ UNCHANGED <<header, page_erased, srch, tgt, op, cur, dst, ret>>
    BY <1>3, <2>1 DEF DeleteMark
  <2>3. /\ pages'[p].item_cnt = pages[p].item_cnt - 1
        /\ pages'[p].status = pages[p].status
        /\ \A q \in Pages \ {p} : pages'[q] = pages[q] /\ flash'[q] = flash[q]
    BY <1>0, <2>2 DEF StateTypeOK, RamPage
  <2>4. op.key \in Keys /\ Loaded /\ Loaded' /\ PageFine(p)
    BY <1>0, <2>2 DEF Arguments, Loaded, PagesFine
  <2>5. Live(flash[p].cell[off])
    BY <2>2, <2>4 DEF PageFine, ItemsFine, Ready, Live
  <2>6. PageFine(p)'
    <3>1. flash[p].cell[off].key # NoKey /\ pages[p].item_cnt # 0
      BY <1>0, <2>2, <2>4, CntTypes
    <3> QED BY <1>0, <2>2, <2>3, <2>4, <2>5, <3>1, MarkCounts
  <2>7. ASSUME NEW q \in Pages, q # p PROVE PageFine(q)'
    <3>1. (Ready(q)' => Ready(q)) /\ ~Uncounted(q)
      BY <2>2, <2>4 DEF Ready, Uncounted
    <3> QED BY <1>0, <2>3, <2>7, <3>1, CntTypes, PageFineKept DEF PagesFine
  <2>8. \A q \in Pages : pages'[q].status = pages[q].status
    BY <2>3
  <2>9. ErasedCounted'
    BY <1>0, <2>2, <2>8, SamePagesErased
  <2>10. BlankAtFirst'
    BY <1>0, <2>2, HeaderThere DEF CallTypeOK
  <2>11. Located' /\ Destination'
    BY <1>0, <2>2 DEF Located, Placed, Destination, Moved
  <2> QED BY <2>6, <2>7, <2>9, <2>10, <2>11 DEF CountInv, PagesFine
<1>4. CASE DeleteErase
  <2>1. /\ pc = "del_erase" /\ pc' \in {"accept", "next", "return"}
        /\ UNCHANGED <<header, page_active, srch>> /\ tgt.page \in Pages
    BY <1>0, <1>4 DEF DeleteErase, AfterDelete, Finish, Arguments, Located
  <2>2. Located' /\ Destination' /\ Loaded /\ Loaded'
    BY <1>0, <2>1, FarFromPlaces DEF Loaded
  <2>3. CASE Emptied(tgt.page)
    <3>1. ErasePage(tgt.page)
      BY <1>4, <2>3 DEF DeleteErase
    <3> QED BY <2>1, <2>2, <3>1, EraseCount
  <2>4. CASE ~Emptied(tgt.page)
    BY <1>4, <2>1, <2>2, <2>4, QuietCount DEF DeleteErase
  <2> QED BY <2>3, <2>4
<1> QED BY <1>1, <1>2, <1>3, <1>4 DEF Delete

LEMMA AllocateCount == IInv /\ CountInv /\ Allocate => CountInv'
<1> SUFFICES ASSUME IInv, CountInv, Allocate PROVE CountInv'
  OBVIOUS
<1>0. StateTypeOK /\ CallTypeOK /\ Arguments /\ Located
  BY TypeSplit DEF IInv, CountInv
<1>1. CASE AllocFits
  BY <1>0, <1>1, FarFromPlaces, QuietCount DEF AllocFits, UsePage, Loaded
<1>2. CASE AllocFirst
  BY <1>0, <1>2, FarFromPlaces, QuietCount DEF AllocFirst, Loaded
<1>3. CASE AllocNoRealign
  BY <1>0, <1>3, FarFromPlaces, QuietCount DEF AllocNoRealign, NoRoom, Loaded
<1>4. CASE AllocRealign
  <2>1. CASE FullPages = {}
    BY <1>0, <1>4, <2>1, FarFromPlaces, QuietCount DEF AllocRealign, NoRoom, Loaded
  <2>2. CASE FullPages # {}
    <3>1. RealignPage \in Pages /\ pages[RealignPage].status = "FULL"
      BY <2>2, RealignPageFound DEF IInv
    <3>2. pc = "alloc" /\ pc' = "realign" /\ cur'.page = RealignPage
          /\ UNCHANGED <<flashVars, ctxVars, srch>>
      BY <1>4, <2>2 DEF AllocRealign, NoRoom
    <3>3. Located' /\ Destination'
      BY <1>0, <3>1, <3>2 DEF Located, Placed, Destination, Moved
    <3> QED BY <3>2, <3>3, QuietCount DEF Loaded
  <2> QED BY <2>1, <2>2
<1>5. CASE AllocRetry
  BY <1>0, <1>5, FarFromPlaces, QuietCount DEF AllocRetry, UsePage, Finish, Loaded
<1>6. CASE CloseActive
  BY <1>0, <1>6, FarFromPlaces, StatusCount DEF CloseActive, Loaded
<1>7. CASE OpenNew
  <2> DEFINE p == FirstPage(dst, "ERASED")
  <2>1. CASE Valid(p)
    <3>1. /\ SetStatus(p, "ACTIVE") /\ p \in Pages
          /\ pc = "activate" /\ pc' = "put" /\ ret' = "write"
          /\ UNCHANGED <<header, srch>>
      BY <1>7, <2>1 DEF OpenNew, UsePage, Valid
    <3>2. pages[p].status = "ERASED"
      BY <3>1, FirstPageFound
    <3> HIDE DEF p
    <3> QED BY <1>0, <3>1, <3>2, FarFromPlaces, StatusCount DEF Loaded
  <2>2. CASE ~Valid(p)
    BY <1>0, <1>7, <2>2, FarFromPlaces, QuietCount DEF OpenNew, Finish, Loaded
  <2> QED BY <2>1, <2>2
<1> QED BY <1>1, <1>2, <1>3, <1>4, <1>5, <1>6, <1>7 DEF Allocate

\* st_page_realign looks at the items of a full page.
LEMMA RealignCount == IInv /\ CountInv /\ Realign => CountInv'
<1> SUFFICES ASSUME IInv, CountInv, Realign PROVE CountInv'
  OBVIOUS
<1>0. /\ StateTypeOK /\ CallTypeOK /\ Arguments /\ FlashShape /\ Mirrored
      /\ PagesFine /\ BlankAtFirst /\ ErasedCounted /\ Located /\ Destination
  BY TypeSplit DEF IInv, CountInv
<1>a. PICK p \in Pages : p = cur.page
  BY <1>0, SMTT(40) DEF CallTypeOK
<1>b. Moving => /\ FirstOff(RealignOffs) \in Offsets /\ MovedItem.key # NoKey
                /\ MovedItem = flash[p].cell[FirstOff(RealignOffs)]
                /\ pc = "realign" /\ pages[p].status = "FULL"
  BY <1>0, <1>a, RealignOffIn DEF RealignOffs, MovedItem, Passed, Moving, Destination
<1>1. CASE RealignDrop
  <2>1. PICK off \in Offsets : off = FirstOff(RealignOffs)
    BY <1>b, <1>1 DEF RealignDrop
  <2>2. /\ pc = "realign" /\ pc' = pc /\ pages[p].status = "FULL"
        /\ flash[p].cell[off].key # NoKey /\ flash[p].cell[off].val = NoVal
        /\ flash' = [flash EXCEPT ![p].cell[off] = Erased(@)]
        /\ pages' = [pages EXCEPT ![p].item_cnt = IF @ > 0 THEN @ - 1 ELSE 0]
        /\ cur' = [cur EXCEPT !.off = off]
        /\ UNCHANGED <<header, page_erased, srch, dst, ret>>
    BY <1>a, <1>b, <1>1, <2>1 DEF RealignDrop
  <2>3. pages[p].item_cnt \in Nat /\ pages[p] \in RamPage /\ flash[p] \in FlashPage
    BY <1>0, CntTypes DEF StateTypeOK
  <2>4. /\ pages'[p].item_cnt = IF pages[p].item_cnt > 0 THEN pages[p].item_cnt - 1 ELSE 0
        /\ pages'[p].status = pages[p].status
        /\ \A q \in Pages \ {p} : pages'[q] = pages[q] /\ flash'[q] = flash[q]
    BY <1>0, <2>2, <2>3 DEF StateTypeOK, RamPage
  <2>5. PageFine(p)'
    <3>1. ~Live(flash[p].cell[off]) /\ Loaded /\ Loaded' /\ PageFine(p)
      BY <1>0, <2>2 DEF Live, Loaded, PagesFine
    <3>2. /\ pages[p].item_cnt > 0 => pages'[p].item_cnt = pages[p].item_cnt - 1
          /\ pages[p].item_cnt = 0 => pages'[p].item_cnt = 0
      BY <2>3, <2>4
    <3> QED BY <1>0, <2>2, <2>4, <3>1, <3>2, MarkCounts
  <2>6. ASSUME NEW q \in Pages, q # p PROVE PageFine(q)'
    <3>1. (Ready(q)' => Ready(q)) /\ ~Uncounted(q)
      BY <2>2 DEF Ready, Loaded, Uncounted
    <3> QED BY <1>0, <2>4, <2>6, <3>1, CntTypes, PageFineKept DEF PagesFine
  <2>7. ErasedCounted'
    <3>1. \A q \in Pages : pages'[q].status = pages[q].status
      BY <2>4
    <3> QED BY <1>0, <2>2, <3>1, SamePagesErased
  <2>8. BlankAtFirst'
    BY <1>0, <2>2, HeaderThere DEF CallTypeOK
  <2>9. Located' /\ Destination'
    <3>1. cur'.page = p
      BY <1>0, <1>a, <2>2 DEF CallTypeOK
    <3> QED BY <1>0, <2>2, <2>4, <3>1 DEF Located, Placed, Destination, Moved
  <2> QED BY <2>5, <2>6, <2>7, <2>8, <2>9 DEF CountInv, PagesFine
<1>2. CASE RealignFull
  <2> DEFINE new == FirstPage(page_active, "ERASED")
  <2>1. CASE Valid(new)
    <3>1. PICK off \in Offsets : off = FirstOff(RealignOffs)
      BY <1>b, <1>2 DEF RealignFull
    <3>2. /\ SetStatus(page_active, "FULL") /\ dst' = new /\ new \in Pages
          /\ pc = "realign" /\ pc' = "open" /\ pages[p].status = "FULL"
          /\ flash[p].cell[off].val # NoVal
          /\ cur' = [cur EXCEPT !.off = off]
          /\ UNCHANGED <<header, srch>>
      BY <1>a, <1>b, <1>2, <2>1, <3>1 DEF RealignFull, Valid
    <3>3. pages[new].status = "ERASED"
      BY <3>2, FirstPageFound
    <3> HIDE DEF new
    <3>4. cur'.page = p /\ cur'.off = off
      BY <1>0, <1>a, <3>2 DEF CallTypeOK
    <3>5. LiveOffs(flash[new]) = {}
      BY <1>0, <3>2, <3>3, ErasedIsEmpty DEF Mirrored, Loaded, PagesFine
    <3>6. /\ \A q \in Pages : flash'[q].cell = flash[q].cell
          /\ \A q \in Pages : q # page_active => pages'[q].status = pages[q].status
      BY <1>0, <3>2, SetStatusCounts
    <3>7. pages'[p].status = "FULL"
      <4>1. CASE page_active = p
        <5>1. SetStatus(p, "FULL") /\ Loaded
          BY <3>2, <4>1 DEF Loaded
        <5> QED BY <5>1, SetStatusSets
      <4>2. CASE page_active # p
        BY <3>2, <3>6, <4>2
      <4> QED BY <4>1, <4>2
    <3>8. flash[p].cell[off].val \in Vals
      <4>1. flash[p].cell[off] \in Item
        BY <1>0, CntTypes DEF FlashPage
      <4> QED BY <3>2, <4>1 DEF Item
    <3>9. LiveOffs(flash'[dst']) = {}
      <4>1. flash'[new].cell = flash[new].cell
        BY <3>2, <3>6
      <4>2. LiveOffs(flash'[new]) = {}
        BY <3>5, <4>1 DEF LiveOffs
      <4> QED BY <3>2, <4>2
    <3>10. flash'[cur'.page].cell[cur'.off].val \in Vals
      <4>1. flash'[p].cell = flash[p].cell
        BY <3>6
      <4>2. flash'[p].cell[off].val \in Vals
        BY <3>8, <4>1
      <4> QED BY <3>4, <4>2
    <3>11. Destination'
      BY <3>2, <3>3, <3>4, <3>7, <3>9, <3>10 DEF Destination, Moved
    <3>12. Located'
      BY <1>0, <3>2 DEF Located, Placed
    <3> QED BY <3>2, <3>11, <3>12, StatusCount DEF Loaded
  <2>2. CASE ~Valid(new)
    BY <1>0, <1>2, <2>2, FarFromPlaces, QuietCount DEF RealignFull, Moving, Loaded
  <2> QED BY <2>1, <2>2
<1>3. CASE RealignOpen
  <2>1. PICK d \in Pages : d = dst
    BY <1>0, <1>3 DEF RealignOpen, Arguments
  <2>2. /\ SetStatus(d, "ACTIVE") /\ pc = "open" /\ pc' = "put" /\ ret' = "realign"
        /\ UNCHANGED <<header, srch, cur, dst>>
    BY <1>3, <2>1 DEF RealignOpen
  <2>3. /\ LiveOffs(flash[d]) = {} /\ d # p /\ pages[p].status = "FULL"
        /\ flash[p].cell[cur.off].val \in Vals
    BY <1>0, <1>a, <2>1, <2>2 DEF Destination, Moved
  <2>4. flash'[p].cell = flash[p].cell /\ pages'[p].status = pages[p].status
    BY <1>0, <2>2, <2>3, SetStatusCounts
  <2>5. Located' /\ Destination'
    BY <1>0, <1>a, <2>1, <2>2, <2>3, <2>4 DEF Located, Placed, Destination, Moved
  <2> QED BY <2>2, <2>3, <2>5, StatusCount DEF Loaded
<1>4. CASE RealignFits
  <2>1. PICK off \in Offsets : off = FirstOff(RealignOffs)
    BY <1>b, <1>4 DEF RealignFits
  <2>2. /\ pc = "realign" /\ pc' = "put" /\ ret' = "realign" /\ dst' = page_active
        /\ pages[p].status = "FULL" /\ MovedItem = flash[p].cell[off]
        /\ MovedItem.val # NoVal /\ Fits(page_active, Size(MovedItem))
        /\ cur' = [cur EXCEPT !.off = off]
        /\ UNCHANGED <<flash, header, ctxVars, srch>>
    BY <1>b, <1>4, <2>1 DEF RealignFits
  <2>3. MovedItem \in Item /\ flash[p].cell[off].val \in Vals
    <3>1. flash[p].cell[off] \in Item
      BY <1>0, CntTypes DEF FlashPage
    <3> QED BY <2>2, <3>1 DEF Item
  <2>4. page_active # p
    <3>1. Size(MovedItem) \in Nat \ {0}
      BY <2>3, ItemTypes
    <3> QED BY <2>2, <3>1, FitsActive
  <2>5. cur'.page = p /\ cur'.off = off
    BY <1>0, <1>a, <2>2 DEF CallTypeOK
  <2>6. Located' /\ Destination'
    BY <1>0, <2>2, <2>3, <2>4, <2>5 DEF Located, Placed, Destination, Moved
  <2> QED BY <2>2, <2>6, QuietCount DEF Loaded
<1>5. CASE RealignErase
  BY <1>0, <1>a, <1>5, FarFromPlaces, EraseCount DEF RealignErase, Loaded
<1> QED BY <1>1, <1>2, <1>3, <1>4, <1>5 DEF Realign

-----------------------------------------------------------------------------
(***************************************************************************)
(* CountInv: the write of an item, restarts, and the whole.                *)
(***************************************************************************)
\* What st_page_write_item is asked to store is live: the realign moves only what
\* verifies, a write stores its own.
LEMMA PutItemLive ==
    ASSUME IInv, CountInv, pc \in {"put", "put_full"}
    PROVE  Live(PutItem)
<1>0. /\ CallTypeOK /\ Arguments /\ PagesFine /\ Destination
  BY TypeSplit DEF IInv, CountInv
<1>1. CASE ret = "realign"
  <2>1. PICK p \in Pages : p = cur.page
    BY <1>0 DEF CallTypeOK
  <2>2. cur.off \in Offsets
    BY <1>0, <1>1 DEF Arguments
  <2>3. flash[p].cell[cur.off].val \in Vals
    BY <1>0, <1>1, <2>1 DEF Destination, Moved
  <2>4. flash[p].cell[cur.off].key \in Keys
    BY <1>0, <2>2, <2>3 DEF PagesFine, PageFine, ItemsFine
  <2> QED BY <1>1, <2>1, <2>3, <2>4 DEF PutItem, Live
<1>2. CASE ret # "realign"
  <2>1. op.key \in Keys /\ op.val \in Vals
    BY <1>0 DEF Arguments
  <2> QED BY <1>2, <2>1 DEF PutItem, NewItem, Live
<1> QED BY <1>1, <1>2

\* The programming of an item behind the last one of the page dst.
Appends(it) == flash' = [flash EXCEPT ![dst] = AppendItem(@, pages[dst].bytes_used, it)]

\* The place st_page_write_item stores an item at, whatever the item.
LEMMA AppendDoes ==
    ASSUME IInv, pc = "put", PutAllowed, NEW it \in Item, it.len = PutItem.len,
           Appends(it),
           NEW p, p = dst
    PROVE  /\ p \in Pages /\ pages[p].status = "ACTIVE" /\ flash[p].used \in Offsets
           /\ pages[p].bytes_used = flash[p].used
           /\ flash[p].cell[flash[p].used] = Blank
           /\ flash'[p].cell[flash[p].used] = it
           /\ flash'[p].used = flash[p].used + Size(it)
           /\ \A o \in Offsets \ {flash[p].used} : flash'[p].cell[o] = flash[p].cell[o]
           /\ \A q \in Pages \ {p} : flash'[q] = flash[q]
<1>0. StateTypeOK /\ FlashShape
  BY TypeSplit DEF IInv
<1>1. /\ p \in Pages /\ pages[p].status = "ACTIVE"
      /\ pages[p].bytes_used = flash[p].used
  BY PutPlace
<1>2. flash[p] \in FlashPage
  BY <1>0, <1>1 DEF StateTypeOK
<1>3. flash[p].used \in Nat /\ flash[p].cell \in [Offsets -> Item]
  BY <1>2 DEF FlashPage
<1>4. flash[p].used \in Offsets
  <2>1. flash[p].used + Size(PutItem) < PageContent
    BY <1>1 DEF PutAllowed
  <2>2. Size(PutItem) \in Nat
    BY PutItemType
  <2> QED BY <1>3, <2>1, <2>2
<1>5. flash[p].cell[flash[p].used] = Blank
  BY <1>0, <1>1, <1>3, <1>4 DEF FlashShape
<1> DEFINE used == flash[p].used
           cells == [flash[p].cell EXCEPT ![used] = it]
<1>6. cells[used] = it /\ \A o \in Offsets \ {used} : cells[o] = flash[p].cell[o]
  BY <1>3, <1>4
<1>7. flash' = [flash EXCEPT ![p] = [status |-> flash[p].status, used |-> used + Size(it),
                                     cell |-> cells]]
  BY <1>1 DEF AppendItem, Appends
<1> HIDE DEF cells
<1>8. /\ flash'[p].cell = cells /\ flash'[p].used = used + Size(it)
      /\ \A q \in Pages \ {p} : flash'[q] = flash[q]
  BY <1>0, <1>1, <1>7 DEF StateTypeOK
<1> QED BY <1>1, <1>4, <1>5, <1>6, <1>8

\* What Put does to the page, and where the caller goes on.
LEMMA PutDoes ==
    ASSUME IInv, Put, NEW p, p = dst
    PROVE  /\ p \in Pages /\ pages[p].status = "ACTIVE" /\ flash[p].used \in Offsets
           /\ flash[p].cell[flash[p].used] = Blank
           /\ flash'[p].cell[flash[p].used] = PutItem
           /\ flash'[p].used = flash[p].used + Size(PutItem)
           /\ \A o \in Offsets \ {flash[p].used} : flash'[p].cell[o] = flash[p].cell[o]
           /\ \A q \in Pages \ {p} : flash'[q] = flash[q]
           /\ \A q \in Pages \ {p} : pages'[q] = pages[q]
           /\ pages'[p].status = "ACTIVE"
           /\ \/ /\ pc' = "put_full" /\ pages'[p].item_cnt = pages[p].item_cnt
                 /\ UNCHANGED <<cur, tgt, ret, rc>>
              \/ /\ PutReturns /\ pages'[p].item_cnt = pages[p].item_cnt + 1
<1>0. StateTypeOK
  BY TypeSplit DEF IInv
<1>1. /\ pc = "put" /\ PutAllowed
      /\ flash' = [flash EXCEPT ![dst] = AppendItem(@, pages[dst].bytes_used, PutItem)]
  BY DEF Put
<1>2. PutItem \in Item
  BY <1>1, PutItemType
<1>3. /\ p \in Pages /\ pages[p].status = "ACTIVE" /\ flash[p].used \in Offsets
      /\ flash[p].cell[flash[p].used] = Blank
      /\ flash'[p].cell[flash[p].used] = PutItem
      /\ flash'[p].used = flash[p].used + Size(PutItem)
      /\ \A o \in Offsets \ {flash[p].used} : flash'[p].cell[o] = flash[p].cell[o]
      /\ \A q \in Pages \ {p} : flash'[q] = flash[q]
  <2>1. PICK it : it = PutItem
    OBVIOUS
  <2>2. /\ pc = "put" /\ PutAllowed /\ it \in Item /\ it.len = PutItem.len
        /\ Appends(it)
    BY <1>1, <1>2, <2>1 DEF Appends
  <2>3. /\ p \in Pages /\ pages[p].status = "ACTIVE" /\ flash[p].used \in Offsets
        /\ flash[p].cell[flash[p].used] = Blank
        /\ flash'[p].cell[flash[p].used] = it
        /\ flash'[p].used = flash[p].used + Size(it)
        /\ \A o \in Offsets \ {flash[p].used} : flash'[p].cell[o] = flash[p].cell[o]
        /\ \A q \in Pages \ {p} : flash'[q] = flash[q]
    BY <2>2, AppendDoes
  <2> QED BY <2>1, <2>3
<1> DEFINE used == pages[p].bytes_used + Size(PutItem)
<1>4. \/ /\ pages' = [pages EXCEPT ![p].bytes_used = used]
         /\ pc' = "put_full" /\ UNCHANGED <<cur, tgt, ret, rc>>
      \/ /\ pages' = [pages EXCEPT ![p].bytes_used = used,
                                   ![p].item_cnt = pages[p].item_cnt + 1]
         /\ PutReturns
  BY DEF Put
<1> HIDE DEF used
<1>5. pages \in [Pages -> RamPage] /\ pages[p] \in RamPage
  BY <1>0, <1>3 DEF StateTypeOK
<1>6. CASE /\ pages' = [pages EXCEPT ![p].bytes_used = used]
           /\ pc' = "put_full" /\ UNCHANGED <<cur, tgt, ret, rc>>
  <2>1. /\ \A q \in Pages \ {p} : pages'[q] = pages[q]
        /\ pages'[p].status = "ACTIVE" /\ pages'[p].item_cnt = pages[p].item_cnt
    BY <1>3, <1>5, <1>6 DEF RamPage
  <2> QED BY <1>3, <1>6, <2>1
<1>7. CASE /\ pages' = [pages EXCEPT ![p].bytes_used = used,
                                     ![p].item_cnt = pages[p].item_cnt + 1]
           /\ PutReturns
  <2>1. /\ \A q \in Pages \ {p} : pages'[q] = pages[q]
        /\ pages'[p].status = "ACTIVE" /\ pages'[p].item_cnt = pages[p].item_cnt + 1
    BY <1>3, <1>5, <1>7 DEF RamPage
  <2> QED BY <1>3, <1>7, <2>1
<1> QED BY <1>4, <1>6, <1>7

\* What a write that is cut short leaves: something that does not verify.
LEMMA TornDoes ==
    ASSUME IInv, TornWrite, NEW p, p = dst
    PROVE  /\ p \in Pages /\ flash[p].used \in Offsets
           /\ flash[p].cell[flash[p].used] = Blank
           /\ flash'[p].cell[flash[p].used].val = NoVal
           /\ \A o \in Offsets \ {flash[p].used} : flash'[p].cell[o] = flash[p].cell[o]
           /\ \A q \in Pages \ {p} : flash'[q] = flash[q]
<1>1. PICK k : flash' = [flash EXCEPT ![dst] = AppendItem(@, pages[dst].bytes_used,
                             [key |-> k, len |-> PutItem.len, val |-> NoVal])]
               /\ k \in {BadKey, PutItem.key}
  BY DEF TornWrite
<1>2. pc = "put" /\ PutAllowed
  BY DEF TornWrite
<1>3. PICK it : it = [key |-> k, len |-> PutItem.len, val |-> NoVal]
  OBVIOUS
<1>4. it \in Item /\ it.len = PutItem.len /\ it.val = NoVal
  <2>1. PutItem \in Item
    BY <1>2, PutItemType
  <2> QED BY <1>1, <1>3, <2>1 DEF Item
<1>5. Appends(it)
  BY <1>1, <1>3 DEF Appends
<1>6. /\ p \in Pages /\ flash[p].used \in Offsets
      /\ flash[p].cell[flash[p].used] = Blank /\ flash'[p].cell[flash[p].used] = it
      /\ \A o \in Offsets \ {flash[p].used} : flash'[p].cell[o] = flash[p].cell[o]
      /\ \A q \in Pages \ {p} : flash'[q] = flash[q]
  BY <1>2, <1>4, <1>5, AppendDoes
<1> QED BY <1>4, <1>6

LEMMA PutFullDoes ==
    ASSUME IInv, PutFull, NEW p, p = dst
    PROVE  /\ p \in Pages /\ pc = "put_full" /\ PutReturns
           /\ \A q \in Pages : flash'[q].cell = flash[q].cell /\ flash'[q].used = flash[q].used
           /\ \A q \in Pages \ {p} : pages'[q] = pages[q]
           /\ pages'[p].item_cnt = pages[p].item_cnt + 1
           /\ pages'[p].status = "FULL"
<1>0. StateTypeOK /\ Arguments
  BY TypeSplit DEF IInv
<1>1. /\ pc = "put_full" /\ PutReturns /\ p \in Pages
      /\ flash' = [flash EXCEPT ![p].status = Burn(flash[p].status, "FULL")]
      /\ pages' = [pages EXCEPT ![p].status = "FULL",
                                ![p].item_cnt = pages[p].item_cnt + 1]
  BY <1>0 DEF PutFull, Arguments
<1>2. /\ flash \in [Pages -> FlashPage] /\ flash[p] \in FlashPage
      /\ pages \in [Pages -> RamPage] /\ pages[p] \in RamPage
  BY <1>0, <1>1 DEF StateTypeOK
<1>3. Burn(flash[p].status, "FULL") = "FULL"
  BY DEF Burn
<1>4. flash'[p].cell = flash[p].cell /\ flash'[p].used = flash[p].used
  BY <1>1, <1>2, <1>3 DEF FlashPage
<1>5. \A q \in Pages \ {p} : flash'[q] = flash[q] /\ pages'[q] = pages[q]
  BY <1>1, <1>2
<1>6. pages'[p].item_cnt = pages[p].item_cnt + 1 /\ pages'[p].status = "FULL"
  BY <1>1, <1>2 DEF RamPage
<1> QED BY <1>1, <1>4, <1>5, <1>6

\* Where the caller of st_page_write_item goes on.
LEMMA PutReturnsTo ==
    ASSUME IInv, PutReturns, pc \in {"put", "put_full"}
    PROVE  \/ /\ ret = "realign" /\ ret' = ret /\ pc' = "realign"
              /\ cur'.page = cur.page /\ cur'.off = cur.off + Size(PutItem)
           \/ /\ ret = "write" /\ ret' = "old" /\ pc' = "del" /\ tgt' = srch.loc
              /\ srch.loc.page \in Pages
           \/ /\ ret = "write" /\ pc' = "return" /\ ret' = ret
<1>1. ret \in {"write", "realign"} /\ cur \in [page : Pages, off : Nat]
  BY TypeSplit DEF IInv, Arguments, CallTypeOK
<1> QED BY <1>1 DEF PutReturns, Finish, Valid

LEMMA WriteCount == IInv /\ CountInv /\ Write => CountInv'
<1> SUFFICES ASSUME IInv, CountInv, Write PROVE CountInv'
  OBVIOUS
<1>0. /\ StateTypeOK /\ CallTypeOK /\ Arguments
      /\ PagesFine /\ BlankAtFirst /\ ErasedCounted /\ Located /\ Destination
  BY TypeSplit DEF IInv, CountInv
<1>1. CASE PutFails
  BY <1>0, <1>1, FarFromPlaces, QuietCount DEF PutFails, Finish, Loaded
<1>2. CASE Put
  <2>1. PICK p : p = dst
    OBVIOUS
  <2>2. /\ p \in Pages /\ pages[p].status = "ACTIVE" /\ flash[p].used \in Offsets
        /\ flash[p].cell[flash[p].used] = Blank
        /\ flash'[p].cell[flash[p].used] = PutItem
        /\ \A o \in Offsets \ {flash[p].used} : flash'[p].cell[o] = flash[p].cell[o]
        /\ \A q \in Pages \ {p} : flash'[q] = flash[q]
        /\ \A q \in Pages \ {p} : pages'[q] = pages[q]
        /\ pages'[p].status = "ACTIVE"
        /\ \/ /\ pc' = "put_full" /\ pages'[p].item_cnt = pages[p].item_cnt
              /\ UNCHANGED <<cur, tgt, ret, rc>>
           \/ /\ PutReturns /\ pages'[p].item_cnt = pages[p].item_cnt + 1
    BY <1>2, <2>1, PutDoes
  <2>3. pc = "put" /\ UNCHANGED <<header, page_erased, srch, dst>>
    BY <1>2 DEF Put
  <2>4. PutReturns => \/ /\ ret = "realign" /\ ret' = ret /\ pc' = "realign"
                         /\ cur'.page = cur.page
                      \/ /\ ret = "write" /\ ret' = "old" /\ pc' = "del" /\ tgt' = srch.loc
                         /\ srch.loc.page \in Pages
                      \/ /\ ret = "write" /\ pc' = "return" /\ ret' = ret
    BY <2>3, PutReturnsTo
  <2>5. Live(PutItem)
    BY <2>3, PutItemLive
  <2>6. Cardinality(LiveOffs(flash'[p])) = Cardinality(LiveOffs(flash[p])) + 1
    <3> DEFINE pg == flash[p]
               new == flash'[p]
               off == flash[p].used
    <3>1. /\ off \in Offsets /\ pg.cell[off] = Blank /\ Live(new.cell[off])
          /\ \A o \in Offsets \ {off} : new.cell[o] = pg.cell[o]
      BY <2>2, <2>5
    <3> HIDE DEF pg, new, off
    <3>2. Cardinality(LiveOffs(new)) = Cardinality(LiveOffs(pg)) + 1
      BY <3>1, LiveOneMore
    <3> QED BY <3>2 DEF pg, new
  <2>7. /\ pages[p].item_cnt <= Cardinality(LiveOffs(flash[p]))
        /\ Cardinality(LiveOffs(flash[p])) <= pages[p].item_cnt
        /\ pages[p].item_cnt \in Nat /\ Cardinality(LiveOffs(flash[p])) \in Nat
        /\ ItemsFine(flash[p], TRUE)
    <3>1. Ready(p) /\ ~Uncounted(p) /\ PageFine(p)
      BY <1>0, <2>2, <2>3 DEF Ready, Loaded, Uncounted, PagesFine
    <3>2. pages[p].item_cnt \in Nat /\ Cardinality(LiveOffs(flash[p])) \in Nat
      BY <1>0, <2>2, CntTypes, LiveFinite
    <3>3. ItemsFine(flash[p], TRUE)
      BY <3>1 DEF PageFine, ItemsFine
    <3>4. /\ pages[p].item_cnt <= Cardinality(LiveOffs(flash[p]))
          /\ Cardinality(LiveOffs(flash[p])) <= pages[p].item_cnt
      BY <2>2, <3>1, <3>2 DEF PageFine, CountFine
    <3> QED BY <3>2, <3>3, <3>4
  <2>8. PageFine(p)'
    <3>1. ItemsFine(flash'[p], Ready(p)')
      BY <2>2, <2>5, <2>7 DEF ItemsFine, Live
    <3>2. pc' = "put_full" => Uncounted(p)'
      BY <2>1, <2>3 DEF Uncounted
    <3>3. Uncounted(p)' \in BOOLEAN
      BY DEF Uncounted
    <3>4. CountFine(flash'[p], pages'[p], Ready(p)', Uncounted(p)')
      BY <2>2, <2>6, <2>7, <3>2, <3>3 DEF CountFine
    <3> QED BY <3>1, <3>4 DEF PageFine
  <2>9. ASSUME NEW q \in Pages, q # p PROVE PageFine(q)'
    <3>1. (Ready(q)' => Ready(q)) /\ ~Uncounted(q)
      BY <2>3 DEF Ready, Loaded, Uncounted
    <3> QED BY <1>0, <2>2, <2>9, <3>1, CntTypes, PageFineKept DEF PagesFine
  <2>10. ErasedCounted'
    <3>1. \A q \in Pages : pages'[q].status = pages[q].status
      BY <2>2
    <3> QED BY <1>0, <2>3, <3>1, SamePagesErased
  <2>11. BlankAtFirst'
    BY <1>0, <2>3, HeaderThere DEF CallTypeOK
  <2>12. Located'
    BY <1>0, <2>2, <2>3, <2>4 DEF Located, Placed
  <2>13. Destination'
    <3>1. (cur.page \in Pages /\ cur'.page = cur.page) \/ pc' \in {"del", "return"}
      BY <1>0, <2>2, <2>4 DEF CallTypeOK
    <3>2. ret = "realign" => /\ cur.page # p /\ pages[cur.page].status = "FULL"
                             /\ flash[cur.page].cell[cur.off].val \in Vals
      BY <1>0, <2>1, <2>3 DEF Destination, Moved
    <3>3. ret = "realign" => /\ pages'[cur.page].status = "FULL"
                             /\ flash'[cur.page].cell[cur.off].val \in Vals
      <4>1. cur.page \in Pages
        BY <1>0 DEF CallTypeOK
      <4> QED BY <2>2, <3>2, <4>1
    <3>4. pc' = "put_full" => pages'[dst'].status = "ACTIVE"
                              /\ pages'[dst'].item_cnt < Cardinality(LiveOffs(flash'[dst']))
      <4>1. pc' = "put_full" => pages'[p].item_cnt = pages[p].item_cnt
        BY <2>2, <2>4
      <4> QED BY <2>1, <2>2, <2>3, <2>6, <2>7, <4>1
    <3>5. CASE pc' = "put_full"
      <4>1. UNCHANGED <<cur, ret, dst>>
        BY <2>2, <2>3, <2>4, <3>5
      <4> QED BY <2>1, <3>2, <3>3, <3>4, <3>5, <4>1 DEF Destination, Moved
    <3>6. CASE pc' # "put_full"
      <4>1. PutReturns
        BY <2>2, <3>6
      <4> QED BY <2>4, <3>3, <4>1 DEF Destination, Moved
    <3> QED BY <3>5, <3>6
  <2> QED BY <2>8, <2>9, <2>10, <2>11, <2>12, <2>13 DEF CountInv, PagesFine
<1>3. CASE PutFull
  <2>1. PICK p : p = dst
    OBVIOUS
  <2>2. /\ p \in Pages /\ pc = "put_full" /\ PutReturns
        /\ \A q \in Pages : flash'[q].cell = flash[q].cell
        /\ \A q \in Pages \ {p} : pages'[q] = pages[q]
        /\ pages'[p].item_cnt = pages[p].item_cnt + 1
        /\ pages'[p].status = "FULL"
        /\ UNCHANGED <<header, page_erased, srch>>
    BY <1>3, <2>1, PutFullDoes DEF PutFull
  <2>3. \/ /\ ret = "realign" /\ pc' = "realign" /\ cur'.page = cur.page
        \/ /\ ret = "write" /\ pc' = "del" /\ tgt' = srch.loc /\ srch.loc.page \in Pages
        \/ /\ ret = "write" /\ pc' = "return"
    BY <2>2, PutReturnsTo
  <2>4. /\ pages[p].item_cnt < Cardinality(LiveOffs(flash[p])) /\ pages[p].status = "ACTIVE"
        /\ Uncounted(p) /\ Ready(p) /\ PageFine(p)
        /\ pages[p].item_cnt \in Nat /\ Cardinality(LiveOffs(flash[p])) \in Nat
    BY <1>0, <2>1, <2>2, CntTypes, LiveFinite
       DEF Destination, Uncounted, Ready, Loaded, PagesFine
  <2>5. Cardinality(LiveOffs(flash[p])) = pages[p].item_cnt + 1
    BY <2>4 DEF PageFine, CountFine
  <2>6. PageFine(p)'
    <3>1. LiveOffs(flash'[p]) = LiveOffs(flash[p])
      BY <2>2 DEF LiveOffs
    <3>2. CountFine(flash'[p], pages'[p], Ready(p)', Uncounted(p)')
      BY <2>2, <2>4, <2>5, <3>1 DEF CountFine
    <3>3. ItemsFine(flash'[p], Ready(p)')
      BY <2>2, <2>4 DEF PageFine, ItemsFine
    <3> QED BY <3>2, <3>3 DEF PageFine
  <2>7. ASSUME NEW q \in Pages, q # p PROVE PageFine(q)'
    <3>1. (Ready(q)' => Ready(q)) /\ ~Uncounted(q)
      BY <2>1, <2>2, <2>7 DEF Ready, Loaded, Uncounted
    <3> QED BY <1>0, <2>2, <2>7, <3>1, CntTypes, PageFineKept DEF PagesFine
  <2>8. ErasedCounted'
    <3>1. \A q \in Pages : pages'[q].status = "ERASED" <=> pages[q].status = "ERASED"
      BY <2>2, <2>4
    <3> QED BY <1>0, <2>2, <3>1, SamePagesErased
  <2>9. BlankAtFirst'
    BY <1>0, <2>2, HeaderThere DEF CallTypeOK
  <2>10. Located'
    BY <1>0, <2>2, <2>3 DEF Located, Placed
  <2>11. Destination'
    <3>1. CASE pc' = "realign"
      <4>1. cur.page \in Pages /\ cur.page # p /\ pages[cur.page].status = "FULL"
            /\ cur'.page = cur.page
        BY <1>0, <2>1, <2>2, <2>3, <3>1 DEF Destination, Moved, CallTypeOK
      <4>2. pages'[cur'.page].status = "FULL"
        BY <2>2, <4>1
      <4> QED BY <3>1, <4>2 DEF Destination, Moved
    <3>2. CASE pc' # "realign"
      BY <2>3, <3>2 DEF Destination, Moved
    <3> QED BY <3>1, <3>2
  <2> QED BY <2>6, <2>7, <2>8, <2>9, <2>10, <2>11 DEF CountInv, PagesFine
<1> QED BY <1>1, <1>2, <1>3 DEF Write

LEMMA ReturnCount == IInv /\ CountInv /\ Return => CountInv'
<1> SUFFICES ASSUME IInv, CountInv, Return PROVE CountInv'
  OBVIOUS
<1>1. Loaded /\ Loaded' /\ pc # "put_full" /\ UNCHANGED <<flashVars, ctxVars>>
  BY DEF Return, Loaded
<1>2. Located' /\ Destination'
  BY DEF Return, NoSearch, NoLoc, Located, Placed, Destination, Moved
<1> QED BY <1>1, <1>2, QuietCount

LEMMA CallCount == IInv /\ CountInv /\ Call => CountInv'
<1> SUFFICES ASSUME IInv, CountInv, NEW o, StartFind(o) PROVE CountInv'
  BY DEF Call, ReadItem, WriteItem
<1>1. Loaded /\ Loaded' /\ pc # "put_full" /\ UNCHANGED <<flashVars, ctxVars>>
  BY DEF StartFind, Loaded
<1>2. /\ pc' = "find" /\ srch'.last = NoLoc /\ srch'.loc = NoLoc
      /\ srch'.cnt = 0 /\ srch'.hits = 0
  BY DEF StartFind, NoSearch
<1>3. Located' /\ Destination'
  BY <1>2 DEF NoLoc, Located, Placed, Destination, Moved
<1> QED BY <1>1, <1>3, QuietCount

\* Nothing is known of the counts while the MCU boots; of the flash, that an item whose
\* content verifies has an index, and that only a torn write leaves one without.
LEMMA RestartCount ==
    ASSUME IInv, CountInv, Restart, Loaded \/ UNCHANGED flash,
           \A p \in Pages : ItemsFine(flash'[p], FALSE)
    PROVE  CountInv'
<1>0. /\ StateTypeOK /\ CallTypeOK /\ BlankAtFirst
  BY TypeSplit DEF IInv, CountInv
<1>1. /\ pages' = [p \in Pages |-> ZeroPage] /\ page_erased' = 0 /\ pc' = "boot"
      /\ srch' = NoSearch /\ UNCHANGED header
  BY DEF Restart
<1>2. ASSUME NEW p \in Pages PROVE PageFine(p)'
  <2>1. ~(Ready(p)') /\ Ready(p)' \in BOOLEAN
    BY <1>1 DEF Ready, Loaded
  <2>2. ItemsFine(flash'[p], Ready(p)')
    BY <2>1 DEF ItemsFine
  <2>3. pages'[p].item_cnt = 0
    BY <1>1 DEF ZeroPage
  <2>4. CountFine(flash'[p], pages'[p], Ready(p)', Uncounted(p)')
    BY <2>1, <2>3, LiveFinite DEF CountFine
  <2> QED BY <2>2, <2>4 DEF PageFine
<1>3. ErasedCounted'
  <2>1. ErasedPages' = {}
    BY <1>1 DEF ErasedPages, ZeroPage
  <2> QED BY <1>1, <2>1, FS_EmptySet DEF ErasedCounted
<1>4. BlankAtFirst'
  <2>1. ~header => UNCHANGED flash /\ \A p \in Pages : flash[p] = BlankPage
    BY <1>0 DEF BlankAtFirst, Loaded
  <2> QED BY <1>1, <2>1 DEF BlankAtFirst
<1>5. Located' /\ Destination'
  BY <1>1 DEF NoSearch, NoLoc, Located, Placed, Destination, Moved
<1> QED BY <1>2, <1>3, <1>4, <1>5 DEF CountInv, PagesFine

LEMMA FailCount == IInv /\ CountInv /\ Fail => CountInv'
<1> SUFFICES ASSUME IInv, CountInv, Fail PROVE CountInv'
  OBVIOUS
<1>1. \A p \in Pages : ItemsFine(flash[p], FALSE)
  BY DEF CountInv, PagesFine, PageFine, ItemsFine
<1>2. CASE Reset \/ PowerLoss
  BY <1>1, <1>2, RestartCount DEF Reset, PowerLoss
<1>3. CASE TornWrite
  <2>1. PICK p : p = dst
    OBVIOUS
  <2>2. /\ p \in Pages /\ flash[p].used \in Offsets
        /\ flash'[p].cell[flash[p].used].val = NoVal
        /\ \A o \in Offsets \ {flash[p].used} : flash'[p].cell[o] = flash[p].cell[o]
        /\ \A q \in Pages \ {p} : flash'[q] = flash[q]
    BY <1>3, <2>1, TornDoes
  <2>3. AllowPowerLoss /\ pc = "put" /\ Restart
    BY <1>3 DEF TornWrite
  <2>4. ItemsFine(flash'[p], FALSE)
    <3>1. ItemsFine(flash[p], FALSE)
      BY <1>1, <2>2
    <3> QED BY <2>2, <2>3, <3>1 DEF ItemsFine
  <2>5. \A q \in Pages : ItemsFine(flash'[q], FALSE)
    BY <1>1, <2>2, <2>4
  <2> QED BY <2>3, <2>5, RestartCount DEF Loaded
<1> QED BY <1>2, <1>3 DEF Fail

LEMMA StutterCount == CountInv /\ UNCHANGED vars => CountInv'
BY DEF CountInv, PagesFine, PageFine, ItemsFine, CountFine, LiveOffs, Ready, Loaded, Uncounted,
       BlankAtFirst, ErasedCounted, ErasedPages, Located, Placed, Destination, Moved, vars

LEMMA NextCountInv == IInv /\ CountInv /\ [Next]_vars => CountInv'
BY BootCount, FindCount, DeleteCount, AllocateCount, RealignCount, WriteCount, ReturnCount,
   CallCount, FailCount, StutterCount DEF Next, Step

\* What st_ctx counts of items and pages (item_cnt, page_erased in storage.c) and which
\* items can be in the flash: the invariant that Bookkeeping follows from.
THEOREM Counted == Spec => []CountInv
BY InitCountInv, NextCountInv, Invariance, PTL DEF Spec

LEMMA CountInvBookkeeping == IInv /\ CountInv => Bookkeeping
<1> SUFFICES ASSUME IInv, CountInv, Loaded PROVE Bookkeeping
  BY DEF Bookkeeping
<1>0. StateTypeOK /\ PagesFine /\ ErasedCounted
  BY TypeSplit DEF IInv, CountInv
<1>1. ASSUME NEW p \in Pages
      PROVE  /\ pages[p].bytes_used = flash[p].used
             /\ pages[p].item_cnt <= Cardinality(LiveCopies(p))
             /\ Undercounted(p) =>
                   Uncounted(p) \/ (AllowPowerLoss /\ pages[p].status = "FULL")
  <2>1. pages[p].bytes_used = flash[p].used
    BY <1>1 DEF IInv, Mirrored, Mirrors
  <2>2. /\ LiveCopies(p) = LiveOffs(flash[p])
        /\ CountFine(flash[p], pages[p], Ready(p), Uncounted(p)) /\ Ready(p)
    BY <1>0, LiveCopiesOffs DEF PagesFine, PageFine, Ready
  <2>3. pages[p].item_cnt \in Nat /\ Cardinality(LiveOffs(flash[p])) \in Nat
    BY <1>0, CntTypes, LiveFinite
  <2>4. (~AllowPowerLoss \/ pages[p].status # "FULL") /\ ~Uncounted(p) => ~Undercounted(p)
    BY <2>2, <2>3 DEF CountFine, Undercounted
  <2> QED BY <2>1, <2>2, <2>4 DEF CountFine
<1>2. page_erased = Cardinality({p \in Pages : pages[p].status = "ERASED"})
  BY <1>0 DEF ErasedCounted, ErasedPages
<1> QED BY <1>1, <1>2 DEF Bookkeeping

\* Bookkeeping (storage.c, st_init and every function that changes a page): after any
\* sequence of calls, realigns, restarts and torn writes st_ctx says of each page how many
\* of its bytes are programmed and no more items than it holds, exactly as many unless it
\* is full and a write can have been torn, and st_ctx.page_erased is the number of erased pages.
THEOREM Bookkept == Spec => []Bookkeeping
BY Counted, Invariance, CountInvBookkeeping, PTL

-----------------------------------------------------------------------------
(***************************************************************************)
(* MoveInv: what st_page_realign has passed is on another page.            *)
(***************************************************************************)
\* The live items of a page do not overlap and end where its programmed bytes end.
PageLaid(pg) ==
    \A o \in LiveOffs(pg) :
       /\ o + Size(pg.cell[o]) <= pg.used
       /\ \A o2 \in LiveOffs(pg) : o < o2 => o + Size(pg.cell[o]) <= o2
Laid == \A p \in Pages : PageLaid(flash[p])

KeyElsewhere(p, k)  == \E q \in Pages \ {p} : \E o \in Offsets : Holds(q, o, k)
PassedBelow(p, off) == \A o \in LiveOffs(flash[p]) :
                          o < off => KeyElsewhere(p, flash[p].cell[o].key)

Realigning == pc = "realign" \/ Moved
MoveInv ==
    /\ Laid
    /\ Realigning => PassedBelow(cur.page, cur.off)
    /\ pc = "put_full" /\ ret = "realign" =>
          KeyElsewhere(cur.page, flash[cur.page].cell[cur.off].key)

LEMMA PageLaidKept ==
    ASSUME NEW pg \in FlashPage, NEW new \in FlashPage, Programs(pg, new), PageLaid(pg)
    PROVE  PageLaid(new)
<1>1. /\ pg.used \in Nat /\ new.used \in Nat
      /\ \A o \in Offsets : o \in Nat /\ Size(pg.cell[o]) \in Nat /\ Size(new.cell[o]) \in Nat
  BY ItemTypes DEF FlashPage
<1>2. ASSUME NEW o \in LiveOffs(new)
      PROVE  \/ o \in LiveOffs(pg) /\ new.cell[o] = pg.cell[o]
             \/ o = pg.used /\ new.used = o + Size(new.cell[o])
  <2>1. o \in Offsets /\ Live(new.cell[o])
    BY DEF LiveOffs
  <2>2. ~Live(Erased(pg.cell[o]))
    BY DEF Live, Erased
  <2> QED BY <2>1, <2>2 DEF Programs, LiveOffs
<1>3. pg.used <= new.used
  <2>1. CASE new.used = pg.used
    BY <1>1, <2>1
  <2>2. CASE new.used # pg.used
    <3>1. pg.used \in Offsets /\ new.used = pg.used + Size(new.cell[pg.used])
      BY <2>2 DEF Programs
    <3> QED BY <1>1, <3>1
  <2> QED BY <2>1, <2>2
<1> SUFFICES ASSUME NEW o \in LiveOffs(new)
             PROVE  /\ o + Size(new.cell[o]) <= new.used
                    /\ \A o2 \in LiveOffs(new) : o < o2 => o + Size(new.cell[o]) <= o2
  BY DEF PageLaid
<1>4. o \in Nat /\ Size(new.cell[o]) \in Nat
  BY <1>1 DEF LiveOffs
<1>5. o + Size(new.cell[o]) <= new.used
  <2>1. CASE o \in LiveOffs(pg) /\ new.cell[o] = pg.cell[o]
    <3>1. o + Size(new.cell[o]) <= pg.used
      BY <2>1 DEF PageLaid
    <3> QED BY <1>1, <1>3, <1>4, <3>1
  <2>2. CASE o = pg.used /\ new.used = o + Size(new.cell[o])
    BY <1>1, <1>4, <2>2
  <2> QED BY <1>2, <2>1, <2>2
<1>6. ASSUME NEW o2 \in LiveOffs(new), o < o2 PROVE o + Size(new.cell[o]) <= o2
  <2>0. o2 \in Nat /\ Size(new.cell[o2]) \in Nat
    BY <1>1 DEF LiveOffs
  <2>1. CASE o2 \in LiveOffs(pg) /\ new.cell[o2] = pg.cell[o2]
    <3>1. o2 + Size(new.cell[o2]) <= pg.used
      BY <2>1 DEF PageLaid
    <3>2. o # pg.used
      BY <1>1, <1>4, <1>6, <2>0, <3>1
    <3> QED BY <1>2, <1>6, <2>1, <3>2 DEF PageLaid
  <2>2. CASE o2 = pg.used
    <3>1. o \in LiveOffs(pg) /\ new.cell[o] = pg.cell[o]
      BY <1>2, <1>4, <1>6, <2>0, <2>2
    <3> QED BY <2>2, <3>1 DEF PageLaid
  <2> QED BY <1>2, <2>1, <2>2
<1> QED BY <1>5, <1>6

LEMMA LaidKept ==
    ASSUME IInv, Laid, [Next]_vars
    PROVE  Laid'
<1> SUFFICES ASSUME NEW p \in Pages PROVE PageLaid(flash'[p])
  BY DEF Laid
<1>1. flash[p] \in FlashPage /\ flash'[p] \in FlashPage
  BY NextIInv DEF IInv, TypeOK
<1>2. CASE flash'[p] = BlankPage
  <2>1. \A o \in Offsets : flash'[p].cell[o] = Blank
    BY <1>2 DEF BlankPage
  <2> QED BY <2>1, LiveBlank DEF PageLaid
<1>3. CASE Programs(flash[p], flash'[p])
  BY <1>1, <1>3, PageLaidKept DEF Laid
<1> QED BY <1>2, <1>3, NextDisciplined DEF Disciplined

\* The steps that change what an item in the flash is; any other leaves every cell.
Alters == \/ LoadHeader \/ InitUsedPage \/ EraseAll \/ DeleteMark \/ DeleteErase
          \/ RealignDrop \/ RealignErase \/ Put \/ TornWrite
CellsKept == \A q \in Pages : flash'[q].cell = flash[q].cell

LEMMA OthersKeepCells ==
    ASSUME IInv, CountInv, [Next]_vars
    PROVE  Alters \/ CellsKept
<1> USE DEF CellsKept
<1>0. StateTypeOK /\ ErasedCounted
  BY TypeSplit DEF IInv, CountInv
<1>1. CASE Boot
  BY <1>1 DEF Boot, Alters, HeaderInit, InitErasedPage, InitFails
<1>2. CASE Find \/ Return \/ Call
  BY <1>2 DEF Find, FindSkip, FindMatch, FindAccept, FindPageEnd, FindNext, ReadDone,
              WriteFound, Return, Call, ReadItem, WriteItem, StartFind
<1>3. CASE Delete
  BY <1>3 DEF Delete, Alters, DeleteSkip, DeleteMismatch
<1>4. CASE Allocate
  <2>1. CASE CloseActive
    BY <1>0, <2>1, SetStatusCounts DEF CloseActive
  <2>2. CASE OpenNew
    BY <1>0, <2>2, SetStatusCounts DEF OpenNew
  <2> QED BY <1>4, <2>1, <2>2
          DEF Allocate, AllocFits, AllocFirst, AllocNoRealign, AllocRealign, AllocRetry
<1>5. CASE Realign
  <2>1. CASE RealignFull
    BY <1>0, <2>1, SetStatusCounts DEF RealignFull
  <2>2. CASE RealignOpen
    BY <1>0, <2>2, SetStatusCounts DEF RealignOpen
  <2> QED BY <1>5, <2>1, <2>2 DEF Realign, Alters, RealignFits
<1>6. CASE Write
  <2>1. CASE PutFull
    BY <2>1, PutFullDoes
  <2> QED BY <1>6, <2>1 DEF Write, Alters, PutFails
<1>7. CASE Fail
  BY <1>7 DEF Fail, Alters, Reset, PowerLoss
<1>8. CASE UNCHANGED vars
  BY <1>8 DEF vars
<1> QED BY <1>1, <1>2, <1>3, <1>4, <1>5, <1>6, <1>7, <1>8 DEF Next, Step

\* The page that is being realigned keeps the items passed so far elsewhere.
LEMMA PassedKept ==
    ASSUME NEW p \in Pages, NEW off, NEW off2, PassedBelow(p, off),
           \A q \in Pages \ {p} : \A o \in Offsets :
              flash[q].cell[o].val \in Vals => flash'[q].cell[o] = flash[q].cell[o],
           \A o \in LiveOffs(flash'[p]) : flash'[p].cell[o] = flash[p].cell[o],
           \A o \in LiveOffs(flash'[p]) :
              o < off2 => o < off \/ KeyElsewhere(p, flash[p].cell[o].key)'
    PROVE  PassedBelow(p, off2)'
<1>1. ASSUME NEW o \in LiveOffs(flash'[p]), o < off2
      PROVE  KeyElsewhere(p, flash[p].cell[o].key)'
  <2>1. o \in LiveOffs(flash[p]) /\ flash'[p].cell[o] = flash[p].cell[o]
    BY DEF LiveOffs
  <2>2. PICK k : k = flash[p].cell[o].key
    OBVIOUS
  <2>3. KeyElsewhere(p, k) => KeyElsewhere(p, k)'
    BY DEF KeyElsewhere, Holds
  <2>4. KeyElsewhere(p, k)'
    BY <1>1, <2>1, <2>2, <2>3 DEF PassedBelow
  <2> QED BY <2>1, <2>2, <2>4
<1> QED BY <1>1 DEF PassedBelow

LEMMA FirstOffLeast ==
    ASSUME NEW S, S \subseteq Offsets, S # {}
    PROVE  \A o2 \in S : FirstOff(S) <= o2
<1>1. S \subseteq Nat
  OBVIOUS
<1>2. \E o \in S : \A o2 \in S : o <= o2
  BY <1>1, LeastNat, Zenon
<1> QED BY <1>2, Zenon DEF FirstOff

\* Between the item the realign has reached and where it went on, nothing is live.
LEMMA NothingBetween ==
    ASSUME IInv, ZeroCrc = {}, Moving, NEW o, o \in LiveOffs(flash[cur.page]),
           o < FirstOff(RealignOffs)
    PROVE  o < cur.off
<1>1. /\ FirstOff(RealignOffs) \in RealignOffs
      /\ \A o2 \in RealignOffs : FirstOff(RealignOffs) <= o2
  BY RealignOffIn, FirstOffLeast DEF Moving, RealignOffs
<1>2. cur.off \in Nat /\ o \in Offsets
  BY TypeSplit DEF IInv, CallTypeOK, LiveOffs
<1>3. cur.page \in Pages /\ pages[cur.page].bytes_used \in Nat
  BY TypeSplit, SMTT(40) DEF IInv, CallTypeOK, StateTypeOK, RamPage
<1>4. FirstOff(RealignOffs) \in Offsets /\ FirstOff(RealignOffs) < pages[cur.page].bytes_used
  BY <1>1 DEF RealignOffs
<1>5. ~Passed(flash[cur.page].cell[o])
  BY DEF Passed, LiveOffs, Live
<1>6. o \notin RealignOffs
  BY <1>1, <1>2, <1>4
<1> QED BY <1>2, <1>3, <1>4, <1>5, <1>6 DEF RealignOffs

\* Outside a realign only the layout of the pages is asked for.
LEMMA NotRealigning ==
    ASSUME IInv, MoveInv, [Next]_vars, ~(Realigning')
    PROVE  MoveInv'
BY LaidKept DEF MoveInv, Realigning, Moved

\* The realign goes on from the item it has reached.
LEMMA PassedMore ==
    ASSUME IInv, ZeroCrc = {}, MoveInv, Moving,
           \A q \in Pages \ {cur.page} : flash'[q].cell = flash[q].cell,
           \A o \in LiveOffs(flash'[cur.page]) :
              flash'[cur.page].cell[o] = flash[cur.page].cell[o],
           cur'.page = cur.page, cur'.off = FirstOff(RealignOffs)
    PROVE  PassedBelow(cur.page, cur.off)'
<1>1. PICK p \in Pages : p = cur.page
  BY TypeSplit DEF IInv, CallTypeOK
<1>2. PICK off : off = cur.off
  OBVIOUS
<1>3. PICK off2 : off2 = FirstOff(RealignOffs)
  OBVIOUS
<1>4. PassedBelow(p, off)
  BY <1>1, <1>2 DEF MoveInv, Realigning, Moving
<1>5. ASSUME NEW o \in LiveOffs(flash'[p]), o < off2 PROVE o < off
  <2>1. o \in LiveOffs(flash[p])
    BY <1>1 DEF LiveOffs
  <2> QED BY <1>1, <1>2, <1>3, <1>5, <2>1, NothingBetween
<1>6. /\ \A q \in Pages \ {p} : flash'[q].cell = flash[q].cell
      /\ \A o \in LiveOffs(flash'[p]) : flash'[p].cell[o] = flash[p].cell[o]
  BY <1>1
<1>7. PassedBelow(p, off2)'
  BY <1>4, <1>5, <1>6, PassedKept
<1> QED BY <1>1, <1>3, <1>7

LEMMA RealignMoveInv ==
    ASSUME IInv, CountInv, MoveInv, ZeroCrc = {}, Realign
    PROVE  MoveInv'
<1>0. /\ StateTypeOK /\ CallTypeOK /\ ErasedCounted /\ [Next]_vars
  BY TypeSplit DEF IInv, CountInv, Next, Step
<1>1. Laid'
  BY <1>0, LaidKept DEF MoveInv
<1>2. CASE RealignDrop
  <2>1. PICK p \in Pages : p = cur.page
    BY <1>0 DEF CallTypeOK
  <2>2. PICK o : o = FirstOff(RealignOffs)
    OBVIOUS
  <2>3. /\ Moving /\ pc' = "realign" /\ cur' = [cur EXCEPT !.off = o]
        /\ flash' = [flash EXCEPT ![p].cell[o] = Erased(@)]
    BY <1>2, <2>1, <2>2 DEF RealignDrop, Moving
  <2>4. cur'.page = cur.page /\ cur'.off = FirstOff(RealignOffs)
    BY <1>0, <2>2, <2>3 DEF CallTypeOK
  <2>5. flash \in [Pages -> FlashPage] /\ flash[p] \in FlashPage
    BY <1>0 DEF StateTypeOK
  <2>6. /\ \A q \in Pages \ {p} : flash'[q] = flash[q]
        /\ \A o2 \in Offsets : o2 # o => flash'[p].cell[o2] = flash[p].cell[o2]
        /\ o \in Offsets => flash'[p].cell[o] = Erased(flash[p].cell[o])
    BY <2>3, <2>5 DEF FlashPage
  <2>7. \A o2 \in LiveOffs(flash'[p]) : flash'[p].cell[o2] = flash[p].cell[o2]
    BY <2>6 DEF LiveOffs, Live, Erased
  <2>8. PassedBelow(cur.page, cur.off)'
    BY <2>1, <2>3, <2>4, <2>6, <2>7, PassedMore
  <2> QED BY <1>1, <2>3, <2>8 DEF MoveInv
<1>3. CASE RealignFull
  <2>1. CASE pc' = "copied"
    BY <1>0, <2>1, NotRealigning DEF Realigning, Moved
  <2>2. CASE pc' # "copied"
    <3>1. /\ SetStatus(page_active, "FULL") /\ pc' = "open" /\ Moving
          /\ cur' = [cur EXCEPT !.off = FirstOff(RealignOffs)]
      BY <1>3, <2>2 DEF RealignFull
    <3>2. \A q \in Pages : flash'[q].cell = flash[q].cell
      BY <1>0, <3>1, SetStatusCounts
    <3>3. cur'.page = cur.page /\ cur'.off = FirstOff(RealignOffs) /\ cur.page \in Pages
      BY <1>0, <3>1 DEF CallTypeOK
    <3>4. PassedBelow(cur.page, cur.off)'
      BY <3>1, <3>2, <3>3, PassedMore
    <3> QED BY <1>1, <3>1, <3>4 DEF MoveInv
  <2> QED BY <2>1, <2>2
<1>4. CASE RealignOpen
  <2>1. \A q \in Pages : flash'[q].cell = flash[q].cell
    BY <1>0, <1>4, SetStatusCounts DEF RealignOpen
  <2>2. UNCHANGED cur /\ pc = "open" /\ pc' = "put"
    BY <1>4 DEF RealignOpen
  <2>3. PICK p \in Pages : p = cur.page
    BY <1>0 DEF CallTypeOK
  <2>4. PICK off : off = cur.off
    OBVIOUS
  <2>5. PassedBelow(p, off)
    BY <2>2, <2>3, <2>4 DEF MoveInv, Realigning, Moved
  <2>6. PassedBelow(p, off)'
    BY <2>1, <2>5, PassedKept
  <2>7. PassedBelow(cur.page, cur.off)'
    BY <2>2, <2>3, <2>4, <2>6
  <2> QED BY <1>1, <2>2, <2>7 DEF MoveInv
<1>5. CASE RealignFits
  <2>1. /\ UNCHANGED flash /\ Moving /\ pc' = "put"
        /\ cur' = [cur EXCEPT !.off = FirstOff(RealignOffs)]
    BY <1>5 DEF RealignFits
  <2>2. cur'.page = cur.page /\ cur'.off = FirstOff(RealignOffs)
    BY <1>0, <2>1 DEF CallTypeOK
  <2>3. PassedBelow(cur.page, cur.off)'
    BY <2>1, <2>2, PassedMore
  <2> QED BY <1>1, <2>1, <2>3 DEF MoveInv
<1>6. CASE RealignErase
  BY <1>0, <1>6, NotRealigning DEF RealignErase, Realigning, Moved
<1> QED BY <1>2, <1>3, <1>4, <1>5, <1>6 DEF Realign

\* The item at off has been copied: the realign goes on behind it.
LEMMA PassedCopied ==
    ASSUME IInv, CountInv, MoveInv, Moved, NEW p \in Pages, p = cur.page,
           NEW off \in Offsets, off = cur.off,
           NEW off2, off2 = off \/ off2 = off + Size(flash[p].cell[off]),
           \A q \in Pages \ {p} : \A o \in Offsets :
              flash[q].cell[o].val \in Vals => flash'[q].cell[o] = flash[q].cell[o],
           \A o \in Offsets : flash'[p].cell[o] = flash[p].cell[o],
           KeyElsewhere(p, flash[p].cell[off].key)'
    PROVE  PassedBelow(p, off2)'
<1>1. PassedBelow(p, off)
  BY DEF MoveInv, Realigning
<1>2. off \in LiveOffs(flash[p])
  BY DEF CountInv, Destination, PagesFine, PageFine, ItemsFine, LiveOffs, Live
<1>3. \A o \in LiveOffs(flash'[p]) : flash'[p].cell[o] = flash[p].cell[o]
  BY DEF LiveOffs
<1>4. ASSUME NEW o \in LiveOffs(flash'[p]), o < off2, ~(o < off) PROVE o = off
  <2>1. o \in LiveOffs(flash[p]) /\ o \in Offsets
    BY DEF LiveOffs
  <2>2. off < o => off + Size(flash[p].cell[off]) <= o
    BY <1>2, <2>1 DEF MoveInv, Laid, PageLaid
  <2>3. Size(flash[p].cell[off]) \in Nat
    BY ItemTypes DEF IInv, TypeOK, FlashPage
  <2> QED BY <1>4, <2>1, <2>2, <2>3
<1>5. \A o \in LiveOffs(flash'[p]) : o < off2 => o < off \/ KeyElsewhere(p, flash[p].cell[o].key)'
  BY <1>4
<1> QED BY <1>1, <1>3, <1>5, PassedKept

LEMMA WriteMoveInv ==
    ASSUME IInv, CountInv, MoveInv, ZeroCrc = {}, Write
    PROVE  MoveInv'
<1>0. /\ StateTypeOK /\ CallTypeOK /\ Arguments /\ Destination /\ [Next]_vars
  BY TypeSplit DEF IInv, CountInv, Next, Step
<1>1. Laid'
  BY <1>0, LaidKept DEF MoveInv
<1>2. pc \in {"put", "put_full"} /\ ret \in {"write", "realign"}
  BY <1>0 DEF Write, PutFails, Put, PutFull, Arguments
<1>3. CASE ret = "write" \/ PutFails
  <2>1. ~(Realigning')
    <3>1. CASE PutFails
      BY <3>1 DEF PutFails, Finish, Realigning, Moved
    <3>2. CASE ret = "write" /\ ~PutFails
      <4>1. PutReturns \/ (pc' = "put_full" /\ UNCHANGED ret)
        BY <3>2 DEF Write, Put, PutFull
      <4> QED BY <1>2, <3>2, <4>1, PutReturnsTo DEF Realigning, Moved
    <3> QED BY <1>3, <3>1, <3>2
  <2> QED BY <1>0, <2>1, NotRealigning
<1>4. CASE ret = "realign" /\ ~PutFails
  <2>1. PICK p : p = cur.page
    OBVIOUS
  <2>2. PICK off : off = cur.off
    OBVIOUS
  <2>3. PICK d : d = dst
    OBVIOUS
  <2>4. Moved /\ p \in Pages /\ off \in Offsets /\ d # p
    BY <1>0, <1>2, <1>4, <2>1, <2>2, <2>3 DEF Moved, CallTypeOK, Arguments, Destination
  <2>5. PutItem = flash[p].cell[off]
    BY <1>4, <2>1, <2>2 DEF PutItem
  <2>6. flash[p].cell[off].val \in Vals
    BY <1>0, <2>1, <2>2, <2>4 DEF Destination
  <2>7. /\ \A q \in Pages \ {p} : \A o \in Offsets :
              flash[q].cell[o].val \in Vals => flash'[q].cell[o] = flash[q].cell[o]
        /\ \A o \in Offsets : flash'[p].cell[o] = flash[p].cell[o]
        /\ KeyElsewhere(p, flash[p].cell[off].key)'
    <3>1. CASE Put
      <4>1. /\ d \in Pages /\ flash[d].used \in Offsets
            /\ flash[d].cell[flash[d].used] = Blank
            /\ flash'[d].cell[flash[d].used] = PutItem
            /\ \A o \in Offsets \ {flash[d].used} : flash'[d].cell[o] = flash[d].cell[o]
            /\ \A q \in Pages \ {d} : flash'[q] = flash[q]
        BY <2>3, <3>1, PutDoes
      <4>2. \A o \in Offsets : flash'[p].cell[o] = flash[p].cell[o]
        BY <2>4, <4>1
      <4>3. \A q \in Pages \ {p} : \A o \in Offsets :
              flash[q].cell[o].val \in Vals => flash'[q].cell[o] = flash[q].cell[o]
        BY <4>1 DEF Blank
      <4>4. PICK k : k = flash[p].cell[off].key
        OBVIOUS
      <4>5. PICK o \in Offsets : o = flash[d].used
        BY <4>1
      <4>6. Holds(d, o, k)'
        BY <2>5, <2>6, <4>1, <4>4, <4>5 DEF Holds
      <4>7. KeyElsewhere(p, k)'
        BY <2>4, <4>1, <4>6 DEF KeyElsewhere
      <4>8. flash'[p].cell[off].key = k
        BY <2>4, <4>2, <4>4
      <4> QED BY <4>2, <4>3, <4>7, <4>8
    <3>2. CASE PutFull
      <4>1. \A q \in Pages : flash'[q].cell = flash[q].cell
        BY <3>2, PutFullDoes
      <4>2. KeyElsewhere(p, flash[p].cell[off].key)
        BY <1>4, <2>1, <2>2, <3>2 DEF MoveInv, PutFull
      <4>3. KeyElsewhere(p, flash[p].cell[off].key)'
        BY <2>4, <4>1, <4>2 DEF KeyElsewhere, Holds
      <4> QED BY <2>4, <4>1, <4>3
    <3> QED BY <1>4, <3>1, <3>2 DEF Write
  <2>8. PICK off2 : off2 = cur'.off
    OBVIOUS
  <2>9. /\ cur'.page = p
        /\ \/ pc' = "realign" /\ off2 = off + Size(flash[p].cell[off])
           \/ pc' = "put_full" /\ off2 = off /\ UNCHANGED <<cur, ret>>
    <3>1. PutReturns \/ (pc' = "put_full" /\ UNCHANGED <<cur, ret>>)
      BY <1>4 DEF Write, Put, PutFull
    <3> QED BY <1>2, <1>4, <2>1, <2>2, <2>5, <2>8, <3>1, PutReturnsTo
  <2>10. PassedBelow(p, off2)'
    BY <2>1, <2>2, <2>4, <2>7, <2>9, PassedCopied
  <2>11. PassedBelow(cur.page, cur.off)'
    BY <2>8, <2>9, <2>10
  <2>12. pc' = "put_full" => KeyElsewhere(cur.page, flash[cur.page].cell[cur.off].key)'
    BY <2>2, <2>7, <2>8, <2>9
  <2> QED BY <1>1, <2>11, <2>12 DEF MoveInv
<1> QED BY <1>2, <1>3, <1>4

LEMMA InitMoveInv == Init => MoveInv
<1> SUFFICES ASSUME Init PROVE MoveInv
  OBVIOUS
<1>1. \A p \in Pages : LiveOffs(flash[p]) = {}
  <2> TAKE p \in Pages
  <2>1. \A o \in Offsets : flash[p].cell[o] = Blank
    BY DEF Init, BlankPage
  <2> QED BY <2>1, LiveBlank
<1>2. Laid
  BY <1>1 DEF Laid, PageLaid
<1> QED BY <1>2 DEF Init, MoveInv, Realigning, Moved

LEMMA NextMoveInv ==
    ASSUME IInv, CountInv, MoveInv, ZeroCrc = {}, [Next]_vars
    PROVE  MoveInv'
<1>0. CallTypeOK /\ Laid'
  BY TypeSplit, LaidKept DEF IInv, MoveInv
<1>1. CASE Boot \/ Find \/ Delete \/ Return \/ Call \/ Fail
  <2>1. ASSUME Boot PROVE ~(Realigning')
    <3>1. pc' \in {"scan", "format", "erase_all", "idle"}
      <4>1. PageDone => pc' \in {"scan", "idle"}
        BY DEF PageDone
      <4>2. EraseAll => pc' \in {"erase_all", "idle"}
        BY DEF EraseAll
      <4>3. LoadHeader \/ HeaderInit \/ InitFails => pc' \in {"scan", "format", "erase_all"}
        BY DEF LoadHeader, HeaderInit, InitFails
      <4>4. InitErasedPage \/ InitUsedPage => PageDone
        BY DEF InitErasedPage, InitUsedPage
      <4> QED BY <2>1, <4>1, <4>2, <4>3, <4>4 DEF Boot
    <3> QED BY <3>1 DEF Realigning, Moved
  <2>2. ASSUME Find PROVE ~(Realigning')
    <3>1. pc' \in {"find", "accept", "next", "del", "return", "alloc"}
      <4>1. FindSkip \/ FindMatch \/ FindAccept => pc' \in {"find", "accept", "next", "del"}
        BY DEF FindSkip, FindMatch, FindAccept
      <4>2. FindPageEnd \/ FindNext => pc' \in {"find", "next", "del"}
        BY DEF FindPageEnd, FindNext
      <4>3. ReadDone \/ WriteFound => pc' \in {"return", "alloc"}
        BY DEF ReadDone, WriteFound, Finish
      <4> QED BY <2>2, <4>1, <4>2, <4>3 DEF Find
    <3> QED BY <3>1 DEF Realigning, Moved
  <2>3. ASSUME Delete PROVE ~(Realigning')
    <3>1. pc' \in {"del_erase", "accept", "next", "return"}
      <4>1. ret \in {"accept", "next", "old"}
        BY <2>3 DEF IInv, Arguments, Delete, DeleteSkip, DeleteMismatch, DeleteMark, DeleteErase
      <4>2. AfterDelete => pc' \in {"accept", "next", "return"}
        BY <4>1 DEF AfterDelete, Finish
      <4>3. DeleteSkip \/ DeleteErase => AfterDelete
        BY DEF DeleteSkip, DeleteErase
      <4>4. DeleteMismatch \/ DeleteMark => pc' \in {"del_erase", "return"}
        BY DEF DeleteMismatch, DeleteMark, Finish
      <4> QED BY <2>3, <4>2, <4>3, <4>4 DEF Delete
    <3> QED BY <3>1 DEF Realigning, Moved
  <2>4. ASSUME Return \/ Call \/ Fail PROVE ~(Realigning')
    <3>1. pc' \in {"idle", "find", "boot"}
      <4>1. Return => pc' = "idle"
        BY DEF Return
      <4>2. Call => pc' = "find"
        BY DEF Call, ReadItem, WriteItem, StartFind
      <4>3. Fail => pc' = "boot"
        BY DEF Fail, Reset, PowerLoss, TornWrite, Restart
      <4> QED BY <2>4, <4>1, <4>2, <4>3
    <3> QED BY <3>1 DEF Realigning, Moved
  <2>5. ~(Realigning')
    BY <1>1, <2>1, <2>2, <2>3, <2>4
  <2> QED BY <2>5, NotRealigning
<1>2. CASE Allocate
  <2>1. CASE AllocRealign /\ FullPages # {}
    <3>1. pc' = "realign" /\ cur'.page = RealignPage /\ cur'.off = 0
      BY <2>1 DEF AllocRealign
    <3>2. PassedBelow(cur.page, cur.off)'
      BY <3>1 DEF PassedBelow, LiveOffs
    <3> QED BY <1>0, <3>1, <3>2 DEF MoveInv
  <2>2. CASE ~(AllocRealign /\ FullPages # {})
    <3>1. ~(Realigning')
      BY <1>2, <2>2 DEF Realigning, Moved, Allocate, AllocFits, AllocFirst, AllocNoRealign,
         AllocRealign, AllocRetry, CloseActive, OpenNew, UsePage, Finish
    <3> QED BY <3>1, NotRealigning
  <2> QED BY <2>1, <2>2
<1>3. CASE UNCHANGED vars
  <2>1. UNCHANGED <<flash, pc, ret, cur>>
    BY <1>3 DEF vars
  <2> QED BY <1>0, <2>1 DEF MoveInv, Realigning, Moved, PassedBelow, KeyElsewhere, Holds,
                            LiveOffs
<1> QED BY <1>1, <1>2, <1>3, RealignMoveInv, WriteMoveInv DEF Next, Step

-----------------------------------------------------------------------------
(***************************************************************************)
(* No step loses a key that its call is not about.                         *)
(***************************************************************************)
LEMMA StoredStill ==
    ASSUME NEW k, NEW p \in Pages, NEW o \in Offsets, Holds(p, o, k),
           flash'[p].cell[o] = flash[p].cell[o]
    PROVE  Stored(k)'
BY DEF Stored, Holds

\* A page without live items can be erased.
LEMMA NoneLost ==
    ASSUME NEW k \in Keys, NEW p \in Pages, Stored(k), LiveOffs(flash[p]) = {},
           \A q \in Pages \ {p} : flash'[q] = flash[q]
    PROVE  Stored(k)'
<1>1. PICK q \in Pages : \E o \in Offsets : Holds(q, o, k)
  BY DEF Stored
<1>2. PICK o \in Offsets : Holds(q, o, k)
  BY <1>1
<1>3. q # p
  BY <1>2 DEF Holds, LiveOffs, Live
<1> QED BY <1>2, <1>3, StoredStill

LEMMA LiveNone ==
    ASSUME NEW pg, Cardinality(LiveOffs(pg)) = 0
    PROVE  LiveOffs(pg) = {}
BY LiveFinite, FS_EmptySet

LEMMA BootKeeps ==
    ASSUME IInv, CountInv, LoadHeader \/ InitUsedPage, NEW k \in Keys, Stored(k)
    PROVE  Stored(k)'
<1>0. StateTypeOK /\ CallTypeOK /\ BlankAtFirst
  BY TypeSplit DEF IInv, CountInv
<1>1. PICK p \in Pages : \E o \in Offsets : Holds(p, o, k)
  BY DEF Stored
<1>2. PICK o \in Offsets : Holds(p, o, k)
  BY <1>1
<1>3. flash[p].cell[o].val \in Vals
  BY <1>2 DEF Holds
<1>4. CASE LoadHeader
  <2>1. header
    BY <1>0, <1>3 DEF BlankAtFirst, BlankPage, Blank
  <2> QED BY <1>2, <1>4, <2>1, StoredStill DEF LoadHeader
<1>5. CASE InitUsedPage
  <2>1. PICK c \in Pages : c = cur.page
    BY <1>0 DEF CallTypeOK
  <2>2. flash \in [Pages -> FlashPage] /\ flash[c] \in FlashPage
    BY <1>0 DEF StateTypeOK
  <2>3. CASE /\ flash' = [flash EXCEPT ![c] = BlankPage]
             /\ Cardinality(LiveOffs(flash[c])) = 0
    <3>1. \A q \in Pages \ {c} : flash'[q] = flash[q]
      BY <2>2, <2>3
    <3> QED BY <2>3, <3>1, LiveNone, NoneLost
  <2>4. CASE flash' = [flash EXCEPT ![c] = Scanned(flash[c])]
    <3>1. Scanned(flash[c]).cell[o] =
             IF flash[c].cell[o].key \in Keys /\ flash[c].cell[o].val = NoVal
             THEN Erased(flash[c].cell[o]) ELSE flash[c].cell[o]
      BY <2>2 DEF Scanned, FlashPage
    <3>2. flash'[p] = IF p = c THEN Scanned(flash[c]) ELSE flash[p]
      BY <2>2, <2>4
    <3>3. flash'[p].cell[o] = flash[p].cell[o]
      BY <1>3, <3>1, <3>2
    <3> QED BY <1>2, <3>3, StoredStill
  <2> QED BY <1>5, <2>1, <2>3, <2>4 DEF InitUsedPage, ItemCount
<1> QED BY <1>4, <1>5

LEMMA DeleteKeeps ==
    ASSUME IInv, CountInv, DeleteMark \/ DeleteErase, NEW k \in Keys, Stored(k),
           DeleteMark => k # op.key, DeleteErase => ~Undercounted(tgt.page)
    PROVE  Stored(k)'
<1>0. StateTypeOK /\ ErasedCounted /\ Located
  BY TypeSplit DEF IInv, CountInv
<1>1. PICK t : t = tgt.page
  OBVIOUS
<1>2. t \in Pages
  BY <1>0, <1>1 DEF DeleteMark, DeleteErase, Located
<1>3. flash \in [Pages -> FlashPage] /\ flash[t] \in FlashPage
  BY <1>0, <1>2 DEF StateTypeOK
<1>4. CASE DeleteMark
  <2>1. PICK off : off = tgt.off
    OBVIOUS
  <2>2. /\ flash[t].cell[off].key = op.key
        /\ flash' = [flash EXCEPT ![t].cell[off] = Erased(@)]
    BY <1>1, <1>4, <2>1 DEF DeleteMark
  <2>3. PICK p \in Pages : \E o \in Offsets : Holds(p, o, k)
    BY DEF Stored
  <2>4. PICK o \in Offsets : Holds(p, o, k)
    BY <2>3
  <2>5. p # t \/ o # off
    BY <1>4, <2>2, <2>4 DEF Holds
  <2>6. flash'[p].cell[o] = flash[p].cell[o]
    BY <1>2, <1>3, <2>2, <2>5 DEF FlashPage
  <2> QED BY <2>4, <2>6, StoredStill
<1>5. CASE DeleteErase
  <2>1. CASE Emptied(t)
    <3>1. ErasePage(t)
      BY <1>1, <1>5, <2>1 DEF DeleteErase
    <3>2. \A q \in Pages \ {t} : flash'[q] = flash[q]
      BY <1>0, <1>2, <3>1, ErasePageCounts
    <3>3. pages[t].item_cnt = 0 /\ ~(0 < Cardinality(LiveOffs(flash[t])))
      BY <1>1, <1>5, <2>1, LiveCopiesOffs DEF Emptied, Undercounted
    <3>4. Cardinality(LiveOffs(flash[t])) = 0
      BY <3>3, LiveFinite
    <3> QED BY <1>2, <3>2, <3>4, LiveNone, NoneLost
  <2>2. CASE ~Emptied(t)
    BY <1>1, <1>5, <2>2 DEF DeleteErase, Stored, Holds
  <2> QED BY <2>1, <2>2
<1> QED BY <1>4, <1>5

LEMMA RealignKeeps ==
    ASSUME IInv, CountInv, MoveInv, ZeroCrc = {}, RealignDrop \/ RealignErase,
           NEW k \in Keys, Stored(k)
    PROVE  Stored(k)'
<1>0. StateTypeOK /\ CallTypeOK /\ ErasedCounted /\ Laid
  BY TypeSplit DEF IInv, CountInv, MoveInv
<1>1. PICK c \in Pages : c = cur.page
  BY <1>0 DEF CallTypeOK
<1>2. flash \in [Pages -> FlashPage] /\ flash[c] \in FlashPage
  BY <1>0 DEF StateTypeOK
<1>3. PICK p \in Pages : \E o \in Offsets : Holds(p, o, k)
  BY DEF Stored
<1>4. PICK o \in Offsets : Holds(p, o, k)
  BY <1>3
<1>5. CASE RealignDrop
  <2>1. PICK off : off = FirstOff(RealignOffs)
    OBVIOUS
  <2>2. /\ flash[c].cell[off].val = NoVal
        /\ flash' = [flash EXCEPT ![c].cell[off] = Erased(@)]
    BY <1>1, <1>5, <2>1 DEF RealignDrop, MovedItem
  <2>3. p # c \/ o # off
    BY <1>4, <2>2 DEF Holds
  <2>4. flash'[p].cell[o] = flash[p].cell[o]
    BY <1>1, <1>2, <2>2, <2>3 DEF FlashPage
  <2> QED BY <1>4, <2>4, StoredStill
<1>6. CASE RealignErase
  <2>1. pc = "realign" /\ RealignOffs = {} /\ ErasePage(c)
    BY <1>1, <1>6 DEF RealignErase
  <2>2. \A q \in Pages \ {c} : flash'[q] = flash[q]
    BY <1>0, <2>1, ErasePageCounts
  <2>3. CASE p # c
    BY <1>4, <2>2, <2>3, StoredStill
  <2>4. CASE p = c
    <3>1. o \in LiveOffs(flash[c]) /\ flash[c].cell[o].key = k
      BY <1>4, <2>4 DEF Holds, LiveOffs, Live
    <3>2. o < pages[c].bytes_used
      <4>1. pages[c].bytes_used = flash[c].used
        BY <2>1 DEF IInv, Mirrored, Mirrors, Loaded
      <4>2. o + Size(flash[c].cell[o]) <= flash[c].used
        BY <1>0, <3>1 DEF Laid, PageLaid
      <4>3. /\ Size(flash[c].cell[o]) \in Nat /\ Size(flash[c].cell[o]) > 0
            /\ flash[c].used \in Nat
        BY <1>2, ItemTypes DEF FlashPage
      <4> QED BY <4>1, <4>2, <4>3
    <3>3. ~Passed(flash[c].cell[o])
      BY <3>1 DEF Passed, LiveOffs, Live
    <3>4. o < cur.off
      <4>1. cur.off \in Nat /\ ~(cur.off <= o)
        BY <1>0, <1>1, <2>1, <3>2, <3>3 DEF RealignOffs, CallTypeOK
      <4> QED BY <4>1
    <3>5. KeyElsewhere(c, k)
      BY <1>1, <2>1, <3>1, <3>4 DEF MoveInv, Realigning, PassedBelow
    <3>6. PICK q \in Pages \ {c} : \E o2 \in Offsets : Holds(q, o2, k)
      BY <3>5 DEF KeyElsewhere
    <3>7. PICK o2 \in Offsets : Holds(q, o2, k)
      BY <3>6
    <3> QED BY <2>2, <3>7, StoredStill
  <2> QED BY <2>3, <2>4
<1> QED BY <1>5, <1>6

LEMMA WriteKeeps ==
    ASSUME IInv, Put \/ TornWrite, NEW k \in Keys, Stored(k)
    PROVE  Stored(k)'
<1>1. PICK d : d = dst
  OBVIOUS
<1>2. /\ d \in Pages /\ flash[d].used \in Offsets /\ flash[d].cell[flash[d].used] = Blank
      /\ \A o \in Offsets \ {flash[d].used} : flash'[d].cell[o] = flash[d].cell[o]
      /\ \A q \in Pages \ {d} : flash'[q] = flash[q]
  <2>1. CASE Put
    BY <1>1, <2>1, PutDoes
  <2>2. CASE TornWrite
    BY <1>1, <2>2, TornDoes
  <2> QED BY <2>1, <2>2
<1>3. PICK p \in Pages : \E o \in Offsets : Holds(p, o, k)
  BY DEF Stored
<1>4. PICK o \in Offsets : Holds(p, o, k)
  BY <1>3
<1>5. flash[p].cell[o] # Blank
  BY <1>4 DEF Holds, Blank
<1>6. flash'[p].cell[o] = flash[p].cell[o]
  BY <1>2, <1>5
<1> QED BY <1>4, <1>6, StoredStill

\* Which steps keep which keys.
LEMMA NextKeeps ==
    ASSUME IInv, CountInv, MoveInv, ZeroCrc = {}, [Next]_vars, NEW k \in Keys, Stored(k),
           pc # "erase_all",
           pc = "del_erase" => ~Undercounted(tgt.page),
           pc = "del" => k # op.key
    PROVE  Stored(k)'
<1>1. CASE CellsKept
  BY <1>1 DEF CellsKept, Stored, Holds
<1>2. CASE LoadHeader \/ InitUsedPage
  BY <1>2, BootKeeps
<1>3. CASE DeleteMark \/ DeleteErase
  BY <1>3, DeleteKeeps DEF DeleteMark, DeleteErase
<1>4. CASE RealignDrop \/ RealignErase
  BY <1>4, RealignKeeps
<1>5. CASE Put \/ TornWrite
  BY <1>5, WriteKeeps
<1>6. ~EraseAll
  BY DEF EraseAll
<1> QED BY <1>1, <1>2, <1>3, <1>4, <1>5, <1>6, OthersKeepCells DEF Alters

\* What st_page_realign has passed in a page is, while it is at work, on another page
\* (storage.c, st_page_realign): the invariant that OtherKeysKept and RealignMovesAll
\* follow from.
THEOREM Moves ==
    ASSUME ZeroCrc = {}
    PROVE  Spec => []MoveInv
<1>1. IInv /\ CountInv /\ MoveInv /\ [Next]_vars => MoveInv'
  BY NextMoveInv
<1> QED BY <1>1, InitMoveInv, Invariance, Counted, PTL DEF Spec

OthersStay ==
    pc # "erase_all" /\ (pc = "del_erase" => ~Undercounted(tgt.page))
    => \A k \in Keys \ {op.key} : Stored(k) => Stored(k)'
AllStay == pc = "realign" => \A k \in Keys : Stored(k) => Stored(k)'

LEMMA NextStay ==
    ASSUME ZeroCrc = {}
    PROVE  IInv /\ CountInv /\ MoveInv /\ [Next]_vars => OthersStay /\ AllStay
<1> SUFFICES ASSUME IInv, CountInv, MoveInv, [Next]_vars PROVE OthersStay /\ AllStay
  OBVIOUS
<1>1. OthersStay
  BY NextKeeps DEF OthersStay
<1>2. AllStay
  BY NextKeeps DEF AllStay
<1> QED BY <1>1, <1>2

\* OtherKeysKept (storage.c, every function that erases a page or an item): where no item
\* has the CRC 0, no step of a call, and no restart, loses the last copy of a key the call
\* is not about, but for the two exceptions the property names.
THEOREM OthersKept ==
    ASSUME ZeroCrc = {}
    PROVE  Spec => OtherKeysKept
<1>1. IInv /\ CountInv /\ MoveInv /\ [Next]_vars => [OthersStay]_flash
  BY NextStay
<1>2. Spec => [][OthersStay]_flash
  BY <1>1, Moves, Invariance, Counted, PTL DEF Spec
<1> QED BY <1>2 DEF OtherKeysKept, OthersStay

\* RealignMovesAll (storage.h: "Non-erased key-value pairs are being moved into another
\* page so that the current page can be erased"): it is so where no item has the CRC 0.
THEOREM RealignMoves ==
    ASSUME ZeroCrc = {}
    PROVE  Spec => RealignMovesAll
<1>1. IInv /\ CountInv /\ MoveInv /\ [Next]_vars => [AllStay]_flash
  BY NextStay
<1>2. Spec => [][AllStay]_flash
  BY <1>1, Moves, Invariance, Counted, PTL DEF Spec
<1> QED BY <1>2 DEF RealignMovesAll, AllStay

-----------------------------------------------------------------------------
(***************************************************************************)
(* SoleInv: what the search has found is there, and one copy stays.        *)
(***************************************************************************)
Deleting == pc \in {"del", "del_erase"}
Finding  == pc \in {"find", "accept", "next"} \/ (Deleting /\ ret \in {"accept", "next"})
Initing  == pc \in {"boot", "format", "scan", "erase_all", "idle"}

FoundAt(l)   == Holds(l.page, l.off, op.key)
HeldIn(p, k) == \E o \in Offsets : Holds(p, o, k)

\* With one copy counted, it is the one recorded last; the hits of a page are counted
\* before the next page is looked at.
SearchInv ==
    /\ Initing => srch = NoSearch
    /\ srch.last.page \in Pages => srch.cnt + srch.hits > 0
    /\ pc = "next" \/ (pc = "find" /\ cur.off = 0) => srch.hits = 0
    /\ pc \in {"find", "next"} /\ srch.cnt + srch.hits = 1 => FoundAt(srch.last)
    /\ pc = "accept" /\ srch.cnt + srch.hits = 0 => FoundAt(cur)
    /\ Deleting /\ ret = "accept" => srch.cnt + srch.hits > 0
    /\ pc = "del" /\ ret = "accept" => FoundAt(cur)
    /\ Deleting /\ ret = "next" => srch.cnt > 1 /\ srch.hits = 0

\* With one copy found, the key is stored from then on: the old copy is deleted when
\* there is another one, and its page is erased only when nothing is left in it.
KeptInv ==
    /\ ~Finding /\ srch.cnt = 1 => Stored(op.key)
    /\ pc = "put_full" /\ ret = "write" => HeldIn(dst, op.key)
    /\ pc = "put_full" /\ ret = "write" /\ srch.cnt = 1 =>
          \E c, d \in Copies(op.key) : c # d
    /\ pc = "del" /\ ret = "old" /\ srch.cnt = 1 =>
          \E c \in Copies(op.key) : c # <<tgt.page, tgt.off>>
    /\ Deleting /\ ret = "old" => /\ dst \in Pages /\ ~Undercounted(dst)
                                  /\ tgt.page # dst => HeldIn(dst, op.key)

SoleInv == SearchInv /\ KeptInv

LEMMA InitSoleInv == Init => SoleInv
BY DEF Init, SoleInv, SearchInv, KeptInv, Deleting, Finding, Initing, NoSearch, NoLoc

\* Outside a search nothing is said of it.
LEMMA SearchAway ==
    ASSUME SearchInv, UNCHANGED srch, ~(Initing'), pc' \notin {"find", "accept", "next"},
           Deleting' => ret' = "old"
    PROVE  SearchInv'
BY DEF SearchInv, Deleting, Initing

\* A search that has found nothing yet.
LEMMA SearchFresh ==
    ASSUME srch'.cnt = 0, srch'.hits = 0, srch'.last = NoLoc,
           ~(Deleting'), pc' # "accept", Initing' => srch' = NoSearch
    PROVE  SearchInv'
BY DEF SearchInv, NoLoc, Deleting

LEMMA FreshKept ==
    ASSUME srch'.cnt = 0, ~(Deleting'), pc' # "put_full"
    PROVE  KeptInv'
BY DEF KeptInv, Deleting

LEMMA FindSearch == IInv /\ CountInv /\ SearchInv /\ Find => SearchInv'
<1> SUFFICES ASSUME IInv, CountInv, SearchInv, Find PROVE SearchInv'
  OBVIOUS
<1>0. /\ StateTypeOK /\ CallTypeOK /\ Located /\ PagesFine
      /\ srch.cnt \in Nat /\ srch.hits \in Nat /\ cur.off \in Nat /\ cur.page \in Pages
  BY TypeSplit DEF IInv, CountInv, CallTypeOK
<1>1. CASE FindSkip
  <2>1. /\ pc = "find" /\ pc' = "next" /\ UNCHANGED <<flash, srch, op>>
        /\ cur.off = 0
    BY <1>0, <1>1 DEF FindSkip, Entered
  <2> QED BY <2>1 DEF SearchInv, Initing, Deleting, FoundAt, Holds
<1>2. CASE FindMatch
  <2>1. PICK o : o = FirstOff(MatchOffs)
    BY Zenon
  <2>2. /\ pc = "find" /\ o \in MatchOffs
    BY <1>2, <2>1, FirstOffIn DEF FindMatch, MatchOffs
  <2>3. /\ cur' = [cur EXCEPT !.off = o] /\ UNCHANGED <<flash, op>>
        /\ \E r : srch' = [srch EXCEPT !.res = r]
        /\ \/ pc' = "del" /\ ret' = "accept" /\ srch.last.page \in Pages
           \/ pc' = "accept" /\ srch.last.page \notin Pages
    BY <1>2, <2>1 DEF FindMatch, Valid
  <2>4. /\ srch'.cnt = srch.cnt /\ srch'.hits = srch.hits /\ srch'.last = srch.last
        /\ cur'.page = cur.page /\ cur'.off = o
    BY <1>0, <2>3 DEF CallTypeOK
  <2>5. FoundAt(cur)'
    <3>1. flash[cur.page].cell[o].key = op.key /\ op.key \in Keys /\ o \in Offsets
      BY <2>2 DEF MatchOffs, IInv, Arguments
    <3>2. Ready(cur.page)
      BY <2>2 DEF Ready, Loaded
    <3>3. flash[cur.page].cell[o].val \in Vals
      BY <1>0, <3>1, <3>2 DEF PagesFine, PageFine, ItemsFine
    <3> QED BY <2>3, <2>4, <3>1, <3>3 DEF FoundAt, Holds
  <2>6. pc' = "del" => srch.cnt + srch.hits > 0
    BY <2>3 DEF SearchInv
  <2>7. srch.last.page \in Pages => srch.cnt + srch.hits > 0
    BY DEF SearchInv
  <2> QED BY <2>3, <2>4, <2>5, <2>6, <2>7 DEF SearchInv, Initing, Deleting
<1>3. CASE FindAccept
  <2>1. /\ pc = "accept" /\ pc' = "find" /\ UNCHANGED <<flash, op>>
        /\ srch' = [srch EXCEPT !.last = cur, !.hits = @ + 1]
        /\ cur' = [cur EXCEPT !.off = @ + Size(flash[cur.page].cell[cur.off])]
    BY <1>3 DEF FindAccept
  <2>2. /\ srch'.cnt = srch.cnt /\ srch'.hits = srch.hits + 1 /\ srch'.last = cur
        /\ cur'.off = cur.off + Size(flash[cur.page].cell[cur.off])
    BY <1>0, <2>1 DEF CallTypeOK
  <2>3. cur.off \in Offsets
    BY <2>1 DEF IInv, Arguments
  <2>4. /\ Size(flash[cur.page].cell[cur.off]) \in Nat
        /\ Size(flash[cur.page].cell[cur.off]) > 0
    BY <1>0, <2>3, ItemTypes DEF StateTypeOK, FlashPage
  <2>5. cur'.off # 0
    BY <1>0, <2>2, <2>4
  <2>6. srch'.cnt + srch'.hits = 1 => FoundAt(cur)
    BY <1>0, <2>1, <2>2 DEF SearchInv
  <2>7. srch'.cnt + srch'.hits = 1 => FoundAt(srch.last)'
    BY <2>1, <2>2, <2>6 DEF FoundAt, Holds
  <2>8. srch'.cnt + srch'.hits > 0
    BY <1>0, <2>2
  <2> QED BY <2>1, <2>5, <2>7, <2>8 DEF SearchInv, Initing, Deleting
<1>4. CASE FindPageEnd
  <2>1. PICK cnt : cnt = srch.cnt + srch.hits
    OBVIOUS
  <2>2. /\ pc = "find" /\ UNCHANGED <<flash, op>>
        /\ \E l : srch' = [srch EXCEPT !.cnt = cnt, !.hits = 0, !.loc = l]
        /\ \/ pc' = "del" /\ ret' = "next" /\ cnt > 1
           \/ pc' = "next"
    BY <1>4, <2>1 DEF FindPageEnd, Surplus
  <2>3. srch'.cnt = cnt /\ srch'.hits = 0 /\ srch'.last = srch.last /\ cnt \in Nat
    BY <1>0, <2>1, <2>2 DEF CallTypeOK
  <2>4. srch'.cnt + srch'.hits = srch.cnt + srch.hits
    BY <2>1, <2>3
  <2>5. srch'.cnt + srch'.hits = 1 => FoundAt(srch.last)'
    BY <2>2, <2>3, <2>4 DEF SearchInv, FoundAt, Holds
  <2>6. srch'.last.page \in Pages => srch'.cnt + srch'.hits > 0
    BY <2>3, <2>4 DEF SearchInv
  <2> QED BY <2>2, <2>3, <2>5, <2>6 DEF SearchInv, Initing, Deleting
<1>5. CASE FindNext
  <2>1. /\ pc = "next" /\ pc' = "find" /\ UNCHANGED <<flash, srch, op>>
    BY <1>5 DEF FindNext
  <2> QED BY <2>1 DEF SearchInv, Initing, Deleting, FoundAt, Holds
<1>6. CASE ReadDone \/ WriteFound
  <2>1. pc' \in {"return", "alloc"} /\ UNCHANGED srch
    BY <1>6 DEF ReadDone, WriteFound, Finish
  <2> QED BY <2>1, SearchAway DEF Initing, Deleting
<1> QED BY <1>1, <1>2, <1>3, <1>4, <1>5, <1>6 DEF Find

LEMMA DeleteSearch == IInv /\ SearchInv /\ Delete => SearchInv'
<1> SUFFICES ASSUME IInv, SearchInv, Delete PROVE SearchInv'
  OBVIOUS
<1>0. ret \in {"accept", "next", "old"} /\ Deleting /\ UNCHANGED <<srch, op, cur, ret>>
  BY DEF IInv, Arguments, Delete, DeleteSkip, DeleteMismatch, DeleteMark, DeleteErase, Deleting
<1>1. /\ ret = "accept" => srch.cnt + srch.hits > 0
      /\ ret = "next" => srch.cnt > 1 /\ srch.hits = 0
      /\ srch.last.page \in Pages => srch.cnt + srch.hits > 0
      /\ srch.cnt \in Nat /\ srch.hits \in Nat
  BY <1>0, TypeSplit DEF SearchInv, IInv, CallTypeOK
<1>2. CASE AfterDelete
  <2>1. \/ ret = "accept" /\ pc' = "accept"
        \/ ret = "next" /\ pc' = "next"
        \/ pc' = "return"
    BY <1>0, <1>2 DEF AfterDelete, Finish
  <2> QED BY <1>0, <1>1, <2>1 DEF SearchInv, Initing, Deleting
<1>3. CASE pc' = "return"
  BY <1>0, <1>3, SearchAway DEF Initing, Deleting
<1>4. CASE pc' = "del_erase"
  BY <1>0, <1>1, <1>4 DEF SearchInv, Initing, Deleting
<1> QED BY <1>2, <1>3, <1>4
        DEF Delete, DeleteSkip, DeleteMismatch, DeleteMark, DeleteErase, Finish

LEMMA CopiesHold ==
    ASSUME NEW k, NEW p \in Pages, NEW o \in Offsets
    PROVE  /\ <<p, o>> \in Copies(k) <=> Holds(p, o, k)
           /\ (<<p, o>> \in Copies(k))' <=> Holds(p, o, k)'
BY DEF Copies

\* Another copy of the key is a copy of it.
LEMMA AnotherStored ==
    ASSUME NEW k, NEW c \in Copies(k)
    PROVE  Stored(k) /\ c[1] \in Pages /\ c[2] \in Offsets /\ Holds(c[1], c[2], k)
BY DEF Copies, Stored

LEMMA FindKept == IInv /\ CountInv /\ SearchInv /\ Find => KeptInv'
<1> SUFFICES ASSUME IInv, CountInv, SearchInv, Find PROVE KeptInv'
  OBVIOUS
<1>1. CASE ReadDone \/ WriteFound
  <2>1. pc = "next" /\ pc' \in {"return", "alloc"} /\ UNCHANGED <<srch, op, flash>>
    BY <1>1 DEF ReadDone, WriteFound, Finish
  <2>2. ASSUME srch.cnt = 1 PROVE Stored(op.key)'
    <3>1. srch.hits = 0
      BY <2>1 DEF SearchInv
    <3>2. srch.cnt + srch.hits = 1
      BY <2>2, <3>1
    <3>3. FoundAt(srch.last) /\ srch.last.page \in Pages /\ srch.last.off \in Offsets
      BY <2>1, <3>2 DEF SearchInv, CountInv, Located, Placed
    <3> QED BY <2>1, <3>3 DEF FoundAt, Stored, Holds
  <2> QED BY <2>1, <2>2 DEF KeptInv, Deleting
<1>2. CASE ~(ReadDone \/ WriteFound)
  <2>1. \/ pc' \in {"find", "accept", "next"}
        \/ pc' = "del" /\ ret' \in {"accept", "next"}
    BY <1>2 DEF Find, FindSkip, FindMatch, FindAccept, FindPageEnd, FindNext
  <2> QED BY <2>1 DEF KeptInv, Finding, Deleting
<1> QED BY <1>1, <1>2

LEMMA DeleteKept == IInv /\ CountInv /\ MoveInv /\ SearchInv /\ KeptInv /\ Delete => KeptInv'
<1> SUFFICES ASSUME IInv, CountInv, MoveInv, SearchInv, KeptInv, Delete PROVE KeptInv'
  OBVIOUS
<1>0. /\ StateTypeOK /\ ErasedCounted /\ PagesFine
      /\ ret \in {"accept", "next", "old"} /\ Deleting /\ UNCHANGED <<srch, op, cur, ret, tgt, dst>>
      /\ op.key \in Keys /\ tgt.page \in Pages /\ tgt.off \in Offsets
  BY TypeSplit DEF IInv, CountInv, Located, Arguments, Delete, DeleteSkip, DeleteMismatch,
                   DeleteMark, DeleteErase, Deleting
<1>1. PICK t : t = tgt.page
  OBVIOUS
<1>2. PICK off : off = tgt.off
  OBVIOUS
<1>3. PICK k : k = op.key
  OBVIOUS
<1>4. CASE DeleteSkip \/ DeleteMismatch
  <2>1. pc = "del" /\ UNCHANGED flash
    BY <1>4 DEF DeleteSkip, DeleteMismatch
  <2>2. /\ pc' \in {"accept", "next", "return"}
        /\ pc' = "return" => ret = "old" \/ DeleteMismatch
    BY <1>0, <1>4 DEF DeleteSkip, DeleteMismatch, AfterDelete, Finish
  <2>3. ASSUME pc' = "return", srch.cnt = 1 PROVE Stored(op.key)
    <3>1. CASE ret = "old"
      BY <2>1, <2>3, <3>1, AnotherStored DEF KeptInv
    <3>2. CASE ret = "accept"
      <4>1. FoundAt(cur) /\ cur.page \in Pages /\ cur.off \in Offsets
        BY <2>1, <3>2, TypeSplit DEF SearchInv, IInv, CallTypeOK, Arguments
      <4> QED BY <4>1 DEF FoundAt, Stored
    <3>3. ret # "next"
      BY <1>0, <2>3 DEF SearchInv
    <3> QED BY <1>0, <3>1, <3>2, <3>3
  <2>4. pc' = "return" /\ srch'.cnt = 1 => Stored(op.key)'
    BY <1>0, <2>1, <2>3 DEF Stored, Holds
  <2> QED BY <1>0, <2>2, <2>4 DEF KeptInv, Finding, Deleting
<1>5. CASE DeleteMark
  <2>1. /\ pc = "del" /\ pc' = "del_erase"
        /\ flash[t].cell[off].key = k /\ pages[t].item_cnt > 0
        /\ flash' = [flash EXCEPT ![t].cell[off] = Erased(@)]
        /\ pages' = [pages EXCEPT ![t].item_cnt = pages[t].item_cnt - 1]
    BY <1>1, <1>2, <1>3, <1>5 DEF DeleteMark
  <2>2. flash \in [Pages -> FlashPage] /\ flash[t] \in FlashPage
    BY <1>0, <1>1 DEF StateTypeOK
  <2>3. /\ \A q \in Pages \ {t} : flash'[q] = flash[q] /\ pages'[q] = pages[q]
        /\ \A o \in Offsets \ {off} : flash'[t].cell[o] = flash[t].cell[o]
        /\ flash'[t].cell[off] = Erased(flash[t].cell[off])
        /\ pages'[t].item_cnt = pages[t].item_cnt - 1
    <3>1. pages \in [Pages -> RamPage] /\ pages[t] \in RamPage /\ t \in Pages /\ off \in Offsets
      BY <1>0, <1>1, <1>2 DEF StateTypeOK
    <3>2. \A q \in Pages \ {t} : flash'[q] = flash[q] /\ pages'[q] = pages[q]
      BY <2>1, <2>2, <3>1
    <3>3. /\ \A o \in Offsets \ {off} : flash'[t].cell[o] = flash[t].cell[o]
          /\ flash'[t].cell[off] = Erased(flash[t].cell[off])
      BY <2>1, <2>2, <3>1 DEF FlashPage
    <3>4. pages'[t].item_cnt = pages[t].item_cnt - 1
      BY <2>1, <3>1 DEF RamPage
    <3> QED BY <3>2, <3>3, <3>4
  <2>4. CASE ret # "old"
    <3>1. /\ pc' = "del_erase" /\ ret' \in {"accept", "next"}
      BY <1>0, <2>1, <2>4
    <3>2. Finding'
      BY <3>1 DEF Finding, Deleting
    <3>3. pc' # "put_full" /\ pc' # "del" /\ ret' # "old"
      BY <3>1
    <3> QED BY <3>2, <3>3 DEF KeptInv
  <2>5. CASE ret = "old"
    <3>1. /\ ~Undercounted(dst) /\ (t # dst => HeldIn(dst, k))
      BY <1>0, <1>1, <1>3, <2>5 DEF KeptInv
    <3>2. PICK d : d = dst
      OBVIOUS
    <3>3. d \in Pages
      BY <1>0, <2>5, <3>2 DEF KeptInv
    <3>4. t # d => HeldIn(d, k)'
      BY <2>3, <3>1, <3>2, <3>3 DEF HeldIn, Holds
    <3>5. ~Undercounted(d)'
      <4>1. CASE t # d
        BY <2>3, <3>1, <3>2, <3>3, <4>1 DEF Undercounted, LiveCopies
      <4>2. CASE t = d
        <5>1. Live(flash[t].cell[off])
          <6>1. Ready(t)
            BY <2>1 DEF Ready, Loaded
          <6> QED BY <1>0, <1>1, <1>2, <1>3, <2>1, <6>1 DEF PagesFine, PageFine, ItemsFine, Live
        <5>2. Cardinality(LiveOffs(flash'[t])) = Cardinality(LiveOffs(flash[t])) - 1
          <6> DEFINE pg == flash[t]
                     new == flash'[t]
          <6>1. /\ off \in Offsets /\ new.cell[off] = Erased(pg.cell[off]) /\ Live(pg.cell[off])
                /\ \A o \in Offsets \ {off} : new.cell[o] = pg.cell[o]
            BY <1>0, <1>2, <2>3, <5>1
          <6> HIDE DEF pg, new
          <6>2. Cardinality(LiveOffs(new)) = Cardinality(LiveOffs(pg)) - 1
            BY <6>1, LiveOneLess
          <6> QED BY <6>2 DEF pg, new
        <5>3. ~(pages[t].item_cnt < Cardinality(LiveOffs(flash[t])))
          BY <3>1, <3>2, <4>2, LiveCopiesOffs DEF Undercounted
        <5>4. pages[t].item_cnt \in Nat /\ Cardinality(LiveOffs(flash[t])) \in Nat
          BY <1>0, <1>1, CntTypes, LiveFinite
        <5>5. ~(pages'[t].item_cnt < Cardinality(LiveOffs(flash'[t])))
          BY <2>3, <5>2, <5>3, <5>4
        <5> QED BY <4>2, <5>5, LiveCopiesOffs DEF Undercounted
      <4> QED BY <4>1, <4>2
    <3>6. srch.cnt = 1 => Stored(k)'
      <4>1. SUFFICES ASSUME srch.cnt = 1 PROVE Stored(k)'
        OBVIOUS
      <4>2. PICK c \in Copies(k) : c # <<t, off>>
        BY <1>1, <1>2, <1>3, <2>1, <2>5, <4>1 DEF KeptInv
      <4>3. PICK p \in Pages, o \in Offsets : c = <<p, o>> /\ Holds(p, o, k)
        BY <4>2 DEF Copies
      <4>4. flash'[p].cell[o] = flash[p].cell[o]
        BY <2>3, <4>2, <4>3
      <4> QED BY <4>3, <4>4, StoredStill
    <3> QED BY <1>0, <1>1, <1>3, <2>1, <2>5, <3>2, <3>3, <3>4, <3>5, <3>6
            DEF KeptInv, Deleting
  <2> QED BY <2>4, <2>5
<1>6. CASE DeleteErase
  <2>1. pc = "del_erase" /\ pc' \in {"accept", "next", "return"}
        /\ (pc' = "return" => ret = "old")
    BY <1>0, <1>6 DEF DeleteErase, AfterDelete, Finish
  <2>2. CASE pc' # "return"
    BY <2>1, <2>2 DEF KeptInv, Finding, Deleting
  <2>3. CASE pc' = "return" /\ srch.cnt = 1
    <3>1. ret = "old" /\ ~Finding /\ Stored(k) /\ ~Undercounted(dst)
          /\ dst \in Pages /\ (t # dst => HeldIn(dst, k))
      BY <1>0, <1>1, <1>3, <2>1, <2>3 DEF KeptInv, Finding
    <3>2. PICK d : d = dst
      OBVIOUS
    <3>3. CASE ~Emptied(t)
      <4>1. UNCHANGED flash
        BY <1>1, <1>6, <3>3 DEF DeleteErase
      <4> QED BY <1>0, <1>3, <2>1, <2>3, <3>1, <4>1 DEF KeptInv, Deleting, Stored, Holds
    <3>4. CASE Emptied(t)
      <4>1. \A q \in Pages \ {t} : flash'[q] = flash[q]
        BY <1>0, <1>1, <1>6, <3>4, ErasePageCounts DEF DeleteErase
      <4>2. CASE t # d
        <5>1. PICK o \in Offsets : Holds(d, o, k)
          BY <3>1, <3>2, <4>2 DEF HeldIn
        <5>2. Stored(k)'
          BY <3>1, <3>2, <4>1, <4>2, <5>1, StoredStill
        <5> QED BY <1>0, <1>3, <2>1, <2>3, <5>2 DEF KeptInv, Deleting
      <4>3. CASE t = d
        <5>1. pages[t].item_cnt = 0 /\ ~(pages[t].item_cnt < Cardinality(LiveOffs(flash[t])))
          BY <3>1, <3>2, <3>4, <4>3, LiveCopiesOffs DEF Emptied, Undercounted
        <5>2. Cardinality(LiveOffs(flash[t])) = 0
          BY <5>1, LiveFinite
        <5>3. Stored(k)'
          BY <1>0, <1>1, <1>3, <3>1, <4>1, <5>2, LiveNone, NoneLost
        <5> QED BY <1>0, <1>3, <2>1, <2>3, <5>3 DEF KeptInv, Deleting
      <4> QED BY <4>2, <4>3
    <3> QED BY <3>3, <3>4
  <2>4. CASE pc' = "return" /\ srch.cnt # 1
    BY <1>0, <2>4 DEF KeptInv, Deleting
  <2> QED BY <2>2, <2>3, <2>4
<1> QED BY <1>4, <1>5, <1>6 DEF Delete

\* From the search on, until the old copy is deleted, no step loses the key.
LEMMA OpStored ==
    ASSUME IInv, CountInv, MoveInv, KeptInv, ZeroCrc = {}, [Next]_vars,
           pc \in {"alloc", "realign", "open", "copied", "full", "activate", "put", "put_full"},
           UNCHANGED <<op, srch>>
    PROVE  srch'.cnt = 1 => Stored(op.key) /\ Stored(op.key)'
<1>1. PICK k : k = op.key
  OBVIOUS
<1>2. k \in Keys /\ k = op'.key
  BY <1>1 DEF IInv, Arguments
<1>3. srch'.cnt = 1 => Stored(k)
  BY <1>1 DEF KeptInv, Finding, Deleting
<1>4. Stored(k) => Stored(k)'
  BY <1>2, NextKeeps
<1> QED BY <1>1, <1>2, <1>3, <1>4

LEMMA WriteKept ==
    ASSUME IInv, CountInv, MoveInv, KeptInv, ZeroCrc = {}, Write
    PROVE  KeptInv'
<1>0. /\ StateTypeOK /\ CallTypeOK /\ Arguments /\ PagesFine /\ Destination /\ [Next]_vars
      /\ UNCHANGED <<op, srch, dst>>
  BY TypeSplit DEF IInv, CountInv, Next, Step, Write, PutFails, Put, PutFull
<1>1. pc \in {"put", "put_full"} /\ ret \in {"write", "realign"}
      /\ op.kind = "write" /\ op.key \in Keys /\ op.val \in Vals
  BY <1>0 DEF Write, PutFails, Put, PutFull, Arguments
<1>2. srch'.cnt = 1 => Stored(op.key) /\ Stored(op.key)'
  BY <1>0, <1>1, OpStored
<1>3. CASE PutFails \/ ret = "realign"
  <2>1. \/ pc' \in {"copied", "return", "realign"}
        \/ pc' = "put_full" /\ ret' = "realign"
    <3>1. CASE PutFails
      BY <3>1 DEF PutFails, Finish
    <3>2. CASE ret = "realign" /\ ~PutFails
      <4>1. PutReturns \/ (pc' = "put_full" /\ UNCHANGED ret)
        BY <3>2 DEF Write, Put, PutFull
      <4> QED BY <1>1, <3>2, <4>1, PutReturnsTo
    <3> QED BY <1>3, <3>1, <3>2
  <2> QED BY <1>2, <2>1 DEF KeptInv, Deleting
<1>4. CASE ret = "write" /\ ~PutFails
  <2>1. PICK d : d = dst
    OBVIOUS
  <2>2. PICK k : k = op.key
    OBVIOUS
  <2>3. /\ d \in Pages /\ HeldIn(d, k)'
        /\ srch.cnt = 1 => \E c, e \in Copies(k)' : c # e
    <3>1. CASE Put
      <4>1. /\ d \in Pages /\ flash[d].used \in Offsets
            /\ flash[d].cell[flash[d].used] = Blank
            /\ flash'[d].cell[flash[d].used] = PutItem
            /\ \A o \in Offsets \ {flash[d].used} : flash'[d].cell[o] = flash[d].cell[o]
            /\ \A q \in Pages \ {d} : flash'[q] = flash[q]
        BY <2>1, <3>1, PutDoes
      <4>2. PutItem.key = k /\ PutItem.val \in Vals
        BY <1>1, <1>4, <2>2 DEF PutItem, NewItem
      <4>3. PICK o \in Offsets : o = flash[d].used
        BY <4>1
      <4>4. Holds(d, o, k)'
        BY <4>1, <4>2, <4>3 DEF Holds
      <4>5. ASSUME srch.cnt = 1 PROVE \E c, e \in Copies(k)' : c # e
        <5>1. Stored(k)
          BY <1>0, <1>2, <2>2, <4>5
        <5>2. PICK p \in Pages : \E o2 \in Offsets : Holds(p, o2, k)
          BY <5>1 DEF Stored
        <5>3. PICK o2 \in Offsets : Holds(p, o2, k)
          BY <5>2
        <5>4. p # d \/ o2 # o
          BY <4>1, <4>3, <5>3 DEF Holds, Blank
        <5>5. Holds(p, o2, k)'
          BY <4>1, <4>3, <5>3, <5>4 DEF Holds
        <5>6. <<p, o2>> \in Copies(k)' /\ <<d, o>> \in Copies(k)' /\ <<p, o2>> # <<d, o>>
          BY <4>1, <4>4, <5>4, <5>5, CopiesHold
        <5> QED BY <5>6
      <4> QED BY <4>1, <4>4, <4>5 DEF HeldIn
    <3>2. CASE PutFull
      <4>1. d \in Pages /\ \A q \in Pages : flash'[q].cell = flash[q].cell
        BY <2>1, <3>2, PutFullDoes
      <4>2. HeldIn(d, k) /\ (srch.cnt = 1 => \E c, e \in Copies(k) : c # e)
        BY <1>4, <2>1, <2>2, <3>2 DEF KeptInv, PutFull
      <4>3. HeldIn(d, k)'
        BY <4>1, <4>2 DEF HeldIn, Holds
      <4>4. Copies(k)' = Copies(k)
        BY <4>1 DEF Copies, Holds
      <4> QED BY <4>1, <4>2, <4>3, <4>4
    <3> QED BY <1>4, <3>1, <3>2 DEF Write
  <2>4. CASE pc' = "put_full"
    BY <1>0, <1>2, <2>1, <2>2, <2>3, <2>4 DEF KeptInv, Deleting
  <2>5. CASE PutReturns /\ pc' # "put_full"
    <3>1. \/ ret' = "old" /\ pc' = "del" /\ tgt' = srch.loc
          \/ pc' = "return"
      BY <1>1, <1>4, <2>5, PutReturnsTo
    <3>2. ~(Undercounted(d)')
      <4>1. /\ pages[d].item_cnt \in Nat /\ Cardinality(LiveOffs(flash[d])) \in Nat
            /\ pages[d].status = "ACTIVE" /\ Ready(d) /\ PageFine(d)
        <5>1. pages[d].status = "ACTIVE"
          <6>1. CASE Put
            BY <2>1, <6>1, PutDoes
          <6>2. CASE PutFull
            BY <1>0, <2>1, <6>2 DEF PutFull, Destination
          <6> QED BY <1>4, <6>1, <6>2 DEF Write
        <5> QED BY <1>0, <1>1, <2>3, <5>1, CntTypes, LiveFinite DEF Ready, Loaded, PagesFine
      <4>2. CASE Put
        <5>1. ~Uncounted(d)
          BY <4>2 DEF Put, Uncounted
        <5>2. Cardinality(LiveOffs(flash[d])) <= pages[d].item_cnt
          BY <4>1, <5>1 DEF PageFine, CountFine
        <5>3. pages'[d].item_cnt = pages[d].item_cnt + 1
          BY <2>1, <2>5, <4>2, PutDoes
        <5>4. Cardinality(LiveOffs(flash'[d])) = Cardinality(LiveOffs(flash[d])) + 1
          <6> DEFINE pg == flash[d]
                     new == flash'[d]
                     off == flash[d].used
          <6>1. Live(PutItem)
            BY <4>2, PutItemLive DEF Put
          <6>2. /\ off \in Offsets /\ pg.cell[off] = Blank /\ Live(new.cell[off])
                /\ \A o \in Offsets \ {off} : new.cell[o] = pg.cell[o]
            BY <2>1, <4>2, <6>1, PutDoes
          <6> HIDE DEF pg, new, off
          <6>3. Cardinality(LiveOffs(new)) = Cardinality(LiveOffs(pg)) + 1
            BY <6>2, LiveOneMore
          <6> QED BY <6>3 DEF pg, new
        <5>5. ~(pages'[d].item_cnt < Cardinality(LiveOffs(flash'[d])))
          BY <4>1, <5>2, <5>3, <5>4
        <5> QED BY <5>5, LiveCopiesOffs DEF Undercounted
      <4>3. CASE PutFull
        <5>1. Uncounted(d)
          BY <2>1, <4>3 DEF PutFull, Uncounted
        <5>2. Cardinality(LiveOffs(flash[d])) <= pages[d].item_cnt + 1
          BY <4>1, <5>1 DEF PageFine, CountFine
        <5>3. /\ pages'[d].item_cnt = pages[d].item_cnt + 1
              /\ flash'[d].cell = flash[d].cell
          BY <2>1, <2>3, <4>3, PutFullDoes
        <5>4. LiveOffs(flash'[d]) = LiveOffs(flash[d])
          BY <5>3 DEF LiveOffs
        <5>5. ~(pages'[d].item_cnt < Cardinality(LiveOffs(flash'[d])))
          BY <4>1, <5>2, <5>3, <5>4
        <5> QED BY <5>5, LiveCopiesOffs DEF Undercounted
      <4> QED BY <1>4, <4>2, <4>3 DEF Write
    <3>3. srch.cnt = 1 => \E c \in Copies(k)' : c # <<tgt'.page, tgt'.off>>
      BY <2>3
    <3> QED BY <1>0, <1>2, <2>1, <2>2, <2>3, <3>1, <3>2, <3>3 DEF KeptInv, Deleting
  <2> QED BY <1>4, <2>4, <2>5 DEF Write, Put, PutFull
<1> QED BY <1>1, <1>3, <1>4

LEMMA NextSoleInv ==
    ASSUME IInv, CountInv, MoveInv, SoleInv, ZeroCrc = {}, [Next]_vars
    PROVE  SoleInv'
<1>0. SearchInv /\ KeptInv /\ CallTypeOK
  BY TypeSplit DEF SoleInv, IInv
<1>1. CASE Boot
  <2>1. Initing /\ UNCHANGED srch
    BY <1>1 DEF Boot, LoadHeader, HeaderInit, InitErasedPage, InitUsedPage, InitFails, EraseAll,
                Initing
  <2>2. Initing'
    <3>1. PageDone => Initing'
      BY DEF PageDone, Initing
    <3>2. EraseAll => Initing'
      BY DEF EraseAll, Initing
    <3>3. LoadHeader \/ HeaderInit \/ InitFails => Initing'
      BY DEF LoadHeader, HeaderInit, InitFails, Initing
    <3>4. InitErasedPage \/ InitUsedPage => PageDone
      BY DEF InitErasedPage, InitUsedPage
    <3> QED BY <1>1, <3>1, <3>2, <3>3, <3>4 DEF Boot
  <2>3. srch' = NoSearch
    BY <1>0, <2>1 DEF SearchInv
  <2>4. /\ srch'.cnt = 0 /\ srch'.hits = 0 /\ srch'.last = NoLoc
        /\ ~(Deleting') /\ pc' \notin {"accept", "put_full"}
    BY <2>2, <2>3 DEF NoSearch, Initing, Deleting
  <2> QED BY <2>3, <2>4, SearchFresh, FreshKept DEF SoleInv
<1>2. CASE Return \/ Call \/ Fail
  <2>1. /\ srch'.cnt = 0 /\ srch'.hits = 0 /\ srch'.last = NoLoc
        /\ \/ pc' \in {"idle", "boot"} /\ srch' = NoSearch
           \/ pc' = "find"
    <3>1. CASE Return
      BY <3>1 DEF Return, NoSearch
    <3>2. CASE Call
      BY <3>2 DEF Call, ReadItem, WriteItem, StartFind, NoSearch
    <3>3. CASE Fail
      BY <3>3 DEF Fail, Reset, PowerLoss, TornWrite, Restart, NoSearch
    <3> QED BY <1>2, <3>1, <3>2, <3>3
  <2>2. ~(Deleting') /\ pc' \notin {"accept", "put_full"} /\ (Initing' => srch' = NoSearch)
    BY <2>1 DEF Deleting, Initing
  <2> QED BY <2>1, <2>2, SearchFresh, FreshKept DEF SoleInv
<1>3. CASE Find
  BY <1>0, <1>3, FindSearch, FindKept DEF SoleInv
<1>4. CASE Delete
  BY <1>0, <1>4, DeleteSearch, DeleteKept DEF SoleInv
<1>5. CASE Allocate \/ Realign
  <2>1. /\ pc \in {"alloc", "realign", "open", "copied", "full", "activate"}
        /\ pc' \in {"alloc", "realign", "open", "copied", "full", "activate", "put", "return"}
        /\ UNCHANGED <<op, srch>>
    <3>1. CASE Allocate
      BY <3>1 DEF Allocate, AllocFits, AllocFirst, AllocNoRealign, AllocRealign, AllocRetry,
                  CloseActive, OpenNew, UsePage, Finish, NoRoom
    <3>2. CASE Realign
      BY <3>2 DEF Realign, RealignDrop, RealignFull, RealignOpen, RealignFits, RealignErase,
                  Moving
    <3> QED BY <1>5, <3>1, <3>2
  <2>2. srch'.cnt = 1 => Stored(op.key)'
    BY <1>0, <2>1, OpStored
  <2>3. KeptInv'
    BY <2>1, <2>2 DEF KeptInv, Deleting
  <2>4. SearchInv'
    BY <1>0, <2>1, SearchAway DEF Initing, Deleting
  <2> QED BY <2>3, <2>4 DEF SoleInv
<1>6. CASE Write
  <2>1. KeptInv'
    BY <1>0, <1>6, WriteKept
  <2>2. UNCHANGED srch /\ pc \in {"put", "put_full"}
    BY <1>6 DEF Write, PutFails, Put, PutFull
  <2>3. pc' \in {"copied", "return", "realign", "put_full"} \/ (pc' = "del" /\ ret' = "old")
    <3>1. CASE PutFails
      BY <3>1 DEF PutFails, Finish
    <3>2. CASE PutReturns
      BY <2>2, <3>2, PutReturnsTo
    <3> QED BY <1>6, <3>1, <3>2 DEF Write, Put, PutFull
  <2>4. SearchInv'
    BY <1>0, <2>2, <2>3, SearchAway DEF Initing, Deleting
  <2> QED BY <2>1, <2>4 DEF SoleInv
<1>7. CASE UNCHANGED vars
  <2>1. UNCHANGED <<flash, pages, pc, op, cur, srch, dst, tgt, ret>>
    BY <1>7 DEF vars
  <2>2. SearchInv'
    BY <1>0, <2>1 DEF SearchInv, Initing, Deleting, FoundAt, Holds
  <2>3. KeptInv'
    BY <1>0, <2>1 DEF KeptInv, Finding, Deleting, Stored, Copies, HeldIn, Holds, Undercounted,
                      LiveCopies
  <2> QED BY <2>2, <2>3 DEF SoleInv
<1> QED BY <1>1, <1>2, <1>3, <1>4, <1>5, <1>6, <1>7 DEF Next, Step

\* SoleCopyKept (storage.c, st_find_item, st_write_item): where no item has the CRC 0, a
\* call that found exactly one copy of its key returns with the key stored, whether it
\* succeeded or failed, and whatever restarts came before it.
THEOREM SoleKept ==
    ASSUME ZeroCrc = {}
    PROVE  Spec => []SoleCopyKept
<1>1. IInv /\ CountInv /\ MoveInv /\ SoleInv /\ [Next]_vars => SoleInv'
  BY NextSoleInv
<1>2. SoleInv => SoleCopyKept
  BY DEF SoleInv, KeptInv, SoleCopyKept, Finding, Deleting
<1> QED BY <1>1, <1>2, InitSoleInv, Invariance, Counted, Moves, PTL DEF Spec

=============================================================================
