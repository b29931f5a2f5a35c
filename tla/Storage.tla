------------------------------ MODULE Storage ------------------------------
(***************************************************************************)
(* storage.c: the log-structured key-value store in the data flash.        *)
(*                                                                         *)
(* Every action is one flash operation (a write, a page erase) or one step *)
(* between two of them, so that PowerLoss can strike wherever the contents *)
(* of the flash may differ.  The control of the C functions is the value   *)
(* of pc; a function called from several places (st_delete_item_with_loc,  *)
(* st_page_write_item) finds its caller in ret.                            *)
(*                                                                         *)
(* Data: an item is [key, len, val].  NoKey is the index 0 that marks an   *)
(* erased item, BadKey the 0xFFFF of an index that was never programmed,   *)
(* and NoVal the content of an item whose CRC does not verify.             *)
(*                                                                         *)
(* Assumed: the flash driver's calls succeed, no bit of the flash changes  *)
(* by itself, and an item with its header is no longer than                *)
(* ST_MAX_CONTENT_LEN, so that the check of st_get_available_page passes.  *)
(*                                                                         *)
(* An erase is one step here: a power loss leaves the page blank or as it  *)
(* was.  A page is several blocks of the data flash, though, and CutErase  *)
(* is about the erase of which only some blocks are done.                  *)
(*                                                                         *)
(* Left out are st_delete_item and st_page_delete_item, which nothing      *)
(* calls, and the read of a content that does not verify in                *)
(* st_page_find_item, which without bit errors needs an item that the      *)
(* scan has already erased.                                                *)
(***************************************************************************)
EXTENDS Naturals, FiniteSets

CONSTANTS
    Keys, Vals,             \* item indices 1 .. 0xFFFE, item contents
    NoKey, BadKey, NoVal,
    NPages,                 \* ST_PAGE_MAX
    PageContent,            \* ST_PAGE_CONTENT_MAX, in units of flash
    HeaderSize,             \* sizeof(st_item_header_t), in the same units
    ValLen,                 \* the length of each value
    ZeroCrc,                \* the values whose CRC-8 is 0
    AllowPowerLoss,         \* may the MCU restart in the middle of an operation?
    MaxRestarts             \* bound on the restarts of a behaviour

ASSUME SizesAssumption ==
    /\ NPages \in Nat \ {0}
    /\ PageContent \in Nat \ {0}
    /\ HeaderSize \in Nat \ {0}
    /\ ValLen \in [Vals -> Nat \ {0}]
    /\ ZeroCrc \subseteq Vals

ASSUME NamesAssumption ==
    /\ NoKey \notin Keys /\ BadKey \notin Keys /\ NoKey # BadKey
    /\ NoVal \notin Vals
    /\ AllowPowerLoss \in BOOLEAN /\ MaxRestarts \in Nat

Pages   == 0 .. NPages - 1
NoPage  == NPages                       \* ST_PAGE_MAX: "no page"
Offsets == 0 .. PageContent - 1

\* A page's status byte.  Programming can only clear bits, and the values
\* 0xFF, 0xFE, 0xFC lose one after the other: a status never goes back.
\* UNAVAILABLE (0x00) is never programmed; it is what a zeroed st_page_t says.
FlashStatus == {"ERASED", "ACTIVE", "FULL"}
RamStatus   == FlashStatus \cup {"UNAVAILABLE"}
Burn(old, new) == IF old = "FULL" THEN old ELSE new

\* The page_erased at and below which a full active page starts a realign.
RealignReserve == 2

Item  == [key : Keys \cup {NoKey, BadKey}, len : Nat, val : Vals \cup {NoVal}]
Blank == [key |-> NoKey, len |-> 0, val |-> NoVal]   \* erased cells
Size(it)   == HeaderSize + it.len                    \* ST_ITEM_SIZE
Erased(it) == [key |-> NoKey, len |-> it.len, val |-> NoVal]
NewItem(k, v) == [key |-> k, len |-> ValLen[v], val |-> v]

\* A page in the flash, and what st_ctx.pages says of it.
FlashPage == [status : FlashStatus, used : Nat, cell : [Offsets -> Item]]
RamPage   == [status : RamStatus, item_cnt : Nat, bytes_used : Nat]
BlankPage == [status |-> "ERASED", used |-> 0, cell |-> [o \in Offsets |-> Blank]]
ZeroPage  == [status |-> "UNAVAILABLE", item_cnt |-> 0, bytes_used |-> 0]
Location  == [page : Pages \cup {NoPage}, off : Nat]
NoLoc     == [page |-> NoPage, off |-> 0]
NoOp      == [kind |-> "none", key |-> NoKey, val |-> NoVal]
NoSearch  == [start |-> 0, cnt |-> 0, hits |-> 0, last |-> NoLoc,
              loc |-> NoLoc, res |-> NoVal]

VARIABLES
    flash,        \* the data flash: per page its status byte, how many bytes of
                  \* its content are programmed, and the item at each offset
    header,       \* does the flash hold a valid st_header_t?
    pages,        \* st_ctx.pages (bytes_available, which is only logged, left out)
    page_erased,  \* st_ctx.page_erased
    page_active,  \* st_ctx.page_active
    pc,           \* where the main loop is in storage.c
    op,           \* the call being served: its kind, item index and value
    cur,          \* the page and offset the current loop has reached
    srch,         \* st_ctx.search_ctx and the locals of st_find_item
    dst,          \* page_idx of st_write_item, the page an item is written to
    tgt,          \* the location st_delete_item_with_loc is to delete
    ret,          \* the caller it, or st_page_write_item, returns to
    rc,           \* what the call returns
    restarts      \* how often the MCU has restarted

flashVars == <<flash, header>>
ctxVars   == <<pages, page_erased, page_active>>
callVars  == <<op, cur, srch, dst, tgt, ret, rc>>
vars      == <<flashVars, ctxVars, pc, callVars, restarts>>

PCs == {"boot", "format", "scan", "erase_all", "idle", "find", "accept",
        "next", "del", "del_erase", "alloc", "realign", "open", "copied", "full",
        "activate", "put", "put_full", "return"}

-----------------------------------------------------------------------------
(***************************************************************************)
(* Pages and their status.                                                 *)
(***************************************************************************)
Valid(p)      == p \in Pages

\* Mutations of LastPage: no test before the subtraction, no wrap at page 0.
LastPageUnchecked(p) == p - 1
LastPageNoWrap(p)    == IF p > 0 THEN p - 1 ELSE 0

LastPage(p)   == IF p > 0 THEN p - 1 ELSE NPages - 1    \* st_page_last

\* The free bytes of a page; the -1 of an invalid page compares, as the
\* size_t it is converted to, greater than every length.
FreeSize(p) == IF pages[p].status = "ACTIVE"
               THEN PageContent - pages[p].bytes_used ELSE 0

\* Mutation of Fits: off by one.
FitsOneMore(p, n) == IF Valid(p) THEN n <= FreeSize(p) + 1 ELSE TRUE

Fits(p, n)  == IF Valid(p) THEN n <= FreeSize(p) ELSE TRUE

\* The first page of that status at or after "from", or NoPage.
Distance(from, p) == IF from <= p THEN p - from ELSE p + NPages - from
FirstPage(from, status) ==
    LET S == {p \in Pages : pages[p].status = status}
    IN  IF Valid(from) /\ S # {}
        THEN CHOOSE p \in S : \A q \in S : Distance(from, p) <= Distance(from, q)
        ELSE NoPage

\* Mutation of Opened: the page is opened without being taken off page_erased.
OpenedUncounted(p) == page_erased

Opened(p) == IF pages[p].status = "ERASED" /\ page_erased > 0
             THEN page_erased - 1 ELSE page_erased

SetStatus(p, s) ==
    IF ~Valid(p) \/ pages[p].status = s
    THEN UNCHANGED <<flash, ctxVars>>
    ELSE /\ flash' = [flash EXCEPT ![p].status = Burn(@, s)]
         /\ pages' = [pages EXCEPT ![p].status = s]
         /\ page_erased' = Opened(p)
         /\ page_active' = IF s = "ACTIVE" THEN p
                           ELSE IF pages[p].status = "ACTIVE" THEN NoPage
                           ELSE page_active

ErasePage(p) ==
    IF pages[p].status = "ERASED"
    THEN UNCHANGED <<flash, pages, page_erased>>
    ELSE /\ flash' = [flash EXCEPT ![p] = BlankPage]
         /\ pages' = [pages EXCEPT ![p] = [status |-> "ERASED", item_cnt |-> 0,
                                           bytes_used |-> 0]]
         /\ page_erased' = page_erased + 1

-----------------------------------------------------------------------------
(***************************************************************************)
(* st_init: the header, then each page in turn.                            *)
(***************************************************************************)
Init ==
    /\ flash = [p \in Pages |-> BlankPage]
    /\ header = FALSE
    /\ pages = [p \in Pages |-> ZeroPage]
    /\ page_erased = 0
    /\ page_active = NoPage
    /\ pc = "boot"
    /\ op = NoOp
    /\ cur = [page |-> 0, off |-> 0]
    /\ srch = NoSearch
    /\ dst = NoPage
    /\ tgt = NoLoc
    /\ ret = "none"
    /\ rc = "none"
    /\ restarts = 0

LoadHeader ==
    /\ pc = "boot"
    /\ IF header
       THEN pc' = "scan" /\ UNCHANGED flash
       ELSE pc' = "format" /\ flash' = [p \in Pages |-> BlankPage]
    /\ UNCHANGED <<header, ctxVars, callVars, restarts>>

HeaderInit ==
    /\ pc = "format"
    /\ header' = TRUE
    /\ pc' = "scan"
    /\ UNCHANGED <<flash, ctxVars, callVars, restarts>>

Live(it)     == it.key \in Keys /\ it.val \in Vals
LiveOffs(pg) == {o \in Offsets : Live(pg.cell[o])}

\* st_page_scan reads headers until an unprogrammed one; where the programmed
\* bytes end too close to the end of the page for one more header, it fails.
ScanFails(p) == flash[p].used + HeaderSize >= PageContent

\* Mutations of the two below: a content that does not verify is counted; a page
\* without a live item is taken for a blank one.
ItemCountUnverified(pg) == Cardinality({o \in Offsets : pg.cell[o].key \in Keys})
BytesUsedLive(pg) == IF LiveOffs(pg) = {} THEN 0 ELSE pg.used

\* Mutation of ItemCount: the scan begins behind the first item of the page.
ItemCountNotFirst(pg) == Cardinality(LiveOffs(pg) \ {0})

\* What a scan counts: the items that are not erased and verify, and the bytes
\* up to the first unprogrammed header.
ItemCount(pg) == Cardinality(LiveOffs(pg))
BytesUsed(pg) == pg.used

\* What a scan leaves of a page: the items that do not verify are erased.
Scanned(pg) ==
    [pg EXCEPT !.cell = [o \in Offsets |->
        IF pg.cell[o].key \in Keys /\ pg.cell[o].val = NoVal
        THEN Erased(pg.cell[o]) ELSE pg.cell[o]]]

\* The end of one iteration of st_page_init's loop.
PageDone ==
    IF cur.page + 1 \in Pages
    THEN cur' = [cur EXCEPT !.page = @ + 1] /\ pc' = "scan"
    ELSE cur' = [cur EXCEPT !.page = 0] /\ pc' = "idle"

\* st_page_erase_check reads the first EEPROM_PAGE_SIZE bytes of the page, again and
\* again, and if it finds one programmed st_page_erase returns at once, since the
\* page's status is ERASED.  Whatever is in the flash, the page counts as erased.
InitErasedPage ==
    /\ pc = "scan" /\ flash[cur.page].status = "ERASED"
    /\ pages' = [pages EXCEPT ![cur.page].status = "ERASED"]
    /\ page_erased' = page_erased + 1
    /\ PageDone
    /\ UNCHANGED <<flashVars, page_active, op, srch, dst, tgt, ret, rc, restarts>>

InitUsedPage ==
    LET p   == cur.page
        cnt == ItemCount(flash[p])
    IN  /\ pc = "scan" /\ flash[p].status # "ERASED" /\ ~ScanFails(p)
        /\ IF flash[p].status = "FULL" /\ cnt = 0
           THEN /\ flash' = [flash EXCEPT ![p] = BlankPage]
                /\ pages' = [pages EXCEPT ![p].status = "ERASED"]
                /\ page_erased' = page_erased + 1
           ELSE /\ flash' = [flash EXCEPT ![p] = Scanned(@)]
                /\ pages' = [pages EXCEPT ![p] =
                       [status |-> flash[p].status, item_cnt |-> cnt,
                        bytes_used |-> BytesUsed(flash[p])]]
                /\ UNCHANGED page_erased
        /\ page_active' = p
        /\ PageDone
        /\ UNCHANGED <<header, op, srch, dst, tgt, ret, rc, restarts>>

InitFails ==
    /\ pc = "scan" /\ flash[cur.page].status # "ERASED" /\ ScanFails(cur.page)
    /\ cur' = [cur EXCEPT !.page = 0]
    /\ pc' = "erase_all"
    /\ UNCHANGED <<flashVars, ctxVars, op, srch, dst, tgt, ret, rc, restarts>>

EraseAll ==
    /\ pc = "erase_all"
    /\ ErasePage(cur.page)
    /\ IF cur.page + 1 \in Pages
       THEN /\ cur' = [cur EXCEPT !.page = @ + 1]
            /\ UNCHANGED <<pc, page_active>>
       ELSE /\ cur' = [cur EXCEPT !.page = 0]
            /\ pc' = "idle"
            /\ page_active' = NoPage
    /\ UNCHANGED <<header, op, srch, dst, tgt, ret, rc, restarts>>

-----------------------------------------------------------------------------
(***************************************************************************)
(* The entry points.  Both begin with st_find_item.                        *)
(***************************************************************************)
StartFind(o) ==
    LET start == IF Valid(page_active) THEN page_active ELSE 0
    IN  /\ pc = "idle"
        /\ op' = o
        /\ cur' = [page |-> start, off |-> 0]
        /\ srch' = [NoSearch EXCEPT !.start = start]
        /\ pc' = "find"
        /\ UNCHANGED <<flashVars, ctxVars, dst, tgt, ret, rc, restarts>>

WriteItem(k, v) == StartFind([kind |-> "write", key |-> k, val |-> v])
ReadItem(k)     == StartFind([kind |-> "read", key |-> k, val |-> NoVal])

Finish(code) == rc' = code /\ pc' = "return"

\* The call returns: its locals are gone.
Return ==
    /\ pc = "return"
    /\ pc' = "idle"
    /\ op' = NoOp
    /\ cur' = [page |-> 0, off |-> 0]
    /\ srch' = NoSearch
    /\ dst' = NoPage
    /\ tgt' = NoLoc
    /\ ret' = "none"
    /\ rc' = "none"
    /\ UNCHANGED <<flashVars, ctxVars, restarts>>

-----------------------------------------------------------------------------
(***************************************************************************)
(* st_find_item walks the pages backwards from the active one;             *)
(* st_page_find_item walks the items of a page forwards.                   *)
(***************************************************************************)
InUse(p)    == pages[p].status \in {"ACTIVE", "FULL"}
MatchOffs   == {o \in Offsets : /\ cur.off <= o /\ o < pages[cur.page].bytes_used
                                /\ flash[cur.page].cell[o].key = op.key}
FirstOff(S) == CHOOSE o \in S : \A o2 \in S : o <= o2

\* The status of a page is looked at before its first item only: a page erased by a
\* deletion in the middle of the loop is at its end.
Entered == cur.off > 0 \/ InUse(cur.page)

FindSkip ==
    /\ pc = "find" /\ ~Entered
    /\ pc' = "next"
    /\ UNCHANGED <<flashVars, ctxVars, callVars, restarts>>

\* A copy is found.  A copy found before it, wherever it is, is deleted first.
FindMatch ==
    LET o == FirstOff(MatchOffs)
    IN  /\ pc = "find" /\ Entered /\ MatchOffs # {}
        /\ cur' = [cur EXCEPT !.off = o]
        /\ srch' = [srch EXCEPT !.res = IF srch.cnt = 0
                                        THEN flash[cur.page].cell[o].val ELSE @]
        /\ IF Valid(srch.last.page)
           THEN pc' = "del" /\ tgt' = srch.last /\ ret' = "accept"
           ELSE pc' = "accept" /\ UNCHANGED <<tgt, ret>>
        /\ UNCHANGED <<flashVars, ctxVars, op, dst, rc, restarts>>

FindAccept ==
    /\ pc = "accept"
    /\ srch' = [srch EXCEPT !.last = cur, !.hits = @ + 1]
    /\ cur' = [cur EXCEPT !.off = @ + Size(flash[cur.page].cell[cur.off])]
    /\ pc' = "find"
    /\ UNCHANGED <<flashVars, ctxVars, op, dst, tgt, ret, rc, restarts>>

\* Mutations of Sole and Surplus: one too few.
SoleTooFew(cnt)    == cnt = 0
SurplusTooFew(cnt) == cnt >= 1

\* st_page_find_item returns.  A single copy is what the caller will replace;
\* with a second copy counted, the last one found is deleted too.
Sole(cnt)    == cnt = 1
Surplus(cnt) == cnt > 1

FindPageEnd ==
    LET cnt == srch.cnt + srch.hits
    IN  /\ pc = "find" /\ Entered /\ MatchOffs = {}
        /\ srch' = [srch EXCEPT !.cnt = cnt, !.hits = 0,
                                !.loc = IF Sole(cnt) THEN srch.last ELSE @]
        /\ IF Surplus(cnt)
           THEN pc' = "del" /\ tgt' = srch.last /\ ret' = "next"
           ELSE pc' = "next" /\ UNCHANGED <<tgt, ret>>
        /\ UNCHANGED <<flashVars, ctxVars, op, cur, dst, rc, restarts>>

FindNext ==
    LET p == LastPage(cur.page)
    IN  /\ pc = "next" /\ p # srch.start
        /\ cur' = [page |-> p, off |-> 0]
        /\ pc' = "find"
        /\ UNCHANGED <<flashVars, ctxVars, op, srch, dst, tgt, ret, rc, restarts>>

ReadDone ==
    /\ pc = "next" /\ LastPage(cur.page) = srch.start /\ op.kind = "read"
    /\ Finish(IF srch.cnt = 0 THEN "absent" ELSE "ok")
    /\ UNCHANGED <<flashVars, ctxVars, op, cur, srch, dst, tgt, ret, restarts>>

WriteFound ==
    /\ pc = "next" /\ LastPage(cur.page) = srch.start /\ op.kind = "write"
    /\ pc' = "alloc"
    /\ UNCHANGED <<flashVars, ctxVars, callVars, restarts>>

-----------------------------------------------------------------------------
(***************************************************************************)
(* st_delete_item_with_loc: the deletion of the item at tgt.               *)
(***************************************************************************)
AfterDelete == CASE ret = "accept" -> pc' = "accept" /\ UNCHANGED rc
                 [] ret = "next"   -> pc' = "next" /\ UNCHANGED rc
                 [] ret = "old"    -> Finish("ok")

\* An empty page has nothing to delete: success.
DeleteSkip ==
    /\ pc = "del" /\ pages[tgt.page].item_cnt = 0
    /\ AfterDelete
    /\ UNCHANGED <<flashVars, ctxVars, op, cur, srch, dst, tgt, ret, restarts>>

\* Something else is at that place: the caller fails, and with it the call.
DeleteMismatch ==
    /\ pc = "del" /\ pages[tgt.page].item_cnt > 0
    /\ flash[tgt.page].cell[tgt.off].key # op.key
    /\ Finish("error")
    /\ UNCHANGED <<flashVars, ctxVars, op, cur, srch, dst, tgt, ret, restarts>>

DeleteMark ==
    /\ pc = "del" /\ pages[tgt.page].item_cnt > 0
    /\ flash[tgt.page].cell[tgt.off].key = op.key
    /\ flash' = [flash EXCEPT ![tgt.page].cell[tgt.off] = Erased(@)]
    /\ pages' = [pages EXCEPT ![tgt.page].item_cnt = @ - 1]
    /\ pc' = "del_erase"
    /\ UNCHANGED <<header, page_erased, page_active, callVars, restarts>>

\* A full page that has lost its last item is erased.
\* Mutation of Emptied: the page is erased with its last item still live.
EmptiedTooEarly(p) == pages[p].item_cnt <= 1 /\ pages[p].status = "FULL"

Emptied(p) == pages[p].item_cnt = 0 /\ pages[p].status = "FULL"

DeleteErase ==
    /\ pc = "del_erase"
    /\ IF Emptied(tgt.page)
       THEN ErasePage(tgt.page)
       ELSE UNCHANGED <<flash, pages, page_erased>>
    /\ AfterDelete
    /\ UNCHANGED <<header, page_active, op, cur, srch, dst, tgt, ret, restarts>>

-----------------------------------------------------------------------------
(***************************************************************************)
(* st_get_available_page                                                   *)
(***************************************************************************)
Need == HeaderSize + ValLen[op.val]

AllocPage == IF Valid(page_active) THEN page_active ELSE FirstPage(0, "ACTIVE")

UsePage(p) == dst' = p /\ pc' = "put" /\ ret' = "write"

AllocFits ==
    /\ pc = "alloc" /\ Valid(AllocPage) /\ Fits(AllocPage, Need)
    /\ UsePage(AllocPage)
    /\ UNCHANGED <<flashVars, ctxVars, op, cur, srch, tgt, rc, restarts>>

\* No page is active or full: the first erased one is opened.
AllocFirst ==
    /\ pc = "alloc" /\ ~Valid(AllocPage)
    /\ dst' = 0
    /\ pc' = "activate"
    /\ UNCHANGED <<flashVars, ctxVars, op, cur, srch, tgt, ret, rc, restarts>>

NoRoom == pc = "alloc" /\ Valid(AllocPage) /\ ~Fits(AllocPage, Need)

AllocNoRealign ==
    /\ NoRoom /\ page_erased > RealignReserve
    /\ dst' = AllocPage
    /\ pc' = "full"
    /\ UNCHANGED <<flashVars, ctxVars, op, cur, srch, tgt, ret, rc, restarts>>

\* st_realign: of the full pages, the one with the fewest items, the first of
\* these from the active page on.
FullPages == {p \in Pages : pages[p].status = "FULL"}
RealignPage ==
    LET start == IF Valid(page_active) THEN page_active ELSE 0
        least == {p \in FullPages : \A q \in FullPages :
                                        pages[p].item_cnt <= pages[q].item_cnt}
    IN  CHOOSE p \in least : \A q \in least : Distance(start, p) <= Distance(start, q)

AllocRealign ==
    /\ NoRoom /\ page_erased <= RealignReserve
    /\ IF FullPages = {}
       THEN pc' = "copied" /\ UNCHANGED cur
       ELSE pc' = "realign" /\ cur' = [page |-> RealignPage, off |-> 0]
    /\ UNCHANGED <<flashVars, ctxVars, op, srch, dst, tgt, ret, rc, restarts>>

\* After the realign, whether it succeeded or not.
AllocRetry ==
    /\ pc = "copied"
    /\ IF Fits(page_active, Need)
       THEN IF Valid(page_active)
            THEN UsePage(page_active) /\ UNCHANGED rc
            ELSE Finish("error") /\ UNCHANGED <<dst, ret>>
       ELSE dst' = page_active /\ pc' = "full" /\ UNCHANGED <<ret, rc>>
    /\ UNCHANGED <<flashVars, ctxVars, op, cur, srch, tgt, restarts>>

CloseActive ==
    /\ pc = "full"
    /\ SetStatus(dst, "FULL")
    /\ pc' = "activate"
    /\ UNCHANGED <<header, callVars, restarts>>

OpenNew ==
    LET p == FirstPage(dst, "ERASED")
    IN  /\ pc = "activate"
        /\ IF Valid(p)
           THEN SetStatus(p, "ACTIVE") /\ UsePage(p) /\ UNCHANGED rc
           ELSE Finish("error") /\ UNCHANGED <<flash, ctxVars, dst, ret>>
        /\ UNCHANGED <<header, op, cur, srch, tgt, restarts>>

-----------------------------------------------------------------------------
(***************************************************************************)
(* st_page_realign: the items of a full page move to the active page.      *)
(***************************************************************************)
\* Erased items are passed over, and so are those whose CRC byte is 0.
Passed(it) == it.key = NoKey \/ it.val \in ZeroCrc

RealignOffs == {o \in Offsets : /\ cur.off <= o /\ o < pages[cur.page].bytes_used
                                /\ ~Passed(flash[cur.page].cell[o])}
MovedItem == flash[cur.page].cell[FirstOff(RealignOffs)]
Moving == pc = "realign" /\ RealignOffs # {}

\* An item that does not verify is erased in place and no longer counted.
RealignDrop ==
    LET o == FirstOff(RealignOffs)
    IN  /\ Moving /\ MovedItem.val = NoVal
        /\ flash' = [flash EXCEPT ![cur.page].cell[o] = Erased(@)]
        /\ pages' = [pages EXCEPT ![cur.page].item_cnt = IF @ > 0 THEN @ - 1 ELSE 0]
        /\ cur' = [cur EXCEPT !.off = o]
        /\ UNCHANGED <<header, page_erased, page_active, pc, op, srch, dst, tgt, ret, rc, restarts>>

\* The active page has no room: it is marked full, if there is a page to open.
RealignFull ==
    LET p == FirstPage(page_active, "ERASED")
    IN  /\ Moving /\ MovedItem.val # NoVal /\ ~Fits(page_active, Size(MovedItem))
        /\ IF Valid(p)
           THEN /\ SetStatus(page_active, "FULL")
                /\ cur' = [cur EXCEPT !.off = FirstOff(RealignOffs)]
                /\ dst' = p /\ pc' = "open"
           ELSE pc' = "copied" /\ UNCHANGED <<flash, ctxVars, cur, dst>>
        /\ UNCHANGED <<header, op, srch, tgt, ret, rc, restarts>>

RealignOpen ==
    /\ pc = "open"
    /\ SetStatus(dst, "ACTIVE")
    /\ pc' = "put" /\ ret' = "realign"
    /\ UNCHANGED <<header, op, cur, srch, dst, tgt, rc, restarts>>

RealignFits ==
    /\ Moving /\ MovedItem.val # NoVal /\ Fits(page_active, Size(MovedItem))
    /\ dst' = page_active
    /\ pc' = "put" /\ ret' = "realign"
    /\ cur' = [cur EXCEPT !.off = FirstOff(RealignOffs)]
    /\ UNCHANGED <<flashVars, ctxVars, op, srch, tgt, rc, restarts>>

RealignErase ==
    /\ pc = "realign" /\ RealignOffs = {}
    /\ ErasePage(cur.page)
    /\ pc' = "copied"
    /\ UNCHANGED <<header, page_active, callVars, restarts>>

-----------------------------------------------------------------------------
(***************************************************************************)
(* st_page_write_item                                                      *)
(***************************************************************************)
PutItem == IF ret = "realign" THEN flash[cur.page].cell[cur.off]
                              ELSE NewItem(op.key, op.val)

\* The page takes items, and st_page_write accepts the place: an item that
\* would end on the last byte of the page is refused.
PutAllowed ==
    /\ Valid(dst)
    /\ pages[dst].status \in {"ERASED", "ACTIVE"}
    /\ pages[dst].bytes_used + Size(PutItem) < PageContent

AppendItem(pg, off, it) ==
    [status |-> pg.status, used |-> off + Size(it), cell |-> [pg.cell EXCEPT ![off] = it]]

\* The item is stored: it is counted, and the caller goes on.
PutReturns ==
    IF ret = "realign"
    THEN /\ pc' = "realign"
         /\ cur' = [cur EXCEPT !.off = @ + Size(PutItem)]
         /\ UNCHANGED <<tgt, ret, rc>>
    ELSE IF Valid(srch.loc.page)
    THEN pc' = "del" /\ tgt' = srch.loc /\ ret' = "old" /\ UNCHANGED <<cur, rc>>
    ELSE Finish("ok") /\ UNCHANGED <<cur, tgt, ret>>

PutFails ==
    /\ pc = "put" /\ ~PutAllowed
    /\ IF ret = "realign" THEN pc' = "copied" /\ UNCHANGED rc ELSE Finish("error")
    /\ UNCHANGED <<flashVars, ctxVars, op, cur, srch, dst, tgt, ret, restarts>>

\* The place of the item is behind the last one.  (The page is active by now, see
\* Arguments: the code's branch that opens an erased page here is never taken.)
Put ==
    LET used == pages[dst].bytes_used + Size(PutItem)
    IN  /\ pc = "put" /\ PutAllowed
        /\ flash' = [flash EXCEPT ![dst] = AppendItem(@, pages[dst].bytes_used, PutItem)]
        /\ IF PageContent - used < HeaderSize
           THEN /\ pages' = [pages EXCEPT ![dst].bytes_used = used]
                /\ pc' = "put_full"
                /\ UNCHANGED <<page_active, cur, tgt, ret, rc>>
           ELSE /\ pages' = [pages EXCEPT ![dst].bytes_used = used,
                                          ![dst].item_cnt = pages[dst].item_cnt + 1]
                /\ page_active' = IF ret = "write" THEN dst ELSE page_active
                /\ PutReturns
        /\ UNCHANGED <<header, page_erased, op, srch, dst, restarts>>

\* With no room left for another header the page is marked full.
PutFull ==
    /\ pc = "put_full"
    /\ flash' = [flash EXCEPT ![dst].status = Burn(@, "FULL")]
    /\ pages' = [pages EXCEPT ![dst].status = "FULL", ![dst].item_cnt = @ + 1]
    /\ page_active' = NoPage
    /\ PutReturns
    /\ UNCHANGED <<header, page_erased, op, srch, dst, restarts>>

-----------------------------------------------------------------------------
(***************************************************************************)
(* The MCU restarts: RAM is lost, the flash stays.  A write that is cut    *)
(* short leaves a header without its index, or a content without its CRC.  *)
(***************************************************************************)
Restart ==
    /\ pages' = [p \in Pages |-> ZeroPage]
    /\ page_erased' = 0
    /\ page_active' = NoPage
    /\ pc' = "boot"
    /\ op' = NoOp
    /\ cur' = [page |-> 0, off |-> 0]
    /\ srch' = NoSearch
    /\ dst' = NoPage
    /\ tgt' = NoLoc
    /\ ret' = "none"
    /\ rc' = "none"
    /\ restarts < MaxRestarts /\ restarts' = restarts + 1
    /\ UNCHANGED header

Reset == pc = "idle" /\ Restart /\ UNCHANGED flash

PowerLoss == AllowPowerLoss /\ pc \notin {"boot", "idle"} /\ Restart /\ UNCHANGED flash

TornWrite ==
    /\ AllowPowerLoss /\ pc = "put" /\ PutAllowed
    /\ \E k \in {BadKey, PutItem.key} :
          flash' = [flash EXCEPT ![dst] = AppendItem(@, pages[dst].bytes_used,
                       [key |-> k, len |-> PutItem.len, val |-> NoVal])]
    /\ Restart

-----------------------------------------------------------------------------
Boot     == LoadHeader \/ HeaderInit \/ InitErasedPage \/ InitUsedPage
            \/ InitFails \/ EraseAll
Find     == FindSkip \/ FindMatch \/ FindAccept \/ FindPageEnd \/ FindNext
            \/ ReadDone \/ WriteFound
Delete   == DeleteSkip \/ DeleteMismatch \/ DeleteMark \/ DeleteErase
Allocate == AllocFits \/ AllocFirst \/ AllocNoRealign \/ AllocRealign
            \/ AllocRetry \/ CloseActive \/ OpenNew
Realign  == RealignDrop \/ RealignFull \/ RealignOpen \/ RealignFits \/ RealignErase
Write    == PutFails \/ Put \/ PutFull

Step == Boot \/ Find \/ Delete \/ Allocate \/ Realign \/ Write \/ Return
Call == \E k \in Keys : ReadItem(k) \/ \E v \in Vals : WriteItem(k, v)
Fail == Reset \/ PowerLoss \/ TornWrite

Next == Step \/ Call \/ Fail

Spec == Init /\ [][Next]_vars
-----------------------------------------------------------------------------
(***************************************************************************)
(* Properties                                                              *)
(***************************************************************************)
\* The types of the variables.
TypeOK ==
    /\ flash \in [Pages -> FlashPage]
    /\ header \in BOOLEAN
    /\ pages \in [Pages -> RamPage]
    /\ page_erased \in Nat
    /\ page_active \in Pages \cup {NoPage}
    /\ pc \in PCs
    /\ op \in [kind : {"none", "read", "write"}, key : Keys \cup {NoKey},
               val : Vals \cup {NoVal}]
    /\ cur \in [page : Pages, off : Nat]
    /\ srch \in [start : Pages, cnt : Nat, hits : Nat, last : Location,
                 loc : Location, res : Vals \cup {NoVal}]
    /\ dst \in Pages \cup {NoPage}
    /\ tgt \in Location
    /\ ret \in {"none", "accept", "next", "old", "write", "realign"}
    /\ rc \in {"none", "ok", "absent", "error"}
    /\ restarts \in Nat

Loaded == pc \notin {"boot", "format", "scan", "erase_all"}

\* The shape of the data flash: an erased page is blank, and behind its last
\* programmed byte every page is.
FlashShape ==
    \A p \in Pages :
       /\ flash[p].status = "ERASED" => flash[p] = BlankPage
       /\ \A o \in Offsets : flash[p].used <= o => flash[p].cell[o] = Blank

\* What the RAM says of a page is so, from the moment the page has been scanned.
Mirrors(p) ==
    /\ pages[p].bytes_used = flash[p].used
    /\ (pages[p].status = "ERASED") <=> (flash[p].status = "ERASED")
Mirrored ==
    /\ pc \in {"boot", "format"} => cur.page = 0 /\ \A p \in Pages : pages[p] = ZeroPage
    /\ pc = "scan" => \A p \in Pages : IF p < cur.page THEN Mirrors(p)
                                                       ELSE pages[p] = ZeroPage
    /\ pc = "erase_all" =>
          \A p \in Pages : /\ pages[p].status = "ERASED" => Mirrors(p)
                           /\ p < cur.page => pages[p].status = "ERASED"
    /\ Loaded => \A p \in Pages : Mirrors(p)

\* Where the loops and subroutines are entered, their arguments make sense.
Arguments ==
    /\ op.kind = "write" => op.val \in Vals
    /\ pc \in {"find", "accept", "next", "del", "del_erase"} => op.key \in Keys
    /\ pc \in {"alloc", "realign", "open", "copied", "full", "activate", "put", "put_full"}
          => op.kind = "write" /\ op.key \in Keys
    /\ pc \in {"del", "del_erase"} => ret \in {"accept", "next", "old"}
    /\ pc \in {"put", "put_full"} => ret \in {"write", "realign"}
    /\ (\/ pc \in {"accept", "open"}
        \/ pc \in {"del", "del_erase"} /\ ret = "accept"
        \/ pc \in {"put", "put_full"} /\ ret = "realign") => cur.off \in Offsets
    /\ pc = "open" => dst \in Pages
    /\ pc = "put" /\ dst \in Pages => pages[dst].status = "ACTIVE"
    /\ pc = "put_full" => dst \in Pages

\* The inductive invariant.
IInv == TypeOK /\ FlashShape /\ Mirrored /\ Arguments

LiveCopies(p) == {o \in Offsets : Live(flash[p].cell[o])}
Holds(p, o, k) == flash[p].cell[o].key = k /\ flash[p].cell[o].val \in Vals
Copies(k) == {c \in Pages \X Offsets : Holds(c[1], c[2], k)}
Stored(k) == \E p \in Pages : \E o \in Offsets : Holds(p, o, k)

\* Once st_init has run, the RAM's idea of a page agrees with the flash after any
\* sequence of calls, realigns, restarts and torn writes: the next item goes right
\* behind the last programmed byte, and no page is thought to hold more items than
\* it does.  It is thought to hold no fewer either (the item just written to
\* put_full's page is not counted yet), unless it is full and a write can have been
\* torn.
Undercounted(p) == pages[p].item_cnt < Cardinality(LiveCopies(p))
Uncounted(p)    == pc = "put_full" /\ p = dst
Bookkeeping ==
    Loaded =>
      /\ \A p \in Pages :
            /\ pages[p].bytes_used = flash[p].used
            /\ pages[p].item_cnt <= Cardinality(LiveCopies(p))
            /\ Undercounted(p) =>
                  Uncounted(p) \/ (AllowPowerLoss /\ pages[p].status = "FULL")
      /\ page_erased = Cardinality({p \in Pages : pages[p].status = "ERASED"})

\* No call loses a key it was not called for: page erases, realigns and restarts
\* keep a copy of every other key.  There are two exceptions.  EraseAll is one:
\* RestartKeepsKeys.  The other is a deletion from a page that holds more items than
\* it was counted to: a realign that drops a torn item discounts an item the scan
\* never counted, and if it then finds no page to open, the next copy of another key
\* deleted from the page brings its count to 0, and the page is erased.
OtherKeysKept ==
    [][pc # "erase_all" /\ (pc = "del_erase" => ~Undercounted(tgt.page))
       => \A k \in Keys \ {op.key} : Stored(k) => Stored(k)']_flash

\* A call that found exactly one copy of its key leaves the key stored, whatever
\* step of it failed.
SoleCopyKept == pc = "return" /\ srch.cnt = 1 => Stored(op.key)

\* Between two calls a key has one copy.
OneCopy == pc = "idle" => \A k \in Keys : Cardinality(Copies(k)) <= 1

\* The abstract map: the copy being written counts once it is programmed.
Programmed == ret = "old" \/ (ret = "write" /\ pc = "put_full")
AbsStore ==
    [k \in Keys |->
        IF op.kind = "write" /\ op.key = k /\ Programmed THEN op.val
        ELSE IF Stored(k) THEN LET c == CHOOSE c \in Copies(k) : TRUE
                               IN  flash[c[1]].cell[c[2]].val
        ELSE NoVal]
AbsReply ==
    IF pc # "return" THEN <<"none", NoVal>>
    ELSE <<rc, IF op.kind = "read" THEN srch.res ELSE NoVal>>
KV == INSTANCE KVStore WITH store <- AbsStore, call <- op, reply <- AbsReply, NoCall <- NoOp

\* The store is the map it promises to be, as long as no operation is cut short and
\* the erased pages do not run out.
KVSpec == KV!Spec

\* st_write_item: "0-success": what a successful write stored is what a search that
\* starts now finds first.
Behind(p)  == Distance(p, IF Valid(page_active) THEN page_active ELSE 0)
Holding(k) == {p \in Pages : InUse(p) /\ \E o \in LiveCopies(p) : flash[p].cell[o].key = k}
FoundFirst(k) ==
    LET p == CHOOSE p \in Holding(k) : \A q \in Holding(k) : Behind(p) <= Behind(q)
        o == CHOOSE o \in LiveCopies(p) : /\ flash[p].cell[o].key = k
                 /\ \A o2 \in LiveCopies(p) : flash[p].cell[o2].key = k => o2 <= o
    IN  flash[p].cell[o].val
WriteVisible ==
    pc = "return" /\ op.kind = "write" /\ rc = "ok" =>
        Stored(op.key) /\ FoundFirst(op.key) = op.val

\* st_read_item: "(>0)-length(in bytes) of data read": an item that was read is still
\* stored.
ReadKeeps == pc = "return" /\ op.kind = "read" /\ rc = "ok" => Stored(op.key)

\* st_page_scan: "erase page if status is FULL and all item was marked as erased":
\* st_init erases no page that holds an item.
RestartKeepsKeys == [][~Loaded => \A k \in Keys : Stored(k) => Stored(k)']_flash

\* storage.h: "Non-erased key-value pairs are being moved into another page so that
\* the current page can be erased."
RealignMovesAll ==
    [][pc = "realign" => \A k \in Keys : Stored(k) => Stored(k)']_flash
=============================================================================
