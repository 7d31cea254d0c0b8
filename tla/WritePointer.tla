----------------------------- MODULE WritePointer -----------------------------
(***************************************************************************)
(* The walks over the pages of one line: advance_write_pointer fills it,    *)
(* do_gc cleans and erases it.  ConvFtl numbers the pages of a line by the  *)
(* first walk and takes the second as a permutation GcOrder of it with the  *)
(* erase blocks BlkOf; this module is where both come from.                 *)
(*                                                                         *)
(* A page of a line is [ch, lun, pg]: its channel, its die and its page in  *)
(* the block that the line has there.  A block has oneshotpgs_per_blk       *)
(* one-shot pages (the program unit) of pgs_per_oneshotpg pages each, and   *)
(* is read in flash pages of pgs_per_flashpg pages.                         *)
(***************************************************************************)
EXTENDS Integers, Sequences, SequencesExt, FiniteSets

CONSTANT Devices    \* build options and capacities, in pages

\* What ssd_init_params asserts of the options, and that a partition has a page
\* at least.
ASSUME DeviceAssumption ==
    \A c \in Devices :
        /\ {c.NAND_CHANNELS, c.LUNS_PER_NAND_CH, c.nparts, c.FLASH_PAGE, c.ONESHOT_PAGE} \subseteq Nat \ {0}
        /\ {c.BLKS_PER_PLN, c.BLK_SIZE, c.capacity} \subseteq Nat
        /\ c.NAND_CHANNELS % c.nparts = 0 /\ c.ONESHOT_PAGE % c.FLASH_PAGE = 0
        /\ c.BLKS_PER_PLN > 0 \/ c.BLK_SIZE > 0
        /\ c.capacity >= c.nparts

VARIABLES
    spp,        \* the geometry
    wpp,        \* the write pointer, or Used when the line is used up
    cursor,     \* ch, lun and flashpg of do_gc
    filled,     \* the pages written, in order
    cleaned,    \* the pages cleaned, in order
    erased      \* sequence of the blocks erased

wvars == <<spp, wpp, cursor, filled, cleaned, erased>>

DIV_ROUND_UP(a, b) == (a + b - 1) \div b

\* ssd_init_params, one plane per die: either the blocks per plane are given
\* and the capacity makes their size, or the other way round.
ssd_init_params(c) ==
    LET nchs == c.NAND_CHANNELS \div c.nparts
        capacity == c.capacity \div c.nparts
        dies == nchs * c.LUNS_PER_NAND_CH
        blk_size == IF c.BLKS_PER_PLN > 0 THEN DIV_ROUND_UP(capacity, c.BLKS_PER_PLN * dies)
                    ELSE c.BLK_SIZE
        tt_lines == IF c.BLKS_PER_PLN > 0 THEN c.BLKS_PER_PLN
                    ELSE DIV_ROUND_UP(capacity, blk_size * dies)
        oneshotpgs == DIV_ROUND_UP(blk_size, c.ONESHOT_PAGE)
    IN  [nchs |-> nchs, luns_per_ch |-> c.LUNS_PER_NAND_CH,
         pgs_per_oneshotpg |-> c.ONESHOT_PAGE, pgs_per_flashpg |-> c.FLASH_PAGE,
         flashpgs_per_blk |-> (c.ONESHOT_PAGE \div c.FLASH_PAGE) * oneshotpgs,
         pgs_per_blk |-> c.ONESHOT_PAGE * oneshotpgs,
         pgs_per_line |-> dies * c.ONESHOT_PAGE * oneshotpgs,
         tt_lines |-> tt_lines, capacity |-> capacity]

pgs_per_blk == spp.pgs_per_blk
flashpgs_per_blk == spp.flashpgs_per_blk
PagesOfLine == [ch : 0 .. (spp.nchs - 1), lun : 0 .. (spp.luns_per_ch - 1), pg : 0 .. (pgs_per_blk - 1)]
BlkOfPage(p) == <<p.ch, p.lun>>

Used == [ch |-> -1, lun |-> -1, pg |-> -1]
First == [ch |-> 0, lun |-> 0, pg |-> 0]

\* Mutant: channels are striped page by page.
NextPage_striped(w) ==
    CASE w.ch + 1 # spp.nchs -> [w EXCEPT !.ch = @ + 1]
      [] w.ch + 1 = spp.nchs /\ w.lun + 1 # spp.luns_per_ch -> [w EXCEPT !.ch = 0, !.lun = @ + 1]
      [] w.ch + 1 = spp.nchs /\ w.lun + 1 = spp.luns_per_ch ->
            IF w.pg + 1 # pgs_per_blk THEN [ch |-> 0, lun |-> 0, pg |-> w.pg + 1] ELSE Used

\* The body of advance_write_pointer up to the point where the line is used
\* up: the one-shot page, then the channels, the dies, the next wordline.
NextPage(w) ==
    LET pg == w.pg + 1
        base == pg - spp.pgs_per_oneshotpg
    IN  CASE pg % spp.pgs_per_oneshotpg # 0 -> [w EXCEPT !.pg = pg]
          [] pg % spp.pgs_per_oneshotpg = 0 /\ w.ch + 1 # spp.nchs ->
                [w EXCEPT !.pg = base, !.ch = @ + 1]
          [] pg % spp.pgs_per_oneshotpg = 0 /\ w.ch + 1 = spp.nchs ->
                IF w.lun + 1 # spp.luns_per_ch
                THEN [ch |-> 0, lun |-> w.lun + 1, pg |-> base]
                ELSE IF pg # pgs_per_blk THEN [ch |-> 0, lun |-> 0, pg |-> pg] ELSE Used

last_pg_in_wordline(p) == p.pg % spp.pgs_per_oneshotpg = spp.pgs_per_oneshotpg - 1

WInit ==
    /\ \E c \in Devices : spp = ssd_init_params(c)
    /\ wpp = First
    /\ cursor = [flashpg |-> 0, ch |-> 0, lun |-> 0]
    /\ filled = <<>> /\ cleaned = <<>> /\ erased = <<>>

\* get_new_page and advance_write_pointer.
FillPage ==
    /\ wpp # Used
    /\ filled' = Append(filled, wpp)
    /\ wpp' = NextPage(wpp)
    /\ UNCHANGED <<spp, cursor, cleaned, erased>>

\* Mutant: a block is erased when the first wordline has been cleaned.
ErasesAfter_first(flashpg) == flashpg = 0

\* do_gc erases a block after its last flash page.
ErasesAfter(flashpg) == flashpg = flashpgs_per_blk - 1

\* One round of the three loops of do_gc: clean_one_flashpg looks at the
\* pages of one flash page, the last one of a block erases it.
CleanFlashPage ==
    LET pg == cursor.flashpg * spp.pgs_per_flashpg
        page(i) == [ch |-> cursor.ch, lun |-> cursor.lun, pg |-> pg + i - 1]
        lastlun == cursor.lun + 1 = spp.luns_per_ch
        lastch == cursor.ch + 1 = spp.nchs
    IN  /\ wpp = Used
        /\ cursor.flashpg < flashpgs_per_blk
        /\ cleaned' = cleaned \o [i \in 1 .. spp.pgs_per_flashpg |-> page(i)]
        /\ erased' = IF ErasesAfter(cursor.flashpg)
                     THEN Append(erased, <<cursor.ch, cursor.lun>>) ELSE erased
        /\ cursor' = [lun |-> IF lastlun THEN 0 ELSE cursor.lun + 1,
                      ch |-> IF ~lastlun THEN cursor.ch ELSE IF lastch THEN 0 ELSE cursor.ch + 1,
                      flashpg |-> cursor.flashpg + IF lastlun /\ lastch THEN 1 ELSE 0]
        /\ UNCHANGED <<spp, wpp, filled>>

WNext == FillPage \/ CleanFlashPage

-----------------------------------------------------------------------------
NoRepeat(s) == \A i, j \in DOMAIN s : s[i] = s[j] => i = j

\* A line is filled completely and no page of it twice: when the write
\* pointer leaves it, vpc + ipc = pgs_per_line, and tt_lines such lines hold
\* the capacity.  Program units are contiguous: when a page is the last of its
\* wordline, the pgs_per_oneshotpg pages written last are that unit, so that
\* the one NAND_WRITE that conv_write and gc_write_page issue there covers
\* them all.
FillsLine ==
    /\ NoRepeat(filled)
    /\ ToSet(filled) \subseteq PagesOfLine
    /\ wpp = Used => /\ ToSet(filled) = PagesOfLine
                     /\ Len(filled) = spp.pgs_per_line
                     /\ spp.tt_lines * Len(filled) >= spp.capacity
    /\ \A i \in DOMAIN filled :
        last_pg_in_wordline(filled[i]) =>
            /\ i >= spp.pgs_per_oneshotpg
            /\ \A j \in (i - spp.pgs_per_oneshotpg + 1) .. i :
                /\ BlkOfPage(filled[j]) = BlkOfPage(filled[i])
                /\ filled[i].pg - filled[j].pg = i - j

\* Collection looks at every page of the line exactly once, and erases every
\* block exactly once, after it has cleaned all of its pages.
CleansBeforeErase ==
    /\ NoRepeat(cleaned) /\ NoRepeat(erased)
    /\ \A b \in ToSet(erased) : \A p \in PagesOfLine : BlkOfPage(p) = b => p \in ToSet(cleaned)
    /\ cursor.flashpg = flashpgs_per_blk =>
            ToSet(cleaned) = PagesOfLine /\ ToSet(erased) = {BlkOfPage(p) : p \in PagesOfLine}

=============================================================================
