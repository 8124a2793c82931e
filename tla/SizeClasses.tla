----------------------------- MODULE SizeClasses -----------------------------
(***************************************************************************)
(* The arithmetic between a request and what the allocator sets aside for  *)
(* it: size classes, usable sizes, the layout of a chunk's header and of a *)
(* run, and the index of a region from its address.  The figures are those *)
(* of a 64-bit build, except for the width of size_t, at which sums and    *)
(* products wrap around.                                                   *)
(***************************************************************************)
EXTENDS Integers, FiniteSets, FiniteSetsExt, Sequences, SequencesExt

CONSTANTS
    SizeBits,   \* the width of size_t
    LgChunks,   \* settings of opt_lg_chunk
    Quanta,     \* LG_QUANTUM and LG_PAGE of the tables that can be built
    Products    \* the operands of calloc are below it, at the width that it needs

VARIABLE request

vars == <<request>>

LgPage == 12
PAGE == 2 ^ LgPage
SIZE_T == 2 ^ SizeBits
LG_TINY_MIN == 3
LG_RUN_MAXREGS == 11
REDZONE_MINSIZE == 16

\* Unsigned, as all that follows.
Ceiling(s, unit) == (((s + unit - 1) % SIZE_T) \div unit) * unit
ffs(n) == CHOOSE i \in 1 .. SizeBits + 1 : n % 2 ^ i # 0 /\ n % 2 ^ (i - 1) = 0
IsPowerOf2(n) == n # 0 /\ n = 2 ^ (ffs(n) - 1)
-----------------------------------------------------------------------------
\* The table of sizes: tiny ones, multiples of the quantum, then four in each doubling.
SIZE_CLASSES(lgQuantum, lgPage) ==
    LET tiny == [k \in 1 .. lgQuantum - LG_TINY_MIN |-> 2 ^ (LG_TINY_MIN + k - 1)]
        quanta == [i \in 1 .. 8 |-> 2 ^ lgQuantum * i]
        doublings == [k \in 1 .. lgPage - lgQuantum |-> [i \in 1 .. 4 |-> 2 ^ (lgQuantum + k) * (4 + i)]]
        Small(n) == n < 2 ^ lgPage
    IN SelectSeq(tiny \o quanta \o FlattenSeq(doublings), Small)

\* small_size2bin, each class as often as eight goes into its distance from the one below it.
small_size2bin(classes) ==
    FlattenSeq([b \in DOMAIN classes |->
        [k \in 1 .. (classes[b] - (IF b = 1 THEN 0 ELSE classes[b - 1])) \div 8 |-> b]])
SMALL_SIZE2BIN(table, s) == table[(s - 1) \div 2 ^ LG_TINY_MIN + 1]

Classes == SIZE_CLASSES(4, LgPage)
Table == small_size2bin(Classes)
SMALL_MAXCLASS == Last(Classes)

\* arena_boot.
MapBias(lgChunk) ==
    LET header(bias) == 48 + 24 * (2 ^ (lgChunk - LgPage) - bias)
        Refine(bias, i) == Ceiling(header(bias), PAGE) \div PAGE
    IN FoldLeft(Refine, 0, <<1, 2, 3>>)
arena_maxclass(lgChunk) == 2 ^ lgChunk - MapBias(lgChunk) * PAGE

s2u(size, lgChunk) ==
    IF size <= SMALL_MAXCLASS THEN Classes[SMALL_SIZE2BIN(Table, size)]
    ELSE IF size <= arena_maxclass(lgChunk) THEN Ceiling(size, PAGE)
    ELSE Ceiling(size, 2 ^ lgChunk)

\* 0 where it overflows.
sa2u(size, alignment, lgChunk) ==
    LET aligned == Ceiling(size, alignment)
        pages == Ceiling(size, PAGE)
        permanent == Ceiling(alignment, PAGE)
        run_size == (pages + permanent - PAGE) % SIZE_T
    IN IF aligned < size THEN 0
       ELSE IF aligned <= arena_maxclass(lgChunk) /\ alignment <= PAGE
            THEN IF aligned <= SMALL_MAXCLASS THEN Classes[SMALL_SIZE2BIN(Table, aligned)]
                 ELSE Ceiling(aligned, PAGE)
       ELSE IF pages < size \/ (pages + permanent) % SIZE_T < pages THEN 0
       ELSE IF run_size <= arena_maxclass(lgChunk) THEN pages
       ELSE Ceiling(pages, 2 ^ lgChunk)

\* imemalign's result and, in ipalloct, who serves it.
imemalign(alignment, size, min_alignment, lgChunk) ==
    LET usize == sa2u(IF size = 0 THEN 1 ELSE size, alignment, lgChunk)
    IN IF ~IsPowerOf2(alignment) \/ alignment < min_alignment THEN [ret |-> "EINVAL"]
       ELSE IF usize = 0 THEN [ret |-> "ENOMEM"]
       ELSE [ret |-> "ok", usize |-> usize,
             by |-> IF usize <= arena_maxclass(lgChunk)
                    THEN IF alignment <= PAGE THEN "arena_malloc" ELSE "arena_palloc"
                    ELSE IF alignment <= 2 ^ lgChunk THEN "huge_malloc" ELSE "huge_palloc"]

\* je_calloc at a width of 2 * half bits: 0 where it gives up.
CallocSize(num, size, half) ==
    LET num_size == (num * size) % 2 ^ (2 * half)
    IN IF num_size = 0 THEN IF num = 0 \/ size = 0 THEN 1 ELSE 0
       ELSE IF (num >= 2 ^ half \/ size >= 2 ^ half) /\ num_size \div size # num THEN 0
       ELSE num_size
-----------------------------------------------------------------------------
(* bin_info_run_size_calc.                                                 *)

RECURSIVE BitmapGroups(_)
BitmapGroups(nbits) ==
    LET c == (nbits + 63) \div 64 IN c + (IF c > 1 THEN BitmapGroups(c) ELSE 0)
HdrSize(nregs) == 16 + 8 * BitmapGroups(nregs)

AlignMin(reg_size) == 2 ^ (ffs(reg_size) - 1)
RedzoneSize(reg_size, opt_redzone) ==
    IF ~opt_redzone THEN 0 ELSE Max({REDZONE_MINSIZE, AlignMin(reg_size) \div 2})
\* Mutant: the redzones alone.
Unpadded(reg_size, opt_redzone) == 0
PadSize(reg_size, opt_redzone) ==
    IF opt_redzone /\ AlignMin(reg_size) > REDZONE_MINSIZE THEN RedzoneSize(reg_size, opt_redzone) ELSE 0

\* As many regions as leave room for the header.
Try(run_size, room, interval, pad) ==
    LET most == Min({room \div interval, 2 ^ LG_RUN_MAXREGS})
        redzone0(n) == run_size - n * interval - pad
        fewer == CHOOSE d \in 0 .. most :
                    /\ HdrSize(most - d) <= redzone0(most - d)
                    /\ \A e \in 0 .. d - 1 : HdrSize(most - e) > redzone0(most - e)
    IN [run_size |-> run_size, nregs |-> most - fewer, redzone0 |-> redzone0(most - fewer)]

\* The expansion loop keeps what it tried before the settings that end it.
bin_info_run_size_calc(reg_size, opt_redzone, min_run_size, maxclass) ==
    LET redzone == RedzoneSize(reg_size, opt_redzone)
        pad == PadSize(reg_size, opt_redzone)
        interval == reg_size + 2 * redzone
        tried(k) ==
            LET run_size == min_run_size + k * PAGE
            IN Try(run_size, run_size - 16 - (IF k = 0 THEN 0 ELSE pad), interval, pad)
        Expands(k) ==
            LET try == tried(k)
            IN /\ try.run_size <= maxclass
               /\ 61 * (interval * 8) > 6144
               /\ try.redzone0 * 2 ^ 12 > 61 * try.run_size
               /\ try.nregs < 2 ^ LG_RUN_MAXREGS
        good == tried(CHOOSE k \in 0 .. maxclass \div PAGE :
                        ~Expands(k + 1) /\ \A j \in 1 .. k : Expands(j))
    IN [reg_size |-> reg_size, redzone_size |-> redzone, reg_interval |-> interval, pad |-> pad,
        run_size |-> good.run_size, nregs |-> good.nregs, reg0_offset |-> good.redzone0 + redzone]

\* arena_run_regind for the distance of a pointer from the first region: a multiplication with an
\* inverse takes the place of the division, here in two parts that stay below 2^31.
arena_run_regind(distance, reg_interval) ==
    LET unit == AlignMin(reg_interval)
        diff == distance \div unit
        interval == reg_interval \div unit
        inv == 2 ^ 21 \div interval + 1
    IN IF interval = 1 THEN diff
       ELSE IF interval <= 31
            THEN LET upper == diff * (inv \div 2 ^ 10) + (diff * (inv % 2 ^ 10)) \div 2 ^ 10
                 IN (upper % 2 ^ 22) \div 2 ^ 11
       ELSE diff \div interval
-----------------------------------------------------------------------------
(* A state is a request.                                                   *)

Near(S) == UNION {{n - 1, n, n + 1} : n \in S}
Sizes ==
    Near(Range(Classes)
         \union {k * PAGE : k \in 1 .. 3} \union {SIZE_T \div 2, SIZE_T - PAGE}
         \union UNION {{arena_maxclass(c), 2 ^ c - PAGE, 2 ^ c, 2 * 2 ^ c, SIZE_T - 2 ^ c} : c \in LgChunks})
    \union {0, 1, SIZE_T - 1}

AskChunk == \E c \in LgChunks : request' = [kind |-> "chunk", lg |-> c]
AskTable == \E q \in Quanta : request' = [kind |-> "table", quantum |-> q[1], page |-> q[2]]
AskMalloc == \E size \in Sizes \ {0}, c \in LgChunks : request' = [kind |-> "malloc", size |-> size, lg |-> c]
AskAligned ==
    \E size \in Sizes, alignment \in {2 ^ k : k \in 0 .. SizeBits - 1} \union {0, 24}, c \in LgChunks :
        request' = [kind |-> "aligned", size |-> size, alignment |-> alignment, lg |-> c]
AskCalloc ==
    \E num \in 0 .. Products - 1, size \in 0 .. Products - 1 :
        request' = [kind |-> "calloc", num |-> num, size |-> size]

\* bin_info_init: each bin's runs are at least as large as those of the bin before.
BinInfo(bin, opt_redzone, lg, prev_run_size) ==
    request' = [kind |-> "bin", bin |-> bin, redzone |-> opt_redzone, lg |-> lg, least |-> prev_run_size,
                info |-> bin_info_run_size_calc(Classes[bin], opt_redzone, prev_run_size, arena_maxclass(lg))]
AskBin == \E opt_redzone \in BOOLEAN, c \in LgChunks : BinInfo(1, opt_redzone, c, PAGE)
NextBin ==
    /\ request.kind = "bin" /\ request.bin < Len(Classes)
    /\ BinInfo(request.bin + 1, request.redzone, request.lg, request.info.run_size)

Init == request = [kind |-> "none"]
Next ==
    \/ request.kind = "none" /\ (AskChunk \/ AskTable \/ AskMalloc \/ AskAligned \/ AskCalloc \/ AskBin)
    \/ NextBin
-----------------------------------------------------------------------------
TypeOK == request.kind \in {"none", "chunk", "table", "malloc", "aligned", "calloc", "bin"}

\* The usable sizes, each one at least as large as the one before.
IsUsable(n, lgChunk) ==
    \/ n \in Range(Classes)
    \/ n % PAGE = 0 /\ n <= arena_maxclass(lgChunk)
    \/ n % 2 ^ lgChunk = 0

ChunkFits(lg) ==
    LET bias == MapBias(lg) IN bias > 0 /\ 48 + 24 * (2 ^ (lg - LgPage) - bias) <= bias * PAGE

TableRoundsUp(classes) ==
    LET table == small_size2bin(classes)
    IN \A b \in DOMAIN classes :
        /\ SMALL_SIZE2BIN(table, classes[b]) = b
        /\ b > 1 => SMALL_SIZE2BIN(table, classes[b - 1] + 1) = b
        /\ classes[b] % 8 = 0

\* A request is refused where its size, rounded up, is no size_t, and gets the next usable size
\* otherwise.
MallocFits(size, lg) ==
    LET usize == s2u(size, lg)
    IN /\ usize = 0 <=> size > SIZE_T - 2 ^ lg
       /\ usize # 0 => IsUsable(usize, lg) /\ usize >= size /\ usize = s2u(usize, lg)
       /\ usize \in Range(Classes) => \A n \in Range(Classes) : n >= size => n >= usize

AlignedFits(size, alignment, lg) ==
    LET r == imemalign(alignment, size, 8, lg)
    IN /\ r.ret = "EINVAL" <=> alignment \notin {2 ^ k : k \in 3 .. SizeBits - 1}
       /\ r.ret = "ENOMEM" => size + alignment > SIZE_T - 2 ^ lg
       /\ r.ret = "ok" =>
            /\ r.usize >= size /\ IsUsable(r.usize, lg) /\ sa2u(r.usize, alignment, lg) = r.usize
            /\ r.by = "arena_malloc" /\ r.usize <= SMALL_MAXCLASS => AlignMin(r.usize) >= alignment
            /\ r.by = "arena_palloc" => r.usize + alignment - PAGE <= arena_maxclass(lg)

CallocFits(num, size) ==
    LET half == CHOOSE h \in 1 .. SizeBits : 2 ^ (2 * h) = Products
        n == CallocSize(num, size, half)
    IN IF num * size >= Products THEN n = 0 ELSE n = Max({1, num * size})

\* What bin_info_run_size_calc is to meet, and that the regions lie in the run, aligned as their
\* size says, beside the header, and are told apart by their addresses.
BinFits(b, min_run_size, lg) ==
    /\ b.run_size >= min_run_size /\ b.run_size <= arena_maxclass(lg) /\ b.run_size % PAGE = 0
    /\ b.nregs \in 1 .. 2 ^ LG_RUN_MAXREGS
    /\ HdrSize(b.nregs) <= b.reg0_offset - b.redzone_size
    /\ b.reg0_offset - b.redzone_size + b.nregs * b.reg_interval + b.pad = b.run_size
    /\ b.reg0_offset % AlignMin(b.reg_size) = 0 /\ b.reg_interval % AlignMin(b.reg_size) = 0
    /\ \A k \in 0 .. b.nregs - 1 : arena_run_regind(k * b.reg_interval, b.reg_interval) = k

RequestsFit ==
    CASE request.kind = "none" -> TRUE
      [] request.kind = "chunk" -> ChunkFits(request.lg)
      [] request.kind = "table" -> TableRoundsUp(SIZE_CLASSES(request.quantum, request.page))
      [] request.kind = "malloc" -> MallocFits(request.size, request.lg)
      [] request.kind = "aligned" -> AlignedFits(request.size, request.alignment, request.lg)
      [] request.kind = "calloc" -> CallocFits(request.num, request.size)
      [] request.kind = "bin" -> BinFits(request.info, request.least, request.lg)
=============================================================================
