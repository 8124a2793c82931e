----------------------------- MODULE ChunkStore ------------------------------
(***************************************************************************)
(* Where the allocator's chunks come from and go to: huge allocations, the *)
(* store of chunks that were freed, the kernel, and the base allocator,    *)
(* whose nodes describe the extents of the other two.  Threads drop        *)
(* chunks_mtx to allocate a node, which may need a chunk itself.           *)
(* Addresses and sizes are in chunks.  What a thread does outside the      *)
(* locks, giving back a node it did not need included, is joined to the    *)
(* section before.                                                         *)
(***************************************************************************)
EXTENDS Integers, FiniteSets, Functions

CONSTANTS
    Threads,
    Space,          \* the addresses the kernel can map, 0 .. Space - 1
    Sizes, Alignments,
    BaseNodes       \* the nodes that fit in a chunk of the base allocator

VARIABLES
    extents,    \* the store: chunks_szad_mmap and chunks_ad_mmap
    huge,       \* the tree of huge allocations
    base,       \* the base allocator's chunks
    room,       \* the nodes for which there is room in the last of them
    spare,      \* base_nodes: how many nodes it links
    mapped, dirty,  \* addresses that are mapped, and that are not all zero
    curchunks,
    steps,      \* what each thread is doing
    made, lost, miscounted  \* history: nodes made; addresses leaked for want of a node;
                            \* chunks taken off curchunks that were never added

vars == <<extents, huge, base, room, spare, mapped, dirty, curchunks, steps, made, lost, miscounted>>

Extent(addr, size, zeroed) == [addr |-> addr, size |-> size, zeroed |-> zeroed]
Span(e) == e.addr .. e.addr + e.size - 1
End(e) == e.addr + e.size
\* A step: where it is, where it goes on with a node or without (next, have), where chunk_dealloc
\* returns to (back), the chunks it is about, and what is left of an extent behind them.
Idle == [pc |-> "idle", next |-> "none", have |-> FALSE, back |-> "none", size |-> 0, alignment |-> 1,
         addr |-> 0, unzeroed |-> FALSE, trail |-> Extent(0, 0, FALSE)]
Doing(pc, size, addr) == [Idle EXCEPT !.pc = pc, !.size = size, !.addr = addr]
Mapping(w) == [Idle EXCEPT !.pc = "mmap", !.size = w.size, !.alignment = w.alignment]
Goto(t, w) == steps' = [steps EXCEPT ![t] = w]
At(t, pc) == steps[t].pc = pc

AlignmentCeiling(addr, alignment) == alignment * ((addr + alignment - 1) \div alignment)
-----------------------------------------------------------------------------
(* base.c: a node from the list, or from base_pages, or from a new chunk.  *)
(* have says whether the thread has one when it goes on at next.           *)

HasNode(w, have) == [w EXCEPT !.pc = w.next, !.have = have]

PopNode(t) ==
    /\ At(t, "node")
    /\ \/ /\ spare > 0
          /\ spare' = spare - 1
          /\ Goto(t, HasNode(steps[t], TRUE))
       \/ /\ spare = 0
          /\ Goto(t, [steps[t] EXCEPT !.pc = "base"])
          /\ UNCHANGED spare
    /\ UNCHANGED <<extents, huge, base, room, mapped, dirty, curchunks, made, lost, miscounted>>

\* base_alloc, with base_pages_alloc, which takes no chunk from the store.
BaseAlloc(t) ==
    /\ At(t, "base")
    /\ \/ /\ room > 0
          /\ room' = room - 1 /\ made' = made + 1
          /\ Goto(t, HasNode(steps[t], TRUE))
          /\ UNCHANGED <<base, mapped, curchunks>>
       \/ /\ room = 0
          /\ \E a \in (0 .. Space - 1) \ mapped :
                /\ base' = base \union {a} /\ mapped' = mapped \union {a}
                /\ curchunks' = curchunks + 1
          /\ room' = BaseNodes - 1 /\ made' = made + 1
          /\ Goto(t, HasNode(steps[t], TRUE))
       \/ /\ room = 0
          /\ Goto(t, HasNode(steps[t], FALSE))
          /\ UNCHANGED <<base, room, mapped, curchunks, made>>
    /\ UNCHANGED <<extents, huge, spare, dirty, lost, miscounted>>
-----------------------------------------------------------------------------
(* huge_palloc and chunk_alloc.                                            *)

HugePalloc(t, size, alignment) ==
    /\ At(t, "idle")
    /\ Goto(t, [Idle EXCEPT !.pc = "node", !.next = "recycle", !.size = size, !.alignment = alignment])
    /\ UNCHANGED <<extents, huge, base, room, spare, mapped, dirty, curchunks, made, lost, miscounted>>

\* extent_tree_szad_nsearch: the first of these in the order of sizes, then addresses.
Fitting(size, alignment) == {e \in extents : e.size >= size + alignment - 1}
BestFit(es) == CHOOSE e \in es : \A f \in es : e.size < f.size \/ (e.size = f.size /\ e.addr <= f.addr)

\* chunk_recycle, up to where it needs a second node; without a first one there is nothing
\* to do.
Recycle(t) ==
    /\ At(t, "recycle")
    /\ LET w == steps[t]
           es == Fitting(w.size, w.alignment)
           e == BestFit(es)
           addr == AlignmentCeiling(e.addr, w.alignment)
           lead == Extent(e.addr, addr - e.addr, e.zeroed)
           trail == Extent(addr + w.size, End(e) - addr - w.size, e.zeroed)
       IN \/ /\ ~w.have
             /\ Goto(t, Idle)
             /\ UNCHANGED <<extents, spare>>
          \/ /\ w.have /\ es = {}
             /\ Goto(t, Mapping(w))
             /\ UNCHANGED <<extents, spare>>
          \/ /\ w.have /\ es # {} /\ lead.size > 0 /\ trail.size > 0
             /\ extents' = (extents \ {e}) \union {lead}
             /\ Goto(t, [w EXCEPT !.pc = "node", !.next = "trail", !.have = FALSE, !.addr = addr, !.trail = trail])
             /\ UNCHANGED spare
          \/ /\ w.have /\ es # {} /\ (lead.size = 0 \/ trail.size = 0)
             /\ extents' = (extents \ {e}) \union {x \in {lead, trail} : x.size > 0}
             /\ spare' = IF lead.size = 0 /\ trail.size = 0 THEN spare + 1 ELSE spare
             /\ Goto(t, Doing("count", w.size, addr))
    /\ UNCHANGED <<huge, base, room, mapped, dirty, curchunks, made, lost, miscounted>>

\* Its end, with the second node or without.
Trail(t) ==
    /\ At(t, "trail")
    /\ LET w == steps[t]
       IN IF w.have
          THEN /\ extents' = extents \union {w.trail}
               /\ Goto(t, Doing("count", w.size, w.addr))
               /\ UNCHANGED <<lost, miscounted>>
          ELSE /\ lost' = lost \union Span(w.trail)
               /\ miscounted' = miscounted + w.size
               /\ Goto(t, [w EXCEPT !.pc = "dealloc", !.next = "none", !.back = "mmap", !.trail = Idle.trail])
               /\ UNCHANGED extents
    /\ UNCHANGED <<huge, base, room, spare, mapped, dirty, curchunks, made>>

\* chunk_alloc_mmap: what the kernel maps is trimmed to what is aligned.
Mmap(t) ==
    /\ At(t, "mmap")
    /\ LET w == steps[t]
           range(a) == Span(Doing("count", w.size, a))
       IN \/ \E a \in {b \in 0 .. Space - w.size : b % w.alignment = 0 /\ range(b) \intersect mapped = {}} :
                /\ mapped' = mapped \union range(a)
                /\ Goto(t, Doing("count", w.size, a))
                /\ UNCHANGED spare
          \/ /\ spare' = spare + 1
             /\ Goto(t, Idle)
             /\ UNCHANGED mapped
    /\ UNCHANGED <<extents, huge, base, room, dirty, curchunks, made, lost, miscounted>>

Count(t) ==
    /\ At(t, "count")
    /\ curchunks' = curchunks + steps[t].size
    /\ Goto(t, Doing("insert", steps[t].size, steps[t].addr))
    /\ UNCHANGED <<extents, huge, base, room, spare, mapped, dirty, made, lost, miscounted>>

\* The end of huge_palloc; the program writes to the memory.
Insert(t) ==
    /\ At(t, "insert")
    /\ LET h == [addr |-> steps[t].addr, size |-> steps[t].size]
       IN huge' = huge \union {h} /\ dirty' = dirty \union Span(h)
    /\ Goto(t, Idle)
    /\ UNCHANGED <<extents, base, room, spare, mapped, curchunks, made, lost, miscounted>>
-----------------------------------------------------------------------------
(* huge_dalloc and chunk_dealloc.                                          *)

HugeDalloc(t, h) ==
    /\ At(t, "idle")
    /\ huge' = huge \ {h}
    /\ Goto(t, [Doing("dealloc", h.size, h.addr) EXCEPT !.back = "idle"])
    /\ UNCHANGED <<extents, base, room, spare, mapped, dirty, curchunks, made, lost, miscounted>>

\* chunk_dealloc, and the purge at the start of chunk_record, which the kernel may refuse.
Dealloc(t) ==
    /\ At(t, "dealloc")
    /\ curchunks' = curchunks - steps[t].size
    /\ \E unzeroed \in BOOLEAN :
        /\ dirty' = IF unzeroed THEN dirty ELSE dirty \ Span(steps[t])
        /\ Goto(t, [steps[t] EXCEPT !.pc = "node", !.next = "record", !.unzeroed = unzeroed])
    /\ UNCHANGED <<extents, huge, base, room, spare, mapped, made, lost, miscounted>>

\* Mutant: a chunk that one half of is zero is taken for zero.
ZeroedEither(x, y) == x.zeroed \/ y.zeroed
ZeroedBoth(x, y) == x.zeroed /\ y.zeroed
Joined(x, y) == Extent(x.addr, x.size + y.size, ZeroedBoth(x, y))

One(P) == IF P THEN 1 ELSE 0

\* chunk_record from where it locks.  after and before have the neighbours in the store, if
\* any; nodes that are not needed go back.
Record(t) ==
    /\ At(t, "record")
    /\ LET w == steps[t]
           x == Extent(w.addr, w.size, ~w.unzeroed)
           after == {e \in extents : e.addr = End(x)}
           before == {e \in extents : End(e) = x.addr}
           node == IF after = {} THEN x ELSE Joined(x, BestFit(after))
           leaks == after = {} /\ ~w.have
           isHuge == w.back = "idle"
       IN /\ IF leaks
             THEN lost' = lost \union Span(x) /\ UNCHANGED extents
             ELSE /\ extents' = (extents \ (after \union before))
                        \union {IF before = {} THEN node ELSE Joined(BestFit(before), node)}
                  /\ UNCHANGED lost
          /\ spare' = spare + One(w.have /\ after # {}) + One(~leaks /\ before # {}) + One(isHuge)
          /\ Goto(t, IF isHuge THEN Idle ELSE Mapping(w))
    /\ UNCHANGED <<huge, base, room, mapped, dirty, curchunks, made, miscounted>>

Init ==
    /\ extents = {} /\ huge = {} /\ base = {} /\ room = 0 /\ spare = 0
    /\ mapped = {} /\ dirty = {} /\ curchunks = 0
    /\ steps = [t \in Threads |-> Idle]
    /\ made = 0 /\ lost = {} /\ miscounted = 0

Next ==
    \E t \in Threads :
        \/ \E size \in Sizes, alignment \in Alignments : HugePalloc(t, size, alignment)
        \/ PopNode(t) \/ BaseAlloc(t) \/ Recycle(t) \/ Trail(t) \/ Mmap(t) \/ Count(t) \/ Insert(t)
        \/ \E h \in huge : HugeDalloc(t, h)
        \/ Dealloc(t) \/ Record(t)
-----------------------------------------------------------------------------
Work == [pc : {"idle", "node", "base", "recycle", "trail", "mmap", "count", "insert", "dealloc", "record"},
         next : {"none", "recycle", "trail", "record"}, have : BOOLEAN, back : {"none", "idle", "mmap"},
         size : Nat, alignment : Nat \ {0}, addr : Nat, unzeroed : BOOLEAN,
         trail : [addr : Nat, size : Nat, zeroed : BOOLEAN]]

TypeOK ==
    /\ extents \subseteq [addr : Nat, size : Nat \ {0}, zeroed : BOOLEAN]
    /\ huge \subseteq [addr : Nat, size : Sizes]
    /\ mapped \union dirty \subseteq 0 .. Space - 1
    /\ room \in 0 .. BaseNodes - 1 /\ {spare, made, miscounted} \subseteq Nat /\ curchunks \in Int
    /\ steps \in [Threads -> Work]

Spans(es) == UNION {Span(e) : e \in es}

\* What a thread has in its hands: memory, nodes, and chunks that are counted.
InHand(w) ==
    CASE w.pc \in {"count", "insert", "dealloc"} \/ w.next = "record" -> Span(w)
      [] w.next = "trail" -> Span(w) \union Span(w.trail)
      [] OTHER -> {}
NodesInHand(w) == IF w.pc = "idle" THEN 0 ELSE One(w.have) + One(w.next # "recycle")
CountedInHand(w) == IF w.pc \in {"insert", "dealloc"} THEN Span(w) ELSE {}

Hands == UNION {InHand(steps[t]) : t \in Threads}
Counted == base \union Spans(huge) \union UNION {CountedInHand(steps[t]) : t \in Threads}

Places == <<base, lost, Spans(extents), Spans(huge), Hands>>
Apart(es) == \A e, f \in es : e # f => Span(e) \intersect Span(f) = {}

\* Every mapped address is in one place: the base allocator's, lost where a node could not be had,
\* stored, in use, or in the hands of one thread; so is every node.  What is stored as
\* zero is zero, and curchunks is right but for what a failed chunk_recycle takes off it.
ChunksConserved ==
    /\ UNION {Places[i] : i \in 1 .. 5} = mapped
    /\ \A i, j \in 1 .. 5 : i # j => Places[i] \intersect Places[j] = {}
    /\ Apart(extents) /\ Apart(huge)
    /\ \A t, u \in Threads : t # u => InHand(steps[t]) \intersect InHand(steps[u]) = {}
    /\ Cardinality(extents) + Cardinality(huge) + spare
        + SumFunctionOnSet([t \in Threads |-> NodesInHand(steps[t])], Threads) = made
    /\ \A e \in extents : e.zeroed => Span(e) \intersect dirty = {}
    /\ curchunks + miscounted = Cardinality(Counted)
=============================================================================
