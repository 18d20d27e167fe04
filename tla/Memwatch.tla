------------------------------ MODULE Memwatch ------------------------------
(***************************************************************************)
(* The memory debugger memwatch.c: every block it hands out has a header   *)
(* in a doubly linked chain, guarded by a checksum, and a zone of known    *)
(* bytes at each end; freed blocks may stay in the chain as no-mans-land.  *)
(* The program that uses it may also overwrite what is not its own.        *)
(*                                                                         *)
(* A block is known by its address; the zones, the checksum and the filling*)
(* of no-mans-land are whole or not.  The texts, and the counters that are *)
(* only printed, are left out: `said' holds the kinds of message of the    *)
(* last call.  Marks and the records of the statistics take no place.      *)
(***************************************************************************)
EXTENDS Integers, Sequences, FiniteSets, Functions, Folds

CONSTANTS Addrs,     \* places of memory, one block or one grabbed kilobyte each
          Null, Junk,\* no address, and an address no access survives
          Sizes,     \* sizes asked for; from Wrap on a size and its zones overflow
          Wrap, Files,
          Limits,    \* arguments of mwLimit; 0 is no limit
          GrabSize,  \* the size of a grabbed kilobyte
          Recent,    \* MW_FREE_LIST
          Budgets    \* how many calls a behaviour has of those that handle blocks
                     \* or end memwatch (calls) and of the others (side), and how
                     \* often the program overwrites what is not its own (hits)

ASSUME MemwatchAssumption == /\ Null \notin Addrs \cup Files /\ Junk \notin Addrs /\ Null # Junk
                             /\ Sizes \subseteq Nat \ {0} /\ Recent \in Nat \ {0}

VARIABLES mw,     \* what memwatch keeps: memory, chain, counters, settings
          owned,  \* the blocks the program has and has not freed
          lost,   \* the number of blocks that were never freed when memwatch ended
          hits,   \* the damage done so far: what was hit, and of which block
          left,   \* what is left of the budget
          lastCall \* the last call: its name, the block and the size it was given
memvars == <<mw, owned, lost, hits, left, lastCall>>

Safe(p) == p \in Addrs      \* mwIsSafeAddr, mwIsReadAddr
Bad == {"prev", "next", "header"}

\* Memory that was freed: mwFree fills it with MW_VAL_DEL, whose bits also
\* read as the no-mans-land flag.
Deleted == [used |-> FALSE, prev |-> Junk, next |-> Junk, size |-> 0, real |-> 0, file |-> Junk,
            sum |-> FALSE, nml |-> TRUE, under |-> FALSE, over |-> FALSE, clean |-> FALSE]

\* With `lock' the build has a mutex that a thread may not lock twice.
Started(lock) ==
    [mem |-> [a \in Addrs |-> Deleted], head |-> Null, tail |-> Null, inits |-> 0,
     num |-> 0, cur |-> 0, max |-> 0, nmlNum |-> 0, nmlCur |-> 0,
     stat |-> [f \in Files |-> 0], limit |-> 0, useLimit |-> FALSE, nml |-> 0,
     always |-> FALSE, atexit |-> FALSE, flags |-> {}, grabs |-> <<>>,
     recent |-> [i \in 0 .. Recent - 1 |-> Null], at |-> 0, marks |-> [a \in Addrs |-> 0],
     lock |-> lock, locked |-> FALSE, said |-> {}, ret |-> Null, status |-> "run"]

MemInit == /\ \E lock \in BOOLEAN : mw = Started(lock)
           /\ owned = {} /\ lost = 0 /\ hits = {} /\ left \in Budgets
           /\ lastCall = [op |-> "none", p |-> Null, size |-> 0]

Running(s) == s.status = "run"
Say(s, kind) == [s EXCEPT !.said = @ \cup {kind}]
Stop(s, how) == IF Running(s) THEN [s EXCEPT !.status = how] ELSE s
Ret(s, r) == [s EXCEPT !.ret = r]
Lock(s) == IF ~s.lock THEN s ELSE IF s.locked THEN Stop(s, "deadlock") ELSE [s EXCEPT !.locked = TRUE]
Unlock(s) == IF Running(s) THEN [s EXCEPT !.locked = FALSE] ELSE s

\* The first call starts memwatch; the counters of a former use start again,
\* except the number of blocks.
mwAutoInit(s) ==
    IF s.inits > 0 THEN s
    ELSE [s EXCEPT !.inits = 1, !.atexit = TRUE, !.cur = 0, !.max = 0, !.nmlNum = 0, !.nmlCur = 0,
                   !.stat = [f \in Files |-> 0]]
mwInit(s) == [mwAutoInit(s) EXCEPT !.inits = s.inits + 1, !.atexit = s.atexit]

(***************************************************************************)
(* The chain.                                                              *)
(***************************************************************************)
\* The blocks met from m on along a link, up to a wrong pointer or to one
\* that was met already.
RECURSIVE Walk(_, _, _, _)
Walk(s, m, link, met) ==
    IF Safe(m) /\ m \notin met
    THEN <<m>> \o Walk(s, s.mem[m][link], link, met \cup {m})
    ELSE <<>>

Chain(s) == Walk(s, s.head, "next", {})
InChain(s) == Range(Chain(s))
EndOf(s) == IF Chain(s) = <<>> THEN s.head ELSE s.mem[Chain(s)[Len(Chain(s))]].next

\* The neighbours of m point back to it.
PrevOK(s, m, p) == p # Null => Safe(p) /\ m # s.head /\ s.mem[p].next = m
NextOK(s, m, n) == IF n = Null THEN m = s.tail
                   ELSE Safe(n) /\ m # s.tail /\ s.mem[n].prev = m
LinksOK(s, m) == PrevOK(s, m, s.mem[m].prev) /\ NextOK(s, m, s.mem[m].next)

\* a = Null asks for the chain alone.
mwIsHeapOK(s, a) == /\ s.head = Null \/ Safe(s.head)
                    /\ \A m \in InChain(s) : LinksOK(s, m)
                    /\ a # Null => a \in InChain(s)

\* A neighbour that does not point back keeps its link.
Unlinked(s, a, from, end, link, to) ==
    IF from = Null THEN [s EXCEPT ![end] = to]
    ELSE IF ~Safe(from) THEN Stop(s, "fault")
    ELSE IF s.mem[from][link] # a THEN Say(s, "internal")
    ELSE [s EXCEPT !.mem[from][link] = to]

mwUnlink(s, a) ==
    Unlinked(Unlinked(s, a, s.mem[a].prev, "head", "next", s.mem[a].next),
             a, s.mem[a].next, "tail", "prev", s.mem[a].prev)

\* Memory given back without being filled keeps what it held, but for the
\* links, over which the allocator writes; to give it back twice is fatal.
GiveBack(s, a) ==
    IF ~s.mem[a].used THEN Stop(s, "fault")
    ELSE IF Running(s) THEN [s EXCEPT !.mem[a].used = FALSE, !.mem[a].prev = Junk, !.mem[a].next = Junk]
    ELSE s

(***************************************************************************)
(* Repair.  A result has the state and whether the repair succeeded.       *)
(***************************************************************************)
Result(s, ok) == [s |-> s, ok |-> ok]

\* The end of every repair: the chain must be whole, and is then compared with
\* the number of allocations, in which no-mans-land does not count.
VerifyOK(s, a) ==
    IF ~mwIsHeapOK(s, Null) THEN Result(Stop(s, "aborted"), FALSE)
    ELSE IF Len(Chain(s)) # s.num THEN Result(Say(s, "partial"), FALSE)
    ELSE IF FoldFunction(+, 0, [i \in DOMAIN Chain(s) |-> s.mem[Chain(s)[i]].size]) = s.cur
    THEN Result(s, TRUE)
    ELSE Result([s EXCEPT !.mem[a].size = 0, !.mem[a].sum = @ /\ s.mem[a].size = 0], TRUE)

EmergencyJoin(s, a, m1, m2) ==
    IF m1 = Null /\ m2 = Null /\ s.mem[s.head].prev = Null /\ s.mem[s.tail].next = Null
    THEN VerifyOK(s, a)
    ELSE IF m1 # Null /\ m2 # Null /\ m1 # m2
    THEN VerifyOK([s EXCEPT !.mem[m1].next = m2, !.mem[m2].prev = m1], a)
    ELSE Result(Stop(s, "aborted"), FALSE)

\* h and t: head and tail when their headers are whole.  m1 and m2: where the
\* scans from them stop, which is the first block that has a neighbour, since
\* the negated checksum they compare is never that of the other block.
EmergencyFrom(s, a, h, t, m1, m2) ==
    IF h = Null /\ t = Null THEN Result(Stop(s, "aborted"), FALSE)
    ELSE IF Null \in {h, t} /\ m1 = Null /\ m2 = Null THEN Result(Stop(s, "fault"), FALSE)
    ELSE IF h = Null THEN EmergencyJoin([s EXCEPT !.head = m2, !.mem[m2].prev = Null], a, Null, Null)
    ELSE IF t = Null THEN EmergencyJoin([s EXCEPT !.tail = m1, !.mem[m1].next = Null], a, Null, Null)
    ELSE EmergencyJoin(s, a, m1, m2)

Intact(s, e) == IF ~Safe(e) THEN Null ELSE IF s.mem[e].sum THEN e ELSE Null
LastIntact(s, e, link) == IF e = Null THEN Null ELSE IF s.mem[e][link] # Null THEN e ELSE Null

Emergency(s, a) ==
    IF s.head = Null /\ s.tail = Null THEN Result(s, FALSE)
    ELSE EmergencyFrom(s, a, Intact(s, s.head), Intact(s, s.tail),
                       LastIntact(s, Intact(s, s.head), "next"),
                       LastIntact(s, Intact(s, s.tail), "prev"))

\* Places of the walk w whose link leads to a, and those whose neighbour does
\* not point back.
LeadTo(s, w, a, link) == {i \in DOMAIN w : s.mem[w[i]][link] = a}
Torn(s, w, a, link, back) ==
    {i \in DOMAIN w : /\ s.mem[w[i]][link] \notin {Null, a}
                      /\ Safe(s.mem[w[i]][link]) => s.mem[s.mem[w[i]][link]][back] # w[i]}
First(S) == CHOOSE i \in S : \A j \in S : i <= j

\* One direction of a repair: the block whose link leads to a becomes the
\* neighbour of a on the other side; a broken link on the way is an emergency.
Scanned(s, a, w, lead, torn, back) ==
    IF \E i \in torn : \A j \in lead : i < j THEN [s |-> s, found |-> "torn"]
    ELSE IF lead = {} THEN [s |-> s, found |-> "no"]
    ELSE [s |-> [s EXCEPT !.mem[a][back] = w[First(lead)]], found |-> "yes"]

ScanOf(s, a, w, link, back) == Scanned(s, a, w, LeadTo(s, w, a, link), Torn(s, w, a, link, back), back)
Scan(s, a, end, link, back) ==
    IF end = a THEN [s |-> [s EXCEPT !.mem[a][back] = Null], found |-> "yes"]
    ELSE IF ~Safe(end) THEN [s |-> s, found |-> "torn"]
    ELSE ScanOf(s, a, Walk(s, end, link, {}), link, back)

\* A block that neither direction finds is taken for garbage, yet the result
\* is that of the comparison.
RelinkedBack(f, r, a) ==
    IF r.found = "torn" THEN Emergency(f.s, a)
    ELSE IF f.found = "no" /\ r.found = "no" THEN VerifyOK(r.s, a)
    ELSE VerifyOK([r.s EXCEPT !.mem[a].sum = TRUE], a)

RelinkedFrom(s, a, f) ==
    IF f.found = "torn" THEN Emergency(s, a)
    ELSE RelinkedBack(f, Scan(f.s, a, f.s.tail, "prev", "next"), a)

mwRelink(s, a) == RelinkedFrom(s, a, Scan(s, a, s.head, "next", "prev"))

(***************************************************************************)
(* Is a block one of the chain?                                            *)
(***************************************************************************)
\* A link of a that leads nowhere is repaired before it is followed, whatever
\* the repair answers.
Mended(s, a, link) == IF Running(s) /\ s.mem[a][link] = Junk THEN mwRelink(s, a).s ELSE s

Tied(s, a, p, n) == /\ IF p = Null THEN s.head = a ELSE s.mem[p].next = a
                    /\ IF n = Null THEN s.tail = a ELSE s.mem[n].prev = a
                    /\ s.mem[a].sum

RelinkedOwned(r) == IF r.ok THEN r ELSE Result(Say(r.s, "internal"), FALSE)

OwnedByLinks(s, a) ==
    IF ~Running(s) THEN Result(s, FALSE)
    ELSE IF Junk \in {s.mem[a].prev, s.mem[a].next} THEN Result(Stop(s, "fault"), FALSE)
    ELSE IF Tied(s, a, s.mem[a].prev, s.mem[a].next) THEN Result(s, TRUE)
    ELSE RelinkedOwned(IF mwIsHeapOK(s, a) THEN Result(s, FALSE) ELSE mwRelink(s, a))

mwIsOwned(s, a) ==
    IF ~Running(s) \/ ~Safe(a) \/ (s.head = Null /\ s.tail = Null /\ s.cur = 0) THEN Result(s, FALSE)
    ELSE IF s.mem[a].sum THEN OwnedByLinks(Mended(Mended(s, a, "prev"), a, "next"), a)
    ELSE IF mwIsHeapOK(s, a)
    THEN Result(Say([s EXCEPT !.mem[a].size = 0, !.mem[a].sum = TRUE], "internal"), TRUE)
    ELSE Result(s, FALSE)

(***************************************************************************)
(* The tests.  A result has the state and whether an error was counted.    *)
(***************************************************************************)
Found(s, bad) == [s |-> s, bad |-> bad]

AfterRelink(q, bad) == Found(q.s, bad \/ ~q.ok)
\* The neighbour n of a on one side must point back to it.
SideTested(r, a, n, back) ==
    IF ~Running(r.s) \/ n = Null THEN r
    ELSE IF ~Safe(n) THEN Found(Stop(r.s, "fault"), TRUE)
    ELSE IF r.s.mem[n][back] = a THEN r
    ELSE AfterRelink(mwRelink(Say(r.s, "internal"), a), r.bad)
NextTested(r, a) == SideTested(r, a, r.s.mem[a].next, "prev")
SidesTested(r, a) == NextTested(SideTested(r, a, r.s.mem[a].prev, "next"), a)

\* Mutant: the zone behind the block is not looked at.
ZoneBefore(b) == {k \in {"underflow"} : ~b.under}

\* The zone behind the block is looked for where the size says.
HitZones(b) == {k \in {"underflow"} : ~b.under}
               \cup {k \in {"overflow"} : ~b.over \/ b.size # b.real}

ZonesTested(r, a) ==
    IF ~Running(r.s) THEN r
    ELSE Found([r.s EXCEPT !.said = @ \cup HitZones(r.s.mem[a])], r.bad \/ HitZones(r.s.mem[a]) # {})

BufTested(q, a) == IF q.ok THEN ZonesTested(SidesTested(Found(q.s, FALSE), a), a) ELSE Found(q.s, TRUE)
mwTestBuf(s, a) ==
    IF ~Running(s) THEN Found(s, FALSE)
    ELSE IF ~Safe(a) THEN Found(Say(s, "internal"), TRUE)
    ELSE BufTested(IF s.mem[a].sum THEN Result(s, TRUE) ELSE mwRelink(Say(s, "internal"), a), a)

\* MW_TEST_CHAIN: a wrong pointer ends the test, a link that is not returned
\* is counted, and the walk goes on along it.
TestChain(s) ==
    IF s.head = Null THEN [s |-> s, bad |-> FALSE, ends |-> FALSE]
    ELSE IF ~Safe(s.head) \/ \E m \in InChain(s) : Junk \in {s.mem[m].prev, s.mem[m].next}
    THEN [s |-> Say(s, "check"), bad |-> TRUE, ends |-> TRUE]
    ELSE IF Safe(EndOf(s)) THEN [s |-> Stop(s, "hang"), bad |-> TRUE, ends |-> TRUE]
    ELSE IF \A m \in InChain(s) : LinksOK(s, m) THEN [s |-> s, bad |-> FALSE, ends |-> FALSE]
    ELSE [s |-> Say(s, "check"), bad |-> TRUE, ends |-> FALSE]

\* MW_TEST_ALLOC: every block of the chain, while it may be repaired.
RECURSIVE TestAllocs(_, _, _)
AllocTested(q, bad, m, met) == TestAllocs(Found(q.s, bad \/ q.bad), q.s.mem[m].next, met \cup {m})
TestAllocs(r, m, met) ==
    IF m = Null \/ ~Running(r.s) THEN r
    ELSE IF m \in met THEN Found(Stop(r.s, "hang"), r.bad)
    ELSE IF ~Safe(m) THEN Found(Stop(r.s, "fault"), r.bad)
    ELSE AllocTested(mwTestBuf(r.s, m), r.bad, m, met)

\* MW_TEST_NML: no-mans-land that was written to is reported, not counted.
NmlSaid(s) == IF \E m \in InChain(s) : s.mem[m].nml /\ ~s.mem[m].clean THEN Say(s, "wild") ELSE s
TestNml(r) ==
    IF ~Running(r.s) THEN r
    ELSE Found(IF EndOf(r.s) = Null THEN NmlSaid(r.s)
               ELSE Stop(NmlSaid(r.s), IF EndOf(r.s) = Junk THEN "fault" ELSE "hang"), r.bad)

NmlTested(r, s) == IF "nml" \in s.flags THEN TestNml(r) ELSE r
ChainTested(c, s) ==
    IF c.ends THEN Found(c.s, TRUE)
    ELSE NmlTested(IF "alloc" \in s.flags THEN TestAllocs(Found(c.s, c.bad), c.s.head, {})
                   ELSE Found(c.s, c.bad), s)
mwTestNow(s) ==
    ChainTested(IF "chain" \in s.flags THEN TestChain(s) ELSE [s |-> s, bad |-> FALSE, ends |-> FALSE], s)

TESTS(s) == IF s.always /\ Running(s) THEN mwTestNow(s).s ELSE s

(***************************************************************************)
(* Memory of the C library, and memory grabbed to make it scarce.          *)
(***************************************************************************)
Places(s) == {a \in Addrs : ~s.mem[a].used}
malloc(s) == CHOOSE a \in Places(s) : TRUE

\* Grabbed memory: its place, whether for no-mans-land, and whether it is whole.
RECURSIVE mwGrab_(_, _, _)
mwGrab_(s, kb, nml) ==
    IF kb = 0 \/ Places(s) = {}
       \/ (s.useLimit /\ (s.cur + GrabSize * (Len(s.grabs) + 1)) > s.limit) THEN s
    ELSE mwGrab_([s EXCEPT !.grabs = <<[place |-> malloc(s), nml |-> nml, clean |-> TRUE]>> \o @,
                           !.mem[malloc(s)].used = TRUE], kb - 1, nml)

Dropped(s, i) ==
    [s EXCEPT !.mem[s.grabs[i].place].used = FALSE,
              !.said = IF s.grabs[i].clean THEN @ ELSE @ \cup {"wild"},
              !.grabs = SubSeq(@, 1, i - 1) \o SubSeq(@, i + 1, Len(@))]
OfKind(s, nml) == {i \in DOMAIN s.grabs : s.grabs[i].nml = nml}

RECURSIVE mwDrop_(_, _, _)
mwDrop_(s, kb, nml) ==
    IF kb = 0 \/ OfKind(s, nml) = {} THEN s
    ELSE mwDrop_(Dropped(s, First(OfKind(s, nml))), kb - 1, nml)

All == Cardinality(Addrs)      \* as many kilobytes as there may be
mwDropAll(s) == mwDrop_(mwDrop_(TESTS(s), All, FALSE), All, TRUE)

\* No-mans-land is given up when memory is short: the grabbed kilobytes first,
\* then the freed blocks from the head on, until there is room.  The counters
\* of no-mans-land stay.
RECURSIVE FreeNml(_, _, _)
NmlFreed(s, m) == GiveBack(mwUnlink(IF s.mem[m].clean THEN s ELSE Say(s, "wild"), m), m)
FreeNml(s, m, met) ==
    IF m = Null \/ Places(s) # {} \/ ~Running(s) THEN s
    ELSE IF ~Safe(m) \/ m \in met THEN Stop(s, IF Safe(m) THEN "hang" ELSE "fault")
    ELSE IF s.mem[m].nml THEN FreeNml(NmlFreed(s, m), s.mem[m].next, met)
    ELSE FreeNml(s, s.mem[m].next, met \cup {m})
FreeUpFrom(s) == FreeNml(s, s.head, {})
mwFreeUp(s) == FreeUpFrom(mwDrop_(s, 1, TRUE))

(***************************************************************************)
(* Allocation.                                                             *)
(***************************************************************************)
Linked(s, a, size, f) ==
    [s EXCEPT !.mem = [b \in Addrs |->
                 IF b = a THEN [used |-> TRUE, prev |-> Null, next |-> s.head, size |-> size,
                                real |-> size, file |-> f, sum |-> TRUE, nml |-> FALSE,
                                under |-> TRUE, over |-> TRUE, clean |-> TRUE]
                 ELSE IF b = s.head THEN [s.mem[b] EXCEPT !.prev = a] ELSE s.mem[b]],
              !.head = a, !.tail = IF @ = Null THEN a ELSE @]

\* The statistics by file, of which every file has a record once it is met.
mwStatAlloc(s, size, f) == [s EXCEPT !.stat[f] = @ + size]
mwStatFree(s, size, f) == [s EXCEPT !.stat = [g \in Files |-> IF g = f THEN @[g] - size ELSE @[g]]]

Counted(s, size, f) ==
    mwStatAlloc([s EXCEPT !.num = @ + 1, !.cur = @ + size,
                          !.max = IF s.cur + size > @ THEN s.cur + size ELSE @], size, f)

Placed(s, size, f) ==
    IF ~Running(s) THEN s
    ELSE IF s.head = Junk THEN Stop(s, "fault")
    ELSE IF Places(s) = {} THEN Unlock(Ret(Say(s, "fail"), Null))
    ELSE Unlock(Ret(Counted(Linked(s, malloc(s), size, f), size, f), malloc(s)))

\* A size that wraps around returns with the mutex held.
Allocated(s, size, f) ==
    IF ~Running(s) THEN s
    ELSE IF size >= Wrap THEN Ret(s, Null)
    ELSE IF s.useLimit /\ (size + s.cur) > s.limit THEN Unlock(Ret(Say(s, "limit fail"), Null))
    ELSE Placed(IF Places(s) = {} THEN mwFreeUp(s) ELSE s, size, f)
mwMalloc(s, size, f) == Allocated(TESTS(Lock(mwAutoInit(s))), size, f)

mwCalloc(s, size, f) == mwMalloc(s, size, f)
mwStrdup(s, size, f) ==
    IF size = 0 THEN Unlock(Ret(Say(Lock(s), "strdup"), Null))    \* strdup(NULL)
    ELSE Unlock(mwMalloc(Lock(s), size, f))

Ring(s, a) == [s EXCEPT !.recent[s.at] = a, !.at = (@ + 1) % Recent]

Refused(s, a, kind) == Unlock(Ret(Say(s, IF a \in Range(s.recent) THEN kind ELSE "unknown"), Null))
\* Mutant: the statistics of the file keep the block.
StillInFile(s, a) == [s EXCEPT !.num = @ - 1, !.cur = @ - s.mem[a].size]

Uncounted(s, a) == mwStatFree([s EXCEPT !.num = @ - 1, !.cur = @ - s.mem[a].size],
                              s.mem[a].size, s.mem[a].file)

\* A freed block stays in the chain as no-mans-land, or is filled and freed.
KeptAsNml(s, a) == [s EXCEPT !.mem[a].nml = TRUE, !.mem[a].clean = TRUE,
                        !.nmlNum = @ + 1, !.nmlCur = @ + s.mem[a].size]
Filled(s, a) == IF Running(s) THEN [s EXCEPT !.mem[a] = Deleted] ELSE s
Released(s, a) == Unlock(Ring(IF s.nml > 0 THEN KeptAsNml(Uncounted(s, a), a)
                              ELSE Filled(mwUnlink(Uncounted(s, a), a), a), a))

FreeTested(s, a) ==
    IF ~Running(s) THEN s
    ELSE IF ~s.mem[a].nml THEN Released(s, a)
    ELSE Refused(IF s.mem[a].clean THEN s ELSE Say(s, "internal"), a, "double-free")
FreeOwned(o, a) == IF ~Running(o.s) THEN o.s
                   ELSE IF o.ok THEN FreeTested(mwTestBuf(o.s, a).s, a)
                   ELSE Refused(o.s, a, "double-free")
FreeAfterTests(s, a) == IF ~Running(s) THEN s
                        ELSE IF a = Null THEN Unlock(Say(s, "NULL free"))
                        ELSE FreeOwned(mwIsOwned(s, a), a)

\* mwFree_, mwMalloc_ and the like, mwSetAriAction: a test under the mutex.
Raw(s) == Unlock(TESTS(Lock(s)))

\* Memory of the program's own, which is no block of memwatch, is freed without
\* file; a block of memwatch does not begin where malloc handed out memory.
mwFree_(s, a) == IF a = Null THEN Raw(s) ELSE Stop(Raw(s), "fault")
\* To unlock a mutex that is free, as after mwFree_, leaves it free.
mwFree(s, a, f) == IF f = Null THEN Unlock(mwFree_(s, a))
                   ELSE FreeAfterTests(TESTS(Lock(mwAutoInit(s))), a)

\* realloc is made of malloc, without the limit, and free.
ReallocFreed(s, a, f, use) == Unlock([(IF Running(s) /\ s.ret # Null THEN mwFree(s, a, f) ELSE s)
                                   EXCEPT !.useLimit = use, !.ret = s.ret])
ReallocOwned(s, a, size, f) ==
    IF s.mem[a].nml
    THEN Refused(IF s.mem[a].clean THEN s ELSE Say(s, "internal"), a, "realloc")
    ELSE IF s.useLimit /\ ((size + s.cur) - s.mem[a].size) > s.limit
    THEN Unlock(Ret(Say(TESTS(s), "limit fail"), Null))
    ELSE ReallocFreed(mwMalloc([s EXCEPT !.useLimit = FALSE], size, f), a, f, s.useLimit)
ReallocAfter(o, a, size, f) ==
    IF ~Running(o.s) THEN o.s
    ELSE IF o.ok THEN ReallocOwned(o.s, a, size, f) ELSE Refused(o.s, a, "realloc")
mwRealloc(s, a, size, f) ==
    IF a = Null THEN mwMalloc(s, size, f)
    ELSE IF size = 0 THEN Ret(mwFree(s, a, f), Null)
    ELSE ReallocAfter(mwIsOwned(Lock(mwAutoInit(s)), a), a, size, f)

(***************************************************************************)
(* The other operations.                                                   *)
(***************************************************************************)
mwTest(s, items) == mwTestNow([mwAutoInit(s) EXCEPT !.flags = items]).s
mwAutoCheck(s, on) == [mwAutoInit(s) EXCEPT !.always = on, !.flags = IF on THEN {"chain", "alloc", "nml"} ELSE @]

BufferTested(o, a) == IF o.ok THEN mwTestBuf(o.s, a).s ELSE o.s
mwTestBuffer(s, a) == BufferTested(mwIsOwned(mwAutoInit(s), a), a)

mwMark(s, a) == IF Running(s) /\ a # Null THEN [s EXCEPT !.marks[a] = @ + 1] ELSE s
mwUnmark(s, a) == IF a # Null /\ s.marks[a] > 0 THEN [s EXCEPT !.marks[a] = @ - 1]
                  ELSE mwAutoInit(Say(s, "no mark"))

mwGrab(s, kb) == mwAutoInit(mwGrab_(TESTS(s), kb, FALSE))
mwDrop(s, kb) == IF OfKind(s, FALSE) = {} THEN TESTS(s) ELSE mwAutoInit(mwDrop_(TESTS(s), kb, FALSE))

mwNoMansLand(s, level) ==
    [(IF level = 0 THEN mwDrop_(s, All, TRUE) ELSE IF level = 2 THEN mwGrab_(s, All, TRUE) ELSE s)
     EXCEPT !.nml = level]
mwLimit(s, lim) == [mwAutoInit(s) EXCEPT !.useLimit = lim # 0, !.limit = lim]

\* At the end every block of the chain is reported and freed; three times the
\* head may fail the test of ownership.  num keeps the blocks never freed.
Reported(s, a) ==
    IF s.mem[a].nml
    THEN [(IF s.mem[a].clean THEN s ELSE Say(s, "wild"))
          EXCEPT !.nmlNum = @ - 1, !.nmlCur = @ - s.mem[a].size]
    ELSE [s EXCEPT !.said = @ \cup {"unfreed"} \cup HitZones(s.mem[a])]
FreedAtEnd(s, a) == GiveBack(mwUnlink(s, a), a)
RECURSIVE Emptied(_, _)
EmptiedOf(o, a, errors) == IF ~Running(o.s) THEN o.s
                           ELSE IF o.ok THEN Emptied(FreedAtEnd(Reported(o.s, a), a), errors)
                           ELSE Emptied(o.s, errors + 1)
Emptied(s, errors) == IF s.head = Null \/ errors = 3 \/ ~Running(s) THEN s
                      ELSE EmptiedOf(mwIsOwned(s, s.head), s.head, errors)

Ended(s) == IF ~Running(s) THEN s
            ELSE [s EXCEPT !.inits = 0, !.head = Null, !.tail = Null, !.locked = FALSE,
                           !.said = IF s.nmlNum = 0 /\ s.nmlCur = 0 THEN @ ELSE @ \cup {"not zero"}]
MarksSaid(s) == [s EXCEPT !.marks = [a \in Addrs |-> 0],
                          !.said = IF Range(s.marks) = {0} THEN @ ELSE @ \cup {"mark"}]
mwAbort(s) == Ended(Emptied(MarksSaid(mwDropAll(mwAutoInit(s))), 0))
mwTerm(s) == IF s.inits = 1 THEN mwAbort(s)
             ELSE IF s.inits = 0 THEN mwAutoInit(Say(s, "internal"))
             ELSE [s EXCEPT !.inits = @ - 1]
Exit(s) == Stop(IF s.atexit THEN mwAbort(s) ELSE s, "exited")

\* mwAssert and mwVerify of an expression that is false, with the answer of the
\* handler ("none": no handler) and the action set by mwSetAriAction.
Trapped(s, verify, answer, ari) ==
    IF ~Running(s) THEN s
    ELSE IF answer \in {"ignore", "retry"} THEN Unlock(s)
    ELSE IF answer = "none" /\ verify /\ "nullread" \in ari THEN Stop(s, "fault")
    ELSE IF answer = "none" /\ "ignore" \in ari THEN Unlock(s)
    ELSE IF "nullread" \in ari /\ ~verify THEN Stop(mwTestNow(s).s, "fault")
    ELSE Exit(Unlock(mwTestNow(s).s))
Trap(s, verify, answer, ari) == Trapped(Say(TESTS(Lock(mwAutoInit(s))), "trap"), verify, answer, ari)

(***************************************************************************)
(* The program: its calls, and what it may overwrite.                      *)
(***************************************************************************)
Fresh == [mw EXCEPT !.said = {}, !.ret = Null]
Aside == {"mark", "unmark", "autocheck", "limit", "nomansland", "grab", "drop", "raw", "init", "trap"}
Spends(what) == left[what] > 0 /\ left' = [left EXCEPT ![what] = @ - 1]
Calls(op, p, size) ==
    /\ Running(mw) /\ Spends(IF op \in Aside THEN "side" ELSE "calls")
    /\ lastCall' = [op |-> op, p |-> p, size |-> size] /\ hits' = hits
Over(s) == s.inits = 0 \/ s.status = "exited"     \* memwatch has ended
Does(op, s) == /\ Calls(op, Null, 0) /\ mw' = s
               /\ owned' = IF Over(s) THEN {} ELSE owned
               /\ lost' = IF Over(s) THEN lost + Cardinality(owned) ELSE lost
Got(s) == IF s.ret = Null THEN {} ELSE {s.ret}

Malloc == \E size \in Sizes, f \in Files, how \in {"malloc", "calloc"} :
              /\ Calls(how, Null, size)
              /\ mw' = IF how = "malloc" THEN mwMalloc(Fresh, size, f) ELSE mwCalloc(Fresh, size, f)
              /\ owned' = owned \cup Got(mw') /\ lost' = lost
Strdup == \E size \in Sizes \cup {0}, f \in Files :
              /\ Calls("strdup", Null, size) /\ size < Wrap
              /\ mw' = mwStrdup(Fresh, size, f)
              /\ owned' = owned \cup Got(mw') /\ lost' = lost
Free == \E a \in Addrs \cup {Null}, f \in Files \cup {Null} :
              /\ Calls("free", a, 0) /\ mw' = mwFree(Fresh, a, f)
              /\ owned' = owned \ {a} /\ lost' = lost
Realloc == \E a \in Addrs \cup {Null}, size \in Sizes \cup {0}, f \in Files :
              /\ Calls("realloc", a, size) /\ mw' = mwRealloc(Fresh, a, size, f)
              /\ owned' = (IF size = 0 \/ Got(mw') # {} THEN owned \ {a} ELSE owned) \cup Got(mw')
              /\ lost' = lost
TestBuffer == \E a \in Addrs : /\ Calls("testbuffer", a, 0) /\ mw' = mwTestBuffer(Fresh, a)
                             /\ UNCHANGED <<owned, lost>>
Mark == \E a \in owned : /\ mw.marks[a] < 2
                      /\ Does("mark", mwMark(TESTS(mwAutoInit(Fresh)), a))
Unmark == \E a \in owned : Does("unmark", mwUnmark(Fresh, a))
Test == \E items \in {{"chain", "nml"}, {"alloc"}} : Does("test", mwTest(Fresh, items))
Settings == \/ \E on \in BOOLEAN : Does("autocheck", mwAutoCheck(Fresh, on))
            \/ \E lim \in Limits : Does("limit", mwLimit(TESTS(Fresh), lim))
            \/ \E level \in 0 .. 2 : Does("nomansland", mwNoMansLand(TESTS(mwAutoInit(Fresh)), level))
            \/ \E kb \in {1, All} : Does("grab", mwGrab(Fresh, kb)) \/ Does("drop", mwDrop(Fresh, kb))
            \/ Does("raw", Raw(Fresh))
Start == mw.inits < 2 /\ Does("init", mwInit(Fresh))
Stops == Does("term", mwTerm(Fresh)) \/ Does("abort", mwAbort(Fresh)) \/ Does("exit", Exit(Fresh))
Traps == \E verify \in BOOLEAN, answer \in {"ignore", "retry", "abort", "none"},
           ari \in SUBSET {"ignore", "nullread"} : Does("trap", Trap(Fresh, verify, answer, ari))

\* A write out of bounds or through a pointer that is no longer the program's.
Hit(a, kind) ==
    CASE kind = "under" -> {[mw.mem[a] EXCEPT !.under = FALSE]}
      [] kind = "over" -> {[mw.mem[a] EXCEPT !.over = FALSE]}
      [] kind = "nml" -> {[mw.mem[a] EXCEPT !.clean = FALSE]}
      [] kind = "header" -> {[mw.mem[a] EXCEPT !.sum = FALSE, !.size = n] : n \in {0, mw.mem[a].size}}
      [] OTHER -> {[mw.mem[a] EXCEPT ![kind] = p] : p \in {Null, Junk, a} \ {mw.mem[a][kind]}}
Overwrite == \E a \in InChain(mw), kind \in Bad \cup {"under", "over", "nml"} :
    /\ Running(mw) /\ Spends("hits")
    /\ kind = "nml" <=> mw.mem[a].nml
    /\ \E b \in Hit(a, kind) : mw' = [Fresh EXCEPT !.mem[a] = b]
    /\ hits' = hits \cup {[kind |-> kind, at |-> a]}
    /\ lastCall' = [op |-> "none", p |-> Null, size |-> 0]
    /\ UNCHANGED <<owned, lost>>

MemNext == Malloc \/ Strdup \/ Free \/ Realloc \/ TestBuffer \/ Mark \/ Unmark \/ Test
           \/ Settings \/ Start \/ Stops \/ Traps \/ Overwrite
MemSpec == MemInit /\ [][MemNext]_memvars

(***************************************************************************)
(* What memwatch promises.                                                 *)
(***************************************************************************)
Ordered == {h \in hits : h.kind \in Bad} = {}    \* no header was ever written over
Held == {a \in InChain(mw) : ~mw.mem[a].nml}
SizeOf(S) == FoldFunctionOnSet(+, 0, [a \in Addrs |-> mw.mem[a].size], S)

\* While no header is written over, the chain is whole and holds the blocks of
\* the program and no-mans-land, every place belongs to one of them or is
\* grabbed, and the counters are theirs: the number of blocks with those that
\* were lost before, the bytes in all and by file.  Only the counter of
\* no-mans-land may be high, since memory that is given up is not taken off.
Bookkeeping == Running(mw) /\ Ordered =>
    /\ mwIsHeapOK(mw, Null) /\ (mw.head = Null <=> mw.tail = Null)
    /\ Held = owned
    /\ {a \in Addrs : mw.mem[a].used} = InChain(mw) \cup {g.place : g \in Range(mw.grabs)}
    /\ InChain(mw) \cap {g.place : g \in Range(mw.grabs)} = {}
    /\ mw.num = Cardinality(owned) + lost
    /\ mw.inits > 0 => /\ mw.cur = SizeOf(owned) /\ mw.max >= mw.cur
                       /\ \A f \in Files : mw.stat[f] = SizeOf({a \in owned : mw.mem[a].file = f})
                       /\ mw.nmlNum >= Cardinality(InChain(mw) \ owned)

\* A call that the program may make, of a program that wrote over nothing, is
\* answered by no message about damage.
Innocent == {"limit fail", "fail", "NULL free", "strdup", "mark", "no mark", "unfreed", "trap",
             "not zero"}
Rightful(c) == c.op \in {"free", "realloc", "testbuffer"} => c.p \in owned \cup {Null}
NoFalseAlarm == hits = {} /\ Rightful(lastCall') /\ mw.inits > 0 => mw'.said \subseteq Innocent

\* A damaged zone is reported when its block is freed or tested.
ZoneCaught == /\ Ordered /\ Running(mw')
              /\ lastCall'.op \in {"free", "testbuffer"} /\ lastCall'.p \in owned
              => /\ mw.mem[lastCall'.p].under \/ "underflow" \in mw'.said
                 /\ mw.mem[lastCall'.p].over \/ "overflow" \in mw'.said

\* To free or to reallocate again a block that was freed lately changes nothing
\* and is reported.  A block that was given up as no-mans-land is not known any more.
Twice(a) == a \in Range(mw.recent) \ owned /\ (~mw.mem[a].sum \/ a \in InChain(mw))
TwiceCaught == /\ Ordered /\ Running(mw') /\ ~mw.always
               /\ lastCall'.op \in {"free", "realloc"} /\ lastCall'.p \in Addrs /\ Twice(lastCall'.p)
               => {"double-free", "realloc"} \cap mw'.said # {} /\ mw'.mem = mw.mem

\* A write into no-mans-land is found by the test for it.
WildCaught == /\ Ordered /\ lastCall'.op = "test" /\ "nml" \in mw'.flags
              /\ \E a \in InChain(mw) : mw.mem[a].nml /\ ~mw.mem[a].clean
              => "wild" \in mw'.said

\* One wrong link of a block of the program, with no no-mans-land about, is
\* repaired by a test of that block, and a wrong header is reported.
Repaired == /\ lastCall'.op = "testbuffer" /\ lost = 0 /\ mw.at = 0 /\ mw.recent[0] = Null /\ lastCall'.p \in owned
            /\ \E kind \in Bad : hits = {[kind |-> kind, at |-> lastCall'.p]}
            => Running(mw') /\ mwIsHeapOK(mw', Null) /\ InChain(mw') = owned /\ mw'.mem[lastCall'.p].sum

\* No call brings the program above its limit, and the leaks are reported at
\* the end.
LimitKept == Ordered /\ mw'.useLimit /\ mw'.cur > mw.cur /\ mw'.inits > 0 => mw'.cur <= mw'.limit
LeaksSaid == Ordered /\ lastCall'.op = "abort" /\ Running(mw') => ("unfreed" \in mw'.said <=> owned # {})

\* A call that finds the mutex free comes to its end and leaves it free.  Two
\* kinds of call are not meant: one whose size and zones wrap around, which
\* returns with the mutex held (memwatch.c:880), and realloc of a block and
\* strdup of a text, which take the mutex a second time (:990, :1045).
Wraps(c) == c.op \in {"malloc", "calloc", "realloc"} /\ c.size >= Wrap
Relocks(c) == c.size > 0 /\ (c.op = "realloc" => c.p # Null) /\ c.op \in {"realloc", "strdup"}
LockKept == /\ ~mw.locked /\ ~Wraps(lastCall') /\ Running(mw') => ~mw'.locked
            /\ ~mw.locked /\ ~Relocks(lastCall') => mw'.status # "deadlock"

Caught == [][/\ NoFalseAlarm /\ ZoneCaught /\ TwiceCaught /\ WildCaught
             /\ Repaired /\ LimitKept /\ LeaksSaid /\ LockKept]_memvars
=============================================================================
