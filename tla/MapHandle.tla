------------------------------ MODULE MapHandle ------------------------------
(***************************************************************************)
(* map_handle on Linux with its cache of maps, in the address space of one *)
(* process whose threads have a handle each.  The kernel hands out pages   *)
(* of address space, and each mapped page shows anonymous memory or a page *)
(* of the one file that sections are made of.                              *)
(*                                                                         *)
(* Addresses are page numbers, sizes and offsets are bytes.  A step makes  *)
(* one system call, or holds the lock of the cache once.  The protection   *)
(* and the contents of pages are left out, and so are calls that fail and  *)
(* change nothing.                                                         *)
(***************************************************************************)
EXTENDS Integers, FiniteSets, FiniteSetsExt

CONSTANTS
  Handles,
  Space,       \* the pages of the address space
  PageSize,    \* utils::page_size()
  CacheLimit,  \* maps of that many bytes are not cached: 1Gb
  Requests,    \* what map() is asked for: [bytes, pagesize, zeroed]
  Sizes,       \* what the map of a section and a reservation are asked for
  Offsets,     \* where maps of a section start in the file
  Lengths,     \* that the file may have
  Faults,      \* may the system fail?
  Free, Anon,  \* a page of the address space that is not mapped; one with memory
  Null         \* no address

ASSUME MapAssumption ==
  /\ Space \subseteq Nat /\ PageSize \in Nat \ {0} /\ CacheLimit \in Nat
  /\ Requests \subseteq [bytes : Nat \ {0}, pagesize : Nat \ {0}, zeroed : BOOLEAN]
  /\ Sizes \subseteq Nat /\ Offsets \subseteq Nat /\ Lengths \subseteq Nat
  /\ Faults \in BOOLEAN /\ {Free, Anon, Null} \cap Nat = {} /\ Free # Anon

VARIABLES
  space,           \* what each page of the address space shows
  file,            \* the length of the file
  map,             \* the members of each handle
  pc, want, at,    \* where a call is, the map wanted, and the address got for it
  cache,           \* the trie
  bytes_in_cache,
  disabled,
  aborted,
  lost,            \* history: the pages of maps that were given up without munmap()
  beyond           \* history: see Within

vars == <<space, file, map, pc, want, at, cache, bytes_in_cache, disabled, aborted, lost, beyond>>

Closed ==
  [valid |-> FALSE, addr |-> Null, offset |-> 0, reservation |-> 0, length |-> 0,
   pagesize |-> PageSize, section |-> FALSE]
NoWant == [bytes |-> 0, pagesize |-> PageSize, fallback |-> FALSE]

TypeOK ==
  /\ space \in [Space -> {Free, Anon} \cup Nat] /\ file \in Nat
  /\ map \in [Handles -> [valid : BOOLEAN, addr : Space \cup {Null}, offset : Nat,
                          reservation : Nat, length : Nat, pagesize : Nat, section : BOOLEAN]]
  /\ pc \in [Handles -> {"idle", "new", "get", "remap", "recycle"}]
  /\ want \in [Handles -> [bytes : Nat, pagesize : Nat, fallback : BOOLEAN]]
  /\ at \in [Handles -> Space \cup {Null}]
  /\ cache \subseteq [addr : Space, trie_key : Nat, page_size : Nat]
  /\ bytes_in_cache \in Int /\ disabled \in BOOLEAN /\ aborted \in BOOLEAN
  /\ lost \subseteq Space /\ beyond \subseteq Handles

Init ==
  /\ space = [p \in Space |-> Free] /\ file \in Lengths
  /\ map = [h \in Handles |-> Closed]
  /\ pc = [h \in Handles |-> "idle"] /\ want = [h \in Handles |-> NoWant]
  /\ at = [h \in Handles |-> Null]
  /\ cache = {} /\ bytes_in_cache = 0 /\ disabled = FALSE /\ aborted = FALSE
  /\ lost = {} /\ beyond = {}

-----------------------------------------------------------------------------
(* The kernel                                                              *)

RoundUp(bytes, pagesize) == ((bytes + pagesize - 1) \div pagesize) * pagesize
PagesOf(a, bytes) == a .. a + RoundUp(bytes, PageSize) \div PageSize - 1

\* The pages of v, as far as v knows.
Cover(v) == IF v.addr = Null THEN {} ELSE PagesOf(v.addr, v.reservation)

\* Where a new map of some pages may go, in address space s.
Rooms(s, bytes, pagesize) ==
  {a \in Space : /\ (a * PageSize) % pagesize = 0
                 /\ \A p \in PagesOf(a, RoundUp(bytes, pagesize)) : p \in Space /\ s[p] = Free}

Unmapped(s, pages) == [p \in Space |-> IF p \in pages THEN Free ELSE s[p]]

\* Pages from page a on show what is at an offset of the file, or memory.
Mapped(s, pages, a, offset, section) ==
  [p \in Space |-> IF p \notin pages THEN s[p]
                   ELSE IF section THEN offset \div PageSize + p - a ELSE Anon]

\* do_mmap() at page a: the offset is rounded down, and the bytes are more by as much.
DoMmap(s, a, bytes, offset, section, pagesize) ==
  LET below == offset % pagesize
  IN  Mapped(s, PagesOf(a, RoundUp(bytes + below, pagesize)), a, offset - below, section)

\* munmap() takes only whole pages of the size the map was made with.
Whole(v) == v.reservation % v.pagesize = 0

-----------------------------------------------------------------------------
(* Memory: map() and _recycled_map(), _new_map() and close()               *)

\* The start of _recycled_map().
Cacheless(bytes) == disabled \/ bytes >= CacheLimit

Goto(h, stage, w) == pc' = [pc EXCEPT ![h] = stage] /\ want' = [want EXCEPT ![h] = w]
Return(h) == Goto(h, "idle", NoWant)

Recycled(h, w) == Goto(h, IF Cacheless(w.bytes) THEN "new" ELSE "get", [w EXCEPT !.fallback = FALSE])

Map(h, q) ==
  LET w == [bytes |-> q.bytes, pagesize |-> q.pagesize, fallback |-> q.zeroed]
  IN  /\ pc[h] = "idle" /\ ~map[h].valid
      /\ IF q.zeroed THEN Goto(h, "new", w) ELSE Recycled(h, w)
      /\ UNCHANGED <<space, file, map, at, cache, bytes_in_cache, disabled, aborted, lost, beyond>>

\* reserve(): address space without memory is never taken from the cache.
ReserveMemory(h, q) ==
  /\ pc[h] = "idle" /\ ~map[h].valid
  /\ Goto(h, "new", [bytes |-> q.bytes, pagesize |-> PageSize, fallback |-> FALSE])
  /\ UNCHANGED <<space, file, map, at, cache, bytes_in_cache, disabled, aborted, lost, beyond>>

Item(a, bytes, pagesize) == [addr |-> a, trie_key |-> bytes \div PageSize, page_size |-> pagesize]

\* Mutant: what is handed out stays in the cache.
GetShared(h) ==
  LET w == [want[h] EXCEPT !.bytes = RoundUp(@, want[h].pagesize)]
      fit == {i \in cache : i.trie_key = w.bytes \div PageSize /\ i.page_size = w.pagesize}
  IN  /\ pc[h] = "get"
      /\ \/ \E i \in fit :
              /\ bytes_in_cache' = bytes_in_cache - w.bytes
              /\ at' = [at EXCEPT ![h] = i.addr]
              /\ Goto(h, "remap", w)
              /\ UNCHANGED cache
         \/ fit = {} /\ Goto(h, "new", w) /\ UNCHANGED <<cache, bytes_in_cache, at>>
      /\ UNCHANGED <<space, file, map, disabled, aborted, lost, beyond>>

\* get(): some map of that size in pages of that size.
Get(h) ==
  LET w == [want[h] EXCEPT !.bytes = RoundUp(@, want[h].pagesize)]
      fit == {i \in cache : i.trie_key = w.bytes \div PageSize /\ i.page_size = w.pagesize}
  IN  /\ pc[h] = "get"
      /\ \/ \E i \in fit :
              /\ cache' = cache \ {i}
              /\ bytes_in_cache' = bytes_in_cache - w.bytes
              /\ at' = [at EXCEPT ![h] = i.addr]
              /\ Goto(h, "remap", w)
         \/ fit = {} /\ Goto(h, "new", w) /\ UNCHANGED <<cache, bytes_in_cache, at>>
      /\ UNCHANGED <<space, file, map, disabled, aborted, lost, beyond>>

Opened(h, a, bytes) ==
  map' = [map EXCEPT ![h] =
            [valid |-> TRUE, addr |-> a, offset |-> 0, reservation |-> bytes, length |-> bytes,
             pagesize |-> want[h].pagesize, section |-> FALSE]]

\* Maps new memory in the place of what the cache had.  If that fails nobody has the
\* address any more.
Remap(h) ==
  /\ pc[h] = "remap"
  /\ \/ /\ space' = DoMmap(space, at[h], want[h].bytes, 0, FALSE, want[h].pagesize)
        /\ Opened(h, at[h], want[h].bytes)
        /\ UNCHANGED lost
     \/ /\ Faults
        /\ lost' = lost \cup PagesOf(at[h], want[h].bytes)
        /\ UNCHANGED <<space, map>>
  /\ at' = [at EXCEPT ![h] = Null]
  /\ Return(h)
  /\ UNCHANGED <<file, cache, bytes_in_cache, disabled, aborted, beyond>>

\* _new_map(): rounds to small pages, whatever the pages are.  Where there is no address
\* space, the cache may have some.
NewMap(h) ==
  LET w == want[h]
      rooms == Rooms(space, RoundUp(w.bytes, PageSize), w.pagesize)
  IN  /\ pc[h] = "new"
      /\ \/ \E a \in rooms :
              /\ space' = DoMmap(space, a, RoundUp(w.bytes, PageSize), 0, FALSE, w.pagesize)
              /\ Opened(h, a, RoundUp(w.bytes, PageSize))
              /\ Return(h)
         \/ /\ rooms = {} \/ Faults
            /\ IF w.fallback THEN Recycled(h, [w EXCEPT !.bytes = RoundUp(@, PageSize)])
               ELSE Return(h)
            /\ UNCHANGED <<space, map>>
      /\ UNCHANGED <<file, at, cache, bytes_in_cache, disabled, aborted, lost, beyond>>

Shut(h) == map' = [map EXCEPT ![h] = Closed] /\ beyond' = beyond \ {h}

Munmap(h) ==
  /\ map[h].addr # Null => Whole(map[h])
  /\ space' = Unmapped(space, Cover(map[h]))
  /\ Shut(h)

\* close(): memory goes into the cache, if that is not disabled at first sight.
Close(h) ==
  LET v == map[h]
  IN  /\ pc[h] = "idle" /\ v.valid
      /\ IF v.section \/ v.addr = Null \/ Cacheless(v.reservation)
         THEN Munmap(h) /\ UNCHANGED <<pc, want>>
         ELSE Goto(h, "recycle", NoWant) /\ UNCHANGED <<space, map, beyond>>
      /\ UNCHANGED <<file, at, cache, bytes_in_cache, disabled, aborted, lost>>

\* The rest of _recycle_map().  The pages are remapped without commit, or where the
\* system overcommits marked as not to be stored, whatever comes of that.  add() puts
\* the map in the cache.
Recycle(h) ==
  LET v == map[h]
  IN  /\ pc[h] = "recycle"
      /\ \/ /\ cache' = cache \cup {Item(v.addr, v.reservation, v.pagesize)}
            /\ bytes_in_cache' = bytes_in_cache + v.reservation
            /\ Shut(h)
            /\ UNCHANGED space
         \/ Faults /\ Munmap(h) /\ UNCHANGED <<cache, bytes_in_cache>>
      /\ Return(h)
      /\ UNCHANGED <<file, at, disabled, aborted, lost>>

InItems(items) == MapThenSumSet(LAMBDA i : i.trie_key * PageSize, items)

\* trim_cache(): any of the maps may be old enough and among the biggest of them.  It
\* aborts the process if munmap() fails.
Trim(old) ==
  /\ old # {}
  /\ IF \E i \in old : (i.trie_key * PageSize) % i.page_size # 0
     THEN aborted' = TRUE /\ UNCHANGED <<space, cache, bytes_in_cache>>
     ELSE /\ space' = Unmapped(space, UNION {PagesOf(i.addr, i.trie_key * PageSize) : i \in old})
          /\ cache' = cache \ old
          /\ bytes_in_cache' = bytes_in_cache - InItems(old)
          /\ UNCHANGED aborted
  /\ UNCHANGED <<file, map, pc, want, at, disabled, lost, beyond>>

SetCacheDisabled ==
  /\ disabled' = ~disabled
  /\ UNCHANGED <<space, file, map, pc, want, at, cache, bytes_in_cache, aborted, lost, beyond>>
-----------------------------------------------------------------------------
(* Maps of a section, and what is done with a map                          *)

\* The length of the file past an offset, as section_handle::length() has it.
Past(offset) == IF file <= offset THEN 0 ELSE file - offset

\* map() of a section with handle h, in address space s: where it goes to and what is
\* known of it.
SectionMap(h, s, bytes, offset) ==
  LET n == IF bytes = 0 THEN Past(offset) ELSE bytes
  IN  /\ n > 0
      /\ \E a \in Rooms(s, n + (offset % PageSize), PageSize) :
           /\ space' = DoMmap(s, a, n, offset, TRUE, PageSize)
           /\ map' = [map EXCEPT ![h] =
                        [valid |-> TRUE, addr |-> a, offset |-> offset,
                         reservation |-> RoundUp(n, PageSize), length |-> Min({Past(offset), n}),
                         pagesize |-> PageSize, section |-> TRUE]]

MapSection(h, bytes, offset) ==
  /\ pc[h] = "idle" /\ ~map[h].valid
  /\ SectionMap(h, space, bytes, offset)
  /\ UNCHANGED <<file, pc, want, at, cache, bytes_in_cache, disabled, aborted, lost, beyond>>

\* mremap() of v to n bytes at page a, if it is not of large pages: shrinks or grows it in
\* place, or moves it to where there is room.
Mremap(v, n, a) ==
  LET rest == Unmapped(space, Cover(v))
  IN  /\ v.pagesize = PageSize
      /\ a \in Rooms(rest, n, PageSize)
      /\ space' = Mapped(rest, PagesOf(a, n), a, v.offset - (v.offset % PageSize), v.section)

\* truncate() of the reservation.  What is known of the file is limited by the
\* reservation that was, not by the one that will be.
Truncate(h, n, relocate) ==
  LET v == map[h]
      new == RoundUp(n, v.pagesize)
      known == IF v.section THEN Min({Past(v.offset), v.reservation}) ELSE new
  IN  /\ pc[h] = "idle" /\ v.valid /\ new # v.reservation
      /\ \/ /\ n = 0 /\ Whole(v)
            /\ space' = Unmapped(space, Cover(v))
            /\ map' = [map EXCEPT ![h].addr = Null, ![h].reservation = 0, ![h].length = 0]
            /\ beyond' = beyond \ {h}
         \/ \E a \in Space :
              /\ n > 0
              /\ IF v.addr = Null
                 THEN /\ a \in Rooms(space, n + (v.offset % v.pagesize), v.pagesize)
                      /\ space' = DoMmap(space, a, n, v.offset, v.section, v.pagesize)
                 ELSE (relocate \/ a = v.addr) /\ Mremap(v, n, a)
              /\ map' = [map EXCEPT ![h].addr = a, ![h].reservation = new, ![h].length = known]
              /\ beyond' = IF v.section /\ new < v.reservation THEN beyond \cup {h} ELSE beyond \ {h}
      /\ UNCHANGED <<file, pc, want, at, cache, bytes_in_cache, disabled, aborted, lost>>

\* commit() and decommit() of some pages: they are mapped anew where they are.
Commit(h, first, count) ==
  LET v == map[h]
      skip == first * (v.pagesize \div PageSize)
  IN  /\ pc[h] = "idle" /\ v.addr # Null
      /\ (first + count) * v.pagesize <= v.reservation
      /\ space' = DoMmap(space, v.addr + skip, count * v.pagesize, v.offset + first * v.pagesize,
                         v.section, v.pagesize)
      /\ UNCHANGED <<file, map, pc, want, at, cache, bytes_in_cache, disabled, aborted, lost, beyond>>

\* update_map()
UpdateMap(h) ==
  LET v == map[h]
  IN  /\ pc[h] = "idle" /\ v.valid /\ v.section
      /\ map' = [map EXCEPT ![h].length = Min({Past(v.offset), v.reservation})]
      /\ beyond' = beyond \ {h}
      /\ UNCHANGED <<space, file, pc, want, at, cache, bytes_in_cache, disabled, aborted, lost>>

\* Others change the length of the file.
Resized(n) ==
  /\ file' = n /\ n # file
  /\ UNCHANGED <<space, map, pc, want, at, cache, bytes_in_cache, disabled, aborted, lost, beyond>>

-----------------------------------------------------------------------------
Step(h) ==
  \/ Get(h) \/ Remap(h) \/ NewMap(h) \/ Close(h) \/ Recycle(h) \/ UpdateMap(h)
  \/ \E q \in Requests : Map(h, q) \/ ReserveMemory(h, q)
  \/ \E n \in Sizes, o \in Offsets : MapSection(h, n, o)
  \/ \E n \in Sizes, relocate \in BOOLEAN : Truncate(h, n, relocate)
  \/ \E first \in 0..1, count \in 1..2 : Commit(h, first, count)

Shared ==
  \/ SetCacheDisabled
  \/ \E old \in SUBSET cache : Trim(old)
  \/ \E n \in Lengths : Resized(n)

Next == ~aborted /\ (Shared \/ \E h \in Handles : Step(h))

Spec == Init /\ [][Next]_vars

-----------------------------------------------------------------------------
(* Properties                                                              *)

\* What each page of a handle's map has to show.
Shows(h, p) ==
  LET v == map[h]
  IN  IF v.section THEN v.offset \div PageSize + p - v.addr ELSE Anon

Cached(i) == PagesOf(i.addr, i.trie_key * PageSize)
InTransit(h) == IF at[h] = Null THEN {} ELSE PagesOf(at[h], want[h].bytes)

\* Who has page p: handles, maps in the cache, and threads on their way from one to the
\* other.
Owners(p) ==
  {<<"handle", h>> : h \in {g \in Handles : p \in Cover(map[g])}}
    \cup {<<"cache", i>> : i \in {j \in cache : p \in Cached(j)}}
    \cup {<<"thread", h>> : h \in {g \in Handles : p \in InTransit(g)}}
    \cup {<<"lost", p>> : q \in lost \cap {p}}

\* Every page that is mapped has one owner, and no other page has any: close(), the cache,
\* truncate() and commit(), by any threads, neither leak address space nor hand it out
\* twice, but where do_mmap() fails on a map from the cache.  Each page shows what its
\* owner maps, and bytes_in_cache (map_handle.ipp:59) is the size of the maps in the cache.
Accounted ==
  /\ \A p \in Space : Cardinality(Owners(p)) = IF space[p] = Free THEN 0 ELSE 1
  /\ \A h \in Handles : \A p \in Cover(map[h]) : space[p] = Shows(h, p)
  /\ \A i \in cache : \A p \in Cached(i) : space[p] = Anon
  /\ bytes_in_cache = InItems(cache)
  /\ ~aborted

\* The pages that read() and write() of a handle may use are there.
InReach(h) ==
  LET v == map[h]
  IN  v.length > 0 =>
        /\ v.addr # Null
        /\ \A b \in 0..v.length - 1 :
             LET p == v.addr + ((v.offset % v.pagesize) + b) \div PageSize
             IN  p \in Space /\ space[p] = Shows(h, p)

\* "This length is used by `read()` and `write()` to prevent reading and writing off the end
\* of the mapped region" (map_handle.hpp:317): up to its length, a map is there.  Three
\* calls do not keep to that, and are the only ones: a truncate() that makes the
\* reservation of a section's map smaller; a truncate() of a mapped file that already has
\* the new length, beyond the reservation; and update_map() of a mapped file that lost its
\* map.  They hold for the map until it is made anew.
Within == \A h \in Handles \ beyond : InReach(h)

\* What the documentation says of every map, and of every page.
NoOverrun == \A h \in Handles : InReach(h)
NoLeak == lost = {}
=============================================================================
