---------------------------- MODULE BufferPool ----------------------------
(* The buffer pool over its disk manager, with the clock replacer and the     *)
(* slotted pages in its frames.                                               *)
(*                                                                            *)
(* Clients take turns: a call runs to its end before the next begins, and a   *)
(* client keeps a page pinned between its calls.  A page is its slot array,   *)
(* the bytes behind it and the start of the tuples, which grow downwards.     *)
(* new_page may reuse the id of a page that was freed while another frame     *)
(* still holds it; `aliased` records that, and the property is about          *)
(* behaviours in which it did not happen.                                     *)
EXTENDS Integers, Sequences, SequencesExt, FiniteSetsExt

CONSTANTS Clients,
          PoolSize,        \* frames
          PageSize,        \* bytes; the header takes one, and so does a slot
          TupleSet,        \* what clients store
          MaxPages,        \* bound on the page ids
          MaxWrites        \* bound on insertions and deletions

ASSUME PoolBounds == {PoolSize, PageSize, MaxPages, MaxWrites} \subseteq Nat /\ PoolSize > 0 /\ PageSize > 1

VARIABLES frames,      \* frame -> page_id, data, pin_count, is_dirty
          page_table,  \* page id -> frame
          replacer,    \* ClockReplacer: hand, ref_bits, in_replacer
          disk,        \* DiskManager: pages written, num_pages, free_pages
          held,        \* client -> the page and frame it has pinned
          meant,       \* page id -> the tuples put into it, by slot
          writes, aliased

poolVars == <<frames, page_table, replacer, disk, held, meant, writes, aliased>>

FrameIds == 0..(PoolSize - 1)
NoPage == -1
NoFrame == -1
Header == 1
SlotSize == 1
Free == [page |-> NoPage, frame |-> NoFrame, changed |-> FALSE]

At(f, k, v) == [x \in DOMAIN f \union {k} |-> IF x = k THEN v ELSE f[x]]
But(f, k) == [x \in DOMAIN f \ {k} |-> f[x]]

-----------------------------------------------------------------------------
(* SlottedPage.                                                               *)

init == [slots |-> <<>>, upper |-> PageSize, bytes |-> [i \in 0..(PageSize - 1) |-> 0]]
lower(d) == Header + SlotSize * Len(d.slots)

\* Bytes laid down at an offset.
Laid(bytes, off, t) == [i \in DOMAIN bytes |-> IF i \in off..(off + Len(t) - 1) THEN t[i - off + 1] ELSE bytes[i]]

HasRoom(d, t) == d.upper >= lower(d) /\ d.upper - lower(d) >= Len(t) + SlotSize

insert_tuple(d, t) ==
    [slots |-> Append(d.slots, [offset |-> d.upper - Len(t), length |-> Len(t)]),
     upper |-> d.upper - Len(t),
     bytes |-> Laid(d.bytes, d.upper - Len(t), t)]

LiveSlot(s) == s.offset # 0 /\ s.length # 0 /\ s.offset + s.length <= PageSize
get_tuple(d, i) ==
    IF LiveSlot(d.slots[i])
    THEN [j \in 1..d.slots[i].length |-> d.bytes[d.slots[i].offset + j - 1]] ELSE <<>>

delete_tuple(d, i) == [d EXCEPT !.slots[i] = [offset |-> 0, length |-> 0]]

is_all_dead(d) == \A i \in DOMAIN d.slots : ~LiveSlot(d.slots[i])

\* Tuples are copied out and laid down again from the end of the page; slots keep
\* their numbers.
defragment(d) ==
    LET place(acc, i) ==
            LET t == get_tuple(d, i)
                off == acc.upper - Len(t)
            IN IF t = <<>> THEN acc
               ELSE [slots |-> [acc.slots EXCEPT ![i] = [offset |-> off, length |-> Len(t)]],
                     upper |-> off, bytes |-> Laid(acc.bytes, off, t)]
    IN FoldLeft(place, [d EXCEPT !.upper = PageSize], [i \in DOMAIN d.slots |-> i])

Tuples(d) == [i \in DOMAIN d.slots |-> get_tuple(d, i)]

-----------------------------------------------------------------------------
(* ClockReplacer.                                                             *)

\* ClockReplacer::new: no frame may be taken yet.
NewReplacer == [hand |-> 0, ref_bits |-> {}, in_replacer |-> {}]

pin(r, f) == [r EXCEPT !.in_replacer = @ \ {f}, !.ref_bits = @ \ {f}]
unpin(r, f) == [r EXCEPT !.in_replacer = @ \union {f}, !.ref_bits = @ \union {f}]

\* Two turns of the hand; a frame with its bit set is passed over once.
victim ==
    LET turn(r, i) ==
            IF r.found # NoFrame THEN r
            ELSE LET f == r.hand
                     on == [r EXCEPT !.hand = (f + 1) % PoolSize]
                 IN IF f \notin r.in_replacer THEN on
                    ELSE IF f \in r.ref_bits THEN [on EXCEPT !.ref_bits = @ \ {f}]
                    ELSE [on EXCEPT !.in_replacer = @ \ {f}, !.found = f]
    IN FoldLeft(turn, [hand |-> replacer.hand, ref_bits |-> replacer.ref_bits,
                       in_replacer |-> replacer.in_replacer, found |-> NoFrame],
                [i \in 1..(2 * PoolSize) |-> i])
Swept(v) == [hand |-> v.hand, ref_bits |-> v.ref_bits, in_replacer |-> v.in_replacer]

-----------------------------------------------------------------------------
(* DiskManager and BufferPoolManager.                                         *)

\* PageFrame::new; its bytes are not read before a page is installed.
NewFrame == [page_id |-> NoPage, data |-> init, pin_count |-> 0, is_dirty |-> FALSE]

\* DiskManager::new_in_memory, or open of an empty file.
NewDisk == [pages |-> <<>>, num_pages |-> 0, free_pages |-> <<>>]

read_page(d, p) == IF p \in DOMAIN d.pages THEN d.pages[p] ELSE init
write_page(d, p, data) ==
    [d EXCEPT !.pages = At(@, p, data), !.num_pages = IF p >= @ THEN p + 1 ELSE @]
deallocate_page(d, p) == IF p \in Range(d.free_pages) THEN d ELSE [d EXCEPT !.free_pages = Append(@, p)]

\* A plausible slip: the page in the victim frame is not written back.
Evicted_unwritten(d, f) == d

\* The disk once the page of a frame is written back.
Evicted(d, f) == IF frames[f].is_dirty /\ frames[f].page_id # NoPage
                 THEN write_page(d, frames[f].page_id, frames[f].data) ELSE d

\* The frame takes a page, pinned once; the mapping of its old page is removed.
Installed(f, p, data, dirty) ==
    /\ frames' = [frames EXCEPT ![f] = [page_id |-> p, data |-> data, pin_count |-> 1, is_dirty |-> dirty]]
    /\ page_table' = At(IF frames[f].page_id # NoPage THEN But(page_table, frames[f].page_id) ELSE page_table, p, f)

Hit(p) == p \in DOMAIN page_table

\* fetch_page: a hit, or the victim of the clock takes the page; no victim is an error.
fetch_page(c, p) ==
    /\ held[c] = Free /\ p \in DOMAIN meant
    /\ \/ /\ Hit(p)
          /\ frames' = [frames EXCEPT ![page_table[p]].pin_count = @ + 1]
          /\ replacer' = pin(replacer, page_table[p])
          /\ held' = [held EXCEPT ![c] = [page |-> p, frame |-> page_table[p], changed |-> FALSE]]
          /\ UNCHANGED <<page_table, disk>>
       \/ /\ ~Hit(p)
          /\ LET v == victim
             IN /\ v.found # NoFrame
                /\ disk' = Evicted(disk, v.found)
                /\ Installed(v.found, p, read_page(disk', p), FALSE)
                /\ replacer' = pin(Swept(v), v.found)
                /\ held' = [held EXCEPT ![c] = [page |-> p, frame |-> v.found, changed |-> FALSE]]
    /\ UNCHANGED <<meant, writes, aliased>>

\* The last freed page first, else a new one.
allocate_page ==
    IF disk.free_pages # <<>>
    THEN [page |-> Last(disk.free_pages), disk |-> [disk EXCEPT !.free_pages = Front(@)]]
    ELSE [page |-> disk.num_pages, disk |-> [disk EXCEPT !.num_pages = @ + 1]]

new_page(c) ==
    /\ held[c] = Free /\ allocate_page.page < MaxPages
    /\ LET v == victim
           p == allocate_page.page
           f == v.found
       IN /\ f # NoFrame
          /\ disk' = Evicted(allocate_page.disk, f)
          /\ Installed(f, p, init, TRUE)
          /\ replacer' = pin(Swept(v), f)
          /\ held' = [held EXCEPT ![c] = [page |-> p, frame |-> f, changed |-> FALSE]]
          /\ meant' = At(meant, p, <<>>)
          /\ aliased' = (aliased \/ \E x \in FrameIds \ {f} : frames[x].page_id = p)
    /\ UNCHANGED writes

\* A client writes in the frame it has pinned.
Change(c, data) ==
    /\ writes < MaxWrites
    /\ frames' = [frames EXCEPT ![held[c].frame].data = data]
    /\ held' = [held EXCEPT ![c].changed = TRUE]
    /\ writes' = writes + 1
    /\ UNCHANGED <<page_table, replacer, disk, aliased>>

InsertTuple(c, t) ==
    /\ held[c] # Free
    /\ HasRoom(frames[held[c].frame].data, t)
    /\ Change(c, insert_tuple(frames[held[c].frame].data, t))
    /\ meant' = [meant EXCEPT ![held[c].page] = Append(@, t)]

DeleteTuple(c) ==
    /\ held[c] # Free
    /\ \E i \in DOMAIN frames[held[c].frame].data.slots :
         /\ Change(c, delete_tuple(frames[held[c].frame].data, i))
         /\ meant' = [meant EXCEPT ![held[c].page][i] = <<>>]

\* Dirty when the client has changed the page; the last pin makes the frame a candidate.
unpin_page(c) ==
    /\ held[c] # Free /\ Hit(held[c].page)
    /\ LET f == page_table[held[c].page]
       IN /\ frames' = [frames EXCEPT ![f].pin_count = @ - 1, ![f].is_dirty = @ \/ held[c].changed]
          /\ replacer' = IF frames[f].pin_count = 1 THEN unpin(replacer, f) ELSE replacer
    /\ held' = [held EXCEPT ![c] = Free]
    /\ UNCHANGED <<page_table, disk, meant, writes, aliased>>

\* flush_all; flush_page does the same for one page.
flush_all ==
    /\ \E p \in DOMAIN page_table : frames[page_table[p]].is_dirty
    /\ disk' = FoldLeft(LAMBDA d, p : IF frames[page_table[p]].is_dirty
                                      THEN write_page(d, p, frames[page_table[p]].data) ELSE d,
                        disk, SetToSeq(DOMAIN page_table))
    /\ frames' = [f \in FrameIds |-> IF f \in Range(page_table) THEN [frames[f] EXCEPT !.is_dirty = FALSE]
                                     ELSE frames[f]]
    /\ UNCHANGED <<page_table, replacer, held, meant, writes, aliased>>

\* A page nobody has pinned is fetched, then freed or defragmented, and unpinned dirty.
Recycle(p, always) ==
    /\ p \in DOMAIN meant /\ \A c \in Clients : held[c].page # p
    /\ LET v == victim
           f == IF Hit(p) THEN page_table[p] ELSE v.found
           d == IF Hit(p) THEN disk ELSE Evicted(disk, f)
           data == IF Hit(p) THEN frames[f].data ELSE read_page(d, p)
           freed == always \/ is_all_dead(data)
       IN /\ f # NoFrame
          /\ frames' = [frames EXCEPT ![f] = [page_id |-> p, data |-> IF freed THEN init ELSE defragment(data),
                                              pin_count |-> 0, is_dirty |-> TRUE]]
          /\ page_table' = At(IF Hit(p) \/ frames[f].page_id = NoPage THEN page_table
                              ELSE But(page_table, frames[f].page_id), p, f)
          /\ replacer' = unpin(IF Hit(p) THEN replacer ELSE Swept(v), f)
          /\ disk' = IF freed THEN deallocate_page(d, p) ELSE d
          /\ meant' = IF freed THEN But(meant, p) ELSE meant
    /\ UNCHANGED <<held, writes, aliased>>

vacuum_page(p) == Recycle(p, FALSE)
free_page(p) == Recycle(p, TRUE)

\* Every frame is empty and unpinned once.
PoolInit ==
    /\ frames = [f \in FrameIds |-> NewFrame]
    /\ page_table = <<>>
    /\ replacer = FoldSet(LAMBDA f, r : unpin(r, f), NewReplacer, FrameIds)
    /\ disk = NewDisk
    /\ held = [c \in Clients |-> Free] /\ meant = <<>> /\ writes = 0 /\ aliased = FALSE

PoolNext ==
    \/ \E c \in Clients : \/ new_page(c) \/ unpin_page(c) \/ DeleteTuple(c)
                          \/ \E p \in 0..(MaxPages - 1) : fetch_page(c, p)
                          \/ \E t \in TupleSet : InsertTuple(c, t)
    \/ flush_all
    \/ \E p \in 0..(MaxPages - 1) : vacuum_page(p) \/ free_page(p)

-----------------------------------------------------------------------------

\* Through evictions, flushes and vacuums every page in use keeps the tuples put into it,
\* each in its slot; a pinned frame keeps its page, and a frame can be evicted exactly when
\* nobody has it pinned (BufferPoolManager, ClockReplacer, SlottedPage).
PagesKeepTheirTuples ==
    aliased \/
      /\ \A p \in DOMAIN meant :
           Tuples(IF Hit(p) THEN frames[page_table[p]].data ELSE read_page(disk, p)) = meant[p]
      /\ \A c \in Clients : held[c] # Free => frames[held[c].frame].page_id = held[c].page
      /\ replacer.in_replacer = {f \in FrameIds : frames[f].pin_count = 0}

=============================================================================
