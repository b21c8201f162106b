---------------------------- MODULE AddressSpace ----------------------------
(***************************************************************************)
(* The address space of the master against the table that the monitor      *)
(* keeps of it (sys/mmap.c, sys/munmap.c, sys/mprotect.c, mappings.c).     *)
(* Addresses and lengths are counted in pages.  The variants agree on      *)
(* their calls, so an executor is one step: what it asks of the table,     *)
(* what the kernel does, what it records.  Module Monitor has the order in *)
(* which the processes run.                                                *)
(***************************************************************************)
EXTENDS Mappings, FiniteSets

CONSTANTS
    Pages,      \* the address space is 1 .. Pages
    MaxCalls,   \* bound: calls the program makes
    Habits      \* what the program does besides mapping memory where the
                \* kernel likes, and unmapping or protecting what it has
                \* mapped, as a whole:
                \*   "part"  it protects a part of a mapping
                \*   "span"  it protects several mappings at once
                \*   "fixed" it maps memory at an address of its choice

PROT_READ  == 1
MAP_SHARED == 1
ENOMEM     == 12

ASSUME AddressSpaceAssumption ==
    /\ Pages \in Nat \ {0}
    /\ MaxCalls \in Nat
    /\ Habits \subseteq {"part", "span", "fixed"}

VARIABLES
    space,      \* what the kernel has mapped, by page
    mappings,   \* the table
    status,     \* "running", or "killed" when the monitor has refused a call
    last,       \* history: the last call
    calls       \* history: how many there were

vars == <<space, mappings, status, last, calls>>

Address == 1 .. Pages
Prot    == {PROT_READ, PROT_READ + PROT_WRITE}
Flags   == {MAP_SHARED, MAP_PRIVATE}

\* A page knows the address that the mmap of it returned; 0 stands for what
\* the kernel itself mapped when the program was loaded.
Page  == [start : 0 .. Pages, prot : Prot, flags : Flags]
Free  == [start |-> -1, prot |-> 0, flags |-> 0]
Call  == [nr : {"none", "mmap", "munmap", "mprotect"}, addr : 0 .. Pages,
          len : 0 .. Pages, prot : Prot, flags : Flags]

TypeOK ==
    /\ space \in [Address -> Page \cup {Free}]
    /\ mappings \in Seq(variantMMap)
    /\ status \in {"running", "killed"}
    /\ last \in Call
    /\ calls \in 0 .. MaxCalls

\* The last page is the program's own.
Init ==
    /\ space = [p \in Address |->
                  IF p = Pages
                  THEN [start |-> 0, prot |-> PROT_READ, flags |-> MAP_PRIVATE]
                  ELSE Free]
    /\ mappings = << >>
    /\ status = "running"
    /\ last = [nr |-> "none", addr |-> 0, len |-> 0, prot |-> PROT_READ,
               flags |-> MAP_PRIVATE]
    /\ calls = 0

-----------------------------------------------------------------------------
(* The kernel                                                              *)

Span(addr, len) == addr .. addr + len - 1

\* Where it may put a mapping, and the error if there is no place.
Places(len, fixed) ==
    IF fixed # 0
    THEN {fixed}
    ELSE {a \in Address : \A p \in Span(a, len) : p \in Address /\ space[p] = Free}

Map(addr, len, prot, flags) ==
    [p \in Address |->
        IF p \in Span(addr, len)
        THEN [start |-> addr, prot |-> prot, flags |-> flags] ELSE space[p]]

\* Mutant of Unmap: the memory stays, without access.
UnmapAccess(addr, len) ==
    [p \in Address |->
        IF p \in Span(addr, len) THEN [space[p] EXCEPT !.prot = 0] ELSE space[p]]

Unmap(addr, len) ==
    [p \in Address |-> IF p \in Span(addr, len) THEN Free ELSE space[p]]

Protect(addr, len, prot) ==
    [p \in Address |->
        IF p \in Span(addr, len) THEN [space[p] EXCEPT !.prot = prot]
                                 ELSE space[p]]

-----------------------------------------------------------------------------
(* The program                                                             *)

MappingAt(a) == {p \in Address : space[p].start = a}

\* The mappings that have a page among these are among them as a whole.
Whole(pages) == \A p \in pages : MappingAt(space[p].start) \subseteq pages

\* Pages from addr on that the program may take for one piece of memory.
Piece(addr, len) ==
    LET pages == Span(addr, len)
    IN  /\ pages \subseteq Address
        /\ \A p \in pages : space[p] # Free
        /\ \/ pages = MappingAt(space[addr].start)
           \/ "part" \in Habits /\ pages \subseteq MappingAt(space[addr].start)
           \/ "span" \in Habits /\ Whole(pages)

\* Where it may map: anywhere, or over whole mappings.
Hint(addr, len) ==
    \/ addr = 0
    \/ /\ "fixed" \in Habits
       /\ Span(addr, len) \subseteq Address
       /\ Whole({p \in Span(addr, len) : space[p] # Free})

Makes(nr, addr, len, prot, flags) ==
    /\ status = "running"
    /\ calls < MaxCalls
    /\ calls' = calls + 1
    /\ last' = [nr |-> nr, addr |-> addr, len |-> len, prot |-> prot,
                flags |-> flags]

Refuse == status' = "killed" /\ UNCHANGED <<space, mappings>>

-----------------------------------------------------------------------------
(* The executors                                                           *)

\* The length is taken from the entry information when that of the exit has
\* replaced it: both are members of one union, which is zeroed first.
RecordedLength(len) == 0

\* Mutant of mmap: what the program asked for is recorded, not what it got.
mmapRecordsHint(len, prot, flags, fixed) ==
    /\ Makes("mmap", fixed, len, prot, flags)
    /\ IF Permits(mappings, "add", fixed, prot, flags)
       THEN \E a \in Places(len, fixed) :
              /\ space' = Map(a, len, prot, flags)
              /\ mappings' = addMapping(mappings, fixed, RecordedLength(len),
                                        prot, flags)
              /\ UNCHANGED status
       ELSE Refuse

\* A failed mapping is recorded as well, with the error as its address.
mmap(len, prot, flags, fixed) ==
    /\ Makes("mmap", fixed, len, prot, flags)
    /\ IF Permits(mappings, "add", fixed, prot, flags)
       THEN /\ \/ \E a \in Places(len, fixed) :
                     /\ space' = Map(a, len, prot, flags)
                     /\ mappings' = addMapping(mappings, a, RecordedLength(len),
                                               prot, flags)
               \/ /\ mappings' = addMapping(mappings, -ENOMEM,
                                            RecordedLength(len), prot, flags)
                  /\ UNCHANGED space
            /\ UNCHANGED status
       ELSE Refuse

\* Mutant of munmap: the entry stays.
munmapKeepsEntry(addr, len) ==
    /\ Makes("munmap", addr, len, PROT_READ, MAP_PRIVATE)
    /\ IF Permits(mappings, "remove", addr, PROT_READ, MAP_PRIVATE)
       THEN /\ space' = Unmap(addr, len)
            /\ UNCHANGED <<mappings, status>>
       ELSE Refuse

munmap(addr, len) ==
    /\ Makes("munmap", addr, len, PROT_READ, MAP_PRIVATE)
    /\ IF Permits(mappings, "remove", addr, PROT_READ, MAP_PRIVATE)
       THEN /\ mappings' = removeMapping(mappings, addr)
            /\ space' = Unmap(addr, len)
            /\ UNCHANGED status
       ELSE Refuse

mprotect(addr, len, prot) ==
    /\ Makes("mprotect", addr, len, prot, MAP_PRIVATE)
    /\ IF Permits(mappings, "check", addr, prot, MAP_PRIVATE)
       THEN /\ space' = Protect(addr, len, prot)
            /\ UNCHANGED <<mappings, status>>
       ELSE Refuse

Next ==
    \/ \E len \in Address, prot \in Prot, flags \in Flags,
          fixed \in 0 .. Pages :
            /\ Hint(fixed, len)
            /\ mmap(len, prot, flags, fixed)
    \/ \E addr, len \in Address :
            /\ Span(addr, len) = MappingAt(addr)
            /\ munmap(addr, len)
    \/ \E addr, len \in Address, prot \in Prot :
            /\ Piece(addr, len)
            /\ mprotect(addr, len, prot)
    \/ /\ status = "killed" \/ calls = MaxCalls
       /\ UNCHANGED vars

Spec == Init /\ [][Next]_vars

-----------------------------------------------------------------------------
Writable(prot) == HasBit(prot, PROT_WRITE)
Shared(flags)  == ~HasBit(flags, MAP_PRIVATE)
Mapped         == {p \in Address : space[p] # Free}

\* No memory of a variant is shared and writable, however mappings come and go
\* and protections change: "Shared writable mmap not supported".
\* (security_manager.c:9)
NoSharedWritable ==
    \A p \in Mapped : ~(Writable(space[p].prot) /\ Shared(space[p].flags))

\* The table has one entry for each mapping that lives, with its flags, and
\* no other but those of failed calls.  (mmap.c, munmap.c, mappings.c)
TableExact ==
    LET starts == {space[p].start : p \in Mapped} \ {0}
        at(a)  == {i \in DOMAIN mappings : mappings[i].addr = a}
    IN  /\ \A a \in starts : Cardinality(at(a)) = 1
        /\ \A i \in DOMAIN mappings :
              mappings[i].addr > 0 =>
                  /\ mappings[i].addr \in starts
                  /\ \A p \in MappingAt(mappings[i].addr) :
                        space[p].flags = mappings[i].flags

\* Variants are killed only over a call that would have made memory shared and
\* writable: an entry of memory that is gone never speaks for what has come in
\* its place.  (munmap.c, mprotect.c)
JustRefusal ==
    status = "killed" =>
        /\ Writable(last.prot)
        /\ \/ last.nr = "mmap" /\ Shared(last.flags)
           \/ last.nr = "mprotect" /\ \E p \in Span(last.addr, last.len) :
                                          Shared(space[p].flags)
=============================================================================
