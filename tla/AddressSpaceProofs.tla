------------------------- MODULE AddressSpaceProofs -------------------------
(***************************************************************************)
(* The table of the monitor is exact, and the policy keeps shared memory   *)
(* from being writable: for every size of the address space and number of  *)
(* calls, as long as the program has none of the habits that break it.     *)
(***************************************************************************)
EXTENDS AddressSpace, MappingsProofs, FiniteSetTheorems

NoFixed == "fixed" \notin Habits

\* A page is mapped or it is free, and a free page belongs to no mapping.
LEMMA PageType ==
    ASSUME TypeOK, NEW p \in Address
    PROVE  /\ space[p] \in Page \/ space[p] = Free
           /\ space[p].start \in Int /\ space[p].flags \in Int
           /\ space[p] = Free <=> space[p].start = -1
           /\ space[p].start \in -1 .. Pages
  BY AddressSpaceAssumption
     DEF TypeOK, Page, Free, Address, Flags, MAP_SHARED, MAP_PRIVATE

\* The first page that a call names is among its pages.
LEMMA FirstPage ==
    ASSUME NEW addr \in Address, NEW len \in Address
    PROVE  /\ addr \in Span(addr, len)
           /\ \A p \in Span(addr, len) : p \in Int /\ addr <= p
  BY AddressSpaceAssumption DEF Address, Span

-----------------------------------------------------------------------------
(* Types                                                                   *)

LEMMA TypeInit == Init => TypeOK
  BY AddressSpaceAssumption
     DEF Init, TypeOK, Address, Page, Free, Prot, Flags, Call, PROT_READ,
         MAP_PRIVATE, variantMMap

\* Every call keeps the types, whatever the program's habits.
LEMMA TypeStep == TypeOK /\ [Next]_vars => TypeOK'
<1> SUFFICES ASSUME TypeOK, [Next]_vars PROVE TypeOK'
  OBVIOUS
<1>1. ASSUME NEW nr \in {"mmap", "munmap", "mprotect"},
             NEW addr \in 0 .. Pages, NEW len \in Address,
             NEW prot \in Prot, NEW flags \in Flags,
             Makes(nr, addr, len, prot, flags)
      PROVE  last' \in Call /\ calls' \in 0 .. MaxCalls
  BY <1>1, AddressSpaceAssumption DEF Makes, TypeOK, Call, Address
<1>2. ASSUME Refuse
      PROVE  /\ space' \in [Address -> Page \cup {Free}]
             /\ mappings' \in Seq(variantMMap)
             /\ status' \in {"running", "killed"}
  BY <1>2 DEF Refuse, TypeOK
<1>3. ASSUME NEW len \in Address, NEW prot \in Prot, NEW flags \in Flags,
             NEW fixed \in 0 .. Pages, mmap(len, prot, flags, fixed)
      PROVE  TypeOK'
  <2>1. last' \in Call /\ calls' \in 0 .. MaxCalls
    BY <1>1, <1>3 DEF mmap
  <2>2. prot \in Int /\ flags \in Int /\ RecordedLength(len) \in Int
    BY DEF Prot, Flags, PROT_READ, PROT_WRITE, MAP_SHARED, MAP_PRIVATE,
           RecordedLength
  <2>3. ASSUME NEW a \in Places(len, fixed), space' = Map(a, len, prot, flags)
        PROVE  a \in Int /\ space' \in [Address -> Page \cup {Free}]
    <3>1. a \in 0 .. Pages
      BY AddressSpaceAssumption DEF Places, Address
    <3>2. [start |-> a, prot |-> prot, flags |-> flags] \in Page
      BY <3>1 DEF Page
    <3> QED
      BY <2>3, <3>1, <3>2 DEF Map, TypeOK
  <2>4. -ENOMEM \in Int
    BY DEF ENOMEM
  <2>5. ASSUME NEW a \in Int,
               mappings' = addMapping(mappings, a, RecordedLength(len), prot, flags)
        PROVE  mappings' \in Seq(variantMMap)
    BY <2>2, <2>5, AddMappingType DEF TypeOK
  <2> QED
    BY <1>2, <1>3, <2>1, <2>3, <2>4, <2>5 DEF mmap, TypeOK
<1>4. ASSUME NEW addr \in Address, NEW len \in Address, munmap(addr, len)
      PROVE  TypeOK'
  <2>1. last' \in Call /\ calls' \in 0 .. MaxCalls
    BY <1>1, <1>4 DEF munmap, Address, Prot, Flags
  <2>2. Unmap(addr, len) \in [Address -> Page \cup {Free}]
    BY DEF Unmap, TypeOK
  <2>3. removeMapping(mappings, addr) \in Seq(variantMMap)
    BY RemoveMappingType DEF TypeOK
  <2> QED
    BY <1>2, <1>4, <2>1, <2>2, <2>3 DEF munmap, TypeOK
<1>5. ASSUME NEW addr \in Address, NEW len \in Address, NEW prot \in Prot,
             Piece(addr, len), mprotect(addr, len, prot)
      PROVE  TypeOK'
  <2>1. last' \in Call /\ calls' \in 0 .. MaxCalls
    BY <1>1, <1>5 DEF mprotect, Address, Flags
  <2>2. Protect(addr, len, prot) \in [Address -> Page \cup {Free}]
    <3>1. ASSUME NEW p \in Address, p \in Span(addr, len)
          PROVE  [space[p] EXCEPT !.prot = prot] \in Page
      <4>1. space[p] \in Page
        BY <1>5, <3>1, PageType DEF Piece
      <4> QED
        BY <4>1 DEF Page
    <3> QED
      BY <3>1 DEF Protect, TypeOK
  <2> QED
    BY <1>2, <1>5, <2>1, <2>2 DEF mprotect, TypeOK
<1>6. CASE UNCHANGED vars
  BY <1>6 DEF vars, TypeOK
<1> QED
  BY <1>3, <1>4, <1>5, <1>6 DEF Next

\* Type correctness, for every program.
THEOREM AddressTypeCorrect == Spec => []TypeOK
<1> QED
  BY TypeInit, TypeStep, PTL DEF Spec

-----------------------------------------------------------------------------
(* The table                                                               *)

\* A mapping begins with its own first page.  What the kernel loaded is
\* private.
Placed ==
    \A p \in Address :
        /\ space[p].start > 0 => /\ space[p].start \in 1 .. p
                                 /\ space[space[p].start].start = space[p].start
        /\ space[p].start = 0 => space[p].flags = MAP_PRIVATE

\* A mapping has one entry.
Recorded ==
    \A a \in Address : space[a].start = a =>
        \E i \in DOMAIN mappings :
            /\ mappings[i].addr = a
            /\ \A j \in DOMAIN mappings : mappings[j].addr = a => j = i

\* An entry, but for those of failed calls, is that of a mapping with its
\* flags; it answers for one address only.
Entries ==
    \A i \in DOMAIN mappings :
        /\ mappings[i].len = 0
        /\ mappings[i].addr > 0 =>
              /\ mappings[i].addr \in Address
              /\ space[mappings[i].addr].start = mappings[i].addr
              /\ \A p \in Address : space[p].start = mappings[i].addr =>
                                        space[p].flags = mappings[i].flags

TableInv == Placed /\ Recorded /\ Entries

\* Nothing is recorded before the first call.
LEMMA TableInit == Init => TableInv
  BY AddressSpaceAssumption
     DEF Init, TableInv, Placed, Recorded, Entries, Address, Free

\* An entry answers for its own address only.
LEMMA HoldsOwn ==
    ASSUME TypeOK, Entries, NEW i \in DOMAIN mappings, NEW target \in Int
    PROVE  Holds(mappings[i], target) <=> mappings[i].addr = target
  BY DEF Entries, Holds

\* Where a mapping begins, the table finds the entry of that mapping, and
\* elsewhere it finds none.
LEMMA FindOwn ==
    ASSUME TypeOK, TableInv, NEW addr \in Address
    PROVE  LET i == findMapping(mappings, addr)
           IN  \/ /\ i \in DOMAIN mappings /\ i # 0
                  /\ mappings[i].addr = addr /\ space[addr].start = addr
                  /\ \A p \in Address : space[p].start = addr =>
                                            space[p].flags = mappings[i].flags
               \/ i = 0 /\ space[addr].start # addr
<1> DEFINE i == findMapping(mappings, addr)
<1>1. addr \in Int /\ addr > 0 /\ mappings \in Seq(variantMMap)
  BY AddressSpaceAssumption DEF Address, TypeOK
<1>2. CASE i \in DOMAIN mappings /\ i # 0 /\ Holds(mappings[i], addr)
  <2>1. mappings[i].addr = addr
    BY <1>1, <1>2, HoldsOwn DEF TableInv
  <2> HIDE DEF i
  <2>2. QED
    BY <1>1, <1>2, <2>1 DEF TableInv, Entries, i
<1>3. CASE i = 0 /\ \A j \in DOMAIN mappings : ~Holds(mappings[j], addr)
  <2>1. \A j \in DOMAIN mappings : mappings[j].addr # addr
    BY <1>1, <1>3, HoldsOwn DEF TableInv
  <2> QED
    BY <1>3, <2>1 DEF TableInv, Recorded
<1> QED
  BY <1>1, <1>2, <1>3, FindMapping

\* A new entry is the last one, and the others stay.
LEMMA Added ==
    ASSUME TypeOK, NEW a \in Int, NEW prot \in Int, NEW flags \in Int,
           mappings' = addMapping(mappings, a, 0, prot, flags)
    PROVE  /\ mappings \in Seq(variantMMap)
           /\ Len(mappings) \in Nat
           /\ DOMAIN mappings = 1 .. Len(mappings)
           /\ DOMAIN mappings' = 1 .. Len(mappings) + 1
           /\ \A i \in DOMAIN mappings : mappings'[i] = mappings[i]
           /\ mappings'[Len(mappings) + 1] =
                 [addr |-> a, len |-> 0, prot |-> prot, flags |-> flags]
<1> DEFINE e == [addr |-> a, len |-> 0, prot |-> prot, flags |-> flags]
<1>1. e \in variantMMap /\ mappings \in Seq(variantMMap)
  BY DEF TypeOK, variantMMap
<1>2. mappings' = Append(mappings, e)
  BY DEF addMapping
<1> HIDE DEF e
<1>3. /\ Append(mappings, e) \in Seq(variantMMap)
      /\ Len(Append(mappings, e)) = Len(mappings) + 1
      /\ \A i \in 1 .. Len(mappings) : Append(mappings, e)[i] = mappings[i]
      /\ Append(mappings, e)[Len(mappings) + 1] = e
  BY <1>1, AppendProperties
<1>4. DOMAIN mappings = 1 .. Len(mappings) /\ Len(mappings) \in Nat
  BY <1>1, LenProperties
<1>5. DOMAIN mappings' = 1 .. Len(mappings) + 1
  BY <1>2, <1>3, LenProperties
<1> QED
  BY <1>1, <1>2, <1>3, <1>4, <1>5 DEF e

\* A mapping that the kernel places where nothing is gets its entry.
LEMMA MmapPlaced ==
    ASSUME TypeOK, TableInv, NEW len \in Address, NEW prot \in Prot,
           NEW flags \in Flags, NEW a \in Places(len, 0),
           space' = Map(a, len, prot, flags),
           mappings' = addMapping(mappings, a, RecordedLength(len), prot, flags)
    PROVE  TableInv'
<1>1. /\ a \in Address /\ a \in Int /\ a > 0
      /\ \A p \in Span(a, len) : p \in Address /\ space[p] = Free
  BY AddressSpaceAssumption DEF Places, Address
<1>2. /\ a \in Span(a, len)
      /\ \A p \in Span(a, len) : p \in Int /\ a <= p /\ space[p].start = -1
  BY <1>1, FirstPage DEF Free
<1>3. /\ \A p \in Span(a, len) : space'[p].start = a /\ space'[p].flags = flags
      /\ \A p \in Address \ Span(a, len) : space'[p] = space[p]
  BY <1>1 DEF Map
<1>4. /\ Len(mappings) \in Nat
      /\ DOMAIN mappings = 1 .. Len(mappings)
      /\ DOMAIN mappings' = 1 .. Len(mappings) + 1
      /\ \A i \in DOMAIN mappings : mappings'[i] = mappings[i]
      /\ mappings'[Len(mappings) + 1] =
            [addr |-> a, len |-> 0, prot |-> prot, flags |-> flags]
  BY <1>1, Added
     DEF RecordedLength, Prot, Flags, PROT_READ, PROT_WRITE, MAP_SHARED,
         MAP_PRIVATE
<1>5. ASSUME NEW p \in Address, space[p].start = a PROVE FALSE
  <2>1. space[a].start = a
    BY <1>1, <1>5 DEF TableInv, Placed
  <2> QED
    BY <1>1, <1>2, <2>1
<1>6. \A i \in DOMAIN mappings : mappings[i].addr # a
  BY <1>1, <1>5 DEF TableInv, Entries
<1>7. Placed'
  <2> SUFFICES ASSUME NEW p \in Address
               PROVE  /\ space'[p].start > 0 =>
                            /\ space'[p].start \in 1 .. p
                            /\ space'[space'[p].start].start = space'[p].start
                      /\ space'[p].start = 0 => space'[p].flags = MAP_PRIVATE
    BY DEF Placed
  <2>1. CASE p \in Span(a, len)
    BY <1>1, <1>2, <1>3, <2>1
  <2>2. CASE p \notin Span(a, len)
    <3>1. space'[p] = space[p]
      BY <1>3, <2>2
    <3>2. ASSUME space[p].start > 0
          PROVE  /\ space[p].start \in Address
                 /\ space'[space[p].start] = space[space[p].start]
      <4>1. /\ space[p].start \in 1 .. p
            /\ space[space[p].start].start = space[p].start
        BY <3>2 DEF TableInv, Placed
      <4>2. space[p].start \in Address /\ space[p].start # -1
        BY <4>1, AddressSpaceAssumption DEF Address
      <4> QED
        BY <1>2, <1>3, <4>1, <4>2
    <3> QED
      BY <3>1, <3>2 DEF TableInv, Placed
  <2> QED
    BY <2>1, <2>2
<1>8. Recorded'
  <2> SUFFICES ASSUME NEW b \in Address, space'[b].start = b
               PROVE  \E i \in DOMAIN mappings' :
                         /\ mappings'[i].addr = b
                         /\ \A j \in DOMAIN mappings' :
                               mappings'[j].addr = b => j = i
    BY DEF Recorded
  <2>1. CASE b = a
    <3>1. \A j \in DOMAIN mappings' :
             mappings'[j].addr = a => j = Len(mappings) + 1
      BY <1>4, <1>6
    <3> QED
      BY <1>4, <2>1, <3>1
  <2>2. CASE b # a
    <3>1. space[b].start = b
      BY <1>3, <2>2
    <3>2. PICK i \in DOMAIN mappings :
             /\ mappings[i].addr = b
             /\ \A j \in DOMAIN mappings : mappings[j].addr = b => j = i
      BY <3>1 DEF TableInv, Recorded
    <3>3. \A j \in DOMAIN mappings' :
             j \in DOMAIN mappings \/ mappings'[j].addr = a
      BY <1>4
    <3> QED
      BY <1>4, <2>2, <3>2, <3>3
  <2> QED
    BY <2>1, <2>2
<1>9. Entries'
  <2> SUFFICES ASSUME NEW i \in DOMAIN mappings'
               PROVE  /\ mappings'[i].len = 0
                      /\ mappings'[i].addr > 0 =>
                           /\ mappings'[i].addr \in Address
                           /\ space'[mappings'[i].addr].start = mappings'[i].addr
                           /\ \A p \in Address :
                                 space'[p].start = mappings'[i].addr =>
                                    space'[p].flags = mappings'[i].flags
    BY DEF Entries
  <2>1. CASE i = Len(mappings) + 1
    BY <1>1, <1>2, <1>3, <1>4, <1>5, <2>1
  <2>2. CASE i # Len(mappings) + 1
    <3>1. i \in DOMAIN mappings /\ mappings'[i] = mappings[i]
      BY <1>4, <2>2
    <3>2. mappings[i].addr > 0 => mappings[i].addr \notin Span(a, len)
      BY <1>2, <3>1 DEF TableInv, Entries
    <3> QED
      BY <1>3, <1>6, <3>1, <3>2 DEF TableInv, Entries
  <2> QED
    BY <2>1, <2>2
<1> QED
  BY <1>7, <1>8, <1>9 DEF TableInv

\* A failed mapping leaves an entry that no address finds.
LEMMA MmapFailed ==
    ASSUME TypeOK, TableInv, NEW len \in Address, NEW prot \in Prot,
           NEW flags \in Flags, UNCHANGED space,
           mappings' = addMapping(mappings, -ENOMEM, RecordedLength(len),
                                  prot, flags)
    PROVE  TableInv'
<1>1. /\ Len(mappings) \in Nat
      /\ DOMAIN mappings = 1 .. Len(mappings)
      /\ DOMAIN mappings' = 1 .. Len(mappings) + 1
      /\ \A i \in DOMAIN mappings : mappings'[i] = mappings[i]
      /\ mappings'[Len(mappings) + 1] =
            [addr |-> -12, len |-> 0, prot |-> prot, flags |-> flags]
  <2>1. -12 \in Int /\ prot \in Int /\ flags \in Int
    BY DEF Prot, Flags, PROT_READ, PROT_WRITE, MAP_SHARED, MAP_PRIVATE
  <2> QED
    BY <2>1, Added DEF RecordedLength, ENOMEM
<1>2. Placed'
  BY DEF TableInv, Placed
<1>3. Recorded'
  <2> SUFFICES ASSUME NEW b \in Address, space[b].start = b
               PROVE  \E i \in DOMAIN mappings' :
                         /\ mappings'[i].addr = b
                         /\ \A j \in DOMAIN mappings' :
                               mappings'[j].addr = b => j = i
    BY DEF Recorded
  <2>1. PICK i \in DOMAIN mappings :
           /\ mappings[i].addr = b
           /\ \A j \in DOMAIN mappings : mappings[j].addr = b => j = i
    BY DEF TableInv, Recorded
  <2>2. mappings'[Len(mappings) + 1].addr # b
    BY <1>1, AddressSpaceAssumption DEF Address
  <2> QED
    BY <1>1, <2>1, <2>2
<1>4. Entries'
  BY <1>1 DEF TableInv, Entries
<1> QED
  BY <1>2, <1>3, <1>4 DEF TableInv

\* Unmapping a mapping is never refused, and takes its entry with it.
LEMMA MunmapStep ==
    ASSUME TypeOK, TableInv, NEW addr \in Address, NEW len \in Address,
           Span(addr, len) = MappingAt(addr), munmap(addr, len)
    PROVE  TableInv' /\ UNCHANGED status
<1>1. /\ addr \in Int /\ addr > 0
      /\ addr \in Span(addr, len) /\ space[addr].start = addr
      /\ \A p \in Address : p \in Span(addr, len) <=> space[p].start = addr
  BY FirstPage, AddressSpaceAssumption DEF MappingAt, Address
<1>2. PICK e \in DOMAIN mappings :
         /\ mappings[e].addr = addr
         /\ \A j \in DOMAIN mappings : mappings[j].addr = addr => j = e
  BY <1>1 DEF TableInv, Recorded
<1>3. Permits(mappings, "remove", addr, PROT_READ, MAP_PRIVATE)
  <2>1. /\ findMapping(mappings, addr) # 0
        /\ mappings[findMapping(mappings, addr)].addr = addr
    BY <1>1, FindOwn
  <2> QED
    BY <2>1 DEF Permits
<1>4. /\ mappings' = removeMapping(mappings, addr)
      /\ space' = Unmap(addr, len)
      /\ UNCHANGED status
  BY <1>3 DEF munmap
<1>5. /\ \A p \in Address : space[p].start = addr => space'[p].start = -1
      /\ \A p \in Address : space[p].start # addr => space'[p] = space[p]
  BY <1>1, <1>4 DEF Unmap, Free
<1>6. /\ DOMAIN mappings = 1 .. Len(mappings) /\ Len(mappings) \in Nat
      /\ DOMAIN mappings' = 1 .. Len(mappings) - 1
      /\ \A i \in 1 .. Len(mappings) - 1 :
            mappings'[i] = IF i < e THEN mappings[i] ELSE mappings[i + 1]
  <2>1. mappings \in Seq(variantMMap)
    BY DEF TypeOK
  <2>2. PICK k \in DOMAIN mappings :
           /\ mappings[k].addr = addr
           /\ DOMAIN removeMapping(mappings, addr) = 1 .. Len(mappings) - 1
           /\ \A i \in 1 .. Len(mappings) - 1 :
                 removeMapping(mappings, addr)[i] =
                    IF i < k THEN mappings[i] ELSE mappings[i + 1]
    BY <1>2, <2>1, RemoveMappingEntries
  <2>3. k = e
    BY <1>2, <2>2
  <2> QED
    BY <1>4, <2>1, <2>2, <2>3, LenProperties
<1>7. Placed'
  <2> SUFFICES ASSUME NEW p \in Address
               PROVE  /\ space'[p].start > 0 =>
                            /\ space'[p].start \in 1 .. p
                            /\ space'[space'[p].start].start = space'[p].start
                      /\ space'[p].start = 0 => space'[p].flags = MAP_PRIVATE
    BY DEF Placed
  <2>1. CASE space[p].start = addr
    BY <1>5, <2>1
  <2>2. CASE space[p].start # addr
    <3>1. space'[p] = space[p]
      BY <1>5, <2>2
    <3>2. ASSUME space[p].start > 0
          PROVE  /\ space[p].start \in Address
                 /\ space'[space[p].start] = space[space[p].start]
      <4>1. /\ space[p].start \in 1 .. p
            /\ space[space[p].start].start = space[p].start
        BY <3>2 DEF TableInv, Placed
      <4>2. space[p].start \in Address
        BY <4>1, AddressSpaceAssumption DEF Address
      <4> QED
        BY <1>5, <2>2, <4>1, <4>2
    <3> QED
      BY <3>1, <3>2 DEF TableInv, Placed
  <2> QED
    BY <2>1, <2>2
<1>8. Recorded'
  <2> SUFFICES ASSUME NEW b \in Address, space'[b].start = b
               PROVE  \E i \in DOMAIN mappings' :
                         /\ mappings'[i].addr = b
                         /\ \A j \in DOMAIN mappings' :
                               mappings'[j].addr = b => j = i
    BY DEF Recorded
  <2>1. b > 0 /\ b # addr /\ space[b].start = b
    BY <1>5, AddressSpaceAssumption DEF Address
  <2>2. PICK i \in DOMAIN mappings :
           /\ mappings[i].addr = b
           /\ \A j \in DOMAIN mappings : mappings[j].addr = b => j = i
    BY <2>1 DEF TableInv, Recorded
  <2>3. i # e /\ i \in Int /\ e \in Int
    BY <1>2, <1>6, <2>1, <2>2
  <2>4. CASE i < e
    <3>1. i \in DOMAIN mappings' /\ mappings'[i].addr = b
      BY <1>6, <2>2, <2>4
    <3>2. ASSUME NEW j \in DOMAIN mappings', mappings'[j].addr = b
          PROVE  j = i
      <4>1. CASE j < e
        BY <1>6, <2>2, <3>2, <4>1
      <4>2. CASE ~(j < e)
        <5>1. j + 1 \in DOMAIN mappings /\ mappings[j + 1].addr = b
          BY <1>6, <3>2, <4>2
        <5> QED
          BY <1>6, <2>2, <2>3, <2>4, <4>2, <5>1
      <4> QED
        BY <4>1, <4>2
    <3> QED
      BY <3>1, <3>2
  <2>5. CASE i > e
    <3>1. /\ i - 1 \in DOMAIN mappings' /\ ~(i - 1 < e)
          /\ (i - 1) + 1 = i
      BY <1>6, <2>3, <2>5
    <3>2. mappings'[i - 1].addr = b
      BY <1>6, <2>2, <3>1
    <3>3. ASSUME NEW j \in DOMAIN mappings', mappings'[j].addr = b
          PROVE  j = i - 1
      <4>1. CASE j < e
        <5>1. j \in DOMAIN mappings /\ mappings[j].addr = b
          BY <1>6, <3>3, <4>1
        <5> QED
          BY <1>6, <2>2, <2>3, <2>5, <4>1, <5>1
      <4>2. CASE ~(j < e)
        <5>1. j + 1 \in DOMAIN mappings /\ mappings[j + 1].addr = b
          BY <1>6, <3>3, <4>2
        <5> QED
          BY <1>6, <2>2, <5>1
      <4> QED
        BY <4>1, <4>2
    <3> QED
      BY <3>1, <3>2, <3>3
  <2> QED
    BY <2>3, <2>4, <2>5
<1>9. Entries'
  <2> SUFFICES ASSUME NEW i \in DOMAIN mappings'
               PROVE  /\ mappings'[i].len = 0
                      /\ mappings'[i].addr > 0 =>
                           /\ mappings'[i].addr \in Address
                           /\ space'[mappings'[i].addr].start = mappings'[i].addr
                           /\ \A p \in Address :
                                 space'[p].start = mappings'[i].addr =>
                                    space'[p].flags = mappings'[i].flags
    BY DEF Entries
  <2>1. PICK j \in DOMAIN mappings : j # e /\ mappings'[i] = mappings[j]
    <3>1. e \in Int
      BY <1>6
    <3>2. CASE i < e
      BY <1>6, <3>1, <3>2
    <3>3. CASE ~(i < e)
      <4>1. i + 1 \in DOMAIN mappings /\ i + 1 # e
        BY <1>6, <3>1, <3>3
      <4> QED
        BY <1>6, <3>3, <4>1
    <3> QED
      BY <3>2, <3>3
  <2>2. mappings[j].addr # addr
    BY <1>2, <2>1
  <2> QED
    BY <1>5, <2>1, <2>2 DEF TableInv, Entries
<1> QED
  BY <1>4, <1>7, <1>8, <1>9 DEF TableInv

\* Protecting memory changes neither mappings nor the table.
LEMMA MprotectStep ==
    ASSUME TypeOK, TableInv, NEW addr \in Address, NEW len \in Address,
           NEW prot \in Prot, Piece(addr, len), mprotect(addr, len, prot)
    PROVE  TableInv'
<1>1. mappings' = mappings
  BY DEF mprotect, Refuse
<1>2. \A p \in Address : /\ space'[p].start = space[p].start
                         /\ space'[p].flags = space[p].flags
  <2>1. ASSUME NEW p \in Address, p \in Span(addr, len)
        PROVE  space[p] \in Page
    BY <2>1, PageType DEF Piece
  <2>2. \A p \in Address : p \in Span(addr, len) =>
           /\ [space[p] EXCEPT !.prot = prot].start = space[p].start
           /\ [space[p] EXCEPT !.prot = prot].flags = space[p].flags
    BY <2>1 DEF Page
  <2> QED
    BY <2>2 DEF mprotect, Refuse, Protect
<1>3. Placed'
  <2>1. \A p \in Address : space[p].start > 0 => space[p].start \in Address
    BY AddressSpaceAssumption DEF TableInv, Placed, Address
  <2> QED
    BY <1>2, <2>1 DEF TableInv, Placed
<1>4. Recorded'
  BY <1>1, <1>2 DEF TableInv, Recorded
<1>5. Entries'
  BY <1>1, <1>2 DEF TableInv, Entries
<1> QED
  BY <1>3, <1>4, <1>5 DEF TableInv

\* Every call keeps the table, if the kernel chooses the addresses.
LEMMA TableStep ==
    ASSUME NoFixed, TypeOK, TableInv, [Next]_vars
    PROVE  TableInv'
<1>1. ASSUME NEW len \in Address, NEW prot \in Prot, NEW flags \in Flags,
             NEW fixed \in 0 .. Pages,
             Hint(fixed, len), mmap(len, prot, flags, fixed)
      PROVE  TableInv'
  <2>1. fixed = 0
    BY <1>1 DEF Hint, NoFixed
  <2>2. CASE UNCHANGED <<space, mappings>>
    BY <2>2 DEF TableInv, Placed, Recorded, Entries
  <2> QED
    BY <1>1, <2>1, <2>2, MmapPlaced, MmapFailed DEF mmap, Refuse
<1>2. CASE UNCHANGED vars
  BY <1>2 DEF vars, TableInv, Placed, Recorded, Entries
<1> QED
  BY <1>1, <1>2, MunmapStep, MprotectStep DEF Next

\* The inductive invariant: every mapping has one entry, and every entry but
\* those of failed calls its mapping.
LEMMA TableInvCorrect ==
    ASSUME NoFixed
    PROVE  Spec => [](TypeOK /\ TableInv)
<1> DEFINE I == TypeOK /\ TableInv
<1>1. Init => I
  BY TypeInit, TableInit
<1>2. I /\ [Next]_vars => I'
  BY TypeStep, TableStep
<1> QED
  BY <1>1, <1>2, PTL DEF Spec

\* What the invariant says of a mapping's entries: there is one.
LEMMA OneEntry ==
    ASSUME TypeOK, TableInv, NEW a \in Address, space[a].start = a
    PROVE  Cardinality({i \in DOMAIN mappings : mappings[i].addr = a}) = 1
<1>1. PICK i \in DOMAIN mappings :
         /\ mappings[i].addr = a
         /\ \A j \in DOMAIN mappings : mappings[j].addr = a => j = i
  BY DEF TableInv, Recorded
<1>2. {j \in DOMAIN mappings : mappings[j].addr = a} = {i}
  BY <1>1
<1> QED
  BY <1>2, FS_Singleton

\* The table has one entry for each mapping that lives and no other, whatever
\* the program protects and however often memory comes and goes, as long as it
\* does not choose the addresses.  (mmap.c, munmap.c, mappings.c)
THEOREM TableExactCorrect ==
    ASSUME "fixed" \notin Habits
    PROVE  Spec => []TableExact
<1>1. ASSUME TypeOK, TableInv PROVE TableExact
  <2> DEFINE starts == {space[p].start : p \in Mapped} \ {0}
             at(a)  == {i \in DOMAIN mappings : mappings[i].addr = a}
  <2>1. ASSUME NEW a \in starts
        PROVE  a \in Address /\ space[a].start = a
    <3>1. PICK p \in Address : space[p] # Free /\ a = space[p].start /\ a # 0
      BY DEF Mapped
    <3>2. a > 0 /\ a \in Int
      BY <1>1, <3>1, PageType, AddressSpaceAssumption
    <3>3. a \in 1 .. p /\ space[a].start = a
      BY <1>1, <3>1, <3>2 DEF TableInv, Placed
    <3> QED
      BY <3>3, AddressSpaceAssumption DEF Address
  <2>2. \A a \in starts : Cardinality(at(a)) = 1
    BY <1>1, <2>1, OneEntry
  <2>3. ASSUME NEW i \in DOMAIN mappings, mappings[i].addr > 0
        PROVE  /\ mappings[i].addr \in starts
               /\ \A p \in MappingAt(mappings[i].addr) :
                     space[p].flags = mappings[i].flags
    <3>1. /\ mappings[i].addr \in Address
          /\ space[mappings[i].addr].start = mappings[i].addr
          /\ \A p \in Address : space[p].start = mappings[i].addr =>
                                    space[p].flags = mappings[i].flags
      BY <1>1, <2>3 DEF TableInv, Entries
    <3>2. mappings[i].addr # 0 /\ mappings[i].addr # -1
      BY <3>1, AddressSpaceAssumption DEF Address
    <3>3. mappings[i].addr \in Mapped
      BY <3>1, <3>2 DEF Mapped, Free
    <3> QED
      BY <3>1, <3>2, <3>3 DEF MappingAt
  <2> QED
    BY <2>2, <2>3 DEF TableExact
<1>2. Spec => [](TypeOK /\ TableInv)
  BY TableInvCorrect DEF NoFixed
<1> QED
  BY <1>1, <1>2, PTL

-----------------------------------------------------------------------------
(* The policy                                                              *)

\* What the two bits of the policy are for the values that programs pass.
LEMMA Policy ==
    ASSUME NEW prot \in Prot, NEW flags \in Flags
    PROVE  checkMMapPerms(prot, flags) = 0 <=> ~(Writable(prot) /\ Shared(flags))
  BY DEF checkMMapPerms, Writable, Shared

\* A call that changes memory does not make it shared and writable.
LEMMA NoSharedStep ==
    ASSUME Habits = {}, TypeOK, TableInv, NoSharedWritable, [Next]_vars
    PROVE  NoSharedWritable'
<1>1. CASE UNCHANGED space
  BY <1>1 DEF NoSharedWritable, Mapped
<1>2. ASSUME NEW len \in Address, NEW prot \in Prot, NEW flags \in Flags,
             NEW fixed \in 0 .. Pages, mmap(len, prot, flags, fixed),
             space' # space
      PROVE  NoSharedWritable'
  <2>1. /\ checkMMapPerms(prot, flags) = 0
        /\ \E a : space' = Map(a, len, prot, flags)
    BY <1>2 DEF mmap, Refuse, Permits
  <2>2. ~(Writable(prot) /\ Shared(flags))
    BY <2>1, Policy
  <2>3. \A p \in Address : \/ space'[p] = space[p]
                           \/ space'[p].prot = prot /\ space'[p].flags = flags
    BY <2>1 DEF Map
  <2> QED
    BY <2>2, <2>3 DEF NoSharedWritable, Mapped
<1>3. ASSUME NEW addr \in Address, NEW len \in Address, munmap(addr, len)
      PROVE  NoSharedWritable'
  <2>1. \A p \in Address : space'[p] = space[p] \/ space'[p] = Free
    BY <1>3 DEF munmap, Refuse, Unmap
  <2> QED
    BY <2>1 DEF NoSharedWritable, Mapped
<1>4. ASSUME NEW addr \in Address, NEW len \in Address, NEW prot \in Prot,
             Piece(addr, len), mprotect(addr, len, prot), space' # space
      PROVE  NoSharedWritable'
  <2>1. /\ Permits(mappings, "check", addr, prot, MAP_PRIVATE)
        /\ space' = Protect(addr, len, prot)
    BY <1>4 DEF mprotect, Refuse
  <2>2. /\ addr \in Span(addr, len) /\ addr \in Int /\ addr > 0
        /\ \A p \in Span(addr, len) : p \in Int /\ addr <= p
        /\ Span(addr, len) \subseteq Address
        /\ \A p \in Span(addr, len) : space[p] # Free
        /\ Span(addr, len) = MappingAt(space[addr].start)
    BY <1>4, FirstPage, AddressSpaceAssumption DEF Piece, Address
  <2>3. \A p \in Span(addr, len) : space[p].start = space[addr].start
    BY <2>2 DEF MappingAt
  <2>4. \A p \in Span(addr, len) : ~(Writable(prot) /\ Shared(space[p].flags))
    <3>1. CASE space[addr].start = 0
      <4>1. \A p \in Span(addr, len) : space[p].flags = MAP_PRIVATE
        BY <2>2, <2>3, <3>1 DEF TableInv, Placed
      <4>2. ~Shared(MAP_PRIVATE)
        BY DEF Shared, HasBit, MAP_PRIVATE
      <4> QED
        BY <4>1, <4>2
    <3>2. CASE space[addr].start > 0
      <4> DEFINE s == space[addr].start
      <4>1. s \in 1 .. addr /\ space[s].start = s
        BY <3>2 DEF TableInv, Placed
      <4>2. s \in Span(addr, len)
        BY <2>2, <4>1, AddressSpaceAssumption DEF MappingAt, Address
      <4>3. s = addr
        BY <2>2, <4>1, <4>2
      <4> DEFINE i == findMapping(mappings, addr)
      <4>4. /\ i # 0
            /\ \A p \in Address : space[p].start = addr =>
                                      space[p].flags = mappings[i].flags
        BY <4>1, <4>3, FindOwn
      <4>5. checkMMapPerms(prot, mappings[i].flags) = 0
        BY <2>1, <4>4 DEF Permits
      <4>6. \A p \in Span(addr, len) : space[p].flags = mappings[i].flags
        BY <2>2, <2>3, <4>3, <4>4
      <4>7. mappings[i].flags \in Flags
        <5>1. space[addr] \in Page
          BY <2>2, PageType
        <5> QED
          BY <2>2, <4>6, <5>1 DEF Page
      <4> QED
        BY <4>5, <4>6, <4>7, Policy
    <3>3. space[addr].start > 0 \/ space[addr].start = 0
      BY <2>2, PageType, AddressSpaceAssumption
    <3> QED
      BY <3>1, <3>2, <3>3
  <2>5. \A p \in Address :
           \/ space'[p] = space[p]
           \/ /\ p \in Span(addr, len)
              /\ space'[p].prot = prot /\ space'[p].flags = space[p].flags
    <3>1. \A p \in Span(addr, len) : space[p] \in Page
      BY <2>2, PageType
    <3>2. \A p \in Span(addr, len) :
             /\ [space[p] EXCEPT !.prot = prot].prot = prot
             /\ [space[p] EXCEPT !.prot = prot].flags = space[p].flags
      BY <3>1 DEF Page
    <3> QED
      BY <2>1, <3>2 DEF Protect
  <2> QED
    BY <2>4, <2>5 DEF NoSharedWritable, Mapped
<1> QED
  BY <1>1, <1>2, <1>3, <1>4 DEF Next, vars

\* No memory of a variant is ever shared and writable, if the program maps
\* where the kernel likes and unmaps and protects mappings as a whole.
\* (security_manager.c, mmap.c, mprotect.c)
THEOREM NoSharedWritableCorrect ==
    ASSUME Habits = {}
    PROVE  Spec => []NoSharedWritable
<1>1. Init => NoSharedWritable
  BY DEF Init, NoSharedWritable, Mapped, Free, Writable, HasBit, PROT_READ,
         PROT_WRITE
<1>2. TypeOK /\ TableInv /\ NoSharedWritable /\ [Next]_vars => NoSharedWritable'
  BY NoSharedStep
<1>3. Spec => [](TypeOK /\ TableInv)
  BY TableInvCorrect DEF NoFixed
<1> QED
  BY <1>1, <1>2, <1>3, PTL DEF Spec

\* A refusal is of a call that would have made memory shared and writable.
LEMMA JustStep ==
    ASSUME NoFixed, TypeOK, TableInv, JustRefusal, [Next]_vars
    PROVE  JustRefusal'
<1>1. CASE UNCHANGED vars
  BY <1>1 DEF vars, JustRefusal, Span
<1>2. ASSUME NEW len \in Address, NEW prot \in Prot, NEW flags \in Flags,
             NEW fixed \in 0 .. Pages, mmap(len, prot, flags, fixed)
      PROVE  JustRefusal'
  <2>1. status = "running" /\ last' = [nr |-> "mmap", addr |-> fixed, len |-> len,
                                       prot |-> prot, flags |-> flags]
    BY <1>2 DEF mmap, Makes
  <2>2. status' = status \/ checkMMapPerms(prot, flags) # 0
    BY <1>2 DEF mmap, Permits
  <2> QED
    BY <2>1, <2>2, Policy DEF JustRefusal
<1>3. ASSUME NEW addr \in Address, NEW len \in Address,
             Span(addr, len) = MappingAt(addr), munmap(addr, len)
      PROVE  JustRefusal'
  BY <1>3, MunmapStep DEF munmap, Makes, JustRefusal
<1>4. ASSUME NEW addr \in Address, NEW len \in Address, NEW prot \in Prot,
             Piece(addr, len), mprotect(addr, len, prot)
      PROVE  JustRefusal'
  <2>1. status = "running" /\ last' = [nr |-> "mprotect", addr |-> addr,
                                       len |-> len, prot |-> prot,
                                       flags |-> MAP_PRIVATE]
    BY <1>4 DEF mprotect, Makes
  <2>2. ASSUME status' # status
        PROVE  Writable(prot) /\ Shared(space[addr].flags) /\ space' = space
    <3> DEFINE i == findMapping(mappings, addr)
    <3>1. /\ i # 0 /\ checkMMapPerms(prot, mappings[i].flags) # 0
          /\ space' = space
      BY <1>4, <2>2 DEF mprotect, Permits, Refuse
    <3>2. space[addr].start = addr /\ space[addr].flags = mappings[i].flags
      BY <3>1, FindOwn
    <3>3. addr \in Span(addr, len)
      BY FirstPage
    <3>4. space[addr] # Free
      BY <1>4, <3>3 DEF Piece
    <3>5. space[addr].flags \in Flags
      BY <3>4, PageType DEF Page
    <3> QED
      BY <3>1, <3>2, <3>5, Policy
  <2>3. addr \in Span(addr, len)
    BY FirstPage
  <2> QED
    BY <2>1, <2>2, <2>3 DEF JustRefusal
<1> QED
  BY <1>1, <1>2, <1>3, <1>4 DEF Next

\* The monitor ends the variants only over a call that would have made memory
\* shared and writable, never because of an entry that has outlived its
\* mapping, even if the program protects parts or several mappings at once.
\* (mmap.c, munmap.c, mprotect.c)
THEOREM JustRefusalCorrect ==
    ASSUME "fixed" \notin Habits
    PROVE  Spec => []JustRefusal
<1>1. Init => JustRefusal
  BY DEF Init, JustRefusal
<1>2. TypeOK /\ TableInv /\ JustRefusal /\ [Next]_vars => JustRefusal'
  BY JustStep DEF NoFixed
<1>3. Spec => [](TypeOK /\ TableInv)
  BY TableInvCorrect DEF NoFixed
<1> QED
  BY <1>1, <1>2, <1>3, PTL DEF Spec
=============================================================================
