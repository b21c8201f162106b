------------------------------ MODULE Mappings ------------------------------
(***************************************************************************)
(* The monitor's table of memory mappings (mappings.c) and the policy it   *)
(* serves (security_manager.c).  The linked list is a sequence in list     *)
(* order: addMapping appends at the tail and the two lookups walk from the *)
(* head.  Addresses are those of the master variant.                       *)
(***************************************************************************)
EXTENDS Integers, SequencesExt

PROT_WRITE  == 2
MAP_PRIVATE == 2

HasBit(word, bit) == (word \div bit) % 2 = 1

\* Only private mappings may be writable.
checkMMapPerms(prot, flags) ==
    IF HasBit(prot, PROT_WRITE) /\ ~HasBit(flags, MAP_PRIVATE) THEN -1 ELSE 0

variantMMap == [addr : Int, len : Int, prot : Int, flags : Int]

addMapping(mappings, addr, len, prot, flags) ==
    Append(mappings, [addr |-> addr, len |-> len, prot |-> prot, flags |-> flags])

\* The table without the first entry that starts at addr, if there is one.
removeMapping(mappings, addr) ==
    RemoveFirstMatch(mappings, LAMBDA m : m.addr = addr)

Holds(m, target) ==
    IF m.len = 0 THEN m.addr = target
                 ELSE m.addr <= target /\ target < m.addr + m.len

\* Position of the first entry that holds the address, 0 for the C NULL.
findMapping(mappings, target) ==
    SelectInSeq(mappings, LAMBDA m : Holds(m, target))

\* What the executors ask of the table and of the policy: mmap adds to the
\* table, mprotect checks with it, munmap removes from it.
Permits(mappings, table, addr, prot, flags) ==
    LET i == findMapping(mappings, addr)
    IN  CASE table = "add" -> checkMMapPerms(prot, flags) = 0
          [] table = "check" ->
                 i # 0 => checkMMapPerms(prot, mappings[i].flags) = 0
          [] table = "remove" -> i # 0 /\ mappings[i].addr = addr
          [] OTHER -> TRUE
=============================================================================
