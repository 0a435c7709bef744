------------------------------- MODULE Salloc -------------------------------
(***************************************************************************)
(* The slot allocator of libs/libc/salloc.c with the pool that             *)
(* stm32/allocs.c gives the MP3 decoder: two slots, one large enough for   *)
(* each of the two blocks the decoder asks for.  A pool is the record      *)
(* [slots, used_slots], a slot [size, allocated], allocated being 0 in a   *)
(* slot that is SS_EMPTY, and a pointer the number of a slot.              *)
(***************************************************************************)
EXTENDS Naturals, Sequences

NULL_PTR == 0

libmad_alloc ==
  [slots |-> << [size |-> 3 * 1024, allocated |-> 0],
                [size |-> 5 * 1024, allocated |-> 0] >>,
   used_slots |-> 0]

(* sa_alloc takes the first slot that is empty and large enough.           *)
Fitting(sas, n) ==
  {k \in DOMAIN sas.slots : sas.slots[k].allocated = 0 /\ sas.slots[k].size >= n}

sa_slot(sas, n) ==
  IF Len(sas.slots) = sas.used_slots \/ Fitting(sas, n) = {} THEN NULL_PTR
  ELSE CHOOSE k \in Fitting(sas, n) : \A m \in Fitting(sas, n) : k <= m

sa_alloc(sas, n) ==
  LET k == sa_slot(sas, n)
  IN  IF k = NULL_PTR THEN sas
      ELSE [slots |-> [sas.slots EXCEPT ![k].allocated = n],
            used_slots |-> sas.used_slots + 1]

(* sa_free neither looks at the state of the slot it frees nor at the      *)
(* count it decrements, a uint16_t.                                        *)
sa_free(sas, ptr) ==
  IF ptr = NULL_PTR THEN sas
  ELSE [slots |-> [sas.slots EXCEPT ![ptr].allocated = 0],
        used_slots |-> (sas.used_slots + 65535) % 65536]

UsedSlots(sas) == {k \in DOMAIN sas.slots : sas.slots[k].allocated # 0}
=============================================================================
