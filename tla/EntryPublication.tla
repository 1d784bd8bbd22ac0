-------------------------- MODULE EntryPublication --------------------------
(***************************************************************************)
(* What a ConstantPoolCacheEntry promises the threads that read it without *)
(* a lock (spec 5 and 8.1): an entry is a set of bytecode slots, each      *)
(* unresolved (None) or holding the bytecode a setter published, and the   *)
(* contents the slots guard (f1, f2, _flags, the appendix slot).           *)
(*                                                                         *)
(*  - The contents change only under slots whose code they keep backed: a  *)
(*    reader that sees a code in a slot finds complete contents for it.    *)
(*  - A code appears in a slot only over contents that back it, and one    *)
(*    step never changes both the slots and the contents.                  *)
(*  - A published code is never replaced by a different one; a slot may    *)
(*    fall back to None (a lost update, after which the site re-resolves). *)
(*                                                                         *)
(* Backs(s, c, v) is the meaning of "contents v are complete for code c in *)
(* slot s"; the implementation supplies it.                                *)
(***************************************************************************)
CONSTANTS
  Slots,           \* the bytecode slots of the entry
  Codes,           \* the bytecodes a slot may hold
  None,            \* an unresolved slot
  Backs(_, _, _)   \* Backs(s, c, v): contents v are complete for c in s

VARIABLES
  code,            \* code[s]: the bytecode published in slot s, or None
  val              \* the contents of the entry the slots guard

vars == <<code, val>>

(* Every published code is a bytecode the contents are complete for. *)
Backed(cd, v) ==
  \A s \in Slots : cd[s] # None => cd[s] \in Codes /\ Backs(s, cd[s], v)

Init == code = [s \in Slots |-> None]

(* The contents change; every code published stays backed. *)
Store ==
  /\ val' # val
  /\ code' = code
  /\ Backed(code, val')

(* Slots change: codes appear over contents that back them, and slots     *)
(* that held a code keep it or lose it.                                    *)
Publish ==
  /\ code' # code
  /\ val' = val
  /\ Backed(code', val)
  /\ \A s \in Slots : code[s] = None \/ code'[s] \in {code[s], None}

Next == Store \/ Publish

Spec == Init /\ [][Next]_vars
=============================================================================
