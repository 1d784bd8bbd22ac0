---------------------------- MODULE CpCacheEntry ----------------------------
(***************************************************************************)
(* One ConstantPoolCacheEntry (src/share/vm/oops/cpCache.cpp) shared by    *)
(* interpreter threads that resolve it through the typed setters and       *)
(* threads that read it without a lock.                                    *)
(*                                                                         *)
(* Memory.  `mem` is what every thread can see.  A plain store (set_f1,    *)
(* set_f2, set_flags, obj_at_put) first goes to the writer's store buffer  *)
(* `buf` and reaches `mem` later, in any order with the writer's other     *)
(* plain stores (Flush).  A release store (OrderAccess::release_store_ptr) *)
(* and a cmpxchg wait until the writer's buffer is drained.  Loads happen  *)
(* in program order; a writer loads its own pending stores first.          *)
(*                                                                         *)
(* Each setter is the program of CpCacheSetters for its arguments, run    *)
(* one instruction per step.  The packed word _indices is kept as its two  *)
(* bytecode slots b1 and b2: the constant-pool index in it is written once *)
(* by initialize_entry before any thread runs and every read-modify-write  *)
(* carries it unchanged.                                                   *)
(***************************************************************************)
EXTENDS CpCacheSetters, Naturals, Sequences, FiniteSets

CONSTANTS
  Writers,     \* threads that call a setter (the resolver on their behalf)
  Readers,     \* threads that read the entry without the lock
  Call,        \* Call[w]: the setter writer w calls, with its arguments
  ReadKind,    \* ReadKind[r] \in {"decode", "appendix", "field"}
  Methods,     \* Method* values
  Classes,     \* Klass* values
  Appendices,  \* oops that can be stored as an appendix
  VTable,      \* vtable of the holder class of the call: index -> Method*
  Itable,      \* Itable[k][i]: Method* at itable index i of interface k
  InitF2,      \* _f2 after ConstantPoolCache::initialize
  MaxWord,     \* integers stored in _f2 and the low bits of _flags are <= it
  RelaxedLoads \* TRUE: the CPU may satisfy a plain load of a decoder early

ASSUME NULL \notin Methods \cup Classes \cup Appendices
ASSUME Garbage \notin Methods \cup Classes \cup Appendices \cup {NULL}
ASSUME Writers \cap Readers = {}
ASSUME RelaxedLoads \in BOOLEAN

BufLocs == {"f1", "f2", "flags", "ref"}

VARIABLES
  mem,        \* [b1, b2, f1, f2, flags, ref]: the entry as all threads see it
  buf,        \* buf[w][l]: pending plain store of w to l, or NULL
  pc,         \* pc[w]: next instruction of w's setter; Len + 1 = returned
  reg,        \* reg[w]: [fl, vf, ix]: what w loaded from _flags, is_vfinal(), _indices
  lock,       \* owner of the constant pool's lock, or NULL
  crashed,    \* writers whose guarantee() failed
  refWrites,  \* stores to resolved_references[f2] so far (history, capped)
  rpc,        \* reader program counter
  rreg,       \* [b1, f1, fl]: what the reader loaded
  res,        \* what the reader's last decode returned
  snap        \* snap[r]: mem when reader r began its current decode

vars == <<mem, buf, pc, reg, lock, crashed, refWrites, rpc, rreg, res, snap>>

Done(w) == Len(Program(Call[w])) + 1
Instr(w) == Program(Call[w])[pc[w]]

CheckSlot(w) == SlotOf(Call[w])

(* A load by w of location l: its own pending store, else memory. *)
Own(w, l) == IF buf[w][l] # NULL THEN buf[w][l] ELSE mem[l]
Drained(w) == \A l \in BufLocs : buf[w][l] = NULL
Goto(w, n) == pc' = [pc EXCEPT ![w] = n]
Next1(w) == Goto(w, pc[w] + 1)
Cap(n) == IF n > 2 THEN 2 ELSE n

-----------------------------------------------------------------------------
(* Writer steps: one per kind of instruction. *)

(* set_f1 / set_f2 / obj_at_put: a plain store into the store buffer. *)
PlainStore(w) ==
  /\ pc[w] < Done(w) /\ Instr(w).op = "st"
  /\ buf' = [buf EXCEPT ![w][Instr(w).loc] = Instr(w).val]
  /\ refWrites' = IF Instr(w).loc = "ref" THEN Cap(refWrites + 1) ELSE refWrites
  /\ Next1(w)
  /\ UNCHANGED <<mem, reg, lock, crashed, rpc, rreg, res, snap>>

(* set_method (invokespecial/invokestatic) reads is_vfinal() to pass it on *)
(* to set_method_flags, before make_flags reads _flags again.              *)
LoadVfinal(w) ==
  /\ pc[w] < Done(w) /\ Instr(w).op = "ldvf"
  /\ reg' = [reg EXCEPT ![w].vf = "vfinal" \in Own(w, "flags").opts]
  /\ Next1(w)
  /\ UNCHANGED <<mem, buf, lock, crashed, refWrites, rpc, rreg, res, snap>>

(* make_flags reads _flags ... *)
LoadFlags(w) ==
  /\ pc[w] < Done(w) /\ Instr(w).op = "ldfl"
  /\ reg' = [reg EXCEPT ![w].fl = Own(w, "flags")]
  /\ Next1(w)
  /\ UNCHANGED <<mem, buf, lock, crashed, refWrites, rpc, rreg, res, snap>>

(* ... and set_flags stores (_flags | f) with a plain store. *)
StoreFlags(w) ==
  /\ pc[w] < Done(w) /\ Instr(w).op = "stfl"
  /\ buf' = [buf EXCEPT ![w].flags =
               MakeFlags(reg[w].fl, Instr(w).opts \cup VfinalBit(Instr(w), reg[w].vf),
                         Instr(w).low)]
  /\ Next1(w)
  /\ UNCHANGED <<mem, reg, lock, crashed, refWrites, rpc, rreg, res, snap>>

(* set_bytecode_N reads _indices ... *)
LoadIndices(w) ==
  /\ pc[w] < Done(w) /\ Instr(w).op = "ldix"
  /\ reg' = [reg EXCEPT ![w].ix = [b1 |-> mem.b1, b2 |-> mem.b2]]
  /\ Next1(w)
  /\ UNCHANGED <<mem, buf, lock, crashed, refWrites, rpc, rreg, res, snap>>

(* Mutant: the bytecode word stored without waiting for earlier stores. *)
ReleaseStoreIndicesUnordered(w) ==
  /\ pc[w] < Done(w) /\ Instr(w).op = "relix"
  /\ LET ix == reg[w].ix
         s == Instr(w).slot
     IN mem' = [mem EXCEPT !.b1 = IF s = "b1" THEN OrCode(ix.b1, Instr(w).code) ELSE ix.b1,
                           !.b2 = IF s = "b2" THEN OrCode(ix.b2, Instr(w).code) ELSE ix.b2]
  /\ Next1(w)
  /\ UNCHANGED <<buf, reg, lock, crashed, refWrites, rpc, rreg, res, snap>>

(* ... and release-stores the whole word with its code ORed into slot s:  *)
(* a concurrent update of the other slot made since the load is lost.     *)
ReleaseStoreIndices(w) ==
  /\ pc[w] < Done(w) /\ Instr(w).op = "relix"
  /\ Drained(w)
  /\ LET ix == reg[w].ix
         s == Instr(w).slot
     IN mem' = [mem EXCEPT !.b1 = IF s = "b1" THEN OrCode(ix.b1, Instr(w).code) ELSE ix.b1,
                           !.b2 = IF s = "b2" THEN OrCode(ix.b2, Instr(w).code) ELSE ix.b2]
  /\ Next1(w)
  /\ UNCHANGED <<buf, reg, lock, crashed, refWrites, rpc, rreg, res, snap>>

(* release_set_f1 *)
ReleaseSetF1(w) ==
  /\ pc[w] < Done(w) /\ Instr(w).op = "relf1"
  /\ Drained(w)
  /\ mem' = [mem EXCEPT !.f1 = Instr(w).val]
  /\ Next1(w)
  /\ UNCHANGED <<buf, reg, lock, crashed, refWrites, rpc, rreg, res, snap>>

(* MonitorLockerEx ml(cpool->lock()) *)
AcquireLock(w) ==
  /\ pc[w] < Done(w) /\ Instr(w).op = "lock"
  /\ lock = NULL
  /\ lock' = w
  /\ Next1(w)
  /\ UNCHANGED <<mem, buf, reg, crashed, refWrites, rpc, rreg, res, snap>>

(* Mutant: the early return on a non-null f1 dropped. *)
CheckF1Dropped(w) ==
  /\ pc[w] < Done(w) /\ Instr(w).op = "chkf1"
  /\ Next1(w)
  /\ UNCHANGED <<mem, buf, reg, lock, crashed, refWrites, rpc, rreg, res, snap>>

(* if (!is_f1_null()) return;  -- the return runs the lock's destructor *)
CheckF1(w) ==
  /\ pc[w] < Done(w) /\ Instr(w).op = "chkf1"
  /\ Goto(w, IF mem.f1 # NULL THEN Len(Program(Call[w])) ELSE pc[w] + 1)
  /\ UNCHANGED <<mem, buf, reg, lock, crashed, refWrites, rpc, rreg, res, snap>>

(* ~MonitorLockerEx: unlocking releases the writer's stores. *)
ReleaseLock(w) ==
  /\ pc[w] < Done(w) /\ Instr(w).op = "unlock"
  /\ Drained(w)
  /\ lock' = NULL
  /\ Next1(w)
  /\ UNCHANGED <<mem, buf, reg, crashed, refWrites, rpc, rreg, res, snap>>

(* set_parameter_size: if (_flags == 0) ... *)
TestFlagsZero(w) ==
  /\ pc[w] < Done(w) /\ Instr(w).op = "tstfl"
  /\ Goto(w, IF Own(w, "flags") = ZeroFlags THEN pc[w] + 1 ELSE pc[w] + 2)
  /\ UNCHANGED <<mem, buf, reg, lock, crashed, refWrites, rpc, rreg, res, snap>>

(* ... Atomic::cmpxchg_ptr(value & parameter_size_mask, &_flags, 0) *)
CasFlagsZero(w) ==
  /\ pc[w] < Done(w) /\ Instr(w).op = "cas"
  /\ Drained(w)
  /\ mem' = IF mem.flags = ZeroFlags
            THEN [mem EXCEPT !.flags = [opts |-> {}, low |-> Instr(w).val]]
            ELSE mem
  /\ Next1(w)
  /\ UNCHANGED <<buf, reg, lock, crashed, refWrites, rpc, rreg, res, snap>>

(* guarantee(parameter_size() == value): a failure aborts the VM. *)
GuaranteeParamSize(w) ==
  /\ pc[w] < Done(w) /\ Instr(w).op = "guar"
  /\ crashed' = IF Own(w, "flags").low # Instr(w).val THEN crashed \cup {w} ELSE crashed
  /\ Next1(w)
  /\ UNCHANGED <<mem, buf, reg, lock, refWrites, rpc, rreg, res, snap>>

(* A pending plain store of w reaches memory. *)
Flush(w) ==
  /\ \E l \in BufLocs :
       /\ buf[w][l] # NULL
       /\ mem' = [mem EXCEPT ![l] = buf[w][l]]
       /\ buf' = [buf EXCEPT ![w][l] = NULL]
  /\ UNCHANGED <<pc, reg, lock, crashed, refWrites, rpc, rreg, res, snap>>

(* The interpreter executes the call site again after the setter          *)
(* returned, finds the slot it tests zero (an update lost in a concurrent  *)
(* set_bytecode_N), and calls the resolver, i.e. the setter, again.       *)
Reresolve(w) ==
  /\ pc[w] = Done(w)
  /\ CheckSlot(w) # "none"
  /\ mem[CheckSlot(w)] = None
  /\ Goto(w, 1)
  /\ UNCHANGED <<mem, buf, reg, lock, crashed, refWrites, rpc, rreg, res, snap>>

WriterStep(w) ==
  \/ PlainStore(w) \/ LoadVfinal(w) \/ LoadFlags(w) \/ StoreFlags(w) \/ LoadIndices(w)
  \/ ReleaseStoreIndices(w) \/ ReleaseSetF1(w) \/ AcquireLock(w)
  \/ CheckF1(w) \/ ReleaseLock(w) \/ TestFlagsZero(w) \/ CasFlagsZero(w)
  \/ GuaranteeParamSize(w) \/ Reresolve(w)

-----------------------------------------------------------------------------
(* Reader steps.  A reader reads memory (it has no pending stores of its    *)
(* own), one location per step, and starts over after each decode.        *)

VTableAt(i) == IF i \in DOMAIN VTable THEN VTable[i] ELSE Garbage
ItableAt(k, i) ==
  IF k \in DOMAIN Itable /\ i \in DOMAIN Itable[k] THEN Itable[k][i] ELSE Garbage
AsMethod(v) == IF v \in Methods THEN v ELSE Garbage

RGoto(r, s) == rpc' = [rpc EXCEPT ![r] = s]
Return(r, v) == /\ res' = [res EXCEPT ![r] = v]
                /\ RGoto(r, "ret")
WUnchanged == UNCHANGED <<mem, buf, pc, reg, lock, crashed, refWrites, snap>>

(* The values a plain load of l by a decoder can return.  The decoders    *)
(* load the words of _indices, _f1, _f2 and _flags with plain loads       *)
(* (bytecode_1(), is_f1_null(), f2_as_index(), is_vfinal()), ordered only *)
(* by control dependencies; a CPU that reorders loads may have performed  *)
(* a later load as early as the start of the decode.                     *)
RLoad(r, l) == IF RelaxedLoads THEN {mem[l], snap[r][l]} ELSE {mem[l]}

(* method_if_resolved: invoke_code = bytecode_1(); if (invoke_code != 0) *)
DecodeB1(r) ==
  /\ rpc[r] = "b1"
  /\ \E v \in RLoad(r, "b1") :
       /\ rreg' = [rreg EXCEPT ![r].b1 = v]
       /\ RGoto(r, IF v = None THEN "b2" ELSE "f1")
  /\ UNCHANGED res /\ WUnchanged

(* Mutant: a set bytecode_1 with a NULL f1 answers NULL instead of       *)
(* falling through to bytecode_2.                                          *)
DecodeF1NoFallThrough(r) ==
  /\ rpc[r] = "f1"
  /\ \E v \in RLoad(r, "f1") :
       /\ rreg' = [rreg EXCEPT ![r].f1 = v]
       /\ IF v = NULL THEN Return(r, NULL)
          ELSE IF rreg[r].b1 \in {"invokestatic", "invokespecial",
                                  "invokehandle", "invokedynamic"}
          THEN Return(r, v)
          ELSE /\ RGoto(r, IF rreg[r].b1 = "invokeinterface" THEN "f2i" ELSE "b2")
               /\ UNCHANGED res
  /\ WUnchanged

(* f1 = _f1; if (f1 != NULL) switch (invoke_code) ... *)
DecodeF1(r) ==
  /\ rpc[r] = "f1"
  /\ \E v \in RLoad(r, "f1") :
       /\ rreg' = [rreg EXCEPT ![r].f1 = v]
       /\ IF v # NULL /\ rreg[r].b1 \in {"invokestatic", "invokespecial",
                                         "invokehandle", "invokedynamic"}
          THEN Return(r, v)
          ELSE /\ RGoto(r, IF v # NULL /\ rreg[r].b1 = "invokeinterface"
                           THEN "f2i" ELSE "b2")
               /\ UNCHANGED res
  /\ WUnchanged

(* klassItable::method_for_itable_index(f1, f2_as_index()) *)
DecodeItable(r) ==
  /\ rpc[r] = "f2i"
  /\ \E v \in RLoad(r, "f2") : Return(r, ItableAt(rreg[r].f1, v))
  /\ UNCHANGED rreg /\ WUnchanged

(* invoke_code = bytecode_2(); case _invokevirtual: *)
DecodeB2(r) ==
  /\ rpc[r] = "b2"
  /\ \E v \in RLoad(r, "b2") :
       IF v = "invokevirtual" THEN RGoto(r, "vf") /\ UNCHANGED res
                              ELSE Return(r, NULL)
  /\ UNCHANGED rreg /\ WUnchanged

(* if (is_vfinal()) *)
DecodeVfinal(r) ==
  /\ rpc[r] = "vf"
  /\ \E v \in RLoad(r, "flags") : RGoto(r, IF "vfinal" \in v.opts THEN "f2m" ELSE "f2v")
  /\ UNCHANGED <<rreg, res>> /\ WUnchanged

(* return f2_as_vfinal_method() *)
DecodeF2Method(r) ==
  /\ rpc[r] = "f2m"
  /\ \E v \in RLoad(r, "f2") : Return(r, AsMethod(v))
  /\ UNCHANGED rreg /\ WUnchanged

(* return InstanceKlass::cast(klass)->method_at_vtable(f2_as_index()) *)
DecodeF2Vtable(r) ==
  /\ rpc[r] = "f2v"
  /\ \E v \in RLoad(r, "f2") : Return(r, VTableAt(v))
  /\ UNCHANGED rreg /\ WUnchanged

(* appendix_if_resolved: if (is_f1_null() || !has_appendix()) return NULL *)
AppendixF1(r) ==
  /\ rpc[r] = "af1"
  /\ \E v \in RLoad(r, "f1") :
       /\ rreg' = [rreg EXCEPT ![r].f1 = v]
       /\ IF v = NULL THEN Return(r, NULL) ELSE RGoto(r, "afl") /\ UNCHANGED res
  /\ WUnchanged

AppendixFlags(r) ==
  /\ rpc[r] = "afl"
  /\ \E v \in RLoad(r, "flags") :
       /\ rreg' = [rreg EXCEPT ![r].fl = v]
       /\ IF "has_appendix" \notin v.opts
          THEN Return(r, NULL) ELSE RGoto(r, "aref") /\ UNCHANGED res
  /\ WUnchanged

(* return resolved_references->obj_at(f2_as_index()) *)
AppendixRef(r) ==
  /\ rpc[r] = "aref"
  /\ \E v \in RLoad(r, "ref") : Return(r, v)
  /\ UNCHANGED rreg /\ WUnchanged

(* The interpreter's field access: test the slot of its bytecode, then use *)
(* the offset in f2 and the field index and option bits in flags.          *)
FieldSlot(r) ==
  /\ rpc[r] = "fb"
  /\ rreg' = [rreg EXCEPT ![r].b1 = mem.b1]
  /\ IF mem.b1 = None THEN Return(r, NULL) ELSE RGoto(r, "ff2") /\ UNCHANGED res
  /\ WUnchanged

FieldF2(r) ==
  /\ rpc[r] = "ff2"
  /\ rreg' = [rreg EXCEPT ![r].f1 = mem.f2]
  /\ RGoto(r, "ffl")
  /\ UNCHANGED res /\ WUnchanged

FieldFlags(r) ==
  /\ rpc[r] = "ffl"
  /\ Return(r, [offset |-> rreg[r].f1, flags |-> mem.flags])
  /\ UNCHANGED rreg /\ WUnchanged

StartOf(r) == CASE ReadKind[r] = "decode"   -> "b1"
                [] ReadKind[r] = "appendix" -> "af1"
                [] ReadKind[r] = "field"    -> "fb"

(* The reader uses the result and reads the entry again. *)
Restart(r) ==
  /\ rpc[r] = "ret"
  /\ RGoto(r, StartOf(r))
  /\ rreg' = [rreg EXCEPT ![r] = [b1 |-> None, f1 |-> NULL, fl |-> ZeroFlags]]
  /\ snap' = IF RelaxedLoads THEN [snap EXCEPT ![r] = mem] ELSE snap
  /\ UNCHANGED <<res, mem, buf, pc, reg, lock, crashed, refWrites>>

ReaderStep(r) ==
  \/ DecodeB1(r) \/ DecodeF1(r) \/ DecodeItable(r) \/ DecodeB2(r)
  \/ DecodeVfinal(r) \/ DecodeF2Method(r) \/ DecodeF2Vtable(r)
  \/ AppendixF1(r) \/ AppendixFlags(r) \/ AppendixRef(r)
  \/ FieldSlot(r) \/ FieldF2(r) \/ FieldFlags(r) \/ Restart(r)

-----------------------------------------------------------------------------
(* After ConstantPoolCache::initialize: every field of the entry is zero  *)
(* except the constant-pool index and, for invokedynamic entries, the      *)
(* resolved-references index in f2.                                        *)
Init ==
  /\ mem = [b1 |-> None, b2 |-> None, f1 |-> NULL, f2 |-> InitF2,
            flags |-> ZeroFlags, ref |-> NULL]
  /\ buf = [w \in Writers |-> [l \in BufLocs |-> NULL]]
  /\ pc = [w \in Writers |-> 1]
  /\ reg = [w \in Writers |-> [fl |-> ZeroFlags, vf |-> FALSE,
                               ix |-> [b1 |-> None, b2 |-> None]]]
  /\ lock = NULL
  /\ crashed = {}
  /\ refWrites = 0
  /\ rpc = [r \in Readers |-> StartOf(r)]
  /\ rreg = [r \in Readers |-> [b1 |-> None, f1 |-> NULL, fl |-> ZeroFlags]]
  /\ res = [r \in Readers |-> NULL]
  /\ snap = [r \in Readers |-> mem]

Next ==
  \/ \E w \in Writers : WriterStep(w) \/ Flush(w)
  \/ \E r \in Readers : ReaderStep(r)

(* Threads are scheduled by the OS and a store buffer drains by itself.   *)
Fairness ==
  /\ \A w \in Writers : WF_vars(WriterStep(w)) /\ WF_vars(Flush(w))
  /\ \A r \in Readers : WF_vars(ReaderStep(r))

Spec == Init /\ [][Next]_vars /\ Fairness

-----------------------------------------------------------------------------
(* Properties. *)

Flags == [opts : SUBSET Options, low : 0..MaxWord]

TypeOK ==
  /\ mem \in [b1 : Codes \cup {None}, b2 : Codes \cup {None},
              f1 : Methods \cup Classes \cup {NULL},
              f2 : Methods \cup (0..MaxWord), flags : Flags,
              ref : Appendices \cup {NULL}]
  /\ pc \in [Writers -> Nat]
  /\ lock \in Writers \cup {NULL}
  /\ refWrites \in 0..2

(* What method_if_resolved may answer for the setter call c. *)
Intended(c) ==
  CASE c.kind = "method" ->
         IF c.code \in {"invokevirtual", "invokeinterface"} /\ ~c.bound
         THEN {VTableAt(c.vindex)} ELSE {c.method}
    [] c.kind = "interface" -> {ItableAt(c.iface, c.index)}
    [] c.kind = "handle"    -> {c.adapter}
    [] OTHER                -> {}

(* Publication (spec 8.1): method_if_resolved, run concurrently with the  *)
(* setters, answers NULL or a method one of the setters resolved: never a *)
(* vtable slot of a method pointer, a method of a vtable index, or a      *)
(* half-written entry.  Relies on set_bytecode_N's release store coming   *)
(* after the plain stores of f2 and _flags.                                *)
DecodeSound ==
  \A r \in Readers :
    (ReadKind[r] = "decode" /\ rpc[r] = "ret")
      => res[r] \in {NULL} \cup UNION {Intended(Call[w]) : w \in Writers}

(* The interpreter's field access that finds its bytecode set uses the    *)
(* offset, field index and is_final/is_volatile/is_field_entry bits one of *)
(* the set_field calls wrote (make_flags ORs into _flags), not zero or a   *)
(* mix of the old and the new word.                                        *)
FieldSound ==
  \A r \in Readers :
    (ReadKind[r] = "field" /\ rpc[r] = "ret" /\ res[r] # NULL)
      => \E w \in Writers :
           /\ Call[w].kind = "field"
           /\ res[r].offset = Call[w].offset
           /\ res[r].flags.low = Call[w].index
           /\ res[r].flags.opts = {"field_entry"} \cup Opt(Call[w].final, "final")
                                     \cup Opt(Call[w].volatile, "volatile")

(* appendix_if_resolved that finds f1 set and has_appendix answers the    *)
(* appendix stored by the same set_method_handle_common call that stored  *)
(* that adapter in f1 (the NOTE at cpCache.cpp:263: refs[f2] before f1).  *)
AppendixSound ==
  \A r \in Readers :
    (/\ ReadKind[r] = "appendix" /\ rpc[r] = "ret" /\ rreg[r].f1 # NULL
     /\ "has_appendix" \in rreg[r].fl.opts)
      => \E w \in Writers : /\ Call[w].kind = "handle"
                            /\ Call[w].adapter = rreg[r].f1
                            /\ res[r] = Call[w].appendix

(* resolved_references[f2] is stored at most once ("init just once",     *)
(* cpCache.cpp:316), however many threads link the call site.            *)
RefInitJustOnce == refWrites <= 1

(* Once is_vfinal is set it stays set, lest f2, a method pointer, be used as a  *)
(* vtable index (comment at cpCache.cpp:185, spec invariant 4).           *)
VfinalMonotone ==
  [][("vfinal" \in mem.flags.opts) => ("vfinal" \in mem'.flags.opts)]_mem

(* set_parameter_size's guarantee(parameter_size() == value) never fails, *)
(* whatever setter races it.                                              *)
ParamSizeAgrees == crashed = {}

(* method_if_resolved, called again and again by a reader while setters  *)
(* race, ends up answering the method the call site was linked to, not     *)
(* NULL: in particular an invokeinterface entry forced virtual, whose      *)
(* bytecode_1 is set while f1 stays NULL, falls through to bytecode_2.     *)
DecodeEventuallyAnswers ==
  \A r \in Readers :
    ReadKind[r] = "decode" =>
      <>[](rpc[r] = "ret" => res[r] \in UNION {Intended(Call[w]) : w \in Writers})

(* Lost bytecode updates are harmless (comment at cpCache.cpp:96): every  *)
(* call site ends up resolved for good, its setter returned.              *)
EventuallyResolved ==
  <>[](\A w \in Writers :
         /\ pc[w] = Done(w)
         /\ (CheckSlot(w) = "none" \/ mem[CheckSlot(w)] # None))

-----------------------------------------------------------------------------
(* Refinement.  Memory implements EntryPublication with the bytecode      *)
(* slots of _indices as its slots and f1, f2, _flags and the appendix slot *)
(* as its contents.  Contents m are complete for code c in slot s when a   *)
(* setter call that publishes c in s finds every store it makes in m: its *)
(* plain stores and release_set_f1, and the option bits and the low field  *)
(* it ORs into _flags.                                                      *)
Publishes(p, s, c) ==
  \E i \in DOMAIN p : p[i].op = "relix" /\ p[i].slot = s /\ p[i].code = c

StoresHeld(p, m) ==
  \A i \in DOMAIN p :
    /\ p[i].op = "st"    => m[p[i].loc] = p[i].val
    /\ p[i].op = "relf1" => m.f1 = p[i].val
    /\ p[i].op = "stfl"  => p[i].opts \subseteq m.flags.opts /\ m.flags.low = p[i].low

BackedByCall(s, c, m) ==
  \E w \in Writers : /\ Publishes(Program(Call[w]), s, c)
                     /\ StoresHeld(Program(Call[w]), m)

Pub == INSTANCE EntryPublication
         WITH Slots <- {"b1", "b2"}, Codes <- Codes, None <- None,
              Backs <- BackedByCall,
              code <- [s \in {"b1", "b2"} |-> mem[s]],
              val <- [l \in BufLocs |-> mem[l]]

(* The store buffers, the read-modify-writes of _indices and _flags, the  *)
(* lock and the re-resolution together implement atomic publication: at   *)
(* every step a bytecode a reader can see in memory is backed by all the   *)
(* stores of a setter that publishes it, and no interleaving turns a       *)
(* published bytecode into another one (spec 5.1, 8.1).                    *)
ImplementsPublication == Pub!Spec
=============================================================================
