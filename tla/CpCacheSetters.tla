--------------------------- MODULE CpCacheSetters ---------------------------
(***************************************************************************)
(* The typed setters of ConstantPoolCacheEntry (cpCache.cpp:64-329) as     *)
(* programs: the sequence of loads and stores each one performs on the     *)
(* entry, in program order, for given arguments.  Every branch of a setter *)
(* depends only on its arguments, except the early return on a non-null f1 *)
(* (chkf1) and set_parameter_size's test of _flags (tstfl), which jump.     *)
(* CpCacheEntry runs a program one instruction per step against a memory   *)
(* with store buffers; CpCache runs it in one step (RunSetter).            *)
(***************************************************************************)
EXTENDS Naturals, Sequences, Bitwise

CONSTANTS
  NULL,        \* the null pointer
  Garbage      \* what a decode of a word of the wrong kind yields

None == "none"     \* bytecode 0: the slot is not resolved
Codes == {"getfield", "putfield", "getstatic", "putstatic", "invokevirtual",
          "invokespecial", "invokestatic", "invokeinterface",
          "invokehandle", "invokedynamic"}
Options == {"vfinal", "final", "volatile", "forced_virtual", "has_appendix",
            "field_entry"}
ZeroFlags == [opts |-> {}, low |-> 0]

(* Instructions of a setter's program. *)
St(l, v)          == [op |-> "st", loc |-> l, val |-> v]
LdFlags           == [op |-> "ldfl"]
StFlags(o, lo)    == [op |-> "stfl", opts |-> o, low |-> lo, vf |-> FALSE]
LdVfinal          == [op |-> "ldvf"]
LdIndices         == [op |-> "ldix"]
RelIndices(s, c)  == [op |-> "relix", slot |-> s, code |-> c]
RelF1(v)          == [op |-> "relf1", val |-> v]
LockOp            == [op |-> "lock"]
ChkF1             == [op |-> "chkf1"]
UnlockOp          == [op |-> "unlock"]
TstFlags          == [op |-> "tstfl"]
CasFlags(v)       == [op |-> "cas", val |-> v]
Guar(v)           == [op |-> "guar", val |-> v]

(* Mutant: the flag bits added instead of ORed into the old value. *)
MakeFlagsAdd(old, o, lo) == [opts |-> old.opts \cup o, low |-> old.low + lo]

(* make_flags: the new bits ORed into the value of _flags read before. *)
MakeFlags(old, o, lo) == [opts |-> old.opts \cup o, low |-> old.low | lo]

(* set_method_flags(..., (is_vfinal() ? 1 : 0) << is_vfinal_shift | ...):  *)
(* the option bits passed to make_flags, with is_vfinal as an earlier      *)
(* load (seen) found it.                                                   *)
StFlagsVf(o, lo) == [op |-> "stfl", opts |-> o, low |-> lo, vf |-> TRUE]
VfinalBit(ins, seen) == IF ins.vf /\ seen THEN {"vfinal"} ELSE {}

(* _indices | (code << shift): ORing a code into a bytecode slot. *)
OrCode(old, c) == IF c = None \/ c = old THEN old
                  ELSE IF old = None THEN c ELSE Garbage

(* set_bytecode_1 / set_bytecode_2: load _indices, release-store it with   *)
(* the code ORed in.  The load is plain and separate from the store.      *)
SetBytecode1(c) == <<LdIndices, RelIndices("b1", c)>>
SetBytecode2(c) == <<LdIndices, RelIndices("b2", c)>>

Opt(b, o) == IF b THEN {o} ELSE {}

(* Mutant: set_field without its set_bytecode_2 call. *)
SetFieldNoPut(c) ==
  <<St("f1", c.holder), St("f2", c.offset), LdFlags,
    StFlags({"field_entry"}, c.index)>> \o SetBytecode1(c.get)

(* Mutant: set_field publishing its bytecodes before storing f2 and flags. *)
SetFieldBytecodeFirst(c) ==
  <<St("f1", c.holder)>> \o SetBytecode1(c.get) \o SetBytecode2(c.put)
  \o <<St("f2", c.offset), LdFlags,
       StFlags({"field_entry"} \cup Opt(c.volatile, "volatile")
                 \cup Opt(c.final, "final"), c.index)>>

SetField(c) ==
  <<St("f1", c.holder), St("f2", c.offset), LdFlags,
    StFlags({"field_entry"} \cup Opt(c.volatile, "volatile")
              \cup Opt(c.final, "final"), c.index)>>
  \o SetBytecode1(c.get) \o SetBytecode2(c.put)

(* Mutant: set_parameter_size storing _flags without the zero test/CAS. *)
SetParameterSizePlain(c) == <<St("flags", [opts |-> {}, low |-> c.params]), Guar(c.params)>>

SetParameterSize(c) == <<TstFlags, CasFlags(c.params), Guar(c.params)>>

(* Mutants of set_method: on the statically bound invokevirtual path the  *)
(* parameter size off by one or the set_bytecode_2 call dropped; on the   *)
(* forced-virtual invokeinterface path the is_public() test inverted.     *)
SetMethodParamsOffByOne(c) ==
  <<LdFlags, StFlags({"vfinal", "final"}, c.params + 1), St("f2", c.method)>>
  \o SetBytecode2("invokevirtual")
SetMethodPublicInverted(c) ==
  <<LdFlags, StFlags({"forced_virtual"}, c.params), St("f2", c.vindex)>>
  \o (IF ~c.public THEN SetBytecode1(c.code) ELSE <<>>)
  \o SetBytecode2("invokevirtual")
SetMethodNoBytecode(c) ==
  <<LdFlags, StFlags({"vfinal", "final"}, c.params), St("f2", c.method)>>

SetMethod(c) ==
  LET toVirtual == c.code = "invokeinterface"
  IN IF c.code \in {"invokeinterface", "invokevirtual"}
     THEN IF c.bound
          THEN <<LdFlags, StFlags({"vfinal"} \cup Opt(c.final, "final")
                                    \cup Opt(toVirtual, "forced_virtual"), c.params),
                 St("f2", c.method)>>
               \o (IF toVirtual /\ c.public THEN SetBytecode1(c.code) ELSE <<>>)
               \o SetBytecode2("invokevirtual")
          ELSE <<LdFlags, StFlags(Opt(toVirtual, "forced_virtual"), c.params),
                 St("f2", c.vindex)>>
               \o (IF toVirtual /\ c.public THEN SetBytecode1(c.code) ELSE <<>>)
               \o SetBytecode2("invokevirtual")
     ELSE <<LdVfinal, LdFlags, StFlagsVf(Opt(c.final, "final"), c.params),
            St("f1", c.method)>>
          \o SetBytecode1(c.code)

(* Mutant: set_interface_call storing f2 after the bytecode. *)
SetInterfaceCallLateF2(c) ==
  <<St("f1", c.iface), LdFlags, StFlags({}, c.params)>>
  \o SetBytecode1("invokeinterface") \o <<St("f2", c.index)>>

SetInterfaceCall(c) ==
  <<St("f1", c.iface), St("f2", c.index), LdFlags, StFlags({}, c.params)>>
  \o SetBytecode1("invokeinterface")

(* Mutants: f1 set by a plain store; set_bytecode_1 dropped. *)
SetMethodHandlePlainF1(c) ==
  <<LockOp, ChkF1, LdFlags, StFlags({"final", "has_appendix"}, c.params),
    St("ref", c.appendix), St("f1", c.adapter)>> \o SetBytecode1(c.code) \o <<UnlockOp>>
SetMethodHandleNoBytecode(c) ==
  <<LockOp, ChkF1, LdFlags, StFlags({"final", "has_appendix"}, c.params),
    St("ref", c.appendix), RelF1(c.adapter), UnlockOp>>

(* Mutant: set_bytecode_1 before release_set_f1 and the appendix store. *)
SetMethodHandleBytecodeFirst(c) ==
  <<LockOp, ChkF1, LdFlags, StFlags({"final", "has_appendix"}, c.params)>>
  \o SetBytecode1(c.code) \o <<St("ref", c.appendix), RelF1(c.adapter), UnlockOp>>

SetMethodHandleCommon(c) ==
  <<LockOp, ChkF1, LdFlags,
    StFlags({"final"} \cup Opt(c.appendix # NULL, "has_appendix"), c.params)>>
  \o (IF c.appendix # NULL THEN <<St("ref", c.appendix)>> ELSE <<>>)
  \o <<RelF1(c.adapter)>> \o SetBytecode1(c.code) \o <<UnlockOp>>

(* The bytecode slot the interpreter tests before it uses the entry for    *)
(* a call site with bytecode c.site (byte_no in                            *)
(* TemplateTable::resolve_cache_and_index): puts and invokevirtual test b2. *)
SlotOf(c) ==
  CASE c.site \in {"putfield", "putstatic", "invokevirtual"} -> "b2"
    [] c.site = None -> "none"
    [] OTHER -> "b1"

(* A setter call: one of the records built in the MC modules. *)
Program(c) ==
  CASE c.kind = "field"     -> SetField(c)
    [] c.kind = "method"    -> SetMethod(c)
    [] c.kind = "interface" -> SetInterfaceCall(c)
    [] c.kind = "handle"    -> SetMethodHandleCommon(c)
    [] c.kind = "psize"     -> SetParameterSize(c)
=============================================================================
