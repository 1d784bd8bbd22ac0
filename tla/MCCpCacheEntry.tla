--------------------------- MODULE MCCpCacheEntry ---------------------------
(***************************************************************************)
(* Instances of CpCacheEntry for TLC: which setters race on one entry and  *)
(* which lock-free readers watch it.  Each scenario is a set of call sites *)
(* that share one cache entry in HotSpot.                                  *)
(***************************************************************************)
EXTENDS CpCacheEntry, TLC

CONSTANTS w1, w2, w3, r1, r2, m1, m2, k1, x1, x2, a1, a2

(* invokevirtual of a final method m1 (can_be_statically_bound). *)
VirtualFinal ==
  [kind |-> "method", site |-> "invokevirtual", code |-> "invokevirtual",
   method |-> m1, bound |-> TRUE, final |-> TRUE, public |-> TRUE,
   vindex |-> 0, params |-> 2]

(* invokespecial of the same method m1 through the same Methodref. *)
Special ==
  [kind |-> "method", site |-> "invokespecial", code |-> "invokespecial",
   method |-> m1, bound |-> TRUE, final |-> TRUE, public |-> TRUE,
   vindex |-> 0, params |-> 2]

(* invokestatic of m1, not final. *)
Static == [Special EXCEPT !.site = "invokestatic", !.code = "invokestatic",
                          !.final = FALSE]

(* AbstractInterpreter::deopt_continue_after_entry setting the size of m1. *)
ParamSize == [kind |-> "psize", site |-> None, params |-> 2]

(* getfield of a final field: the resolver passes put_code 0 ... *)
GetFinal ==
  [kind |-> "field", site |-> "getfield", get |-> "getfield", put |-> None,
   holder |-> k1, offset |-> 3, index |-> 1, final |-> TRUE, volatile |-> FALSE]

(* ... putfield of it (in a constructor) passes both codes. *)
PutFinal == [GetFinal EXCEPT !.site = "putfield", !.put = "putfield"]

(* invokedynamic linked by two threads to different call sites/adapters. *)
Indy(adapter, appendix) ==
  [kind |-> "handle", site |-> "invokedynamic", code |-> "invokedynamic",
   adapter |-> adapter, appendix |-> appendix, params |-> 2]

(* invokeinterface linked to an interface method: itable index 1 of k1. *)
InterfaceCall ==
  [kind |-> "interface", site |-> "invokeinterface", iface |-> k1, index |-> 1,
   params |-> 1]

(* invokeinterface that resolves to a public, non-final method of Object  *)
(* (vtable index 1): linked as invokevirtual with forced_virtual set.     *)
ObjectViaInterface ==
  [kind |-> "method", site |-> "invokeinterface", code |-> "invokeinterface",
   method |-> m2, bound |-> FALSE, final |-> FALSE, public |-> TRUE,
   vindex |-> 1, params |-> 1]

MethodWriters == {w1, w2, w3}
MethodCalls == (w1 :> VirtualFinal) @@ (w2 :> VirtualFinal) @@ (w3 :> ParamSize)
StaticCalls == (w1 :> Static) @@ (w2 :> Static)
SharedCalls == (w1 :> VirtualFinal) @@ (w2 :> Special)
FieldCalls == (w1 :> GetFinal) @@ (w2 :> PutFinal)
InterfaceCalls == (w1 :> InterfaceCall) @@ (w2 :> InterfaceCall)
ObjectCalls == (w1 :> ObjectViaInterface) @@ (w2 :> ObjectViaInterface)
IndyCalls == (w1 :> Indy(a1, x1)) @@ (w2 :> Indy(a2, x2))

DecodeReader == r1 :> "decode"
FieldReader == r1 :> "field"
AppendixReaders == (r1 :> "appendix") @@ (r2 :> "appendix")
NoReader == [r \in {} |-> "decode"]

MCVTable == 1 :> m2
MCItable == k1 :> (1 :> m1)
=============================================================================
