------------------------------ MODULE MCCpCache ------------------------------
(***************************************************************************)
(* Instances of CpCache for TLC: the call sites of each entry of one cache  *)
(* and the classes whose methods RedefineClasses may replace.               *)
(***************************************************************************)
EXTENDS CpCache, TLC

CONSTANTS k1, k2, n1, n2, n3

MCHolderOf == (n1 :> k1) @@ (n2 :> k1) @@ (n3 :> k2)

MethodSite(code, n, bound, final, vindex) ==
  [kind |-> "method", site |-> code, code |-> code, name |-> n, method |-> NULL,
   bound |-> bound, final |-> final, public |-> TRUE, vindex |-> vindex,
   params |-> 1]

StaticSite(n)  == MethodSite("invokestatic", n, TRUE, FALSE, 0)
SpecialSite(n) == MethodSite("invokespecial", n, TRUE, TRUE, 0)
VfinalSite(n)  == MethodSite("invokevirtual", n, TRUE, TRUE, 0)
VtableSite(n)  == MethodSite("invokevirtual", n, FALSE, FALSE, 1)
InterfaceSite(k) ==
  [kind |-> "interface", site |-> "invokeinterface", iface |-> k, index |-> 1,
   params |-> 1]
FieldSite(k) ==
  [kind |-> "field", site |-> "getfield", get |-> "getfield", put |-> "putfield",
   holder |-> k, offset |-> 3, index |-> 1, final |-> FALSE, volatile |-> FALSE]

(* invokedynamic linked to adapter n (of a LambdaForm class), with an    *)
(* appendix.                                                               *)
IndySite(n) ==
  [kind |-> "handle", site |-> "invokedynamic", code |-> "invokedynamic",
   adapterName |-> n, adapter |-> NULL, appendix |-> "callsite", params |-> 2]

(* One entry per kind: static, vfinal, vtable, interface, field and       *)
(* invokedynamic sites.                                                     *)
DistinctSites ==
  (0 :> {StaticSite(n1)}) @@ (1 :> {VfinalSite(n2)}) @@ (2 :> {VtableSite(n3)})
  @@ (3 :> {InterfaceSite(k2)}) @@ (4 :> {FieldSite(k1)}) @@ (5 :> {IndySite(n3)})

(* Entry 0 is shared by invokevirtual and invokespecial of final n1. *)
SharedSites ==
  (0 :> {VfinalSite(n1), SpecialSite(n1)}) @@ (1 :> {StaticSite(n2)})

(* The shared entry is entry 1: the loop of check_no_old_entries visits it. *)
SharedSitesAt1 ==
  (0 :> {StaticSite(n2)}) @@ (1 :> {VfinalSite(n1), SpecialSite(n1)})

NoIndy == 0 :> -1
IndyAt5 == 0 :> 5

(* The rewriter's constant-pool indices: entry i came from cp index i + 1. *)
MCInverseMap == [i \in 0..5 |-> i + 1]
=============================================================================
