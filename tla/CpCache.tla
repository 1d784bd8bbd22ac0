------------------------------ MODULE CpCache ------------------------------
(***************************************************************************)
(* ConstantPoolCache (cpCache.cpp:503-601): the array of entries of one    *)
(* class, resolved site by site over the class's lifetime and rewritten in *)
(* place when RedefineClasses replaces the methods of a class.             *)
(*                                                                         *)
(* Here a setter runs in one step (RunSetter): the interleavings of the    *)
(* setters of one entry are the subject of CpCacheEntry.  Redefinition     *)
(* runs with the world stopped, so adjust_method_entries is one step too.  *)
(*                                                                         *)
(* A method is <<name, version>>; redefining class k makes the current     *)
(* version of each of its methods old and installs version + 1.            *)
(***************************************************************************)
EXTENDS CpCacheSetters, Naturals, Sequences, SequencesExt

CONSTANTS
  Entries,     \* indices of the cache: 0 .. length() - 1
  Classes,     \* Klass* values
  Names,       \* methods, each of one class, across its versions
  HolderOf,    \* HolderOf[n]: the class declaring method n
  Sites,       \* Sites[i]: the call sites (unbound setter calls) of entry i
  InverseMap,  \* inverse_index_map: entry -> its constant-pool index
  IndyMap,     \* invokedynamic_references_map: ref index -> entry or -1
  MaxVersion   \* how many times a class may be redefined

ASSUME HolderOf \in [Names -> Classes]
ASSUME \A i \in Entries : 0 < InverseMap[i] /\ InverseMap[i] < 65536

Methods == Names \X (0..MaxVersion)
Holder(m) == HolderOf[m[1]]
(* Is the f1 word, or the f2 word of a vfinal entry, a Method*?  (Those   *)
(* words hold NULL, a Klass* or a Method*.)                               *)
IsMethod(v) == v # NULL /\ v \notin Classes

VARIABLES
  cache,       \* cache[i]: entry i, [cpi, b1, b2, f1, f2, flags, ref]
  version,     \* version[k]: current version of the methods of class k
  old          \* methods superseded by a redefinition (Method::is_old)

vars == <<cache, version, old>>

ZeroEntry == [cpi |-> 0, b1 |-> None, b2 |-> None, f1 |-> NULL, f2 |-> 0,
              flags |-> ZeroFlags, ref |-> NULL]

(* ConstantPoolCacheEntry::initialize_entry: _indices = the constant-pool *)
(* index, with both bytecodes zero.                                        *)
InitializeEntry(index) == [ZeroEntry EXCEPT !.cpi = index]

(* ConstantPoolCache::initialize: initialize_entry for every entry, then   *)
(* each invokedynamic entry gets the index of its resolved_references slot *)
(* in f2.                                                                  *)
Initialize(inverseMap, indyMap) ==
  [i \in Entries |->
     IF \E ref \in DOMAIN indyMap : indyMap[ref] = i
     THEN [InitializeEntry(inverseMap[i]) EXCEPT
             !.f2 = CHOOSE ref \in DOMAIN indyMap : indyMap[ref] = i]
     ELSE InitializeEntry(inverseMap[i])]

(* A setter program run to completion by one thread with no other thread *)
(* touching the entry: the stores of CpCacheSetters applied in order.     *)
RECURSIVE RunFrom(_, _, _)
RunFrom(e, p, i) ==
  IF i > Len(p) THEN e
  ELSE LET ins == p[i] IN
    CASE ins.op = "st"    -> RunFrom([e EXCEPT ![ins.loc] = ins.val], p, i + 1)
      [] ins.op = "stfl"  -> RunFrom([e EXCEPT !.flags =
                                MakeFlags(e.flags, ins.opts \cup
                                  VfinalBit(ins, "vfinal" \in e.flags.opts), ins.low)], p, i + 1)
      [] ins.op = "relix" -> RunFrom([e EXCEPT ![ins.slot] =
                                OrCode(e[ins.slot], ins.code)], p, i + 1)
      [] ins.op = "relf1" -> RunFrom([e EXCEPT !.f1 = ins.val], p, i + 1)
      [] ins.op = "chkf1" -> RunFrom(e, p, IF e.f1 # NULL THEN Len(p) ELSE i + 1)
      [] ins.op = "tstfl" -> RunFrom(e, p, IF e.flags = ZeroFlags THEN i + 1 ELSE i + 2)
      [] ins.op = "cas"   -> RunFrom(IF e.flags = ZeroFlags
                                     THEN [e EXCEPT !.flags = [opts |-> {}, low |-> ins.val]]
                                     ELSE e, p, i + 1)
      [] OTHER            -> RunFrom(e, p, i + 1)

RunSetter(e, c) == RunFrom(e, Program(c), 1)

(* The resolver binds a site to the current version of its method. *)
Bind(s) ==
  IF s.kind \in {"method", "handle"}
  THEN LET n == IF s.kind = "method" THEN s.name ELSE s.adapterName
           m == <<n, version[HolderOf[n]]>>
       IN IF s.kind = "method" THEN [s EXCEPT !.method = m]
                               ELSE [s EXCEPT !.adapter = m]
  ELSE s

-----------------------------------------------------------------------------
(* Mutant: is_interesting_method_entry that only looks at f1. *)
IsInterestingMethodEntryF1Only(e, k) ==
  /\ "field_entry" \notin e.flags.opts
  /\ e.f1 # NULL /\ IsMethod(e.f1)
  /\ k = NULL \/ Holder(e.f1) = k

(* ConstantPoolCacheEntry::is_interesting_method_entry(k) *)
IsInterestingMethodEntry(e, k) ==
  /\ "field_entry" \notin e.flags.opts
  /\ LET m == IF "vfinal" \in e.flags.opts THEN e.f2 ELSE e.f1
     IN /\ "vfinal" \in e.flags.opts \/ e.f1 # NULL
        /\ IsMethod(m)
        /\ k = NULL \/ Holder(m) = k

(* Mutant: adjust_method_entry without its is_vfinal() branch. *)
AdjustMethodEntryF1Only(e, oldM, newM) ==
  IF e.f1 # NULL /\ e.f1 = oldM THEN <<[e EXCEPT !.f1 = newM], TRUE>> ELSE <<e, FALSE>>

(* ConstantPoolCacheEntry::adjust_method_entry: the entry after the call *)
(* and whether it changed.                                                *)
AdjustMethodEntry(e, oldM, newM) ==
  IF "vfinal" \in e.flags.opts
  THEN IF e.f2 = oldM THEN <<[e EXCEPT !.f2 = newM], TRUE>> ELSE <<e, FALSE>>
  ELSE IF e.f1 # NULL /\ e.f1 = oldM
       THEN <<[e EXCEPT !.f1 = newM], TRUE>> ELSE <<e, FALSE>>

(* The inner loop of adjust_method_entries: the first old method that    *)
(* matches is replaced, then break.                                       *)
RECURSIVE AdjustFrom(_, _, _, _)
AdjustFrom(e, olds, news, j) ==
  IF j > Len(olds) THEN e
  ELSE LET r == AdjustMethodEntry(e, olds[j], news[j])
       IN IF r[2] THEN r[1] ELSE AdjustFrom(e, olds, news, j + 1)

(* ConstantPoolCache::adjust_method_entries(old_methods, new_methods) *)
AdjustMethodEntries(c, olds, news) ==
  IF Len(olds) = 0 THEN c
  ELSE [i \in DOMAIN c |->
          IF IsInterestingMethodEntry(c[i], Holder(olds[1]))
          THEN AdjustFrom(c[i], olds, news, 1) ELSE c[i]]

(* ConstantPoolCacheEntry::check_no_old_entries *)
EntryHasNoOld(e) ==
  IF "vfinal" \in e.flags.opts
  THEN IsMethod(e.f2) /\ e.f2 \notin old
  ELSE e.f1 = NULL \/ (IsMethod(e.f1) /\ e.f1 \notin old)

(* ConstantPoolCache::check_no_old_entries: the loop starts at entry 1. *)
CheckNoOldEntries(c) ==
  \A i \in Entries \ {0} :
    IsInterestingMethodEntry(c[i], NULL) => EntryHasNoOld(c[i])

-----------------------------------------------------------------------------
Init ==
  /\ cache = Initialize(InverseMap, IndyMap)
  /\ version = [k \in Classes |-> 0]
  /\ old = {}

(* The interpreter executes site s of entry i, finds the slot it tests    *)
(* zero and calls the resolver, which calls the setter.                   *)
Resolve(i, s) ==
  /\ cache[i][SlotOf(s)] = None
  /\ cache' = [cache EXCEPT ![i] = RunSetter(cache[i], Bind(s))]
  /\ UNCHANGED <<version, old>>

(* RedefineClasses replaces every method of class k (all of them EMCP):  *)
(* the old versions become old and every cache is adjusted.               *)
Redefine(k) ==
  /\ version[k] < MaxVersion
  /\ LET ns   == SetToSeq({n \in Names : HolderOf[n] = k})
         olds == [j \in DOMAIN ns |-> <<ns[j], version[k]>>]
         news == [j \in DOMAIN ns |-> <<ns[j], version[k] + 1>>]
     IN /\ cache' = AdjustMethodEntries(cache, olds, news)
        /\ old' = old \cup ToSet(olds)
  /\ version' = [version EXCEPT ![k] = @ + 1]

Next ==
  \/ \E i \in Entries : \E s \in Sites[i] : Resolve(i, s)
  \/ \E k \in Classes : Redefine(k)

Spec == Init /\ [][Next]_vars

-----------------------------------------------------------------------------
(* Properties. *)

(* method_if_resolved on a quiescent entry: the method a call through the *)
(* entry runs, or a token for a vtable/itable slot, which redefinition    *)
(* updates elsewhere; the holder of a vtable call is found through the    *)
(* entry's constant-pool index.                                            *)
Decode(e) ==
  IF e.b1 = "invokeinterface" /\ e.f1 # NULL THEN <<"itable", e.f1, e.f2>>
  ELSE IF e.b1 \in {"invokestatic", "invokespecial", "invokehandle", "invokedynamic"}
          /\ e.f1 # NULL THEN e.f1
  ELSE IF e.b2 = "invokevirtual"
       THEN IF "vfinal" \in e.flags.opts THEN e.f2 ELSE <<"vtable", e.cpi, e.f2>>
  ELSE NULL

(* After RedefineClasses no entry holds a pointer to an old method, in f1 *)
(* or in f2 (cpCache.cpp:526-563).                                        *)
NoOldMethodReferenced ==
  \A i \in Entries :
    /\ cache[i].f1 \notin old
    /\ "vfinal" \in cache[i].flags.opts => cache[i].f2 \notin old

(* A call through any entry that ran method m runs, after m's class is    *)
(* redefined, the new version of m: never the old one, never another.    *)
DecodeFollowsRedefinition ==
  [][\A i \in Entries :
       Decode(cache[i]) \in old' \ old
         => Decode(cache'[i]) = <<Decode(cache[i])[1], Decode(cache[i])[2] + 1>>]_vars

(* The diagnostic check_no_old_entries() answers true only when no entry  *)
(* holds an old method (spec 4.2: "returns true iff ...").                *)
CheckNoOldEntriesSound == CheckNoOldEntries(cache) => NoOldMethodReferenced
=============================================================================
