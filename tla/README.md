# TLA+ models of the constant pool cache (`cpCache.cpp`)

This directory holds TLA+ models of `src/src/share/vm/oops/cpCache.cpp`.
That file implements the constant pool cache of the HotSpot VM in this Graal
tree: `ConstantPoolCacheEntry` and `ConstantPoolCache`. Each module is
translated from that file. `map` in `PROJECT.json` names the lines behind
every definition. The header `cpCache.hpp` and the interpreter are not in
`src/`; the few definitions taken from them are marked `spec_modelled`.

## The system

A `ConstantPoolCache` is an array of entries, one per field or call site
reference of a class. An entry has five words:

| Word | Contents |
|---|---|
| `_indices` | constant-pool index, `bytecode_1` and `bytecode_2` |
| `_f1` | Klass* of the field holder, Method*, Klass* of an interface, or the adapter Method* |
| `_f2` | field offset, vtable index, itable index, vfinal Method*, or resolved-references index |
| `_flags` | tos state, option bits (`is_vfinal`, `is_final`, `is_volatile`, `is_forced_virtual`, `has_appendix`, `is_field_entry`) and a low field: parameter size or field index |

There are three groups of actors.

- **Resolvers (writers).** An interpreter thread that finds a zero bytecode
  calls the resolver. The resolver calls one of the setters:
  - `set_field` (96-121);
  - `set_parameter_size` (123-138);
  - `set_method` (140-230) for invokestatic, invokespecial, invokevirtual and
    invokeinterface-to-Object;
  - `set_interface_call` (233-243);
  - `set_method_handle` / `set_dynamic_call` through
    `set_method_handle_common` (246-329).

  Several threads can link the same entry at once. Nothing but
  `set_method_handle_common` takes a lock. Publication rests on ordering:
  - f1, f2 and flags are plain stores;
  - the bytecodes are published with `OrderAccess::release_store_ptr` (64-82);
  - for handle entries, f1 is stored last with `release_set_f1` (84-88);
  - the first non-zero `_flags` of `set_parameter_size` is written with
    `cmpxchg` (133-134).
- **Readers.** These are the interpreter's fast path and the runtime decoders
  `method_if_resolved` (331-373) and `appendix_if_resolved` (376-382). They
  read without locks.
- **Redefinition.** `RedefineClasses` marks the old methods of a class
  `is_old`. It then calls `adjust_method_entries` (529-563) on each cache,
  which uses `is_interesting_method_entry` (455-485) and
  `adjust_method_entry` (388-442). Debug builds then check
  `check_no_old_entries` (445-452, 566-574). Redefinition runs at a
  safepoint.

The other parts of the file are not about the entries' life cycle:
- `allocate` and `initialize` (505-524) give every entry its constant-pool
  index and every invokedynamic entry its resolved-references index;
- printing and `verify` (487-501, 580-601) only write output.

## Modules

| Module | Models |
|---|---|
| `CpCacheSetters` | Each setter as a *program*: a sequence of instructions, one per memory operation in the setter's code order. It also holds `make_flags` (49-62) and the OR of `set_bytecode_N` (64-82). |
| `CpCacheEntry` | One entry under concurrent writers and readers, interpreting the setter programs one instruction per step against a weak memory. |
| `MCCpCacheEntry` | Writers, calls, reader kinds and class tables for `CpCacheEntry`. |
| `EntryPublication` | The abstract promise of an entry to its lock-free readers (spec 5, 8.1): slots of published bytecodes over contents that back them. `CpCacheEntry` is checked to implement it. |
| `CpCache` | A whole cache. Each setter runs atomically (`RunFrom`), and the cache is adjusted by redefinitions. |
| `MCCpCache` | Sites, names and classes for `CpCache`. |

The instructions `CpCacheSetters` uses are:

| Instruction | What it stands for |
|---|---|
| `st` | a plain store |
| `ldfl` / `stfl` | the read and the plain write of `make_flags` + `set_flags` |
| `ldix` / `relix` | the read of `_indices` and the release store with the code ORed in |
| `relf1` | `release_set_f1` |
| `lock`, `chkf1`, `unlock` | the `MonitorLockerEx` and the `is_f1_null()` early return |
| `tstfl`, `cas`, `guar` | `set_parameter_size` |

`CpCacheEntry` and `CpCache` both interpret the same programs. The order of
stores therefore lives in one place, and the mutants of a setter reach both
modules.

### The memory model in `CpCacheEntry`

- Each writer has a store buffer `buf` with one slot per word (f1, f2, flags,
  the resolved-references slot `ref`). A plain store fills the slot. `Flush`
  moves any filled slot to `mem`, in any order. Stores of one thread to
  different words can therefore become visible out of order, as on PSO/ARM.
- A release store (`relix`, `relf1`) and the `cmpxchg` wait until the buffer
  is drained. They then write `mem` directly.
- A thread's loads see its own buffered stores first (`Own`).
- A writer's loads happen in program order. A reader's loads in the
  decoders are plain loads ordered only by control dependencies. With the
  constant `RelaxedLoads = TRUE`, each of them (`RLoad`) may return the
  value the word held when the decode began (`snap`), as on a CPU that
  performs loads early. All runs except `decode_relaxed` set it to FALSE,
  which is the x86/SPARC (TSO) behaviour.
- The per-cache lock is the variable `lock`.

### Writers

A writer `w` runs `Program(Call[w])` with program counter `pc[w]`. There is
one action per instruction kind:

| Action | Code |
|---|---|
| `PlainStore` | `set_f1`, `set_f2`, `obj_at_put` |
| `LoadFlags`, `StoreFlags` | `make_flags` / `set_*_flags` |
| `LoadVfinal` | `set_method`'s read of `is_vfinal()` for invokespecial/invokestatic (186-187), ORed into its flags store |
| `LoadIndices`, `ReleaseStoreIndices` | `set_bytecode_N` |
| `ReleaseSetF1` | `release_set_f1` |
| `AcquireLock`, `CheckF1`, `ReleaseLock` | lines 272-275 |
| `TestFlagsZero`, `CasFlagsZero`, `GuaranteeParamSize` | lines 133-137 |

- A failed `guarantee` crashes the VM. It is recorded in `crashed`.
- At the end, a writer whose site's bytecode slot (`SlotOf`) is still zero
  re-runs its setter (`Reresolve`). This is the interpreter calling the
  resolver again, which makes lost bytecode updates harmless (comment at
  96-100).

### Readers

Readers run one load per step. There are three kinds:

- `decode` follows `method_if_resolved` branch by branch:
  `DecodeB1`, `DecodeF1`, `DecodeItable`, `DecodeB2`, `DecodeVfinal`,
  `DecodeF2Method`, `DecodeF2Vtable`.
- `appendix` follows `appendix_if_resolved`: `AppendixF1`, `AppendixFlags`,
  `AppendixRef`.
- `field` is the interpreter's getfield fast path: `FieldSlot`, `FieldF2`,
  `FieldFlags`.

A reader then records its result in `res[r]` and may start again
(`Restart`).

### Refinement

`CpCacheEntry` defines `Pub == INSTANCE EntryPublication WITH ...`:
- the abstract slots are `mem.b1` and `mem.b2`;
- the abstract contents are `mem.f1`, `mem.f2`, `mem.flags` and `mem.ref`;
- contents *back* code c in slot s (`BackedByCall`) when some writer's
  setter program publishes c in s, and every store of that program is
  found in memory. Its option bits must be in `_flags` and its low field
  must equal the one in `_flags`.

The property `ImplementsPublication == Pub!Spec` says three things:
- a bytecode visible in memory is always backed;
- a step never changes the bytecodes and the contents together;
- a published bytecode is never replaced by another one.

### CpCache

- `cache[i]` is entry `i` as a record.
- `version[k]` is the current version of class `k`'s methods; a method is
  `<<name, version>>`.
- `old` is the set of methods marked `is_old`.
- `Resolve(i, s)` runs the setter of site `s` when the slot `s` tests is zero.
- `Redefine(k)` moves every method of `k` to a new version and applies
  `AdjustMethodEntries`.
- `Decode` is `method_if_resolved` on a quiescent entry.

## Runs

All runs use model values for methods, classes and appendices, and
`MaxWord = 3` for the low field of `_flags`.

| Run | Expect | Configuration | Checks |
|---|---|---|---|
| `method_race` | pass | w1, w2: invokevirtual of final m1; w3: `set_parameter_size`; reader r1 decodes | TypeOK, DecodeSound, ParamSizeAgrees, VfinalMonotone, EventuallyResolved, ImplementsPublication |
| `field_race` | pass | getfield and putfield of one final field; r1 reads through the fast path | FieldSound, EventuallyResolved, ImplementsPublication |
| `indy_race` | pass | two `set_dynamic_call`s with different adapter/appendix; r1, r2 read the appendix | AppendixSound, RefInitJustOnce, EventuallyResolved, ImplementsPublication |
| `interface_race` | pass | two `set_interface_call`s; r1 decodes | DecodeSound |
| `static_race` | pass | w1, w2: invokestatic of m1, each reading `is_vfinal()` and `_flags` before storing; r1 decodes | ImplementsPublication |
| `object_via_interface` | pass | two threads link invokeinterface of public Object method m2 (forced virtual); r1 decodes | DecodeSound, EventuallyResolved, DecodeEventuallyAnswers |
| `shared_vfinal` | **violation** | invokevirtual and invokespecial of one final method on a shared entry | VfinalMonotone |
| `decode_relaxed` | **violation** | `method_race` with `RelaxedLoads = TRUE` | DecodeSound |
| `redefine` | pass | 6 entries (static, vfinal, vtable, interface, field, invokedynamic sites), 2 classes, up to 3 redefinitions each | NoOldMethodReferenced, DecodeFollowsRedefinition |
| `redefine_shared` | **violation** | entry 0 shared by vfinal invokevirtual and invokespecial | DecodeFollowsRedefinition |
| `check_no_old` | **violation** | the shared entry at index 1 | CheckNoOldEntriesSound |

What the properties say:

- **DecodeSound.** `method_if_resolved` racing writers returns NULL or the
  method the call intends. It never returns a vtable method read through a
  Method*, and never an itable slot with the wrong index.
- **FieldSound.** An interpreter thread that sees a resolved bytecode uses the
  offset, the field index and exactly the `is_field_entry`/`is_final`/
  `is_volatile` bits of one `set_field` call. It never uses zero or a mix of
  the old and the new `_flags` word.
- **AppendixSound.** `appendix_if_resolved` returns NULL or the appendix that
  belongs to the adapter in f1.
- **RefInitJustOnce.** The resolved-references slot is written at most once.
- **VfinalMonotone.** `is_vfinal` is never cleared once set. This is spec
  invariant 4 and the comment at 182-185.
- **ParamSizeAgrees.** The `guarantee` of `set_parameter_size` never fails.
- **EventuallyResolved.** Every linking site ends up resolved, for good.
- **DecodeEventuallyAnswers.** A reader that keeps calling
  `method_if_resolved` ends up answering the linked method, not NULL. For a
  forced-virtual invokeinterface, bytecode_1 is set while f1 stays NULL, so
  the decoder must fall through to bytecode_2.
- **ImplementsPublication.** The entry implements `EntryPublication` (see
  Refinement).
- **NoOldMethodReferenced** and **DecodeFollowsRedefinition.** After
  redefinition no entry references an old method, and every call through an
  entry moves to the new version of the same method.
- **CheckNoOldEntriesSound.** `check_no_old_entries` is sound.

### Bounds

- Two or three writers are enough for every race in the code. Every race is
  between two linkers of one entry; the third writer is
  `set_parameter_size`, which races the flags store.
- One or two readers are enough because readers do not interact with each
  other.
- A reader may restart after each answer (`Restart`), so it observes every
  stage of publication. The state space stays finite because a reader keeps
  only its last answer. The count of writes to the resolved-references slot
  is capped at 2 (`Cap`), which is enough to tell "once" from "more than
  once".
- `MaxVersion = 3` lets a class be redefined three times in `redefine`
  (2 in the violation runs, which fail earlier). That exercises the `break`
  of `adjust_method_entries` with a chain of versions.
- The six entries of `redefine` cover every kind the interesting-entry
  filter tells apart: a Method* in f1 (static, invokedynamic adapter), a
  vfinal Method* in f2, a vtable index, an interface Klass* in f1, a field.

### Fairness

`Spec` of `CpCacheEntry` has three kinds of weak fairness, each justified by
the code:
- WF on each writer step: a resolving thread runs to completion and nothing
  it waits for blocks forever (the lock is held for a bounded region);
- WF on each `Flush`: store buffers drain;
- WF on each reader step.

`CpCache` asserts only safety and needs no fairness. Its runs disable
deadlock checking because a fully resolved cache whose classes have reached
`MaxVersion` simply stops changing.

## Findings

1. **`shared_vfinal` (cpCache.cpp:61, 186).** `set_method`'s flags update is
   a plain read-modify-write (`make_flags` returns `_flags | f`). If
   invokespecial and invokevirtual of the same final method link a shared
   entry concurrently, the invokespecial store can overwrite the
   invokevirtual store and clear `is_vfinal`. f2 still holds a Method*, and a
   later virtual call reads it as a vtable index. The comment at 182-185
   states that this must not happen.
2. **`redefine_shared` (cpCache.cpp:413).** For a vfinal entry,
   `adjust_method_entry` updates f2 and returns. An invokespecial sharing the
   entry keeps the old Method* in f1.
3. **`check_no_old` (cpCache.cpp:446).** For a vfinal entry the check
   looks only at f2, so it misses finding 2's stale f1. The cache-level
   loop also starts at index 1 (567), which the model keeps. No run shows
   that: the only old method `adjust_method_entries` leaves behind is the
   one the per-entry check misses anyway.
4. **`decode_relaxed` (cpCache.cpp:333-366).** Spec 5 requires readers to
   load the bytecode and f1 with acquire ordering. `method_if_resolved`
   uses plain loads. If the CPU performs the loads of `is_vfinal()` and f2
   before the load of bytecode_2, the decoder can see invokevirtual with
   the old flags and f2, and answer a vtable slot instead of the final
   method. `appendix_if_resolved` (377-381) has the same plain loads. On
   TSO machines this cannot happen (the other runs).

## Not modelled

- **The tos state of `_flags`.** Nothing modelled reads it. The
  constant-pool index is modelled in `CpCache` (`InitializeEntry`); it
  names the holder of a vtable call in `Decode`. In `CpCacheEntry` it is
  carried unchanged by every read-modify-write, so it is left out there.
- **Reordering of the interpreter's own loads** (field fast path). Its
  assembly is not in `src/`; the field reader keeps program order.
- **The substitution of Object's vtable for array holders** (364). The
  holder's vtable is a constant `VTable`.
- **GC updates of f1**, which are not in this file.
- **Printing and `verify`.**

## Plan for later sittings

Done so far:
- the abstract entry with its refinement;
- invokedynamic entries under redefinition;
- liveness for decoders;
- relaxed loads in decoders.

Left:
1. Larger bounds for `redefine`: three classes, with method names shared
   across vtable entries.
2. A composition of `CpCacheEntry` with redefinition. This would be a
   safepoint between two setter steps of a handle writer blocked on the
   lock (`MonitorLockerEx` checks for safepoints).
3. `appendix_if_resolved` under `RelaxedLoads`, as a second run of finding 4.
