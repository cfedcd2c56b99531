------------------------------- MODULE EkBoot -------------------------------
(***************************************************************************)
(* Start-up: ek_export_init (src/src/ek_export.c) runs the functions the   *)
(* linker collected, by level and order; one of them, ek_static_alloc_init *)
(* (src/src/ek_static_alloc.c), initialises the registered static objects. *)
(* qsort leaves entries that compare equal in any order.                   *)
(***************************************************************************)
EXTENDS Naturals

CONSTANTS
  AppEntry,   \* what the application exports: [fn, level, order, uses], uses the
              \* functions that must have run for this one to do its work
  Object      \* the registered static objects: [name, order, uses, err], err what the
              \* callback returns when it fails

\* EK_EXPORT_LEVEL and its levels.
Entry(f, l, o) == [fn |-> f, level |-> l, order |-> o, uses |-> {}]
Earliest(f, o) == Entry(f, 0, o)
Components(f, o) == Entry(f, 2, o)

\* What the library exports.
HeapEntry == Earliest("heap", 0)
PtEntry == Components("pt", 0)
EvokeEntry == Components("evoke", 0)
IoEntry == Components("io", 0)
StaticAllocEntry == Components("static_alloc", 1)

\* The linker's section .ek_export_fn.
LibEntry == {HeapEntry, PtEntry, EvokeEntry, IoEntry, StaticAllocEntry}
Table == LibEntry \cup AppEntry

Functions == {i.fn : i \in Table}

ASSUME BootAssumption ==
  /\ \A i \in AppEntry : i.level \in Nat /\ i.order \in Nat
  /\ \A i \in AppEntry, j \in LibEntry : i.fn # j.fn
  /\ \A o \in Object : o.order \in Nat /\ o.err # "OK"

VARIABLES
  bt_bad,     \* the static objects whose parameters are wrong
  bt_items,   \* exported functions that have not run
  bt_objs,    \* static objects still to initialise in ek_static_alloc_init
  bt_up,      \* the functions and objects that have been set up
  bt_error    \* s_static_alloc_error
btVars == <<bt_bad, bt_items, bt_objs, bt_up, bt_error>>

Before_LevelOnlyMutant(a, b) == a.level < b.level
\* _ek_export_item_compare.
Before(a, b) == a.level < b.level \/ (a.level = b.level /\ a.order < b.order)

\* A function does its work when those it uses have run: a heap without its pools has
\* no memory, a task made before ek_pt_init is refused, and a task that waits or is
\* ready before ek_evoke_init is forgotten when that empties the lists.
Works(i) == i.uses \subseteq bt_up

RunExport(i) ==
  /\ bt_objs = {}
  /\ \A j \in bt_items : ~Before(j, i)
  /\ bt_items' = bt_items \ {i}
  /\ bt_up' = IF Works(i) THEN bt_up \cup {i.fn} ELSE bt_up
  /\ IF i.fn = "static_alloc" THEN bt_objs' = Object /\ bt_error' = "OK"
                              ELSE UNCHANGED <<bt_objs, bt_error>>
  /\ UNCHANGED bt_bad

\* What a callback returns; that of a task uses ek_pt_init.
InitError(o) == IF o \in bt_bad \/ ~Works(o) THEN o.err ELSE "OK"

\* s_static_alloc_error keeps the first failure.
KeepFirst(err) == IF bt_error = "OK" THEN err ELSE bt_error

InitObject(o) ==
  /\ \A p \in bt_objs : ~(p.order < o.order)
  /\ bt_objs' = bt_objs \ {o}
  /\ bt_up' = IF InitError(o) = "OK" THEN bt_up \cup {o.name} ELSE bt_up
  /\ bt_error' = KeepFirst(InitError(o))
  /\ UNCHANGED <<bt_bad, bt_items>>

BtInit ==
  /\ bt_bad \in SUBSET Object
  /\ bt_items = Table /\ bt_objs = {} /\ bt_up = {} /\ bt_error = "OK"

\* The processor resets: RAM is as at power-on.
Reset ==
  /\ bt_items' = Table /\ bt_objs' = {} /\ bt_up' = {} /\ bt_error' = "OK"
  /\ UNCHANGED bt_bad

BtNext == (\E i \in bt_items : RunExport(i)) \/ (\E o \in bt_objs : InitObject(o)) \/ Reset

BtSpec == BtInit /\ [][BtNext]_btVars

-----------------------------------------------------------------------------
BtTypeOK ==
  /\ bt_bad \subseteq Object
  /\ bt_items \subseteq Table /\ bt_objs \subseteq Object
  /\ bt_up \subseteq Functions \cup {o.name : o \in Object}
  /\ bt_error \in {"OK"} \cup {o.err : o \in Object}

\* Each of the functions used is exported before i.
Behind(uses, i) == \A f \in uses : \E j \in Table : j.fn = f /\ Before(j, i)

\* What the levels and orders leave to the application: every function comes behind
\* those it uses, and a static object uses only what comes before the static objects.
Ordered ==
  /\ \A i \in Table : Behind(i.uses, i)
  /\ \A o \in Object, i \in LibEntry : i.fn = "static_alloc" => Behind(o.uses, i)

\* The failures that come before every other failure.
FirstFailures == {o \in bt_bad : \A p \in bt_bad : p.order >= o.order}

\* However qsort orders equal entries, start-up leaves everything set up that can be: a
\* function finds what it uses, a failing object does not stop the ones behind it, and
\* the error reported is that of the first to fail (ek_static_alloc.h:82).
BootComplete ==
  bt_items = {} /\ bt_objs = {} =>
    /\ bt_up = Functions \cup {o.name : o \in Object \ bt_bad}
    /\ IF bt_bad = {} THEN bt_error = "OK"
                      ELSE \E o \in FirstFailures : bt_error = o.err
=============================================================================
