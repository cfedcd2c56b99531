----------------------------- MODULE MCLibrary ------------------------------
(***************************************************************************)
(* Small instances of the library's passive parts, which share no state: a *)
(* behaviour is one of `subject`, the rest stays as it was initialised.    *)
(***************************************************************************)
EXTENDS SpscRing, EkRingbuf, EkStack, EkSnapshot, EkBoot, EkVec, EkStr, TLC

CONSTANTS x, y, t1, t2, t3

\* Two producers with ids of their own, as the header asks: none is 0.
MCIdOf == (t1 :> {1, 2}) @@ (t2 :> {3})

\* A driver, an early entry that ties with the heap, one that ties with the library's
\* components, and the main program.
AppFn(f, l, o, uses) == [fn |-> f, level |-> l, order |-> o, uses |-> uses]
MCAppEntry == {AppFn("clock", 0, 0, {}), AppFn("driver", 1, 0, {"heap"}),
               AppFn("logger", 2, 0, {"heap", "driver"}),
               AppFn("main", 3, 0, {"pt", "evoke", "io", "static_alloc"})}

\* One object of each order the EK_DEFINE macros use, two of an application's own.
Static(n, o, uses, e) == [name |-> n, order |-> o, uses |-> uses, err |-> e]
MCObject == {Static("ring", 10, {}, "INVAL"), Static("pt_task", 20, {"pt"}, "INVAL"),
             Static("evoke_task", 20, {}, "INVAL"),
             Static("pool", 10, {"heap"}, "NOMEM"), Static("port", 30, {"driver"}, "BUSY")}

VARIABLE subject
libraryVars ==
  <<subject, ringVars, lockVars, rbVars, stVars, snVars, btVars, veVars, strVars>>

LibraryInit ==
  /\ subject \in {"spsc", "ringbuf", "stack", "snapshot", "boot", "vec", "str"}
  /\ RingInit /\ RbInit /\ StInit /\ SnInit /\ BtInit /\ VeInit /\ StrInit
  /\ subject # "boot" => bt_bad = {}

LibraryNext ==
  /\ UNCHANGED subject
  /\ \/ subject = "spsc" /\ RingNext
        /\ UNCHANGED <<lockVars, rbVars, stVars, snVars, btVars, veVars, strVars>>
     \/ subject = "ringbuf" /\ RbNextStep
        /\ UNCHANGED <<ringVars, stVars, snVars, btVars, veVars, strVars>>
     \/ subject = "stack" /\ StNextStep
        /\ UNCHANGED <<ringVars, rbVars, snVars, btVars, veVars, strVars>>
     \/ subject = "snapshot" /\ SnNextStep
        /\ UNCHANGED <<ringVars, rbVars, stVars, btVars, veVars, strVars>>
     \/ subject = "boot" /\ BtNext
        /\ UNCHANGED <<ringVars, lockVars, rbVars, stVars, snVars, veVars, strVars>>
     \/ subject = "vec" /\ VeNext
        /\ UNCHANGED <<ringVars, lockVars, rbVars, stVars, snVars, btVars, strVars>>
     \/ subject = "str" /\ StrNext
        /\ UNCHANGED <<ringVars, lockVars, rbVars, stVars, snVars, btVars, veVars>>

LibrarySpec == LibraryInit /\ [][LibraryNext]_libraryVars

\* Every part's type invariant.
LibraryTypeOK ==
  /\ RingTypeOK /\ LockTypeOK /\ RbTypeOK /\ StTypeOK /\ SnTypeOK
  /\ BtTypeOK /\ VeTypeOK /\ StrTypeOK

AnyItem == Permutations(Item)
=============================================================================
