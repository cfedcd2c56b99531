------------------------- MODULE VersionedRegister --------------------------
(***************************************************************************)
(* What ek_snapshot.h promises of a snapshot: one slot that a producer     *)
(* overwrites with data under a fresh id, never 0, and from which a        *)
(* consumer reads the latest complete data, every call at one instant.     *)
(***************************************************************************)
CONSTANTS Item, Id

VARIABLES
  value, id,   \* the latest data and its id; id 0: no data
  got          \* what the last get returned: the data or NODATA
registerVars == <<value, id, got>>

Set(v, u) == u \notin {0, id} /\ value' = v /\ id' = u /\ UNCHANGED got

Get == id # 0 /\ got' = value /\ UNCHANGED <<value, id>>

GetNothing == id = 0 /\ got' = "NODATA" /\ UNCHANGED <<value, id>>

RegisterInit == value = "ZERO" /\ id = 0 /\ got = "NEW"

\* Deinitialised and initialised again.
Clear == RegisterInit'

RegisterNext == (\E v \in Item, u \in Id : Set(v, u)) \/ Get \/ GetNothing \/ Clear

RegisterSpec == RegisterInit /\ [][RegisterNext]_registerVars
=============================================================================
