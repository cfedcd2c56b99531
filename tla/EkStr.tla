-------------------------------- MODULE EkStr -------------------------------
(***************************************************************************)
(* The dynamic string ek_str_t (src/src/ek_str.c): one object, its lengths *)
(* and the block behind buf.  Characters are left out, the terminating NUL *)
(* is not.                                                                 *)
(***************************************************************************)
EXTENDS Integers

CONSTANTS
  MaxAdd,  \* the longest text appended at once
  MaxLen   \* bound of the model: the longest string

ASSUME StrAssumption == MaxLen \in Nat /\ MaxAdd \in 0 .. MaxLen

VARIABLES
  str_state,  \* "none", "live", or "hung" in the loop of _str_ensure_cap
  str_len, str_cap,
  str_size,   \* bytes allocated for buf, 0 when it is NULL
  str_block,  \* where buf comes from: "none", "malloc", "realloc" or "slice"
  str_nul     \* index of the first NUL in buf
strVars == <<str_state, str_len, str_cap, str_size, str_block, str_nul>>

\* One turn of the growth loop.
Half(c) == LET d == IF c = 0 THEN 2 ELSE c IN d + d \div 2

\* The loop never ends from capacity 1, which grows by 1 / 2 = 0.
Loops(need) == str_cap < need /\ str_cap = 1

Grow_OnceMutant(need) == Half(str_cap)
\* The capacity the loop ends with: the first in the chain of halves that is enough.
Grow(need) ==
  LET turns[k \in 0 .. MaxLen + 2] == IF k = 0 THEN str_cap ELSE Half(turns[k - 1])
      enough == {turns[k] : k \in 1 .. MaxLen + 2} \ 0 .. need - 1
  IN CHOOSE c \in enough : \A d \in enough : c <= d

\* _str_ensure_cap succeeds: a first block is as long as was asked for and a later one
\* as long as the capacity.  Its failure leaves the string as it is.
EnsureCap(need) ==
  IF str_cap >= need
    THEN UNCHANGED <<str_cap, str_size, str_block>>
    ELSE /\ str_cap' = Grow(need)
         /\ IF str_size = 0
              THEN str_size' = need /\ str_block' = "malloc"
              ELSE str_size' = Grow(need) /\ str_block' = "realloc"

Extend(n, need) ==
  /\ str_state = "live" /\ str_len + n <= MaxLen
  /\ IF Loops(need)
       THEN str_state' = "hung" /\ UNCHANGED <<str_len, str_cap, str_size, str_block, str_nul>>
       ELSE /\ EnsureCap(need)
            /\ str_len' = str_len + n /\ str_nul' = str_len + n
            /\ UNCHANGED str_state

\* ek_str_append_len, ek_str_append and ek_str_cat of another string.
AppendLen(n) == Extend(n, str_len + n + 1)

\* ek_str_append_fmt asks for no room for the NUL.  A precondition: not the empty text
\* to a string without a buffer, whose NUL would go to address 0.
AppendFmt(n) == (n # 0 \/ str_size # 0) /\ Extend(n, str_len + n)

New(state, len, cap, size, block) ==
  /\ str_state' = state
  /\ str_len' = len /\ str_cap' = cap /\ str_size' = size
  /\ str_block' = block /\ str_nul' = len

\* ek_str_create(NULL).
CreateEmpty == str_state = "none" /\ New("live", 0, 0, 0, "none")

\* ek_str_create of n characters; of none it fails.
CreateFrom(n) == str_state = "none" /\ New("live", n, Grow(n + 1), n + 1, "malloc")

ClearStr == str_state = "live" /\ str_len' = 0
            /\ UNCHANGED <<str_state, str_cap, str_size, str_block, str_nul>>

\* INDEX_CLAMP.
Clamp(i, n) == LET j == IF i < 0 THEN i + n ELSE i
               IN IF j < 0 THEN 0 ELSE IF j > n THEN n ELSE j

\* ek_str_slice; the caller goes on with the new string.  An empty range gives NULL,
\* and so does one whose end comes first, which asks for nearly 2^32 bytes (a
\* precondition: not by one character, which asks for 2^32 = 0).
Slice(start, end) ==
  LET n == Clamp(end, str_len) - Clamp(start, str_len)
  IN /\ str_state = "live" /\ n > 0
     /\ New("live", n, n, n + 1, "slice")

FreeStr == str_state = "live" /\ New("none", 0, 0, 0, "none")

StrInit ==
  /\ str_state = "none" /\ str_len = 0 /\ str_cap = 0 /\ str_size = 0
  /\ str_block = "none" /\ str_nul = 0

\* The program hangs for good.
Hung == str_state = "hung" /\ UNCHANGED strVars

StrNext ==
  \/ CreateEmpty \/ ClearStr \/ FreeStr \/ Hung
  \/ \E n \in 1 .. MaxAdd : CreateFrom(n) \/ AppendLen(n)
  \/ \E n \in 0 .. MaxAdd : AppendFmt(n)
  \/ \E start, end \in -MaxLen - 1 .. MaxLen + 1 : Slice(start, end)

StrSpec == StrInit /\ [][StrNext]_strVars

-----------------------------------------------------------------------------
StrTypeOK ==
  /\ str_state \in {"none", "live", "hung"}
  /\ str_len \in 0 .. MaxLen /\ str_nul \in 0 .. MaxLen
  /\ str_cap \in Nat /\ str_size \in Nat
  /\ str_block \in {"none", "malloc", "realloc", "slice"}

\* The text fits the capacity and ends at its NUL unless it was cleared; a block that
\* was reallocated or sliced is as long as the capacity says; and the growth loop
\* hangs only for the slice of one character (ek_str.c:211-214).
StrSound ==
  /\ str_len <= str_cap
  /\ str_len # 0 => str_nul = str_len
  /\ str_block \in {"realloc", "slice"} => str_cap <= str_size
  /\ str_state = "hung" => str_block = "slice" /\ str_size = 2

\* "cap: the buffer's capacity in bytes" (ek_str.h:37): what the capacity allows to be
\* written has been allocated.
CapIsAllocated == str_cap <= str_size
=============================================================================
