------------------------------ MODULE Custody -------------------------------
(***************************************************************************)
(* What an escrow promises its owner, without saying how: a vault out of   *)
(* which the owner alone takes tokens while nobody else holds a right, and *)
(* out of which only the holders of a right take tokens while somebody     *)
(* does - each up to its limit per withdrawal, and none while the vault is *)
(* frozen.  Clocks, keys, flags, counters and nonces are the program's     *)
(* own means and do not appear.                                            *)
(***************************************************************************)
EXTENDS Integers

CONSTANTS Holder,   \* who may be given a right
          MostTaken \* [Holder -> amount]: the limit of one withdrawal

VARIABLES open,     \* the vault exists
          vault,    \* tokens in it
          holders,  \* who holds a right to it
          frozen    \* the owner has frozen it

vars == <<open, vault, holders, frozen>>

Init == open = FALSE /\ vault = 0 /\ holders = {} /\ frozen = FALSE

(* A vault opens and shuts empty, free of rights and of the freeze.        *)
Open ==
  /\ ~open
  /\ open' = TRUE
  /\ UNCHANGED <<vault, holders, frozen>>

Shut ==
  /\ open /\ vault = 0 /\ holders = {} /\ ~frozen
  /\ open' = FALSE
  /\ UNCHANGED <<vault, holders, frozen>>

PayIn ==
  /\ open
  /\ vault' > vault
  /\ UNCHANGED <<open, holders, frozen>>

OwnerTakes ==
  /\ open /\ holders = {}
  /\ 0 <= vault' /\ vault' < vault
  /\ UNCHANGED <<open, holders, frozen>>

HolderTakes(h) ==
  /\ open /\ h \in holders /\ ~frozen
  /\ 0 <= vault' /\ vault' < vault
  /\ vault - vault' <= MostTaken[h]
  /\ UNCHANGED <<open, holders, frozen>>

Grant(h) ==
  /\ open /\ ~frozen /\ h \notin holders
  /\ holders' = holders \cup {h}
  /\ UNCHANGED <<open, vault, frozen>>

Revoke(h) ==
  /\ open /\ ~frozen
  /\ holders' = holders \ {h}
  /\ UNCHANGED <<open, vault, frozen>>

Freeze == open /\ frozen' = TRUE /\ UNCHANGED <<open, vault, holders>>

Thaw == open /\ frozen' = FALSE /\ UNCHANGED <<open, vault, holders>>

Next ==
  \/ Open \/ Shut \/ PayIn \/ OwnerTakes \/ Freeze \/ Thaw
  \/ \E h \in Holder : HolderTakes(h) \/ Grant(h) \/ Revoke(h)

Spec == Init /\ [][Next]_vars
=============================================================================
