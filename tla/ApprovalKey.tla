---------------------------- MODULE ApprovalKey ----------------------------
(***************************************************************************)
(* The key file of the local approval identity                             *)
(* (spec_engine/gate_identity): one per OS account, made on first use by   *)
(* whichever call comes first, read afresh on every use.  A key is its     *)
(* number.                                                                 *)
(***************************************************************************)
EXTENDS Naturals

CONSTANTS
  Absent,  \* stands for no file
  Empty,   \* stands for a file with nothing in it
  MaxKeys  \* bound: how many keys are ever made

ASSUME ApprovalKeyAssumption ==
  /\ MaxKeys \in Nat
  /\ Absent # Empty /\ {Absent, Empty} \cap (1..MaxKeys) = {}

VARIABLES
  keyFile, \* the content of the key file
  keys,    \* how many keys were made
  keyLost  \* a key that was in use has been removed from outside

keyVars == <<keyFile, keys, keyLost>>

KeyInit ==
  /\ keyFile = Absent
  /\ keys = 0
  /\ keyLost = FALSE

KeyTypeOK ==
  /\ keyFile \in {Absent, Empty} \cup (1..MaxKeys)
  /\ keys \in 0..MaxKeys
  /\ keyLost \in BOOLEAN

\* A file with a key in it.  Every other state of it is an IdentityError.
KeyThere == keyFile \notin {Absent, Empty}

\* A plausible bug: the file is opened without O_EXCL, and truncated.
OpenNewAnyway == keyFile' = Empty

\* os.open with O_EXCL: for the call that finds no file.
OpenNew ==
  /\ keyFile = Absent
  /\ keyFile' = Empty

\* A plausible bug: a key of no bytes is written.
WriteShortKey ==
  /\ keys < MaxKeys
  /\ keys' = keys + 1
  /\ keyFile' = 0

\* The bytes of a new key, into the file this call has created.
WriteKey ==
  /\ keys < MaxKeys
  /\ keys' = keys + 1
  /\ keyFile' = keys + 1

\* From outside: the key is removed, to be made anew by the next use.
RemoveKey ==
  /\ KeyThere
  /\ keyFile' = Absent
  /\ keyLost' = TRUE
  /\ UNCHANGED keys
=============================================================================
