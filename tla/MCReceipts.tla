----------------------------- MODULE MCReceipts -----------------------------
(* Two emitters, a verifier and an operator, and one key of the operator's  *)
(* that replaces another.                                                   *)
EXTENDS Receipts, TLC

CONSTANTS a, b, verifier, operator, kv, ko, kn

Trusts(v, o) == (verifier :> v) @@ (operator :> o)

Verdict(granted, rule, trust) ==
  [decision |-> [kind |-> "verdict", granted |-> granted,
                 identity |-> verifier, key |-> kv],
   rule |-> rule, keyId |-> kv, trust |-> trust]

SignOff(key, keyId, trust) ==
  [decision |-> [kind |-> "signoff", granted |-> TRUE,
                 identity |-> operator, key |-> key],
   rule |-> "hard_floor_rule", keyId |-> keyId, trust |-> trust]

\* In turn: a verdict for which the operator's old key is trusted, a sign-off
\* with that key, the same without --trust, a sign-off with the operator's new
\* key, one whose decision was signed with another key than the receipt; and
\* two that are refused before any file is read.
MCCommands ==
  { Verdict(TRUE, "path_rule", Trusts(NoKey, ko)),
    SignOff(ko, ko, Trusts(kv, NoKey)),
    SignOff(kn, kn, Trusts(kv, NoKey)),
    SignOff(ko, kn, Trusts(NoKey, NoKey)),
    Verdict(TRUE, "hard_floor_rule", Trusts(NoKey, ko)),
    Verdict(FALSE, "path_rule", Trusts(NoKey, ko)) }

Symmetric == Permutations({a, b})
=============================================================================
