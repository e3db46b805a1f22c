---------------------------- MODULE MCTokenBridge ----------------------------
(* Small instances of the whole bridge.                                    *)
EXTENDS TokenBridge, TLC

CONSTANTS alice, bob

MCTransfer(recipient, value, txHash) ==
  [recipient |-> recipient, value |-> value, txHash |-> txHash]

OneDeposit     == {MCTransfer(alice, 2, "f1")}
TwoDeposits    == {MCTransfer(alice, 2, "f1"), MCTransfer(bob, 1, "f2")}
OneWithdrawal  == {MCTransfer(alice, 1, "h1")}
TwoWithdrawals == {MCTransfer(alice, 1, "h1"), MCTransfer(bob, 1, "h2")}
OneUnlock      == {MCTransfer(alice, 2, "fix1")}
NoTransfer     == {}

ValidatorSymmetry == Permutations(Validator)
=============================================================================
