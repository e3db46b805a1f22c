--------------------------- MODULE MCForeignBridge ---------------------------
(* Small instances of the foreign bridge: two requests of one home         *)
(* transaction, one of another, and a message the same validators signed   *)
(* for another bridge.                                                     *)
EXTENDS ForeignBridge, TLC

CONSTANTS alice, bob

MCMessage(recipient, value, txHash, contractAddress) ==
  [recipient |-> recipient, value |-> value, txHash |-> txHash,
   contractAddress |-> contractAddress]

RequestA == MCMessage(alice, 1, "h1", "bridge")
RequestB == MCMessage(bob, 2, "h1", "bridge")
RequestC == MCMessage(alice, 2, "h2", "bridge")
RequestD == MCMessage(alice, 1, "h2", "another bridge")

FourRequests == {RequestA, RequestB, RequestC, RequestD}
OneDeposit    == {[recipient |-> alice, value |-> 2, txHash |-> "f1"]}

ValidatorSymmetry == Permutations(Validator)
=============================================================================
