------------------------------ MODULE TwoWayPeg ------------------------------
(***************************************************************************)
(* What the bridge promises its users, whatever its parts: tokens locked   *)
(* on the foreign chain are minted on the home chain, once per reported    *)
(* transfer, and tokens asked back from the home chain are unlocked on the *)
(* foreign chain, once per transaction (README.md, ERC20-to-ERC20).  There *)
(* are no validators, signatures, limits or days here; a transfer may also *)
(* never be served.                                                        *)
(***************************************************************************)
EXTENDS Integers

CONSTANTS
  Locking,          \* transfers to the bridge on the foreign chain
  Burning,          \* users' requests on the home chain
  Returning         \* the owner's requests for what was never minted

Request == Burning \cup Returning

VARIABLES
  locked,           \* per transfer, how often it was made
  issued,           \* the transfers whose tokens were minted
  circulating,      \* the tokens on the home chain
  requested,        \* per request, how often it was made
  unlocked          \* the requests paid on the foreign chain

pegVars == <<locked, issued, circulating, requested, unlocked>>

PegInit ==
  /\ locked = [a \in Locking |-> 0]
  /\ issued = {}
  /\ circulating = 0
  /\ requested = [m \in Request |-> 0]
  /\ unlocked = {}

Lock(a) ==
  /\ locked' = [locked EXCEPT ![a] = @ + 1]
  /\ UNCHANGED <<issued, circulating, requested, unlocked>>

Issue(a) ==
  /\ locked[a] > 0
  /\ a \notin issued
  /\ issued' = issued \cup {a}
  /\ circulating' = circulating + a.value
  /\ UNCHANGED <<locked, requested, unlocked>>

Burn(m) ==
  /\ circulating >= m.value
  /\ circulating' = circulating - m.value
  /\ requested' = [requested EXCEPT ![m] = @ + 1]
  /\ UNCHANGED <<locked, issued, unlocked>>

(* Only something locked can be given back. *)
Return(m) ==
  /\ \E a \in Locking : locked[a] > 0 /\ a.recipient = m.recipient /\ a.value = m.value
  /\ requested' = [requested EXCEPT ![m] = @ + 1]
  /\ UNCHANGED <<locked, issued, circulating, unlocked>>

PayOut(m) ==
  /\ requested[m] > 0
  /\ \A n \in unlocked : n.txHash # m.txHash
  /\ unlocked' = unlocked \cup {m}
  /\ UNCHANGED <<locked, issued, circulating, requested>>

PegNext ==
  \/ \E a \in Locking : Lock(a) \/ Issue(a)
  \/ \E m \in Burning : Burn(m)
  \/ \E m \in Returning : Return(m)
  \/ \E m \in Request : PayOut(m)

PegSpec == PegInit /\ [][PegNext]_pegVars
=============================================================================
