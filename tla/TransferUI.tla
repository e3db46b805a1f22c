----------------------------- MODULE TransferUI -----------------------------
(***************************************************************************)
(* The bridge UI (ui/src): one page, whose stores are filled and refilled  *)
(* by promises.  One flag, the loading overlay of AlertStore, keeps the    *)
(* user from starting anything while something is under way: a transfer,   *)
(* the switch to another token, an update after the wallet's account has   *)
(* changed.  Whoever has finished clears it, whoever set it.               *)
(* A transfer is confirmed in a dialog, which is drawn above the overlay.  *)
(* Left out: what is only shown, and how an amount compares with limits and*)
(* balances; those checks may refuse a transfer at any time.               *)
(***************************************************************************)
EXTENDS Naturals, Sequences, FiniteSets

CONSTANTS
  Tokens, FirstToken,   \* what can be bridged, what the page opens with
  WithoutEvents,        \* per side, REACT_APP_{HOME,FOREIGN}_WITHOUT_EVENTS
  MaxTransfers, MaxSwitches, MaxAccounts,   \* bounds
  MaxDisturbances       \* bound, see disturbances

Side == {"home", "foreign"}

ASSUME TransferUIAssumption ==
  /\ FirstToken \in Tokens /\ WithoutEvents \in [Side -> BOOLEAN]
  /\ {MaxTransfers, MaxSwitches, MaxAccounts, MaxDisturbances} \subseteq Nat

NoToken == "no token"
NoDialog == {}
NoSwitch == 0

VARIABLES
  network,        \* metamaskNet: the chain the wallet sends to
  store,          \* per side, the token whose bridge, contract and details it holds
  loads,          \* running calls of setHome and setForeign
  switching,      \* calls of setNewToken that wait, by number
  overlay,        \* showLoading
  updating,       \* getBalances has set the overlay
  feeCalls,       \* calls of onTransfer that wait for the fee, as a sequence
  dialog,         \* the confirmation: the tokens whose numbers and symbols it shows
  transfers,      \* what doSend was called for
  switches, accounts,
  disturbances    \* calls that failed, and what was not waited for, see Hurried

storeVars == <<store, loads, switching, switches>>
accountVars == <<updating, accounts>>
dialogVars == <<feeCalls, dialog>>
uiVars == <<network, storeVars, overlay, accountVars, dialogVars, transfers, disturbances>>

undisturbed == disturbances = 0
Disturb == disturbances < MaxDisturbances /\ disturbances' = disturbances + 1

(* The user switches to a token, or confirms a transfer, before the page is*)
(* done with what it was asked for: nothing in the code keeps him from it. *)
Hurried(early) == IF early THEN Disturb ELSE UNCHANGED disturbances

otherSide == IF network = "home" THEN "foreign" ELSE "home"

(* The awaits of setHome and setForeign, by what they are for; "details"   *)
(* are the symbol and the decimals.                                        *)
Order == [home    |-> <<"bridge", "token", "details">>,
          foreign |-> <<"bridge", "block", "token", "details">>]

Load(side, token, switch) == [side |-> side, token |-> token, at |-> 1, of |-> token, switch |-> switch]

TransferUIInit ==
  /\ network \in Side
  /\ store = [s \in Side |-> [f \in {"bridge", "token", "details"} |-> NoToken]]
  /\ loads = {Load(s, FirstToken, NoSwitch) : s \in Side}
  /\ switching = {} /\ switches = 0
  /\ overlay = FALSE
  /\ updating = FALSE /\ accounts = 0
  /\ feeCalls = <<>> /\ dialog = NoDialog
  /\ transfers = <<>>
  /\ disturbances = 0

-----------------------------------------------------------------------------
(* The overlay *)

setLoading(status) == overlay' = status

-----------------------------------------------------------------------------
(* The stores *)

(* What the next call reads, at the moment it is made: getErc677TokenAddress*)
(* of the bridge that is there, getSymbol of the token that is there.      *)
Reads(stored, side, what) == IF what = "token" THEN stored[side].bridge ELSE stored[side].token

Continue(load, stored, at) ==
  IF at > Len(Order[load.side]) THEN loads' = loads \ {load}
  ELSE loads' = (loads \ {load})
         \cup {[load EXCEPT !.at = at, !.of = Reads(stored, load.side, Order[load.side][at])]}

Loaded(load) ==
  LET what == Order[load.side][load.at]
  IN  /\ store' = IF what = "block" THEN store ELSE [store EXCEPT ![load.side][what] = load.of]
      /\ Continue(load, store', load.at + 1)
      /\ UNCHANGED <<network, switching, switches, overlay, accountVars, dialogVars, transfers, disturbances>>

(* Without the status file the call fails.  getTokenInfo and getBlockNumber*)
(* catch: the rest of getTokenInfo is left out, what was stored remains.   *)
LoadFails(load) ==
  LET what == Order[load.side][load.at]
  IN  /\ Disturb
      /\ CASE what = "bridge" -> loads' = loads \ {load} /\ switching' = switching \ {load.switch}
           [] what = "block" -> Continue(load, store, load.at + 1) /\ UNCHANGED switching
           [] OTHER -> Continue(load, store, Len(Order[load.side]) + 1) /\ UNCHANGED switching
      /\ UNCHANGED <<network, store, switches, overlay, accountVars, dialogVars, transfers>>

(* handleOptionChange; the overlay is up before setNewToken is called.     *)
SwitchToken(token) ==
  /\ ~overlay /\ dialog = NoDialog
  /\ switches < MaxSwitches /\ switches' = switches + 1
  /\ setLoading(TRUE)
  /\ loads' = loads \cup {Load(s, token, switches') : s \in Side}
  /\ switching' = switching \cup {switches'}
  /\ Hurried(loads # {} \/ feeCalls # <<>>)
  /\ UNCHANGED <<network, store, accountVars, dialogVars, transfers>>

(* Mutant of SetNewToken: the promises are not awaited.                    *)
SetNewTokenAtOnce(switch) ==
  /\ switching' = switching \ {switch}
  /\ setLoading(FALSE)
  /\ UNCHANGED <<network, store, loads, switches, accountVars, dialogVars, transfers, disturbances>>

SetNewToken(switch) ==
  /\ \A l \in loads : l.switch # switch
  /\ switching' = switching \ {switch}
  /\ setLoading(FALSE)
  /\ UNCHANGED <<network, store, loads, switches, accountVars, dialogVars, transfers, disturbances>>

-----------------------------------------------------------------------------
(* The account of the wallet *)

(* Mutant of AccountChanged: showLoading is not looked at.                 *)
AccountChangedAnyTime ==
  /\ accounts < MaxAccounts /\ accounts' = accounts + 1
  /\ setLoading(TRUE) /\ updating' = TRUE
  /\ UNCHANGED <<network, storeVars, dialogVars, transfers, disturbances>>

AccountChanged ==
  /\ ~overlay
  /\ accounts < MaxAccounts /\ accounts' = accounts + 1
  /\ setLoading(TRUE) /\ updating' = TRUE
  /\ UNCHANGED <<network, storeVars, dialogVars, transfers, disturbances>>

(* A balance that cannot be read is logged: the overlay stays.             *)
AccountUpdated ==
  /\ updating /\ updating' = FALSE
  /\ \/ setLoading(FALSE) /\ UNCHANGED disturbances
     \/ Disturb /\ UNCHANGED overlay
  /\ UNCHANGED <<network, storeVars, accounts, dialogVars, transfers>>

-----------------------------------------------------------------------------
(* Transfers *)

(* stage: "wallet" (doSend), "receipt" (getTxReceipt), "status"            *)
(* (getTxStatus), "polling" (waitUntilProcessed), "asking" (a getEvents of *)
(* its own is under way), "waiting" (in waitingForConfirmation), "shown"   *)
(* (for two seconds), "over" (then nothing of it is read any more).        *)
Over == [stage |-> "over", to |-> NoToken, token |-> NoToken, about |-> {}, mined |-> "no"]
At(i, stage) == i \in DOMAIN transfers /\ transfers[i].stage = stage
To(i, stage) == transfers' = [transfers EXCEPT ![i].stage = stage]
End(i) == transfers' = [transfers EXCEPT ![i] = Over]
UnchangedStores == UNCHANGED <<network, storeVars, accountVars, dialogVars>>

(* getDepositFee, getWithdrawFee: the bridge of this moment is asked, for an*)
(* amount in the decimals of the token's contract; without that contract   *)
(* the call is rejected.                                                   *)
FeeQuery == IF store["home"].token = NoToken THEN {} ELSE {store["home"].bridge}

(* onTransfer.  The page stays as it is until the answer comes, the button *)
(* may be pressed again.                                                   *)
OnTransfer ==
  /\ ~overlay /\ dialog = NoDialog
  /\ Len(transfers) + Len(feeCalls) < MaxTransfers
  /\ \E bridge \in FeeQuery : feeCalls' = Append(feeCalls, bridge)
  /\ UNCHANGED <<network, storeVars, overlay, accountVars, dialog, transfers, disturbances>>

Answered(i) == feeCalls' = SubSeq(feeCalls, 1, i - 1) \o SubSeq(feeCalls, i + 1, Len(feeCalls))

(* The dialog shows the fee, and the symbols of this moment, and opens     *)
(* whatever has begun since.                                               *)
FeeAnswered(i) ==
  /\ Answered(i)
  /\ dialog' = {feeCalls[i], store["home"].token, store["home"].details, store["foreign"].details}
                 \ {NoToken}
  /\ UNCHANGED <<network, storeVars, overlay, accountVars, transfers, disturbances>>

(* The amount does not pay the fee, or the call fails: no dialog.          *)
NoConfirmation(i) ==
  /\ Answered(i)
  /\ UNCHANGED <<network, storeVars, overlay, accountVars, dialog, transfers, disturbances>>

(* onCancel, or onTransferConfirmation with an amount that a check refuses.*)
CloseDialog ==
  /\ dialog # NoDialog /\ dialog' = NoDialog
  /\ UNCHANGED <<network, storeVars, overlay, accountVars, feeCalls, transfers, disturbances>>

(* All that is sent is taken from the store at this moment.  Which of the  *)
(* four forms of transfer it is, and so whether coins are sent along,      *)
(* follows from the symbol.                                                *)
Sent(s) ==
  transfers' = Append(transfers,
    [stage |-> "wallet", to |-> s.bridge, token |-> s.token,
     about |-> (dialog \cup {s.details}) \ {NoToken}, mined |-> "no"])

SendToHome == network = "home" /\ Sent(store["home"])

(* Without the contract the error is logged, under the overlay.            *)
SendToForeign ==
  /\ network = "foreign"
  /\ IF store["foreign"].token # NoToken THEN Sent(store["foreign"]) ELSE UNCHANGED transfers

(* onTransferConfirmation *)
Confirm ==
  /\ dialog # NoDialog /\ dialog' = NoDialog
  /\ Hurried(overlay)
  /\ setLoading(TRUE)
  /\ Len(transfers) < MaxTransfers
  /\ SendToHome \/ SendToForeign
  /\ UNCHANGED <<network, storeVars, accountVars, feeCalls>>

(* The gas cannot be estimated: pushError, and the overlay stays.          *)
EstimateFails(i) ==
  /\ At(i, "wallet") /\ End(i) /\ UnchangedStores /\ UNCHANGED <<overlay, disturbances>>

RejectedByUser(i) ==
  /\ At(i, "wallet") /\ End(i) /\ setLoading(FALSE) /\ UnchangedStores /\ UNCHANGED disturbances

TransactionHash(i) ==
  /\ At(i, "wallet") /\ To(i, "receipt")
  /\ UnchangedStores /\ UNCHANGED <<overlay, disturbances>>

(* The "error" event of a transaction that was sent (reverted, or the      *)
(* wallet lost its node) clears the overlay; the polling goes on.          *)
ErrorAfterHash(i) ==
  /\ transfers[i].stage \notin {"wallet", "over"}
  /\ setLoading(FALSE) /\ Disturb /\ UnchangedStores /\ UNCHANGED transfers

GetTxReceipt(i) ==
  /\ At(i, "receipt") /\ transfers[i].mined # "no" /\ To(i, "status")
  /\ UnchangedStores /\ UNCHANGED <<overlay, disturbances>>

(* Called again and again until there are eight confirmations.             *)
GetTxStatus(i) ==
  /\ At(i, "status")
  /\ \/ transfers[i].mined = "failed" /\ End(i) /\ setLoading(FALSE)
     \/ /\ transfers[i].mined # "failed" /\ UNCHANGED overlay
        /\ To(i, IF WithoutEvents[otherSide] THEN "polling" ELSE "asking")
  /\ UnchangedStores /\ UNCHANGED disturbances

(* The bridge that is asked is the one the store holds now.                *)
ProcessedThere(i) == transfers[i].mined = "processed" /\ store[otherSide].bridge = transfers[i].to

(* Mutant of WaitUntilProcessed: it asks once, and not again after 5 s.    *)
WaitUntilProcessedOnce(i) ==
  /\ At(i, "polling")
  /\ IF ProcessedThere(i) THEN To(i, "shown") ELSE End(i)
  /\ UnchangedStores /\ UNCHANGED <<overlay, disturbances>>

WaitUntilProcessed(i) ==
  /\ At(i, "polling") /\ ProcessedThere(i)
  /\ To(i, "shown")
  /\ UnchangedStores /\ UNCHANGED <<overlay, disturbances>>

(* A call that fails, or a bridge that is not there yet, rejects the       *)
(* promise, which nobody catches.                                          *)
WaitFails(i) ==
  /\ At(i, "polling") /\ End(i) /\ Disturb
  /\ UnchangedStores /\ UNCHANGED overlay

(* getEvents, called once by addWaitingForConfirmation, looks for the      *)
(* events of every transaction that waits.                                 *)
GetEvents(i) ==
  /\ At(i, "asking")
  /\ LET found == {j \in DOMAIN transfers : transfers[j].stage \in {"asking", "waiting"}
                                              /\ ProcessedThere(j)}
     IN  transfers' = [j \in DOMAIN transfers |->
           IF j \in found THEN [transfers[j] EXCEPT !.stage = "shown"]
           ELSE IF j = i THEN [transfers[j] EXCEPT !.stage = "waiting"] ELSE transfers[j]]
  /\ UnchangedStores /\ UNCHANGED <<overlay, disturbances>>

(* Two seconds later: setLoading(false) and pushSuccess.                   *)
Completed(i) ==
  /\ At(i, "shown") /\ End(i) /\ setLoading(FALSE)
  /\ UnchangedStores /\ UNCHANGED disturbances

-----------------------------------------------------------------------------
(* The chains: a transaction is mined; the validators process it on the    *)
(* other side when the token it moved is the one of the bridge it is for.  *)
TransactionMined(i) ==
  /\ i \in DOMAIN transfers /\ transfers[i].mined = "no" /\ transfers[i].stage \notin {"wallet", "over"}
  /\ \E result \in {"ok", "failed"} : transfers' = [transfers EXCEPT ![i].mined = result]
  /\ UnchangedStores /\ UNCHANGED <<overlay, disturbances>>

TransferProcessed(i) ==
  /\ i \in DOMAIN transfers /\ transfers[i].mined = "ok" /\ transfers[i].to = transfers[i].token
  /\ transfers' = [transfers EXCEPT ![i].mined = "processed"]
  /\ UnchangedStores /\ UNCHANGED <<overlay, disturbances>>

-----------------------------------------------------------------------------
LoadNext == \E l \in loads : Loaded(l) \/ LoadFails(l)
SwitchNext == (\E t \in Tokens : SwitchToken(t)) \/ (\E n \in switching : SetNewToken(n))
ChainNext == \E i \in DOMAIN transfers : TransactionMined(i) \/ TransferProcessed(i)
WalletNext ==
  \E i \in DOMAIN transfers :
    EstimateFails(i) \/ RejectedByUser(i) \/ TransactionHash(i) \/ ErrorAfterHash(i)
PollNext(i) ==
  GetTxReceipt(i) \/ GetTxStatus(i) \/ WaitUntilProcessed(i) \/ GetEvents(i) \/ Completed(i)

TransferUINext ==
  \/ LoadNext \/ SwitchNext \/ ChainNext \/ WalletNext
  \/ AccountChanged \/ AccountUpdated
  \/ OnTransfer \/ CloseDialog \/ Confirm
  \/ \E i \in DOMAIN feeCalls : FeeAnswered(i) \/ NoConfirmation(i)
  \/ \E i \in DOMAIN transfers : PollNext(i) \/ WaitFails(i)

(* The page keeps its timers going, a call of its nodes is answered or     *)
(* fails, the chain mines what it has been sent, the validators process it.*)
TransferUIFairness ==
  /\ WF_uiVars(LoadNext)
  /\ \A i \in 1..MaxTransfers :
       /\ WF_uiVars(TransactionMined(i)) /\ WF_uiVars(TransferProcessed(i))
       /\ WF_uiVars(i \in DOMAIN transfers /\ PollNext(i))

TransferUISpec == TransferUIInit /\ [][TransferUINext]_uiVars /\ TransferUIFairness

-----------------------------------------------------------------------------
Active == {i \in DOMAIN transfers : transfers[i].stage # "over"}

(* While nothing fails and the user waits, one thing is under way at a     *)
(* time, although whoever finishes clears the overlay for all: no transfer,*)
(* switch of the token or update of the account runs next to another.      *)
OneAtATime ==
  undisturbed => Cardinality(Active) + Cardinality(switching) + (IF updating THEN 1 ELSE 0) <= 1

(* What is sent belongs together: the bridge it goes to, the contract of   *)
(* the token, its symbol (how it is sent), its decimals (how much) and what*)
(* the user saw when he confirmed are of one token, however the reads of   *)
(* setHome, setForeign and onTransfer are spread over time; as long as none*)
(* of them fails and the user waits.                                       *)
SentMatchesBridge ==
  undisturbed => \A i \in DOMAIN transfers :
    {transfers[i].to} \cup transfers[i].about \subseteq {transfers[i].token}

(* With ..._WITHOUT_EVENTS a transfer that the wallet has sent ends with   *)
(* the overlay down, unless something fails.                               *)
OverlayEnds ==
  \A i \in 1..MaxTransfers :
    (WithoutEvents[otherSide] /\ At(i, "receipt")) ~> (~overlay \/ ~undisturbed)
=============================================================================
