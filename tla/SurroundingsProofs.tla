-------------------------- MODULE SurroundingsProofs --------------------------
(***************************************************************************)
(* Proofs about the parts around the bridge, each for all values of its    *)
(* own constants; they share nothing but the lemmas about sums.            *)
(***************************************************************************)
EXTENDS FeeBridge, BridgedToken, Deployment, TransferUI, Monitor, RpcRequests, GasPrice, SumLemmas,
        SequenceTheorems

(***************************************************************************)
(* FeeBridge, for any validators that share fees, any fees, amounts, limits*)
(* and width of the counter.  What an executed affirmation pays adds up to *)
(* its amount (PaymentsAddUp), and payments move as much as they are worth *)
(* (CreditedAddsAll, MovedAddsNothing), so that what is left are the few   *)
(* numbers that each step writes.                                          *)
(***************************************************************************)
FeeHistory ==
  [executed : Int, announced : Int, strayed : Int, kept : Int, claimed : Int, coMinted : Int,
   base : Int]

FeeTypeOK ==
  /\ fees \in Fees
  /\ {feeReceiver, fallback} \subseteq {receiver, wallet, nobody}
  /\ balances \in [Holder -> Int]
  /\ feeHistory \in FeeHistory
  /\ thunderBridgeSupply \in 0..Width - 1

(* The counter runs from the upgrade on, before anybody may use it; the    *)
(* token is handed over by the first contract with fees, or later.         *)
SupplyCounted ==
  /\ minterBurner => kind = "WithFeeV2"
  /\ tokenOwner = "minter" => kind \in {"WithFee", "WithFeeV2"}
  /\ kind = "WithFeeV2" => thunderBridgeSupply = (outstanding - feeHistory.base) % Width

FeeInv == FeeTypeOK /\ FeesAddUp /\ NothingStuck /\ SupplyCounted

(* The holders are finitely many, and those who are paid are not the bridge.*)
LEMMA HoldersAreFinite ==
  /\ IsFiniteSet(Holder) /\ {user, wallet, receiver, nobody} \subseteq Holder \ {bridge}
  /\ bridge \in Holder
  /\ Len(FeeValidators) \in Nat \ {0} /\ DOMAIN FeeValidators = 1..Len(FeeValidators)
  /\ \A i \in DOMAIN FeeValidators : FeeValidators[i] \in Holder \ {bridge}
<1>1. FeeValidators \in Seq(Holder) /\ FeeValidators # <<>>
  BY FeeAssumption
<1>2. Len(FeeValidators) \in Nat \ {0} /\ DOMAIN FeeValidators = 1..Len(FeeValidators)
  BY <1>1, EmptySeq, LenProperties
<1>3. IsFiniteSet({FeeValidators[i] : i \in DOMAIN FeeValidators})
  <2>1. IsFiniteSet(DOMAIN FeeValidators)
    BY <1>2, IntervalsAreFinite
  <2> QED
    BY <2>1, FiniteImage
<1>4. IsFiniteSet({user, wallet, receiver, nobody, bridge})
  <2> DEFINE S1 == {} \cup {user}
             S2 == S1 \cup {wallet}
             S3 == S2 \cup {receiver}
             S4 == S3 \cup {nobody}
  <2>1. IsFiniteSet(S4 \cup {bridge})
    BY FS_EmptySet, FS_AddElement
  <2>2. S4 \cup {bridge} = {user, wallet, receiver, nobody, bridge}
    OBVIOUS
  <2> QED
    BY <2>1, <2>2
<1>5. IsFiniteSet(Holder)
  BY <1>3, <1>4, FS_Union DEF Holder
<1> QED
  BY <1>2, <1>5, BridgeIsNotPaid DEF Holder, bridge

-----------------------------------------------------------------------------
(* Payments *)

(* A finite list of payments of numbers to others than the bridge.         *)
PaymentList(payments) ==
  /\ IsFiniteSet(DOMAIN payments)
  /\ \A i \in DOMAIN payments :
       payments[i].amount \in Int /\ payments[i].to \in Holder \ {bridge}

(* What all get is what is paid, and the bridge gets nothing.              *)
LEMMA PaidAddsUp ==
  ASSUME NEW payments, PaymentList(payments)
  PROVE  /\ PaidInAll(payments) \in Int
         /\ \A h \in Holder : PaidTo(h, payments) \in Int
         /\ PaidTo(bridge, payments) = 0
         /\ SumFunctionOnSet([h \in Holder |-> PaidTo(h, payments)], Holder) = PaidInAll(payments)
<1> DEFINE D      == DOMAIN payments
           amount == AmountsOf(payments)
           to     == [i \in D |-> payments[i].to]
           Of(h)  == {i \in D : to[i] = h}
<1>1. /\ IsFiniteSet(D) /\ IsFiniteSet(Holder) /\ DOMAIN amount = D
      /\ \A i \in D : amount[i] \in Int /\ to[i] \in Holder /\ to[i] # bridge
  BY HoldersAreFinite DEF PaymentList, AmountsOf
<1>2. /\ PaidInAll(payments) = SumFunctionOnSet(amount, D)
      /\ \A h : PaidTo(h, payments) = SumFunctionOnSet(amount, Of(h))
  <2>1. \A h : {i \in DOMAIN payments : payments[i].to = h} = Of(h)
    OBVIOUS
  <2> QED
    BY <1>1, <2>1 DEF PaidInAll, PaidTo, SumOfAll
<1>3. \A h : Of(h) \subseteq D
  OBVIOUS
<1>4. Of(bridge) = {}
  BY <1>1
<1>5. SumFunctionOnSet([h \in Holder |-> SumFunctionOnSet(amount, {i \in D : to[i] = h})], Holder)
        = SumFunctionOnSet(amount, D)
  <2> HIDE DEF D, amount, to
  <2> QED
    BY <1>1, SumOfFibers
<1>6. [h \in Holder |-> PaidTo(h, payments)]
        = [h \in Holder |-> SumFunctionOnSet(amount, {i \in D : to[i] = h})]
  BY <1>2
<1> HIDE DEF D, amount, to, Of
<1>7. \A h : SumFunctionOnSet(amount, Of(h)) \in Int
  BY <1>1, <1>3, FS_Subset, SumIsInt
<1>8. SumFunctionOnSet(amount, D) \in Int
  BY <1>1, SumIsInt
<1>9. PaidTo(bridge, payments) = 0
  BY <1>2, <1>4, SumOfNone
<1>10. SumFunctionOnSet([h \in Holder |-> PaidTo(h, payments)], Holder) = PaidInAll(payments)
  BY <1>2, <1>5, <1>6
<1> QED
  BY <1>2, <1>7, <1>8, <1>9, <1>10

(* What a payment is made of.                                              *)
LEMMA PaymentParts == \A to, amount : Payment(to, amount).to = to /\ Payment(to, amount).amount = amount
BY DEF Payment

(* One payment.                                                            *)
LEMMA OnePayment ==
  ASSUME NEW h \in Holder \ {bridge}, NEW n \in Int
  PROVE  PaymentList(<<Payment(h, n)>>) /\ PaidInAll(<<Payment(h, n)>>) = n
<1> DEFINE list == <<Payment(h, n)>>
           f == AmountsOf(list)
<1>1. DOMAIN list = {1} /\ IsFiniteSet({1})
  BY FS_Singleton
<1>2. list[1].amount = n /\ list[1].to = h
  BY PaymentParts
<1> HIDE DEF list
<1>3. PaymentList(list)
  BY <1>1, <1>2 DEF PaymentList
<1>4. DOMAIN f = {1} /\ f[1] = n
  BY <1>1, <1>2 DEF AmountsOf
<1> HIDE DEF f
<1>5. SumFunctionOnSet(f, {1}) = f[1] + SumFunctionOnSet(f, {1} \ {1})
  BY <1>1, <1>4, SumTakesOut
<1>6. {1} \ {1} = {}
  OBVIOUS
<1>7. PaidInAll(list) = n
  BY <1>4, <1>5, <1>6, SumOfNone DEF PaidInAll, SumOfAll, f
<1> QED
  BY <1>3, <1>7 DEF list

(* Two payments.                                                           *)
LEMMA TwoPayments ==
  ASSUME NEW h \in Holder \ {bridge}, NEW n \in Int, NEW g \in Holder \ {bridge}, NEW m \in Int
  PROVE  /\ PaymentList(<<Payment(h, n), Payment(g, m)>>)
         /\ PaidInAll(<<Payment(h, n), Payment(g, m)>>) = n + m
<1> DEFINE list == <<Payment(h, n), Payment(g, m)>>
           f == AmountsOf(list)
<1>1. DOMAIN list = {1, 2} /\ IsFiniteSet({1, 2}) /\ IsFiniteSet({2})
  <2>1. IsFiniteSet({1}) /\ IsFiniteSet({2})
    BY FS_Singleton
  <2>2. IsFiniteSet({1} \cup {2})
    BY <2>1, FS_Union
  <2>3. {1} \cup {2} = {1, 2}
    OBVIOUS
  <2> QED
    BY <2>1, <2>2, <2>3
<1>2. /\ list[1].amount = n /\ list[1].to = h
      /\ list[2].amount = m /\ list[2].to = g
  BY PaymentParts
<1> HIDE DEF list
<1>3. PaymentList(list)
  BY <1>1, <1>2 DEF PaymentList
<1>4. DOMAIN f = {1, 2} /\ f[1] = n /\ f[2] = m
  BY <1>1, <1>2 DEF AmountsOf
<1> HIDE DEF f
<1>5. SumFunctionOnSet(f, {1, 2}) = f[1] + SumFunctionOnSet(f, {1, 2} \ {1})
  BY <1>1, <1>4, SumTakesOut
<1>6. SumFunctionOnSet(f, {2}) = f[2] + SumFunctionOnSet(f, {2} \ {2})
  BY <1>1, <1>4, SumTakesOut
<1>7. {1, 2} \ {1} = {2} /\ {2} \ {2} = {}
  OBVIOUS
<1>8. PaidInAll(list) = n + m
  BY <1>4, <1>5, <1>6, <1>7, SumOfNone DEF PaidInAll, SumOfAll, f
<1> QED
  BY <1>3, <1>8 DEF list

(* The fees are numbers, none larger than what it is a percentage of.      *)
LEMMA FeesAreNumbers ==
  ASSUME fees \in Fees, NEW value \in Nat
  PROVE  /\ withdrawFee(value) \in Nat /\ depositFee(value) \in Nat
         /\ subtractFee(value) \in Int
<1>0. fullPercent \in Nat \ {0}
  BY DEF fullPercent
<1>1. ASSUME NEW p \in FeePercent PROVE Percent(value, p) \in Nat
  <2>1. p \in Nat
    BY <1>0 DEF FeePercent
  <2>2. value * p \in Nat
    BY <2>1
  <2>3. (value * p) \div fullPercent >= 0
    BY <1>0, <2>2
  <2> QED
    BY <1>0, <2>2, <2>3 DEF Percent
<1>2. /\ fees.withdrawFixed \in Nat /\ fees.withdrawPercent \in FeePercent
      /\ fees.depositFixed \in Nat /\ fees.depositPercent \in FeePercent
      /\ fees.split \in FeePercent
  BY DEF Fees
<1> QED
  BY <1>1, <1>2 DEF withdrawFee, depositFee, subtractFee, LargerFee

(* The validators share the fee without a rest.                            *)
LEMMA SharesAddUp ==
  ASSUME fees \in Fees, NEW value \in Nat
  PROVE  LET n == Len(FeeValidators)
         IN  /\ \A i \in 1..n : ValidatorShare(value, i) \in Int
             /\ \A f : (\A i \in 1..n : f[i] = ValidatorShare(value, i)) =>
                  SumFunctionOnSet(f, 1..n) = value - subtractFee(value)
<1> DEFINE n == Len(FeeValidators)
           entire == value - subtractFee(value)
           particular == entire \div n
<1>1. n \in Nat \ {0} /\ entire \in Int /\ particular \in Int
  <2>1. n \in Nat \ {0} /\ entire \in Int
    BY HoldersAreFinite, FeesAreNumbers
  <2> HIDE DEF n, entire
  <2> QED
    BY <2>1, QuotientAndRemainder
<1>2. \A i \in 1..n : ValidatorShare(value, i) = IF i < n THEN particular
                                                ELSE entire - particular * (n - 1)
  BY DEF ValidatorShare
<1> HIDE DEF n, entire, particular
<1>3. particular * (n - 1) \in Int
  BY <1>1
<1>4. \A i \in 1..n : ValidatorShare(value, i) \in Int
  BY <1>1, <1>2, <1>3
<1>5. ASSUME NEW f, \A i \in 1..n : f[i] = ValidatorShare(value, i)
      PROVE  SumFunctionOnSet(f, 1..n) = entire
  <2>1. IsFiniteSet(1..n) /\ n \in 1..n /\ (1..n) \ {n} = 1..(n - 1)
    BY <1>1, IntervalButLast
  <2>0. \A i \in 1..n : f[i] \in Int
    BY <1>4, <1>5
  <2>2. IsFiniteSet(1..(n - 1)) /\ Cardinality(1..(n - 1)) = n - 1
    BY <1>1, FS_Interval
  <2>3. SumFunctionOnSet(f, 1..n) = f[n] + SumFunctionOnSet(f, 1..(n - 1))
    BY <2>0, <2>1, SumTakesOut
  <2>4. \A i \in 1..(n - 1) : f[i] = particular
    BY <1>1, <1>2, <1>5
  <2>5. SumFunctionOnSet(f, 1..(n - 1)) = particular * (n - 1)
    BY <1>1, <2>2, <2>4, SumOfEqual
  <2>6. f[n] = entire - particular * (n - 1)
    BY <1>1, <1>2, <1>5
  <2> QED
    BY <1>1, <1>3, <2>3, <2>5, <2>6
<1> QED
  BY <1>4, <1>5 DEF n, entire

(* What onExecuteAffirmation pays adds up to the amount of the affirmation.*)
LEMMA PaymentsAddUp ==
  ASSUME FeeTypeOK, NEW r \in {user, wallet}, NEW value \in Nat \ {0}
  PROVE  PaymentList(Payments(r, value)) /\ PaidInAll(Payments(r, value)) = value
<1> DEFINE fee == depositFee(value)
           n   == Len(FeeValidators)
<1>1. /\ fee \in Nat /\ feeReceiver \in Holder \ {bridge} /\ r \in Holder \ {bridge}
      /\ subtractFee(value) \in Int
  BY HoldersAreFinite, FeesAreNumbers DEF FeeTypeOK
<1>2. CASE kind = "ErcToErc"
  <2> DEFINE shares == [i \in DOMAIN FeeValidators |-> Payment(FeeValidators[i], ValidatorShare(value, i))]
             rest == <<Payment(r, subtractFee(value))>>
             all == shares \o rest
  <2>1. n \in Nat \ {0} /\ DOMAIN FeeValidators = 1..n
    BY HoldersAreFinite
  <2>2. /\ shares \in Seq([to : Holder, amount : Int]) /\ Len(shares) = n
        /\ rest \in Seq([to : Holder, amount : Int]) /\ Len(rest) = 1
    BY <1>1, <2>1, HoldersAreFinite, SharesAddUp DEF Payment, FeeTypeOK
  <2>3. /\ DOMAIN all = 1..(n + 1)
        /\ \A i \in 1..n : all[i] = Payment(FeeValidators[i], ValidatorShare(value, i))
        /\ all[n + 1] = Payment(r, subtractFee(value))
    BY <2>1, <2>2, ConcatProperties
  <2>4. all = Payments(r, value)
    BY <1>2 DEF Payments
  <2> HIDE DEF all, shares, rest
  <2>5. PaymentList(all)
    <3>0. /\ \A i \in 1..n : FeeValidators[i] \in Holder \ {bridge}
          /\ IsFiniteSet(1..(n + 1))
      BY <2>1, HoldersAreFinite, IntervalsAreFinite
    <3>1. \A i \in 1..n : ValidatorShare(value, i) \in Int
      BY SharesAddUp DEF FeeTypeOK
    <3>2. ASSUME NEW i \in 1..(n + 1)
          PROVE  all[i].amount \in Int /\ all[i].to \in Holder \ {bridge}
      <4>1. CASE i \in 1..n
        BY <2>3, <3>0, <3>1, <4>1, PaymentParts
      <4>2. CASE i = n + 1
        BY <1>1, <2>3, <4>2, PaymentParts
      <4> QED
        BY <2>1, <4>1, <4>2
    <3> QED
      BY <2>3, <3>0, <3>2 DEF PaymentList
  <2>6. PaidInAll(all) = value
    <3> DEFINE f == AmountsOf(all)
    <3>0. DOMAIN f = 1..(n + 1) /\ \A i \in 1..(n + 1) : f[i] = all[i].amount
      BY <2>3 DEF AmountsOf
    <3>1. /\ DOMAIN f = 1..(n + 1) /\ f[n + 1] = subtractFee(value)
          /\ \A i \in 1..n : f[i] = ValidatorShare(value, i)
      <4>1. n + 1 \in 1..(n + 1) /\ \A i \in 1..n : i \in 1..(n + 1)
        BY <2>1
      <4> HIDE DEF f
      <4> QED
        BY <2>3, <3>0, <4>1, PaymentParts
    <3> HIDE DEF f
    <3>2. SumFunctionOnSet(f, 1..n) = value - subtractFee(value)
      BY <3>1, SharesAddUp DEF FeeTypeOK
    <3>3. \A i \in 1..(n + 1) : f[i] \in Int
      <4>1. \A i \in 1..(n + 1) : i \in 1..n \/ i = n + 1
        BY <2>1
      <4> QED
        BY <1>1, <3>1, <4>1, SharesAddUp DEF FeeTypeOK
    <3>4. IsFiniteSet(1..(n + 1)) /\ n + 1 \in 1..(n + 1) /\ (1..(n + 1)) \ {n + 1} = 1..n
      BY <2>1, IntervalButLast
    <3>5. SumFunctionOnSet(f, 1..(n + 1)) = f[n + 1] + SumFunctionOnSet(f, 1..n)
      BY <3>3, <3>4, SumTakesOut
    <3> QED
      BY <1>1, <3>1, <3>2, <3>5 DEF PaidInAll, SumOfAll, f
  <2> QED
    BY <2>4, <2>5, <2>6
<1>3. CASE kind # "ErcToErc" /\ value <= fee
  <2>1. Payments(r, value) = <<Payment(feeReceiver, value)>>
    BY <1>3 DEF Payments
  <2>2. value \in Int
    OBVIOUS
  <2> QED
    BY <1>1, <2>1, <2>2, OnePayment
<1>4. CASE kind # "ErcToErc" /\ ~(value <= fee) /\ fee = 0
  <2>1. Payments(r, value) = <<>> \o <<Payment(r, value)>>
    BY <1>4 DEF Payments
  <2>2. Payments(r, value) = <<Payment(r, value)>>
    BY <2>1
  <2>3. value \in Int
    OBVIOUS
  <2> QED
    BY <1>1, <2>2, <2>3, OnePayment
<1>5. CASE kind # "ErcToErc" /\ ~(value <= fee) /\ fee # 0
  <2>1. Payments(r, value) = <<Payment(feeReceiver, fee)>> \o <<Payment(r, value - fee)>>
    BY <1>5 DEF Payments
  <2>2. Payments(r, value) = <<Payment(feeReceiver, fee), Payment(r, value - fee)>>
    <3>1. ASSUME NEW p, NEW q PROVE <<p>> \o <<q>> = <<p, q>>
      <4>1. /\ <<p>> \in Seq({p, q}) /\ <<q>> \in Seq({p, q}) /\ <<p, q>> \in Seq({p, q})
            /\ Len(<<p>>) = 1 /\ Len(<<q>>) = 1 /\ Len(<<p, q>>) = 2
        OBVIOUS
      <4> DEFINE both == <<p>> \o <<q>>
      <4>2. both \in Seq({p, q}) /\ Len(both) = 2 /\ both[1] = p /\ both[2] = q
        BY <4>1, ConcatProperties
      <4> HIDE DEF both
      <4>3. \A i \in 1..2 : both[i] = <<p, q>>[i]
        BY <4>2
      <4>4. both = <<p, q>>
        BY <4>1, <4>2, <4>3, SeqEqual
      <4> QED
        BY <4>4 DEF both
    <3> QED
      BY <2>1, <3>1
  <2>3. value - fee \in Int /\ fee + (value - fee) = value
    BY <1>1
  <2> HIDE DEF fee
  <2> QED
    BY <1>1, <2>2, <2>3, TwoPayments
<1> QED
  BY <1>2, <1>3, <1>4, <1>5

(* Payments that are made of nothing add what they are worth to the total; *)
(* payments of the bridge add nothing.                                     *)
LEMMA PaymentsMove ==
  ASSUME balances \in [Holder -> Int], NEW payments, PaymentList(payments)
  PROVE  LET credited == Credited(payments)
             moved    == MovedFrom(bridge, payments)
         IN  /\ credited \in [Holder -> Int] /\ moved \in [Holder -> Int]
             /\ SumOfAll(credited) = SumOfAll(balances) + PaidInAll(payments)
             /\ SumOfAll(moved) = SumOfAll(balances)
             /\ credited[bridge] = balances[bridge]
             /\ moved[bridge] = balances[bridge] - PaidInAll(payments)
<1> DEFINE credited == Credited(payments)
           moved == MovedFrom(bridge, payments)
           got == [h \in Holder |-> PaidTo(h, payments)]
           left == [balances EXCEPT ![bridge] = @ - PaidInAll(payments)]
<1>1. /\ IsFiniteSet(Holder) /\ bridge \in Holder
      /\ PaidInAll(payments) \in Int
      /\ \A h \in Holder : PaidTo(h, payments) \in Int
      /\ PaidTo(bridge, payments) = 0
      /\ SumFunctionOnSet(got, Holder) = PaidInAll(payments)
  BY HoldersAreFinite, PaidAddsUp
<1>2. /\ credited \in [Holder -> Int] /\ moved \in [Holder -> Int]
      /\ left \in [Holder -> Int] /\ got \in [Holder -> Int]
      /\ credited[bridge] = balances[bridge]
      /\ moved[bridge] = balances[bridge] - PaidInAll(payments)
      /\ \A h \in Holder : credited[h] = balances[h] + got[h] /\ moved[h] = left[h] + got[h]
  BY <1>1 DEF Credited, MovedFrom
<1>3. /\ \A h \in Holder \ {bridge} : left[h] = balances[h]
      /\ left[bridge] = balances[bridge] - PaidInAll(payments)
  BY <1>1
<1>4. /\ DOMAIN credited = Holder /\ DOMAIN moved = Holder /\ DOMAIN balances = Holder
      /\ \A h \in Holder : balances[h] \in Int /\ left[h] \in Int /\ got[h] \in Int
  BY <1>2
<1> HIDE DEF credited, moved, got, left
<1>5. SumFunctionOnSet(credited, Holder) = SumFunctionOnSet(balances, Holder) + SumFunctionOnSet(got, Holder)
  BY <1>1, <1>2, <1>4, SumOfSums
<1>6. SumFunctionOnSet(moved, Holder) = SumFunctionOnSet(left, Holder) + SumFunctionOnSet(got, Holder)
  BY <1>1, <1>2, <1>4, SumOfSums
<1>7. SumFunctionOnSet(left, Holder)
        = SumFunctionOnSet(balances, Holder) - balances[bridge] + left[bridge]
  BY <1>1, <1>3, <1>4, SumUpdates
<1>8. SumFunctionOnSet(balances, Holder) \in Int /\ balances[bridge] \in Int
  BY <1>1, <1>4, SumIsInt
<1> QED
  BY <1>1, <1>2, <1>3, <1>4, <1>5, <1>6, <1>7, <1>8 DEF SumOfAll, credited, moved

-----------------------------------------------------------------------------
(* The invariant of the fees *)

(* The numbers of the history.                                             *)
LEMMA HistoryIsNumbers ==
  ASSUME FeeTypeOK
  PROVE  /\ feeHistory.executed \in Int /\ feeHistory.announced \in Int /\ feeHistory.strayed \in Int
         /\ feeHistory.kept \in Int /\ feeHistory.claimed \in Int /\ feeHistory.coMinted \in Int
         /\ feeHistory.base \in Int /\ outstanding \in Int
BY DEF FeeTypeOK, FeeHistory, outstanding

(* The sum of all balances is a number.                                    *)
LEMMA SumOfBalances == FeeTypeOK => SumOfAll(balances) \in Int
BY HoldersAreFinite, SumIsInt DEF FeeTypeOK, SumOfAll

(* One balance that changes changes the sum by as much.                    *)
With(b, h, n) == [b EXCEPT ![h] = n]

LEMMA BalanceChanges ==
  ASSUME NEW b \in [Holder -> Int], NEW h \in Holder, NEW n \in Int
  PROVE  /\ With(b, h, n) \in [Holder -> Int]
         /\ With(b, h, n)[h] = n /\ \A g \in Holder \ {h} : With(b, h, n)[g] = b[g]
         /\ SumOfAll(With(b, h, n)) = SumOfAll(b) - b[h] + n
         /\ SumOfAll(b) \in Int
<1> DEFINE c == With(b, h, n)
<1>1. c \in [Holder -> Int] /\ c[h] = n /\ \A g \in Holder \ {h} : c[g] = b[g]
  BY DEF With
<1>2. DOMAIN b = Holder /\ DOMAIN c = Holder /\ \A g \in Holder : b[g] \in Int /\ c[g] \in Int
  BY <1>1
<1> HIDE DEF c
<1>3. SumFunctionOnSet(c, Holder) = SumFunctionOnSet(b, Holder) - b[h] + c[h]
  <2>1. IsFiniteSet(Holder)
    BY HoldersAreFinite
  <2> QED
    BY <1>1, <1>2, <2>1, SumUpdates
<1>4. SumFunctionOnSet(b, Holder) \in Int
  BY <1>2, HoldersAreFinite, SumIsInt
<1> QED
  BY <1>1, <1>2, <1>3, <1>4 DEF SumOfAll, c

(* The counter of MinterBurnerProxy follows the bridge.                    *)
LEMMA SupplyFollows ==
  ASSUME FeeTypeOK, SupplyCounted, UNCHANGED setupVars, NEW n \in Int,
         outstanding' = outstanding + n, feeHistory'.base = feeHistory.base,
         kind = "WithFeeV2" => thunderBridgeSupply' = (thunderBridgeSupply + n) % Width,
         kind # "WithFeeV2" => thunderBridgeSupply' = thunderBridgeSupply
  PROVE  SupplyCounted' /\ thunderBridgeSupply' \in 0..Width - 1
<1> DEFINE x == outstanding - feeHistory.base
<1>1. Width \in Nat \ {0} /\ x \in Int /\ thunderBridgeSupply \in 0..Width - 1
  BY HistoryIsNumbers, MinterAssumption DEF FeeTypeOK
<1>2. UNCHANGED <<kind, minterBurner, tokenOwner>>
  BY DEF setupVars
<1>3. (outstanding - feeHistory.base)' = x + n
  BY HistoryIsNumbers
<1> HIDE DEF x
<1>4. CASE kind = "WithFeeV2"
  <2>1. thunderBridgeSupply = x % Width
    BY <1>4 DEF SupplyCounted, x
  <2>2. thunderBridgeSupply' = (x + n) % Width
    BY <1>1, <1>4, <2>1, RemainderOfSum
  <2>3. x + n \in Int
    BY <1>1
  <2>4. thunderBridgeSupply' \in 0..Width - 1
    BY <1>1, <2>2, <2>3, QuotientAndRemainder
  <2> QED
    BY <1>2, <1>3, <1>4, <2>2, <2>4 DEF SupplyCounted
<1>5. CASE kind # "WithFeeV2"
  BY <1>1, <1>2, <1>5 DEF SupplyCounted
<1> QED
  BY <1>4, <1>5

(* The invariant holds at first.                                           *)
LEMMA FeeInvInit == FeeBridgeInit => FeeInv
<1> SUFFICES ASSUME FeeBridgeInit PROVE FeeInv
  OBVIOUS
<1>1. /\ fees \in Fees /\ {feeReceiver, fallback} \subseteq {receiver, wallet, nobody}
      /\ balances = [h \in Holder |-> IF h = bridge /\ kind \notin MintingKinds THEN Pool ELSE 0]
      /\ feeHistory = [executed |-> 0, announced |-> 0, strayed |-> 0, kept |-> 0,
                       claimed |-> 0, coMinted |-> 0, base |-> 0]
      /\ thunderBridgeSupply = 0
  BY FeeAssumption DEF FeeBridgeInit, MinterInit
<1>2. Width \in Nat \ {0} /\ Pool \in Nat /\ bridge \in Holder /\ IsFiniteSet(Holder)
  BY MinterAssumption, FeeAssumption, HoldersAreFinite
<1>3. FeeTypeOK
  BY <1>1, <1>2 DEF FeeTypeOK, FeeHistory
<1>4. FeesAddUp
  <2> DEFINE nothing == [h \in Holder |-> 0]
             funds == IF kind \notin MintingKinds THEN Pool ELSE 0
  <2>1. nothing \in [Holder -> Int] /\ funds \in Int
    BY <1>2
  <2>2. balances = [nothing EXCEPT ![bridge] = funds]
    BY <1>1, <1>2
  <2>3. SumOfAll(nothing) = 0
    <3>1. DOMAIN nothing = Holder /\ \A h \in Holder : nothing[h] = 0
      OBVIOUS
    <3> HIDE DEF nothing
    <3> QED
      BY <1>2, <3>1, SumIsZero DEF SumOfAll
  <2>4. nothing[bridge] = 0
    BY <1>2
  <2> HIDE DEF nothing, funds
  <2>5. SumOfAll(With(nothing, bridge, funds)) = SumOfAll(nothing) - nothing[bridge] + funds
    BY <1>2, <2>1, BalanceChanges
  <2>6. SumOfAll(balances) = funds
    BY <2>1, <2>2, <2>3, <2>4, <2>5 DEF With
  <2> QED
    BY <1>1, <2>6 DEF FeesAddUp, outstanding, funds
<1>5. NothingStuck
  BY <1>1, <1>2 DEF NothingStuck, outstanding
<1>6. SupplyCounted
  <2>1. 0 % Width = 0
    BY <1>2
  <2>2. outstanding - feeHistory.base = 0
    BY <1>1 DEF outstanding
  <2>3. minterBurner => kind = "WithFeeV2"
    BY DEF FeeBridgeInit
  <2>4. tokenOwner = "minter" => minterBurner
    BY DEF FeeBridgeInit
  <2> QED
    BY <1>1, <2>1, <2>2, <2>3, <2>4 DEF SupplyCounted
<1> QED
  BY <1>3, <1>4, <1>5, <1>6 DEF FeeInv

(* A step that moves no money.                                             *)
LEMMA FeeFrame ==
  ASSUME FeeInv, UNCHANGED <<balances, feeHistory, kind, thunderBridgeSupply>>,
         minterBurner' => kind = "WithFeeV2", tokenOwner' = "minter" => kind \in {"WithFee", "WithFeeV2"},
         fees' \in Fees, {feeReceiver', fallback'} \subseteq {receiver, wallet, nobody}
  PROVE  FeeInv'
<1>1. SumOfAll(balances)' = SumOfAll(balances)
  BY DEF SumOfAll
<1>2. FeesAddUp' /\ NothingStuck'
  BY <1>1 DEF FeeInv, FeesAddUp, NothingStuck, outstanding
<1>3. SupplyCounted'
  BY DEF FeeInv, SupplyCounted, outstanding
<1> QED
  BY <1>2, <1>3 DEF FeeInv, FeeTypeOK

(* A step that moves numbers so that both sides of the books move as one.  *)
LEMMA BooksMove ==
  ASSUME FeeInv, kind' \in MintingKinds <=> kind \in MintingKinds, feeHistory' \in FeeHistory, balances' \in [Holder -> Int],
         NEW all \in Int, NEW own \in Int,
         SumOfAll(balances') = SumOfAll(balances) + all,
         balances'[bridge] = balances[bridge] + own,
         kind \in MintingKinds =>
           /\ all = (outstanding' - outstanding) + (feeHistory'.coMinted - feeHistory.coMinted)
           /\ own + (feeHistory'.claimed - feeHistory.claimed)
                = (feeHistory'.strayed - feeHistory.strayed) + (feeHistory'.kept - feeHistory.kept),
         kind \notin MintingKinds =>
           /\ all = 0
           /\ own + (feeHistory'.claimed - feeHistory.claimed)
                = (feeHistory'.strayed - feeHistory.strayed) + (feeHistory'.kept - feeHistory.kept)
                    - (outstanding' - outstanding)
  PROVE  FeesAddUp' /\ NothingStuck'
<1>1. /\ SumOfAll(balances) \in Int /\ balances[bridge] \in Int /\ Pool \in Int
      /\ outstanding \in Int /\ feeHistory.coMinted \in Int /\ feeHistory.strayed \in Int
      /\ feeHistory.kept \in Int /\ feeHistory.claimed \in Int
  <2>1. FeeTypeOK
    BY DEF FeeInv
  <2>2. Pool \in Nat /\ bridge \in Holder
    BY FeeAssumption, HoldersAreFinite
  <2>3. balances[bridge] \in Int
    BY <2>1, <2>2 DEF FeeTypeOK
  <2> QED
    BY <2>1, <2>2, <2>3, HistoryIsNumbers, SumOfBalances
<1>2. /\ feeHistory'.executed \in Int /\ feeHistory'.announced \in Int
      /\ feeHistory'.coMinted \in Int /\ feeHistory'.strayed \in Int
      /\ feeHistory'.kept \in Int /\ feeHistory'.claimed \in Int
  BY DEF FeeHistory
<1>3. outstanding' \in Int
  BY <1>2 DEF outstanding
<1>4. SumOfAll(balances)' = SumOfAll(balances')
  BY DEF SumOfAll
<1>5. CASE kind \in MintingKinds
  <2>1. /\ SumOfAll(balances) = outstanding + feeHistory.coMinted
        /\ balances[bridge] + feeHistory.claimed = feeHistory.strayed + feeHistory.kept
    BY <1>1, <1>5 DEF FeeInv, FeesAddUp, NothingStuck
  <2>2. SumOfAll(balances') = outstanding' + feeHistory'.coMinted
    <3>1. all = (outstanding' - outstanding) + (feeHistory'.coMinted - feeHistory.coMinted)
      BY <1>5
    <3> QED
      BY <1>1, <1>2, <1>3, <2>1, <3>1
  <2>5. balances'[bridge] + feeHistory'.claimed = feeHistory'.strayed + feeHistory'.kept
    <3>1. own + (feeHistory'.claimed - feeHistory.claimed)
            = (feeHistory'.strayed - feeHistory.strayed) + (feeHistory'.kept - feeHistory.kept)
      BY <1>5
    <3>2. balances'[bridge] = balances[bridge] + own
      OBVIOUS
    <3>3. balances[bridge] = feeHistory.strayed + feeHistory.kept - feeHistory.claimed
      BY <1>1, <2>1
    <3>4. own = (feeHistory'.strayed - feeHistory.strayed) + (feeHistory'.kept - feeHistory.kept)
                  - (feeHistory'.claimed - feeHistory.claimed)
      BY <1>1, <1>2, <3>1
    <3> QED
      BY <1>1, <1>2, <3>2, <3>3, <3>4
  <2>3. feeHistory'.strayed + feeHistory'.kept = feeHistory'.strayed + feeHistory'.kept + 0
    BY <1>2
  <2>4. kind' \in MintingKinds
    BY <1>5
  <2> QED
    BY <1>4, <2>2, <2>3, <2>4, <2>5 DEF FeesAddUp, NothingStuck, MintingKinds
<1>6. CASE kind \notin MintingKinds
  <2>1. /\ SumOfAll(balances) = Pool
        /\ balances[bridge] + feeHistory.claimed
             = feeHistory.strayed + feeHistory.kept + (Pool - outstanding)
    BY <1>1, <1>6 DEF FeeInv, FeesAddUp, NothingStuck
  <2>2. SumOfAll(balances') = Pool
    BY <1>1, <1>6, <2>1
  <2>3. balances'[bridge] + feeHistory'.claimed
          = feeHistory'.strayed + feeHistory'.kept + (Pool - outstanding')
    <3>1. own + (feeHistory'.claimed - feeHistory.claimed)
            = (feeHistory'.strayed - feeHistory.strayed) + (feeHistory'.kept - feeHistory.kept)
                - (outstanding' - outstanding)
      BY <1>6
    <3>2. balances'[bridge] = balances[bridge] + own
      OBVIOUS
    <3>3. balances[bridge] = feeHistory.strayed + feeHistory.kept + (Pool - outstanding) - feeHistory.claimed
      BY <1>1, <2>1
    <3>4. own = (feeHistory'.strayed - feeHistory.strayed) + (feeHistory'.kept - feeHistory.kept)
                  - (outstanding' - outstanding) - (feeHistory'.claimed - feeHistory.claimed)
      BY <1>1, <1>2, <1>3, <3>1
    <3> QED
      BY <1>1, <1>2, <1>3, <3>2, <3>3, <3>4
  <2>4. ~(kind' \in MintingKinds)
    BY <1>6
  <2> QED
    BY <1>4, <2>2, <2>3, <2>4 DEF FeesAddUp, NothingStuck, MintingKinds
<1> QED
  BY <1>5, <1>6

(* A deposit pays what it is of.                                           *)
LEMMA DepositKeepsFeeInv ==
  ASSUME FeeInv, NEW r \in {user, wallet}, NEW n \in Amounts, OnExecuteAffirmationOf(r, n)
  PROVE  FeeInv'
<1> DEFINE list == Payments(r, n)
<1>0. n \in Nat \ {0} /\ FeeTypeOK /\ balances \in [Holder -> Int]
  BY FeeAssumption DEF FeeInv, FeeTypeOK
<1>1. PaymentList(list) /\ PaidInAll(list) = n /\ SumOfAll(AmountsOf(list)) = n
  BY <1>0, PaymentsAddUp DEF PaidInAll
<1>2. /\ UNCHANGED <<feeVars, setupVars>>
      /\ UNCHANGED <<fees, feeReceiver, fallback, kind, minterBurner, tokenOwner>>
  BY DEF OnExecuteAffirmationOf, feeVars, setupVars
<1>3. /\ feeHistory \in FeeHistory /\ outstanding \in Int /\ SumOfAll(balances) \in Int
      /\ balances[bridge] \in Int /\ Pool \in Int /\ feeHistory.coMinted \in Int
      /\ feeHistory.strayed \in Int /\ feeHistory.kept \in Int /\ feeHistory.claimed \in Int
  BY <1>0, HistoryIsNumbers, SumOfBalances, HoldersAreFinite, FeeAssumption DEF FeeTypeOK
<1> HIDE DEF list
<1>4. ASSUME Executed(n)
      PROVE  /\ feeHistory' \in FeeHistory /\ outstanding' = outstanding + n
             /\ feeHistory'.base = feeHistory.base
             /\ feeHistory'.coMinted = feeHistory.coMinted /\ feeHistory'.strayed = feeHistory.strayed
             /\ feeHistory'.kept = feeHistory.kept /\ feeHistory'.claimed = feeHistory.claimed
  BY <1>0, <1>3, <1>4 DEF Executed, FeeHistory, outstanding
<1>5. CASE kind \in MintingKinds /\ MintDeposit(list) /\ Executed(n)
  <2>1. /\ balances' \in [Holder -> Int] /\ SumOfAll(balances') = SumOfAll(balances) + n
        /\ balances'[bridge] = balances[bridge]
    BY <1>0, <1>1, <1>5, PaymentsMove DEF MintDeposit
  <2>2. SupplyCounted' /\ thunderBridgeSupply' \in 0..Width - 1
    <3>1. /\ kind = "WithFeeV2" => thunderBridgeSupply' = (thunderBridgeSupply + n) % Width
          /\ kind # "WithFeeV2" => thunderBridgeSupply' = thunderBridgeSupply
      BY <1>1, <1>5 DEF MintDeposit, MintAll, bridge, minterVars
    <3> QED
      BY <1>0, <1>2, <1>4, <1>5, <3>1, SupplyFollows DEF FeeInv
  <2>3. FeesAddUp' /\ NothingStuck'
    <3>1. n \in Int /\ 0 \in Int /\ balances'[bridge] = balances[bridge] + 0
      BY <1>0, <1>3, <2>1
    <3>2. /\ n = (outstanding' - outstanding) + (feeHistory'.coMinted - feeHistory.coMinted)
          /\ 0 + (feeHistory'.claimed - feeHistory.claimed)
               = (feeHistory'.strayed - feeHistory.strayed) + (feeHistory'.kept - feeHistory.kept)
      BY <1>0, <1>3, <1>4, <1>5
    <3> QED
      BY <1>2, <1>4, <1>5, <2>1, <3>1, <3>2, BooksMove
  <2> QED
    BY <1>2, <1>4, <1>5, <2>1, <2>2, <2>3 DEF FeeInv, FeeTypeOK
<1>6. CASE kind \notin MintingKinds /\ TransferDeposit(list) /\ Executed(n)
  <2>1. /\ balances' \in [Holder -> Int] /\ SumOfAll(balances') = SumOfAll(balances)
        /\ balances'[bridge] = balances[bridge] - n
    BY <1>0, <1>1, <1>6, PaymentsMove DEF TransferDeposit
  <2>2. thunderBridgeSupply' = thunderBridgeSupply /\ SupplyCounted'
    BY <1>2, <1>6 DEF FeeInv, TransferDeposit, minterVars, SupplyCounted, MintingKinds
  <2>3. FeesAddUp' /\ NothingStuck'
    <3>1. 0 \in Int /\ -n \in Int /\ SumOfAll(balances') = SumOfAll(balances) + 0
          /\ balances'[bridge] = balances[bridge] + (-n)
      BY <1>0, <1>3, <2>1
    <3>2. -n + (feeHistory'.claimed - feeHistory.claimed)
            = (feeHistory'.strayed - feeHistory.strayed) + (feeHistory'.kept - feeHistory.kept)
                - (outstanding' - outstanding)
      BY <1>0, <1>3, <1>4, <1>6
    <3> QED
      BY <1>2, <1>4, <1>6, <2>1, <3>1, <3>2, BooksMove
  <2> QED
    BY <1>2, <1>4, <1>6, <2>1, <2>2, <2>3 DEF FeeInv, FeeTypeOK
<1>7. CASE kind = "Native" /\ SendDeposit(r, n)
  <2>1. PICK fee \in Int, given \in Int, taker \in Holder \ {bridge} :
          /\ balances' = MovedFrom(bridge, <<Payment(feeReceiver, given), Payment(taker, n - fee)>>)
          /\ feeHistory' = [feeHistory EXCEPT !.executed = @ + n, !.kept = @ + fee - given]
    <3> DEFINE fee == IF n <= depositFee(n) THEN n ELSE depositFee(n)
               given == IF feeReceiver # wallet /\ fee <= balances[bridge] THEN fee ELSE 0
               taker == IF r = wallet THEN fallback ELSE r
    <3>0. depositFee(n) \in Nat /\ {fallback, user, wallet} \subseteq Holder \ {bridge}
      BY <1>0, FeesAreNumbers, HoldersAreFinite DEF FeeTypeOK
    <3>1. fee \in Int /\ taker \in Holder \ {bridge}
      BY <1>0, <3>0
    <3>2. given \in Int
      BY <3>1
    <3>3. /\ balances' = MovedFrom(bridge, <<Payment(feeReceiver, given), Payment(taker, n - fee)>>)
          /\ feeHistory' = [feeHistory EXCEPT !.executed = @ + n, !.kept = @ + fee - given]
      BY <1>7 DEF SendDeposit
    <3> HIDE DEF fee, given, taker
    <3> QED
      BY <3>1, <3>2, <3>3
  <2> DEFINE two == <<Payment(feeReceiver, given), Payment(taker, n - fee)>>
  <2>2. PaymentList(two) /\ PaidInAll(two) = given + (n - fee)
    <3>1. n - fee \in Int /\ feeReceiver \in Holder \ {bridge}
      BY <1>0, HoldersAreFinite DEF FeeTypeOK
    <3> QED
      BY <3>1, TwoPayments
  <2> HIDE DEF two
  <2>3. /\ balances' \in [Holder -> Int] /\ SumOfAll(balances') = SumOfAll(balances)
        /\ balances'[bridge] = balances[bridge] - (given + (n - fee))
    BY <1>0, <2>1, <2>2, PaymentsMove DEF two
  <2>4. /\ feeHistory' \in FeeHistory /\ outstanding' = outstanding + n
        /\ feeHistory'.kept = feeHistory.kept + fee - given
        /\ feeHistory'.strayed = feeHistory.strayed /\ feeHistory'.claimed = feeHistory.claimed
    <3>1. feeHistory.executed \in Int /\ feeHistory.announced \in Int
      BY <1>0, HistoryIsNumbers
    <3>2. feeHistory.executed + n \in Int /\ feeHistory.kept + fee - given \in Int
      BY <1>0, <1>3, <3>1
    <3>3. /\ feeHistory'.executed = feeHistory.executed + n
          /\ feeHistory'.announced = feeHistory.announced
          /\ feeHistory'.kept = feeHistory.kept + fee - given
      BY <1>3, <2>1 DEF FeeHistory
    <3>4. feeHistory' \in FeeHistory
      BY <1>3, <2>1, <3>2 DEF FeeHistory
    <3>5. /\ feeHistory'.strayed = feeHistory.strayed /\ feeHistory'.claimed = feeHistory.claimed
          /\ feeHistory'.coMinted = feeHistory.coMinted
      BY <1>3, <2>1 DEF FeeHistory
    <3>6. outstanding' = outstanding + n
      BY <1>0, <3>1, <3>3 DEF outstanding
    <3> QED
      BY <3>3, <3>4, <3>5, <3>6
  <2>5. thunderBridgeSupply' = thunderBridgeSupply /\ SupplyCounted'
    BY <1>2, <1>7 DEF FeeInv, SendDeposit, minterVars, SupplyCounted
  <2>6. FeesAddUp' /\ NothingStuck'
    <3>1. 0 \in Int /\ -(given + (n - fee)) \in Int /\ SumOfAll(balances') = SumOfAll(balances) + 0
          /\ balances'[bridge] = balances[bridge] + (-(given + (n - fee)))
      BY <1>0, <1>3, <2>1, <2>3
    <3>2. -(given + (n - fee)) + (feeHistory'.claimed - feeHistory.claimed)
            = (feeHistory'.strayed - feeHistory.strayed) + (feeHistory'.kept - feeHistory.kept)
                - (outstanding' - outstanding)
      BY <1>0, <1>3, <2>1, <2>4
    <3>3. kind \notin MintingKinds
      BY <1>7 DEF MintingKinds
    <3> QED
      BY <1>2, <2>3, <2>4, <3>1, <3>2, <3>3, BooksMove
  <2> QED
    BY <1>2, <2>3, <2>4, <2>5, <2>6 DEF FeeInv, FeeTypeOK
<1> QED
  BY <1>5, <1>6, <1>7 DEF OnExecuteAffirmationOf, MintingKinds, list

(* A transfer to the bridge pays the fee and burns or keeps the rest, or   *)
(* strays.                                                                 *)
LEMMA TransferKeepsFeeInv ==
  ASSUME FeeInv, NEW h \in {user, wallet}, NEW n \in Amounts, TransferToBridge(h, n)
  PROVE  FeeInv'
<1>0. /\ n \in Nat \ {0} /\ FeeTypeOK /\ balances \in [Holder -> Int] /\ feeHistory \in FeeHistory
      /\ h \in Holder \ {bridge} /\ feeReceiver \in Holder \ {bridge} /\ bridge \in Holder
  BY FeeAssumption, HoldersAreFinite DEF FeeInv, FeeTypeOK
<1>1. UNCHANGED setupVars /\ UNCHANGED <<fees, feeReceiver, fallback, kind, minterBurner, tokenOwner>>
  BY DEF TransferToBridge, feeVars, setupVars
<1>2. /\ outstanding \in Int /\ SumOfAll(balances) \in Int /\ thunderBridgeSupply \in Int
      /\ feeHistory.executed \in Int /\ feeHistory.announced \in Int /\ feeHistory.strayed \in Int
      /\ balances[bridge] \in Int /\ balances[h] \in Int /\ balances[h] - n \in Int
  BY <1>0, HistoryIsNumbers, SumOfBalances, MinterAssumption DEF FeeTypeOK
<1> DEFINE b1 == With(balances, h, balances[h] - n)
<1>3. /\ b1 \in [Holder -> Int] /\ SumOfAll(b1) = SumOfAll(balances) - n /\ SumOfAll(b1) \in Int
      /\ b1[bridge] = balances[bridge]
  <2>1. /\ b1 \in [Holder -> Int] /\ b1[bridge] = balances[bridge]
        /\ SumOfAll(b1) = SumOfAll(balances) - balances[h] + (balances[h] - n)
    BY <1>0, <1>2, BalanceChanges
  <2> QED
    BY <1>0, <1>2, <2>1
<1>4. CASE CallsBridge /\ OnTransferToBridge(h, n)
  <2> DEFINE fee == IF kind = "ErcToErc" THEN 0 ELSE withdrawFee(n)
             net == n - fee
             back == IF kind \in MintingKinds THEN 0 ELSE net
             b2 == With(b1, feeReceiver, b1[feeReceiver] + fee)
             b3 == With(b2, bridge, b2[bridge] + back)
  <2>1. /\ balances' = [b1 EXCEPT ![feeReceiver] = @ + fee, ![bridge] = @ + back]
        /\ feeHistory' = [feeHistory EXCEPT !.announced = @ + net]
        /\ kind = "WithFeeV2" => Burn(bridge, net)
        /\ kind # "WithFeeV2" => UNCHANGED minterVars
    BY <1>4 DEF OnTransferToBridge, With
  <2>3. fee \in Int /\ net \in Int /\ net = n - fee
    <3>1. withdrawFee(n) \in Nat
      BY <1>0, FeesAreNumbers DEF FeeTypeOK
    <3> QED
      BY <1>0, <3>1
  <2>4. back \in Int
    BY <2>3
  <2> HIDE DEF fee, net, back
  <2>2. balances' = b3
    BY <1>0, <2>1 DEF With
  <2> HIDE DEF b1
  <2>5. /\ b2 \in [Holder -> Int] /\ b2[bridge] = b1[bridge]
        /\ SumOfAll(b2) = SumOfAll(b1) + fee /\ SumOfAll(b2) \in Int
    <3>1. b1[feeReceiver] \in Int /\ b1[feeReceiver] + fee \in Int
      BY <1>0, <1>3, <2>3
    <3>2. /\ b2 \in [Holder -> Int] /\ b2[bridge] = b1[bridge]
          /\ SumOfAll(b2) = SumOfAll(b1) - b1[feeReceiver] + (b1[feeReceiver] + fee)
      BY <1>0, <1>3, <3>1, BalanceChanges
    <3> QED
      BY <1>3, <2>3, <3>1, <3>2
  <2> HIDE DEF b2
  <2>6. /\ b3 \in [Holder -> Int] /\ b3[bridge] = b2[bridge] + back
        /\ SumOfAll(b3) = SumOfAll(b2) + back
    <3>1. /\ b2[bridge] \in Int /\ b2[bridge] + back \in Int
          /\ b2 \in [Holder -> Int] /\ bridge \in Holder
      BY <1>0, <2>4, <2>5
    <3>2. /\ b3 \in [Holder -> Int] /\ b3[bridge] = b2[bridge] + back
          /\ SumOfAll(b3) = SumOfAll(b2) - b2[bridge] + (b2[bridge] + back)
      BY <3>1, BalanceChanges
    <3> QED
      BY <2>4, <2>5, <3>1, <3>2
  <2> HIDE DEF b3
  <2>7. /\ balances' \in [Holder -> Int] /\ fee + back - n \in Int
        /\ SumOfAll(balances') = SumOfAll(balances) + (fee + back - n)
        /\ balances'[bridge] = balances[bridge] + back
    BY <1>0, <1>2, <1>3, <2>2, <2>3, <2>4, <2>5, <2>6
  <2>8. /\ feeHistory' \in FeeHistory /\ outstanding' = outstanding + (-net)
        /\ feeHistory'.base = feeHistory.base
        /\ feeHistory'.coMinted = feeHistory.coMinted /\ feeHistory'.strayed = feeHistory.strayed
        /\ feeHistory'.kept = feeHistory.kept /\ feeHistory'.claimed = feeHistory.claimed
    <3>1. feeHistory.announced + net \in Int
      BY <1>2, <2>3
    <3>2. /\ feeHistory' \in FeeHistory /\ feeHistory'.base = feeHistory.base
          /\ feeHistory'.coMinted = feeHistory.coMinted /\ feeHistory'.strayed = feeHistory.strayed
          /\ feeHistory'.kept = feeHistory.kept /\ feeHistory'.claimed = feeHistory.claimed
          /\ feeHistory'.executed = feeHistory.executed
          /\ feeHistory'.announced = feeHistory.announced + net
      BY <1>0, <2>1, <3>1 DEF FeeHistory
    <3> QED
      BY <1>2, <2>3, <3>2 DEF outstanding
  <2>9. SupplyCounted' /\ thunderBridgeSupply' \in 0..Width - 1
    <3>1. -net \in Int /\ thunderBridgeSupply - net = thunderBridgeSupply + (-net)
      BY <1>2, <2>3
    <3>2. kind = "WithFeeV2" => thunderBridgeSupply' = (thunderBridgeSupply + (-net)) % Width
      BY <2>1, <3>1 DEF Burn, bridge
    <3>3. kind # "WithFeeV2" => thunderBridgeSupply' = thunderBridgeSupply
      BY <2>1 DEF minterVars
    <3> QED
      BY <1>0, <1>1, <2>8, <3>1, <3>2, <3>3, SupplyFollows DEF FeeInv
  <2>10. FeesAddUp' /\ NothingStuck'
    <3>1. CASE kind \in MintingKinds
      <4>1. back = 0
        BY <3>1 DEF back
      <4>2. /\ fee + back - n = (outstanding' - outstanding) + (feeHistory'.coMinted - feeHistory.coMinted)
            /\ back + (feeHistory'.claimed - feeHistory.claimed)
                 = (feeHistory'.strayed - feeHistory.strayed) + (feeHistory'.kept - feeHistory.kept)
        BY <1>0, <1>2, <2>3, <2>8, <4>1, HistoryIsNumbers
      <4> QED
        BY <1>1, <2>4, <2>7, <2>8, <3>1, <4>2, BooksMove
    <3>2. CASE kind \notin MintingKinds
      <4>1. back = net
        BY <3>2 DEF back
      <4>2. /\ fee + back - n = 0
            /\ back + (feeHistory'.claimed - feeHistory.claimed)
                 = (feeHistory'.strayed - feeHistory.strayed) + (feeHistory'.kept - feeHistory.kept)
                     - (outstanding' - outstanding)
        BY <1>0, <1>2, <2>3, <2>8, <4>1, HistoryIsNumbers
      <4> QED
        BY <1>1, <2>4, <2>7, <2>8, <3>2, <4>2, BooksMove
    <3> QED
      BY <3>1, <3>2
  <2> QED
    BY <1>0, <1>1, <2>7, <2>8, <2>9, <2>10 DEF FeeInv, FeeTypeOK
<1>5. CASE ~CallsBridge
  <2> DEFINE b2 == With(b1, bridge, b1[bridge] + n)
  <2>1. /\ balances' = [balances EXCEPT ![h] = @ - n, ![bridge] = @ + n]
        /\ feeHistory' = [feeHistory EXCEPT !.strayed = @ + n]
        /\ UNCHANGED minterVars /\ thunderBridgeSupply' = thunderBridgeSupply
    BY <1>5 DEF TransferToBridge, minterVars
  <2>2. balances' = b2
    BY <1>0, <1>3, <2>1 DEF With
  <2> HIDE DEF b1
  <2>3. /\ b2 \in [Holder -> Int] /\ b2[bridge] = balances[bridge] + n
        /\ SumOfAll(b2) = SumOfAll(balances) + 0
    <3>1. b1[bridge] \in Int /\ b1[bridge] + n \in Int
      BY <1>0, <1>3
    <3>2. /\ b2 \in [Holder -> Int] /\ b2[bridge] = b1[bridge] + n
          /\ SumOfAll(b2) = SumOfAll(b1) - b1[bridge] + (b1[bridge] + n)
      BY <1>0, <1>3, <3>1, BalanceChanges
    <3> QED
      BY <1>0, <1>2, <1>3, <3>1, <3>2
  <2> HIDE DEF b2
  <2>4. /\ feeHistory' \in FeeHistory /\ outstanding' = outstanding
        /\ feeHistory'.base = feeHistory.base /\ feeHistory'.coMinted = feeHistory.coMinted
        /\ feeHistory'.strayed = feeHistory.strayed + n
        /\ feeHistory'.kept = feeHistory.kept /\ feeHistory'.claimed = feeHistory.claimed
    <3>1. feeHistory.strayed + n \in Int
      BY <1>0, <1>2
    <3> QED
      BY <1>0, <2>1, <3>1 DEF FeeHistory, outstanding
  <2>5. SupplyCounted'
    BY <1>1, <2>1, <2>4 DEF FeeInv, SupplyCounted
  <2>6. FeesAddUp' /\ NothingStuck'
    <3>1. /\ 0 = (outstanding' - outstanding) + (feeHistory'.coMinted - feeHistory.coMinted)
          /\ n + (feeHistory'.claimed - feeHistory.claimed)
               = (feeHistory'.strayed - feeHistory.strayed) + (feeHistory'.kept - feeHistory.kept)
          /\ n + (feeHistory'.claimed - feeHistory.claimed)
               = (feeHistory'.strayed - feeHistory.strayed) + (feeHistory'.kept - feeHistory.kept)
                   - (outstanding' - outstanding)
      BY <1>0, <1>2, <2>4, HistoryIsNumbers
    <3>2. 0 \in Int /\ n \in Int
      BY <1>0
    <3> QED
      BY <1>1, <2>2, <2>3, <2>4, <3>1, <3>2, BooksMove
  <2> QED
    BY <1>0, <1>1, <2>1, <2>2, <2>3, <2>4, <2>5, <2>6 DEF FeeInv, FeeTypeOK
<1> QED
  BY <1>4, <1>5 DEF TransferToBridge

(* The upgrades, and the handing over of the token.                        *)
LEMMA MigrationKeepsFeeInv == FeeInv /\ MigrationNext => FeeInv'
<1> SUFFICES ASSUME FeeInv, MigrationNext PROVE FeeInv'
  OBVIOUS
<1>1. /\ FeeTypeOK /\ SupplyCounted /\ feeHistory \in FeeHistory /\ balances \in [Holder -> Int]
      /\ fees \in Fees /\ {feeReceiver, fallback} \subseteq {receiver, wallet, nobody}
  BY DEF FeeInv, FeeTypeOK
<1>2. UNCHANGED <<fees, feeReceiver, fallback, thunderBridgeSupply>>
  BY DEF MigrationNext, feeVars, minterVars
<1>3. ASSUME NEW k \in Kinds, UpgradeHome(k) PROVE FeeInv'
  <2>1. /\ kind \in {"ErcToErc", "WithFee"} /\ kind' \in {"WithFee", "WithFeeV2"} /\ kind' = k
        /\ UNCHANGED <<balances, minterBurner, tokenOwner>>
    BY <1>3 DEF UpgradeHome
  <2>2. /\ outstanding \in Int /\ feeHistory.base \in Int /\ thunderBridgeSupply \in 0..Width - 1
        /\ SumOfAll(balances) \in Int /\ balances[bridge] \in Int /\ Width \in Nat \ {0}
    BY <1>1, HistoryIsNumbers, SumOfBalances, HoldersAreFinite, MinterAssumption DEF FeeTypeOK
  <2>3. /\ feeHistory' \in FeeHistory /\ outstanding' = outstanding
        /\ feeHistory'.coMinted = feeHistory.coMinted /\ feeHistory'.strayed = feeHistory.strayed
        /\ feeHistory'.kept = feeHistory.kept /\ feeHistory'.claimed = feeHistory.claimed
        /\ k = "WithFeeV2" => feeHistory'.base = outstanding - thunderBridgeSupply
    <3>1. outstanding - thunderBridgeSupply \in Int
      BY <2>2
    <3>2. CASE k = "WithFeeV2"
      <4>1. feeHistory' = [feeHistory EXCEPT !.base = outstanding - thunderBridgeSupply]
        BY <1>3, <3>2 DEF UpgradeHome
      <4> QED
        BY <1>1, <3>1, <4>1 DEF FeeHistory, outstanding
    <3>3. CASE k # "WithFeeV2"
      BY <1>1, <1>3, <3>3 DEF UpgradeHome, outstanding
    <3> QED
      BY <3>2, <3>3
  <2>4. FeesAddUp' /\ NothingStuck'
    <3>1. /\ 0 = (outstanding' - outstanding) + (feeHistory'.coMinted - feeHistory.coMinted)
          /\ 0 + (feeHistory'.claimed - feeHistory.claimed)
               = (feeHistory'.strayed - feeHistory.strayed) + (feeHistory'.kept - feeHistory.kept)
      BY <1>1, <2>2, <2>3, HistoryIsNumbers
    <3>2. /\ 0 \in Int /\ balances' \in [Holder -> Int]
          /\ SumOfAll(balances') = SumOfAll(balances) + 0 /\ balances'[bridge] = balances[bridge] + 0
      BY <1>1, <2>1, <2>2
    <3>3. kind \in MintingKinds /\ kind' \in MintingKinds
      BY <2>1 DEF MintingKinds
    <3> QED
      BY <2>3, <3>1, <3>2, <3>3, BooksMove
  <2>5. SupplyCounted'
    <3>1. CASE k = "WithFeeV2"
      <4>1. outstanding' - feeHistory'.base = thunderBridgeSupply
        BY <2>2, <2>3, <3>1
      <4>2. thunderBridgeSupply % Width = thunderBridgeSupply
        BY <2>2
      <4> QED
        BY <1>1, <1>2, <2>1, <3>1, <4>1, <4>2 DEF SupplyCounted
    <3>2. CASE k # "WithFeeV2"
      BY <1>1, <2>1, <3>2 DEF SupplyCounted
    <3> QED
      BY <3>1, <3>2
  <2> QED
    BY <1>1, <1>2, <2>1, <2>3, <2>4, <2>5 DEF FeeInv, FeeTypeOK
<1>4. CASE (HandTokenToMinter \/ SetMinterBurner \/ UpgradeToken) /\ UNCHANGED moneyVars
  BY <1>1, <1>2, <1>4, FeeFrame
     DEF HandTokenToMinter, SetMinterBurner, UpgradeToken, moneyVars, SupplyCounted
<1> QED
  BY <1>3, <1>4 DEF MigrationNext

(* What the owner sets, takes out, and counts anew.                        *)
LEMMA OwnerKeepsFeeInv == FeeInv /\ FeeOwnerNext => FeeInv'
<1> SUFFICES ASSUME FeeInv, FeeOwnerNext PROVE FeeInv'
  OBVIOUS
<1>1. /\ FeeTypeOK /\ SupplyCounted /\ feeHistory \in FeeHistory /\ balances \in [Holder -> Int]
      /\ fees \in Fees /\ {feeReceiver, fallback} \subseteq {receiver, wallet, nobody}
  BY DEF FeeInv, FeeTypeOK
<1>2. /\ outstanding \in Int /\ SumOfAll(balances) \in Int /\ balances[bridge] \in Int
      /\ receiver \in Holder \ {bridge} /\ bridge \in Holder /\ balances[receiver] \in Int
      /\ feeHistory.claimed \in Int
  BY <1>1, HistoryIsNumbers, SumOfBalances, HoldersAreFinite
<1>3. CASE (SetFees \/ SetReceivers) /\ UNCHANGED <<setupVars, moneyVars, minterVars>>
  <2>1. fees' \in Fees
    <3>1. FixedFees \subseteq Nat /\ FeePercents \subseteq FeePercent
      BY FeeAssumption
    <3> QED
      BY <1>1, <1>3, <3>1 DEF SetFees, SetReceivers, Fees
  <2>2. {feeReceiver', fallback'} \subseteq {receiver, wallet, nobody}
    BY <1>1, <1>3 DEF SetFees, SetReceivers
  <2> QED
    BY <1>1, <1>3, <2>1, <2>2, FeeFrame DEF setupVars, moneyVars, minterVars, SupplyCounted
<1>4. CASE ClaimTokens /\ UNCHANGED <<feeVars, setupVars, minterVars>>
  <2> DEFINE b1 == With(balances, bridge, 0)
             b2 == With(b1, receiver, b1[receiver] + balances[bridge])
  <2>1. /\ balances' = [balances EXCEPT ![bridge] = 0, ![receiver] = @ + balances[bridge]]
        /\ feeHistory' = [feeHistory EXCEPT !.claimed = @ + balances[bridge]]
        /\ UNCHANGED <<fees, feeReceiver, fallback, kind, minterBurner, tokenOwner, thunderBridgeSupply>>
    BY <1>4 DEF ClaimTokens, feeVars, setupVars, minterVars
  <2>2. balances' = b2
    BY <1>1, <1>2, <2>1 DEF With
  <2>3. /\ b1 \in [Holder -> Int] /\ SumOfAll(b1) = SumOfAll(balances) - balances[bridge] + 0
        /\ b1[bridge] = 0 /\ b1[receiver] = balances[receiver] /\ SumOfAll(b1) \in Int
    <3>1. /\ b1 \in [Holder -> Int] /\ SumOfAll(b1) = SumOfAll(balances) - balances[bridge] + 0
          /\ b1[bridge] = 0 /\ b1[receiver] = balances[receiver]
      BY <1>1, <1>2, BalanceChanges
    <3> QED
      BY <1>2, <3>1
  <2> HIDE DEF b1
  <2>4. /\ b2 \in [Holder -> Int] /\ b2[bridge] = b1[bridge]
        /\ SumOfAll(b2) = SumOfAll(b1) - b1[receiver] + (b1[receiver] + balances[bridge])
    <3>1. b1[receiver] + balances[bridge] \in Int /\ b1 \in [Holder -> Int]
      BY <1>2, <2>3
    <3> QED
      BY <1>2, <3>1, BalanceChanges
  <2> HIDE DEF b2
  <2>5. /\ balances' \in [Holder -> Int] /\ 0 \in Int /\ -balances[bridge] \in Int
        /\ SumOfAll(balances') = SumOfAll(balances) + 0
        /\ balances'[bridge] = balances[bridge] + (-balances[bridge])
    BY <1>2, <2>2, <2>3, <2>4
  <2>6. /\ feeHistory' \in FeeHistory /\ outstanding' = outstanding
        /\ feeHistory'.base = feeHistory.base /\ feeHistory'.coMinted = feeHistory.coMinted
        /\ feeHistory'.strayed = feeHistory.strayed /\ feeHistory'.kept = feeHistory.kept
        /\ feeHistory'.claimed = feeHistory.claimed + balances[bridge]
    <3>1. feeHistory.claimed + balances[bridge] \in Int
      BY <1>2
    <3> QED
      BY <1>1, <2>1, <3>1 DEF FeeHistory, outstanding
  <2>7. FeesAddUp' /\ NothingStuck'
    <3>1. /\ 0 = (outstanding' - outstanding) + (feeHistory'.coMinted - feeHistory.coMinted)
          /\ -balances[bridge] + (feeHistory'.claimed - feeHistory.claimed)
               = (feeHistory'.strayed - feeHistory.strayed) + (feeHistory'.kept - feeHistory.kept)
          /\ -balances[bridge] + (feeHistory'.claimed - feeHistory.claimed)
               = (feeHistory'.strayed - feeHistory.strayed) + (feeHistory'.kept - feeHistory.kept)
                   - (outstanding' - outstanding)
      BY <1>1, <1>2, <2>6, HistoryIsNumbers
    <3> QED
      BY <2>1, <2>5, <2>6, <3>1, BooksMove
  <2>8. SupplyCounted'
    BY <1>1, <2>1, <2>6 DEF SupplyCounted
  <2> QED
    BY <1>1, <2>1, <2>5, <2>6, <2>7, <2>8 DEF FeeInv, FeeTypeOK
<1>5. CASE SetBridgeContract /\ UNCHANGED <<feeVars, moneyVars, minterVars>>
  BY <1>1, <1>5, FeeFrame DEF SetBridgeContract, feeVars, moneyVars, minterVars, SupplyCounted
<1>6. CASE /\ SetMinterLimit \/ \E o \in Operator : AddOperator(o) \/ RemoveOperator(o)
           /\ UNCHANGED <<feeVars, setupVars, moneyVars>>
  BY <1>1, <1>6, FeeFrame
     DEF SetMinterLimit, AddOperator, RemoveOperator, feeVars, setupVars, moneyVars, SupplyCounted
<1>7. CASE /\ SetThunderBridgeSupply(outstanding)
           /\ feeHistory' = [feeHistory EXCEPT !.base = 0]
           /\ UNCHANGED <<feeVars, setupVars, balances>>
  <2>1. /\ UNCHANGED <<fees, feeReceiver, fallback, kind, minterBurner, tokenOwner, balances>>
        /\ thunderBridgeSupply' = outstanding % Width
    BY <1>7 DEF SetThunderBridgeSupply, feeVars, setupVars
  <2>2. /\ feeHistory' \in FeeHistory /\ outstanding' = outstanding /\ feeHistory'.base = 0
        /\ feeHistory'.coMinted = feeHistory.coMinted /\ feeHistory'.strayed = feeHistory.strayed
        /\ feeHistory'.kept = feeHistory.kept /\ feeHistory'.claimed = feeHistory.claimed
    BY <1>1, <1>7 DEF FeeHistory, outstanding
  <2>3. FeesAddUp' /\ NothingStuck'
    <3>1. /\ 0 = (outstanding' - outstanding) + (feeHistory'.coMinted - feeHistory.coMinted)
          /\ 0 + (feeHistory'.claimed - feeHistory.claimed)
               = (feeHistory'.strayed - feeHistory.strayed) + (feeHistory'.kept - feeHistory.kept)
          /\ 0 + (feeHistory'.claimed - feeHistory.claimed)
               = (feeHistory'.strayed - feeHistory.strayed) + (feeHistory'.kept - feeHistory.kept)
                   - (outstanding' - outstanding)
      BY <1>1, <1>2, <2>2, HistoryIsNumbers
    <3>2. /\ 0 \in Int /\ balances' \in [Holder -> Int]
          /\ SumOfAll(balances') = SumOfAll(balances) + 0 /\ balances'[bridge] = balances[bridge] + 0
      BY <1>1, <1>2, <2>1
    <3> QED
      BY <2>1, <2>2, <3>1, <3>2, BooksMove
  <2>4. thunderBridgeSupply' \in 0..Width - 1 /\ SupplyCounted'
    <3>1. outstanding' - feeHistory'.base = outstanding
      BY <1>2, <2>2
    <3>2. outstanding % Width \in 0..Width - 1
      BY <1>2, MinterAssumption, QuotientAndRemainder
    <3> QED
      BY <1>1, <2>1, <3>1, <3>2 DEF SupplyCounted
  <2> QED
    BY <1>1, <2>1, <2>2, <2>3, <2>4 DEF FeeInv, FeeTypeOK
<1> QED
  BY <1>3, <1>4, <1>5, <1>6, <1>7 DEF FeeOwnerNext

(* The other operator mints for a user, and takes back.                    *)
LEMMA CoMinterKeepsFeeInv == FeeInv /\ CoMinterNext => FeeInv'
<1> SUFFICES ASSUME FeeInv, CoMinterNext PROVE FeeInv'
  OBVIOUS
<1>1. /\ FeeTypeOK /\ SupplyCounted /\ feeHistory \in FeeHistory /\ balances \in [Holder -> Int]
  BY DEF FeeInv, FeeTypeOK
<1>2. /\ outstanding \in Int /\ SumOfAll(balances) \in Int /\ balances[bridge] \in Int
      /\ user \in Holder \ {bridge} /\ balances[user] \in Int /\ feeHistory.coMinted \in Int
  BY <1>1, HistoryIsNumbers, SumOfBalances, HoldersAreFinite
<1>3. UNCHANGED <<fees, feeReceiver, fallback, kind, minterBurner, tokenOwner>>
  BY DEF CoMinterNext, feeVars, setupVars
<1>4. kind \in MintingKinds
  BY <1>1 DEF CoMinterNext, SupplyCounted, MintingKinds
<1>5. PICK n \in Int : /\ balances' = With(balances, user, balances[user] + n)
                      /\ feeHistory' = [feeHistory EXCEPT !.coMinted = @ + n]
                      /\ thunderBridgeSupply' = thunderBridgeSupply
  <2>0. Amounts \subseteq Nat \ {0} /\ coMinter # thunderBridge
    BY FeeAssumption
  <2>1. PICK m \in Amounts :
          \/ /\ MintAll(coMinter, <<m>>) /\ balances' = [balances EXCEPT ![user] = @ + m]
             /\ feeHistory' = [feeHistory EXCEPT !.coMinted = @ + m]
          \/ /\ Burn(coMinter, m) /\ balances' = [balances EXCEPT ![user] = @ - m]
             /\ feeHistory' = [feeHistory EXCEPT !.coMinted = @ - m]
    BY DEF CoMinterNext
  <2>2. thunderBridgeSupply' = thunderBridgeSupply
    BY <2>0, <2>1 DEF MintAll, Burn
  <2>3. m \in Int /\ -m \in Int
    BY <2>0
  <2>4. CASE balances' = [balances EXCEPT ![user] = @ + m] /\ feeHistory' = [feeHistory EXCEPT !.coMinted = @ + m]
    BY <2>2, <2>3, <2>4 DEF With
  <2>5. CASE balances' = [balances EXCEPT ![user] = @ - m] /\ feeHistory' = [feeHistory EXCEPT !.coMinted = @ - m]
    <3>1. balances[user] - m = balances[user] + (-m) /\ feeHistory.coMinted - m = feeHistory.coMinted + (-m)
      BY <1>2, <2>3
    <3> QED
      BY <2>2, <2>3, <2>5, <3>1 DEF With
  <2> QED
    BY <2>1, <2>4, <2>5
<1>6. /\ balances' \in [Holder -> Int] /\ 0 \in Int /\ SumOfAll(balances') = SumOfAll(balances) + n
      /\ balances'[bridge] = balances[bridge] + 0
  <2>1. balances[user] + n \in Int /\ bridge \in Holder
    BY <1>2, HoldersAreFinite
  <2>2. /\ balances' \in [Holder -> Int] /\ balances'[bridge] = balances[bridge]
        /\ SumOfAll(balances') = SumOfAll(balances) - balances[user] + (balances[user] + n)
    BY <1>1, <1>2, <1>5, <2>1, BalanceChanges
  <2> QED
    BY <1>2, <2>2
<1>7. /\ feeHistory' \in FeeHistory /\ outstanding' = outstanding
      /\ feeHistory'.base = feeHistory.base /\ feeHistory'.coMinted = feeHistory.coMinted + n
      /\ feeHistory'.strayed = feeHistory.strayed /\ feeHistory'.kept = feeHistory.kept
      /\ feeHistory'.claimed = feeHistory.claimed
  <2>1. feeHistory.coMinted + n \in Int
    BY <1>2
  <2> QED
    BY <1>1, <1>5, <2>1 DEF FeeHistory, outstanding
<1>8. FeesAddUp' /\ NothingStuck'
  <2>1. /\ n = (outstanding' - outstanding) + (feeHistory'.coMinted - feeHistory.coMinted)
        /\ 0 + (feeHistory'.claimed - feeHistory.claimed)
             = (feeHistory'.strayed - feeHistory.strayed) + (feeHistory'.kept - feeHistory.kept)
    BY <1>1, <1>2, <1>7, HistoryIsNumbers
  <2> QED
    BY <1>3, <1>4, <1>6, <1>7, <2>1, BooksMove
<1>9. SupplyCounted'
  BY <1>1, <1>3, <1>5, <1>7 DEF SupplyCounted
<1> QED
  BY <1>1, <1>3, <1>5, <1>6, <1>7, <1>8, <1>9 DEF FeeInv, FeeTypeOK

(* Every step keeps the invariant.                                         *)
LEMMA FeeInvStep == FeeInv /\ [FeeBridgeNext]_feeBridgeVars => FeeInv'
<1> SUFFICES ASSUME FeeInv, [FeeBridgeNext]_feeBridgeVars PROVE FeeInv'
  OBVIOUS
<1>1. CASE FeeBridgeNewDay
  BY <1>1, FeeFrame
     DEF FeeBridgeNewDay, NewMinterDay, feeVars, setupVars, moneyVars, FeeInv, FeeTypeOK, SupplyCounted
<1>2. CASE UNCHANGED feeBridgeVars
  BY <1>2, FeeFrame
     DEF feeBridgeVars, feeVars, setupVars, moneyVars, minterVars, FeeInv, FeeTypeOK, SupplyCounted
<1> QED
  BY <1>1, <1>2, DepositKeepsFeeInv, TransferKeepsFeeInv, MigrationKeepsFeeInv, OwnerKeepsFeeInv,
     CoMinterKeepsFeeInv
     DEF FeeBridgeNext

(* Whatever the fees and whoever shares them: the balances together, the   *)
(* balance of the bridge, and the counter of MinterBurnerProxy are what    *)
(* the deposits, the returns and the other operator's minting make them.   *)
THEOREM FeeInvariant == FeeBridgeSpec => []FeeInv
BY FeeInvInit, FeeInvStep, PTL DEF FeeBridgeSpec

(* No unit is made or lost by a fee, its rounding or its sharing.          *)
THEOREM FeesAlwaysAddUp == FeeBridgeSpec => []FeesAddUp
<1>1. FeeInv => FeesAddUp
  BY DEF FeeInv
<1> QED
  BY <1>1, FeeInvariant, PTL

(* The bridge keeps nothing for itself but what strayed or was not taken.  *)
THEOREM NothingEverStuck == FeeBridgeSpec => []NothingStuck
<1>1. FeeInv => NothingStuck
  BY DEF FeeInv
<1> QED
  BY <1>1, FeeInvariant, PTL

(* The counter of MinterBurnerProxy is what the bridge minted and users    *)
(* have not returned, modulo its width.                                    *)
THEOREM MinterSupplyAlwaysExact == FeeBridgeSpec => []MinterSupplyExact
<1>1. FeeInv => MinterSupplyExact
  BY DEF FeeInv, SupplyCounted, MinterSupplyExact
<1> QED
  BY <1>1, FeeInvariant, PTL

-----------------------------------------------------------------------------
(***************************************************************************)
(* Monitor, for any range of a query, any number of calls and blocks.  Of  *)
(* the queries of a range each block is in one (QueriesPartition), so that *)
(* counting adds 1 for each new block; one call runs at a time, and what   *)
(* Redis holds is what it knew, or its new counts as far as they have been *)
(* stored, the counts before the blocks.                                   *)
(***************************************************************************)
Key == Stream \cup Network
Counts == [Block -> Nat]
Position == 1..6

Stored(r) ==
  /\ DOMAIN r = Key
  /\ \A s \in Stream : r[s] \in Counts
  /\ \A n \in Network : r[n] \in 0..height[n]

CallState ==
  [at : {"idle", "reading", "heads", "counting", "storing"}, key : Nat,
   known : [Key -> Counts \cup Nat], to : [Network -> Nat]]

MonitorTypeOK ==
  /\ height \in [Network -> 0..MaxBlock]
  /\ call \in [Calls -> CallState]
  /\ wire \in Seq([call : Calls, key : Key, value : Counts \cup Nat])
  /\ Stored(redis) /\ \A c \in Calls : Stored(call[c].known)

(* One call runs at a time, and only what it sent is on its way.           *)
OneRuns ==
  /\ \A c, d \in Calls : call[c].at # "idle" /\ call[d].at # "idle" => c = d
  /\ ~locked => \A c \in Calls : call[c].at = "idle"
  /\ wire # <<>> => \E c \in Calls : call[c].at = "storing"

(* The counts of r are right: every event up to the block of r at least    *)
(* once, and once, and no other, unless a process was torn down.           *)
Right(r) ==
  \A s \in Stream : \A b \in Block :
    /\ b <= r[NetworkOf(s)] => r[s][b] >= 1 /\ (torn \/ r[s][b] = 1)
    /\ ~(b <= r[NetworkOf(s)]) => torn \/ r[s][b] = 0

(* With n values on their way the others are stored.                       *)
IsStored(i, n) == i + n <= 6

Value(c, k) ==
  IF k \in Stream THEN CountedUpTo(call[c].known, k, call[c].to) ELSE call[c].to[k]

ReadSoFar(c) ==
  /\ call[c].at = "idle" => call[c].key = 1
  /\ call[c].at = "reading" => call[c].key \in Position
  /\ call[c].at \in {"heads", "counting"} => call[c].key = 7
  /\ call[c].at \in {"reading", "heads", "counting"} =>
       \A i \in Position : i < call[c].key => call[c].known[Keys[i]] = redis[Keys[i]]

UpToHeight(c) ==
  call[c].at \in {"counting", "storing"} =>
    \A n \in Network : call[c].to[n] \in call[c].known[n]..height[n]

Storing(c) ==
  call[c].at = "storing" =>
    /\ Len(wire) <= 6 /\ Right(call[c].known)
    /\ \A i \in 1..Len(wire) :
         LET k == Keys[6 - Len(wire) + i]
         IN  wire[i].call = c /\ wire[i].key = k /\ wire[i].value = Value(c, k)
    /\ \A i \in Position :
         /\ IsStored(i, Len(wire)) => redis[Keys[i]] = Value(c, Keys[i])
         /\ ~IsStored(i, Len(wire)) => redis[Keys[i]] = call[c].known[Keys[i]]

MonitorInv ==
  /\ MonitorTypeOK /\ OneRuns
  /\ \A c \in Calls : ReadSoFar(c) /\ UpToHeight(c) /\ Storing(c)
  /\ wire = <<>> => Right(redis)

(* The keys.                                                               *)
LEMMA KeyList ==
  /\ Len(Keys) = 6 /\ DOMAIN Keys = Position /\ {Keys[i] : i \in DOMAIN Keys} = Key
  /\ \A i \in Position : Keys[i] \in Key
  /\ \A i, j \in Position : Keys[i] = Keys[j] => i = j
  /\ \A k \in Key : \E i \in Position : Keys[i] = k
  /\ \A s \in Stream : NetworkOf(s) \in Network /\ s \notin Network
<1>1. /\ Len(Keys) = 6 /\ DOMAIN Keys = 1..6
      /\ Keys[1] = "homeDeposit" /\ Keys[2] = "homeWithdrawal" /\ Keys[3] = "foreignDeposit"
      /\ Keys[4] = "foreignWithdrawal" /\ Keys[5] = "home" /\ Keys[6] = "foreign"
  BY DEF Keys
<1>2. Position = {1, 2, 3, 4, 5, 6}
  BY DEF Position
<1>3. /\ \A i \in Position : Keys[i] \in Key
      /\ \A k \in Key : \E i \in Position : Keys[i] = k
  BY <1>1, <1>2 DEF Key, Stream, Network
<1>4. \A i, j \in Position : Keys[i] = Keys[j] => i = j
  BY <1>1, <1>2
<1>5. \A s \in Stream : NetworkOf(s) \in Network /\ s \notin Network
  BY DEF Stream, Network, NetworkOf
<1> QED
  BY <1>1, <1>3, <1>4, <1>5 DEF Position

(* The smaller of two numbers.                                             *)
LEMMA SmallerOfTwo ==
  ASSUME NEW a \in Int, NEW b \in Int
  PROVE  /\ Min({a, b}) \in {a, b} /\ Min({a, b}) <= a /\ Min({a, b}) <= b
<1>1. \E x \in {a, b} : \A y \in {a, b} : x <= y
  <2>1. CASE a <= b
    BY <2>1
  <2>2. CASE ~(a <= b)
    BY <2>2
  <2> QED
    BY <2>1, <2>2
<1> QED
  BY <1>1 DEF Min

(* Each block of a range is in one query, and no other block is.           *)
LEMMA QueriesPartition ==
  ASSUME NEW from \in Nat, NEW to \in Nat, NEW b \in Nat
  PROVE  /\ b \in from..to => Cardinality({q \in Queries(from, to) : b \in q}) = 1
         /\ b \notin from..to => Cardinality({q \in Queries(from, to) : b \in q}) = 0
<1> DEFINE first(n) == IF n = 0 THEN from ELSE from + n * QueryRange + 1
           last(n) == Min({from + (n + 1) * QueryRange, to})
           Of == {q \in Queries(from, to) : b \in q}
<1>0. QueryRange \in Nat \ {0}
  BY MonitorAssumption
<1>1. ASSUME NEW n \in Nat
      PROVE  /\ n * QueryRange \in Nat /\ (n + 1) * QueryRange = n * QueryRange + QueryRange
             /\ first(n) \in Nat /\ from <= first(n) /\ last(n) \in Int
             /\ last(n) <= to /\ last(n) <= from + n * QueryRange + QueryRange
             /\ last(n) \in {from + n * QueryRange + QueryRange, to}
  <2>1. n * QueryRange \in Nat /\ (n + 1) * QueryRange = n * QueryRange + QueryRange
    BY <1>0
  <2>2. from + n * QueryRange + QueryRange \in Int
    BY <1>0, <2>1
  <2> DEFINE end == from + n * QueryRange + QueryRange
  <2>3. last(n) = Min({end, to}) /\ to \in Int
    BY <1>0, <2>1
  <2> HIDE DEF end, last
  <2>4. end \in Int
    BY <2>2 DEF end
  <2>5. last(n) \in {end, to} /\ last(n) <= end /\ last(n) <= to
    BY <2>3, <2>4, SmallerOfTwo
  <2>6. last(n) \in Int
    BY <2>3, <2>4, <2>5
  <2>7. first(n) \in Nat /\ from <= first(n)
    BY <2>1
  <2> QED
    BY <2>1, <2>5, <2>6, <2>7 DEF end
<1>2. from <= to => Queries(from, to) = {first(n)..last(n) : n \in 0..QueryOf(from, to)}
  BY DEF Queries
<1>3. ~(from <= to) => Queries(from, to) = {}
  BY DEF Queries
<1>4. ASSUME NEW x \in from..to
      PROVE  /\ QueryOf(from, x) \in Nat
             /\ x = from => QueryOf(from, x) = 0
             /\ x # from => /\ QueryOf(from, x) * QueryRange <= x - from - 1
                            /\ x - from - 1 < QueryOf(from, x) * QueryRange + QueryRange
  <2>1. CASE x = from
    BY <2>1 DEF QueryOf
  <2>2. CASE x # from
    <3> DEFINE y == x - from - 1
               z == y \div QueryRange
    <3>1. y \in Nat
      BY <2>2
    <3>2. QueryOf(from, x) = z
      BY <2>2 DEF QueryOf
    <3> HIDE DEF y
    <3>3. z \in Int /\ y = z * QueryRange + (y % QueryRange) /\ y % QueryRange \in 0..QueryRange - 1
      BY <1>0, <3>1, QuotientAndRemainder
    <3>4. z \in Nat
      BY <1>0, <3>1
    <3> HIDE DEF z
    <3>5. z * QueryRange \in Nat
      BY <1>0, <3>4
    <3>6. z * QueryRange <= y /\ y < z * QueryRange + QueryRange
      BY <1>0, <3>1, <3>3, <3>5
    <3> QED
      BY <2>2, <3>2, <3>4, <3>6 DEF y
  <2> QED
    BY <2>1, <2>2
<1>5. CASE b \in from..to
  <2> DEFINE n == QueryOf(from, b)
  <2>1. n \in Nat /\ QueryOf(from, to) \in Nat
    BY <1>4, <1>5
  <2>2. b \in first(n)..last(n)
    <3>1. n * QueryRange \in Nat /\ last(n) \in {from + n * QueryRange + QueryRange, to}
      BY <1>1, <2>1
    <3>2. CASE b = from
      <4>1. n = 0 /\ n * QueryRange = 0
        BY <1>0, <1>4, <1>5, <3>2
      <4> QED
        BY <1>0, <1>5, <3>1, <3>2, <4>1
    <3>3. CASE b # from
      <4>1. n * QueryRange <= b - from - 1 /\ b - from - 1 < n * QueryRange + QueryRange
        BY <1>4, <1>5, <3>3
      <4> HIDE DEF n
      <4>2. first(n) <= b
        BY <1>5, <3>1, <3>3, <4>1
      <4>3. b <= last(n)
        BY <1>0, <1>5, <3>1, <4>1
      <4> HIDE DEF first, last
      <4> QED
        BY <1>1, <1>5, <2>1, <4>2, <4>3
    <3> QED
      BY <3>2, <3>3
  <2>3. ASSUME NEW m \in Nat, b \in first(m)..last(m)
        PROVE  m = n
    <3>1. m * QueryRange \in Nat /\ last(m) <= from + m * QueryRange + QueryRange
          /\ last(m) \in Int /\ first(m) \in Nat
      BY <1>1
    <3>2. first(m) <= b /\ b <= from + m * QueryRange + QueryRange
      <4> HIDE DEF first, last
      <4> QED
        BY <1>0, <1>5, <2>3, <3>1
    <3>3. CASE b = from
      <4>1. m = 0
        BY <3>1, <3>2, <3>3
      <4> QED
        BY <1>4, <1>5, <3>3, <4>1
    <3>4. CASE b # from
      <4>1. m * QueryRange <= b - from - 1 /\ b - from - 1 < m * QueryRange + QueryRange
        <5>1. CASE m = 0
          <6>1. m * QueryRange = 0
            BY <1>0, <5>1
          <6> QED
            BY <1>0, <1>5, <3>2, <3>4, <5>1, <6>1
        <5>2. CASE m # 0
          BY <1>0, <1>5, <3>1, <3>2, <5>2
        <5> QED
          BY <5>1, <5>2
      <4>2. n * QueryRange <= b - from - 1 /\ b - from - 1 < n * QueryRange + QueryRange
        BY <1>4, <1>5, <3>4
      <4> HIDE DEF n
      <4>3. n * QueryRange \in Nat
        BY <1>0, <2>1
      <4>4. n * QueryRange < m * QueryRange + QueryRange /\ m * QueryRange < n * QueryRange + QueryRange
        BY <1>0, <1>5, <3>1, <4>1, <4>2, <4>3
      <4>5. n < m + 1 /\ m < n + 1
        <5>1. ASSUME NEW x \in Nat, NEW y \in Nat, x * QueryRange < y * QueryRange + QueryRange
              PROVE  x < y + 1
          <6>1. SUFFICES ASSUME x >= y + 1 PROVE FALSE
            OBVIOUS
          <6>2. PICK d \in Nat : x = y + 1 + d
            BY <6>1
          <6>3. x * QueryRange = y * QueryRange + QueryRange + d * QueryRange
            BY <1>0, <6>2
          <6>4. d * QueryRange \in Nat /\ y * QueryRange \in Nat
            BY <1>0
          <6> QED
            BY <1>0, <5>1, <6>3, <6>4
        <5> QED
          BY <2>1, <4>4, <5>1
      <4> QED
        BY <2>1, <4>5
    <3> QED
      BY <3>3, <3>4
  <2>4. n \in 0..QueryOf(from, to)
    <3>1. CASE b = from
      BY <1>4, <1>5, <2>1, <3>1
    <3>2. CASE b # from
      <4>1. to \in from..to /\ to # from
        BY <1>5, <3>2
      <4>2. /\ n * QueryRange <= b - from - 1
            /\ to - from - 1 < QueryOf(from, to) * QueryRange + QueryRange
        BY <1>4, <1>5, <3>2, <4>1
      <4> DEFINE m == QueryOf(from, to)
      <4>3. m \in Nat
        BY <2>1
      <4>4. to - from - 1 < m * QueryRange + QueryRange
        BY <4>2
      <4> HIDE DEF n, m
      <4>5. n * QueryRange \in Nat /\ m * QueryRange \in Nat
        BY <1>0, <2>1, <4>3
      <4>6. n * QueryRange < m * QueryRange + QueryRange
        BY <1>0, <1>5, <4>2, <4>4, <4>5
      <4>7. SUFFICES ASSUME n >= m + 1 PROVE FALSE
        BY <2>1, <4>3 DEF m
      <4>8. PICK d \in Nat : n = m + 1 + d
        BY <2>1, <4>3, <4>7
      <4>9. n * QueryRange = m * QueryRange + QueryRange + d * QueryRange /\ d * QueryRange \in Nat
        BY <1>0, <4>3, <4>8
      <4> QED
        BY <1>0, <4>5, <4>6, <4>9
    <3> QED
      BY <3>1, <3>2
  <2> HIDE DEF n, first, last
  <2>5. Of = {first(n)..last(n)}
    <3>1. from <= to
      BY <1>5
    <3>2. ASSUME NEW q \in Queries(from, to), b \in q PROVE q = first(n)..last(n)
      <4>1. PICK m \in 0..QueryOf(from, to) : q = first(m)..last(m)
        BY <1>2, <3>1
      <4>2. m \in Nat
        BY <2>1
      <4> QED
        BY <2>3, <3>2, <4>1, <4>2
    <3>3. first(n)..last(n) \in Queries(from, to)
      BY <1>2, <2>4, <3>1
    <3> QED
      BY <2>2, <3>2, <3>3
  <2>6. Cardinality(Of) = 1
    BY <2>5, FS_Singleton
  <2> QED
    BY <1>5, <2>6
<1>6. CASE b \notin from..to
  <2> HIDE DEF first, last
  <2>1. ASSUME NEW q \in Queries(from, to), b \in q PROVE FALSE
    <3>1. from <= to
      BY <1>3, <2>1
    <3>2. PICK n \in 0..QueryOf(from, to) : q = first(n)..last(n)
      BY <1>2, <3>1
    <3>3. to \in from..to
      BY <3>1
    <3>4. n \in Nat
      BY <1>4, <3>3
    <3>5. /\ first(n) \in Nat /\ last(n) \in Int /\ from <= first(n) /\ last(n) <= to
          /\ b \in first(n)..last(n)
      BY <1>1, <2>1, <3>2, <3>4
    <3> QED
      BY <1>6, <3>5
  <2>2. Of = {}
    BY <2>1
  <2> QED
    BY <1>6, <2>2, FS_EmptySet
<1> QED
  BY <1>5, <1>6

(* Counting adds the blocks after what is known, up to the new one, once.  *)
LEMMA CountingIsRight ==
  ASSUME NEW r, Stored(r), NEW to \in [Network -> Nat], NEW s \in Stream,
         NEW T, T = to[NetworkOf(s)], r[NetworkOf(s)] <= T
  PROVE  /\ CountedUpTo(r, s, to) \in Counts
         /\ \A b \in Block :
              /\ b <= T /\ ~(b <= r[NetworkOf(s)]) => CountedUpTo(r, s, to)[b] = r[s][b] + 1
              /\ b <= r[NetworkOf(s)] \/ ~(b <= T) => CountedUpTo(r, s, to)[b] = r[s][b]
<1> DEFINE L == r[NetworkOf(s)]
           new == CountedUpTo(r, s, to)
<1>1. /\ L \in Nat /\ T \in Nat /\ L <= T /\ L + 1 \in Nat
      /\ r[s] \in Counts /\ \A b \in Block : b \in Nat /\ b >= 1 /\ r[s][b] \in Nat
  <2>1. NetworkOf(s) \in Network
    BY KeyList
  <2>2. L \in 0..height[NetworkOf(s)] /\ r[s] \in Counts
    BY <2>1 DEF Stored
  <2>3. L \in Nat /\ T \in Nat
    BY <2>1, <2>2
  <2>4. \A b \in Block : b \in Nat /\ b >= 1 /\ r[s][b] \in Nat
    BY <2>2, MonitorAssumption DEF Block, Counts
  <2> QED
    BY <2>2, <2>3, <2>4
<1>2. new = [b \in Block |-> r[s][b] + Cardinality({q \in Queries(L + 1, T) : b \in q})]
  BY DEF CountedUpTo
<1> HIDE DEF L, new
<1>3. ASSUME NEW b \in Block
      PROVE  /\ b \in (L + 1)..T => new[b] = r[s][b] + 1
             /\ b \notin (L + 1)..T => new[b] = r[s][b]
             /\ new[b] \in Nat
  <2>1. /\ b \in (L + 1)..T => Cardinality({q \in Queries(L + 1, T) : b \in q}) = 1
        /\ b \notin (L + 1)..T => Cardinality({q \in Queries(L + 1, T) : b \in q}) = 0
    BY <1>1, QueriesPartition
  <2>2. new[b] = r[s][b] + Cardinality({q \in Queries(L + 1, T) : b \in q})
    BY <1>2
  <2> QED
    BY <1>1, <2>1, <2>2
<1>4. new \in Counts
  BY <1>2, <1>3 DEF Counts
<1>5. ASSUME NEW b \in Block
      PROVE  /\ b <= T /\ ~(b <= L) => new[b] = r[s][b] + 1
             /\ b <= L \/ ~(b <= T) => new[b] = r[s][b]
  BY <1>1, <1>3
<1> QED
  BY <1>4, <1>5 DEF L, new

(* So right counts stay right.                                             *)
LEMMA NewCountsAreRight ==
  ASSUME NEW c \in Calls, MonitorTypeOK, UpToHeight(c), call[c].at \in {"counting", "storing"},
         Right(call[c].known), NEW r, \A k \in Key : r[k] = Value(c, k)
  PROVE  /\ Right(r)
         /\ \A s \in Stream : Value(c, s) \in Counts
         /\ \A n \in Network : Value(c, n) \in 0..height[n]
<1> DEFINE known == call[c].known
           to == call[c].to
<1>1. Stored(known) /\ to \in [Network -> Nat] /\ height \in [Network -> 0..MaxBlock]
  BY DEF MonitorTypeOK, CallState
<1>2. \A n \in Network : /\ known[n] \in Nat /\ to[n] \in Nat /\ known[n] <= to[n] /\ to[n] <= height[n]
                          /\ Value(c, n) = to[n] /\ r[n] = to[n] /\ height[n] \in Nat
  <2>1. \A n \in Network : known[n] \in 0..height[n] /\ to[n] \in known[n]..height[n] /\ height[n] \in 0..MaxBlock
    BY <1>1 DEF UpToHeight, Stored
  <2>2. \A n \in Network : n \in Key /\ n \notin Stream
    BY KeyList DEF Key
  <2>3. MaxBlock \in Nat
    BY MonitorAssumption
  <2> QED
    BY <2>1, <2>2, <2>3 DEF Value
<1>3. ASSUME NEW s \in Stream
      PROVE  /\ Value(c, s) \in Counts
             /\ \A b \in Block :
                  /\ b <= r[NetworkOf(s)] => r[s][b] >= 1 /\ (torn \/ r[s][b] = 1)
                  /\ ~(b <= r[NetworkOf(s)]) => torn \/ r[s][b] = 0
  <2> DEFINE N == NetworkOf(s)
             T == to[N]
  <2>1. N \in Network /\ s \in Key
    BY KeyList DEF Key
  <2>2. r[s] = CountedUpTo(known, s, to) /\ Value(c, s) = CountedUpTo(known, s, to)
    BY <2>1 DEF Value
  <2>3. known[N] \in Nat /\ T \in Nat /\ known[N] <= T /\ r[N] = T
    BY <1>2, <2>1
  <2> HIDE DEF known, to
  <2>4. /\ CountedUpTo(known, s, to) \in Counts
        /\ \A b \in Block :
              /\ b <= T /\ ~(b <= known[N]) => CountedUpTo(known, s, to)[b] = known[s][b] + 1
              /\ b <= known[N] \/ ~(b <= T) => CountedUpTo(known, s, to)[b] = known[s][b]
    BY <1>1, <2>3, CountingIsRight
  <2>5. ASSUME NEW b \in Block
        PROVE  /\ b <= T => r[s][b] >= 1 /\ (torn \/ r[s][b] = 1)
               /\ ~(b <= T) => torn \/ r[s][b] = 0
    <3>0. b \in Nat /\ known[s][b] \in Nat
      <4>1. known[s] \in Counts
        BY <1>1 DEF Stored, known
      <4> QED
        BY <4>1, MonitorAssumption DEF Counts, Block
    <3>1. /\ b <= known[N] => known[s][b] >= 1 /\ (torn \/ known[s][b] = 1)
          /\ ~(b <= known[N]) => torn \/ known[s][b] = 0
      BY DEF Right, known
    <3>2. /\ b <= T /\ ~(b <= known[N]) => r[s][b] = known[s][b] + 1
          /\ b <= known[N] \/ ~(b <= T) => r[s][b] = known[s][b]
      BY <2>2, <2>4
    <3> HIDE DEF N, T
    <3>3. b <= known[N] => b <= T
      BY <2>3, <3>0
    <3> QED
      BY <2>3, <3>0, <3>1, <3>2, <3>3
  <2> QED
    BY <2>2, <2>3, <2>4, <2>5
<1>4. Right(r)
  BY <1>3 DEF Right
<1>5. \A n \in Network : Value(c, n) \in 0..height[n]
  BY <1>2
<1> QED
  BY <1>3, <1>4, <1>5

(* What a call that runs knows of the others and of what is on its way.    *)
LEMMA OnlyThisRuns ==
  ASSUME MonitorInv, NEW c \in Calls, call[c].at # "idle"
  PROVE  /\ \A d \in Calls \ {c} : call[d].at = "idle"
         /\ locked
         /\ call[c].at # "storing" => wire = <<>> /\ Right(redis)
BY DEF MonitorInv, OneRuns

(* Calls that are idle have nothing to show.                               *)
LEMMA IdleIsFine ==
  ASSUME NEW c \in Calls, call[c].at = "idle", call[c].key = 1
  PROVE  ReadSoFar(c) /\ UpToHeight(c) /\ Storing(c)
BY DEF ReadSoFar, UpToHeight, Storing

(* The monitor begins with nothing counted.                                *)
LEMMA MonitorInvInit == MonitorInit => MonitorInv
<1> SUFFICES ASSUME MonitorInit PROVE MonitorInv
  OBVIOUS
<1>1. MaxBlock \in Nat
  BY MonitorAssumption
<1>2. /\ Empty = [k \in Key |-> IF k \in Stream THEN NothingCounted ELSE 0]
      /\ NothingCounted \in Counts /\ \A n \in Network : n \in Key /\ n \notin Stream
  BY KeyList DEF Empty, NothingCounted, Counts, Key
<1>3. /\ height \in [Network -> 0..MaxBlock] /\ redis = Empty /\ ~locked
      /\ call = [c \in Calls |-> Idle] /\ wire = <<>>
  BY <1>1 DEF MonitorInit
<1>4. Stored(Empty)
  BY <1>2, <1>3 DEF Stored, Key, MonitorInit
<1>5. Idle \in CallState /\ Idle.at = "idle" /\ Idle.key = 1 /\ Idle.known = Empty
  BY <1>2 DEF Idle, CallState
<1>6. MonitorTypeOK
  BY <1>3, <1>4, <1>5 DEF MonitorTypeOK
<1>7. OneRuns
  BY <1>3, <1>5 DEF OneRuns
<1>8. ASSUME NEW c \in Calls PROVE ReadSoFar(c) /\ UpToHeight(c) /\ Storing(c)
  BY <1>3, <1>5, IdleIsFine
<1>9. Right(redis)
  <2>1. ASSUME NEW s \in Stream, NEW b \in Block
        PROVE  redis[s][b] = 0 /\ ~(b <= redis[NetworkOf(s)])
    <3>1. NetworkOf(s) \in Network /\ s \in Key /\ b \in Nat /\ b >= 1
      BY <1>1, KeyList DEF Key, Block
    <3> QED
      BY <1>2, <1>3, <3>1 DEF NothingCounted
  <2> QED
    BY <2>1 DEF Right
<1> QED
  BY <1>6, <1>7, <1>8, <1>9 DEF MonitorInv

(* A step of one call, with the others idle.                               *)
LEMMA StepOfOne ==
  ASSUME NEW c \in Calls, MonitorTypeOK', locked',
         \A d \in Calls \ {c} : call'[d].at = "idle" /\ call'[d].key = 1,
         wire' # <<>> => call'[c].at = "storing",
         ReadSoFar(c)', UpToHeight(c)', Storing(c)', wire' = <<>> => Right(redis)'
  PROVE  MonitorInv'
<1>1. OneRuns'
  BY DEF OneRuns
<1>2. \A d \in Calls \ {c} : ReadSoFar(d)' /\ UpToHeight(d)' /\ Storing(d)'
  BY DEF ReadSoFar, UpToHeight, Storing
<1> QED
  BY <1>1, <1>2 DEF MonitorInv

(* A call begins.                                                          *)
LEMMA CheckStatusKeeps ==
  ASSUME MonitorInv, NEW c \in Calls, CheckStatus(c)
  PROVE  MonitorInv'
<1>1. /\ \A d \in Calls : call[d].at = "idle" /\ call[d].key = 1
      /\ wire = <<>> /\ Right(redis) /\ MonitorTypeOK
  BY DEF MonitorInv, OneRuns, CheckStatus, ReadSoFar
<1>2. /\ call' = [call EXCEPT ![c].at = "reading"] /\ locked'
      /\ UNCHANGED <<height, redis, wire, kills, torn>>
  BY DEF CheckStatus
<1>3. /\ \A d \in Calls \ {c} : call'[d] = call[d]
      /\ call'[c] = [call[c] EXCEPT !.at = "reading"]
      /\ call'[c].at = "reading" /\ call'[c].key = 1 /\ call'[c].known = call[c].known
  BY <1>1, <1>2 DEF MonitorTypeOK, CallState
<1>4. MonitorTypeOK'
  <2>1. call' \in [Calls -> CallState]
    BY <1>1, <1>2 DEF MonitorTypeOK, CallState
  <2>2. \A d \in Calls : Stored(call[d].known)'
    BY <1>1, <1>2, <1>3 DEF MonitorTypeOK, Stored
  <2> QED
    BY <1>1, <1>2, <2>1, <2>2 DEF MonitorTypeOK, Stored
<1>5. ReadSoFar(c)' /\ UpToHeight(c)' /\ Storing(c)'
  BY <1>3 DEF Position, ReadSoFar, UpToHeight, Storing
<1>6. Right(redis)'
  BY <1>1, <1>2 DEF Right
<1> QED
  BY <1>1, <1>2, <1>3, <1>4, <1>5, <1>6, StepOfOne

(* A call reads one key.                                                   *)
LEMMA ReadKeyKeeps ==
  ASSUME MonitorInv, NEW c \in Calls, ReadKey(c)
  PROVE  MonitorInv'
<1> DEFINE j == call[c].key
           k == Keys[j]
<1>1. /\ \A d \in Calls \ {c} : call[d].at = "idle" /\ call[d].key = 1
      /\ wire = <<>> /\ Right(redis) /\ MonitorTypeOK /\ locked
      /\ call[c].at = "reading" /\ j \in Position /\ k \in Key
      /\ \A i \in Position : i < j => call[c].known[Keys[i]] = redis[Keys[i]]
  <2>1. call[c].at = "reading" /\ call[c].at # "idle" /\ call[c].at # "storing"
    BY DEF ReadKey
  <2>2. ReadSoFar(c) /\ MonitorTypeOK /\ \A d \in Calls : call[d].at = "idle" => call[d].key = 1
    BY DEF MonitorInv, ReadSoFar
  <2>3. j \in Position /\ \A i \in Position : i < j => call[c].known[Keys[i]] = redis[Keys[i]]
    BY <2>1, <2>2 DEF ReadSoFar
  <2>4. k \in Key
    BY <2>3, KeyList
  <2> QED
    BY <2>1, <2>2, <2>3, <2>4, OnlyThisRuns
<1>2. /\ call' = [call EXCEPT ![c].known[k] = redis[k], ![c].key = j + 1,
                    ![c].at = IF j = 6 THEN "heads" ELSE "reading"]
      /\ UNCHANGED <<height, redis, locked, wire, kills, torn>>
  BY KeyList DEF ReadKey
<1>3. /\ \A d \in Calls \ {c} : call'[d] = call[d]
      /\ call'[c].known = [call[c].known EXCEPT ![k] = redis[k]]
      /\ call'[c].key = j + 1 /\ call'[c].at = IF j = 6 THEN "heads" ELSE "reading"
      /\ call'[c].to = call[c].to
  BY <1>1, <1>2 DEF MonitorTypeOK, CallState
<1> HIDE DEF j, k
<1>4. MonitorTypeOK'
  <2>0. /\ call[c] \in CallState /\ Stored(redis) /\ Stored(call[c].known)
        /\ call[c].known \in [Key -> Counts \cup Nat]
    BY <1>1 DEF MonitorTypeOK, CallState
  <2>1. redis[k] \in Counts \cup Nat
    BY <1>1, <2>0 DEF Stored, Key
  <2>2. call' \in [Calls -> CallState]
    <3>1. j + 1 \in Nat
      BY <1>1 DEF Position
    <3> QED
      BY <1>1, <1>2, <2>0, <2>1, <3>1 DEF MonitorTypeOK, CallState
  <2>3. Stored(call[c].known)'
    <3> DEFINE q == call'[c].known
    <3>1. DOMAIN q = Key /\ \A x \in Key : q[x] = redis[x] \/ q[x] = call[c].known[x]
      BY <1>3, <2>0 DEF Stored
    <3>2. /\ \A x \in Stream : q[x] \in Counts
          /\ \A x \in Network : q[x] \in 0..height[x]
      BY <2>0, <3>1 DEF Stored, Key
    <3> QED
      BY <1>2, <3>1, <3>2 DEF Stored
  <2>4. \A d \in Calls : Stored(call[d].known)'
    BY <1>1, <1>2, <1>3, <2>3 DEF MonitorTypeOK, Stored
  <2> QED
    BY <1>1, <1>2, <2>2, <2>4 DEF MonitorTypeOK, Stored
<1>5. ReadSoFar(c)'
  <2>1. \A i \in Position : i < j + 1 => call'[c].known[Keys[i]] = redis[Keys[i]]
    <3>1. \A i \in Position : i < j + 1 => i = j \/ i < j
      BY <1>1 DEF Position
    <3>2. DOMAIN call[c].known = Key /\ k = Keys[j]
      BY <1>1 DEF MonitorTypeOK, Stored, k
    <3> QED
      BY <1>1, <1>3, <3>1, <3>2
  <2>2. j # 6 => j + 1 \in Position
    BY <1>1 DEF Position
  <2>3. j = 6 => j + 1 = 7
    OBVIOUS
  <2> QED
    BY <1>2, <1>3, <2>1, <2>2, <2>3 DEF Position, ReadSoFar
<1>6. UpToHeight(c)' /\ Storing(c)'
  BY <1>3 DEF UpToHeight, Storing
<1>7. Right(redis)'
  BY <1>1, <1>2 DEF Right
<1>8. /\ locked' /\ wire' = <<>>
      /\ \A d \in Calls \ {c} : call'[d].at = "idle" /\ call'[d].key = 1
  BY <1>1, <1>2, <1>3
<1> QED
  BY <1>4, <1>5, <1>6, <1>7, <1>8, StepOfOne

(* A call asks how far to count.                                           *)
LEMMA GetBlockNumberKeeps ==
  ASSUME MonitorInv, NEW c \in Calls, GetBlockNumber(c)
  PROVE  MonitorInv'
<1>1. /\ \A d \in Calls \ {c} : call[d].at = "idle" /\ call[d].key = 1
      /\ wire = <<>> /\ Right(redis) /\ MonitorTypeOK /\ locked
      /\ call[c].key = 7
      /\ \A i \in Position : i < 7 => call[c].known[Keys[i]] = redis[Keys[i]]
  <2>1. call[c].at = "heads" /\ call[c].at # "idle" /\ call[c].at # "storing"
    BY DEF GetBlockNumber
  <2>2. ReadSoFar(c) /\ MonitorTypeOK /\ \A d \in Calls : call[d].at = "idle" => call[d].key = 1
    BY DEF MonitorInv, ReadSoFar
  <2>3. call[c].key = 7 /\ \A i \in Position : i < 7 => call[c].known[Keys[i]] = redis[Keys[i]]
    BY <2>1, <2>2 DEF ReadSoFar
  <2> QED
    BY <2>1, <2>2, <2>3, OnlyThisRuns
<1>2. /\ call' = [call EXCEPT ![c].to = height, ![c].at = "counting"]
      /\ UNCHANGED <<height, redis, locked, wire, kills, torn>>
  BY DEF GetBlockNumber
<1>3. /\ \A d \in Calls \ {c} : call'[d] = call[d]
      /\ call'[c].known = call[c].known /\ call'[c].key = 7 /\ call'[c].at = "counting"
      /\ call'[c].to = height
  BY <1>1, <1>2 DEF MonitorTypeOK, CallState
<1>4. MonitorTypeOK'
  <2>1. height \in [Network -> Nat]
    BY <1>1 DEF MonitorTypeOK
  <2>0. call'[c] \in CallState
    <3>1. call[c] \in CallState
      BY <1>1 DEF MonitorTypeOK
    <3>2. call'[c] = [call[c] EXCEPT !.to = height, !.at = "counting"]
      BY <1>1, <1>2 DEF MonitorTypeOK
    <3> QED
      BY <2>1, <3>1, <3>2 DEF CallState
  <2>2. call' \in [Calls -> CallState]
    BY <1>1, <1>2, <1>3, <2>0 DEF MonitorTypeOK
  <2>3. \A d \in Calls : Stored(call[d].known)'
    BY <1>1, <1>2, <1>3 DEF MonitorTypeOK, Stored
  <2> QED
    BY <1>1, <1>2, <2>2, <2>3 DEF MonitorTypeOK, Stored
<1>5. \A k \in Key : call[c].known[k] = redis[k]
  <2>1. \A i \in Position : call[c].known[Keys[i]] = redis[Keys[i]]
    BY <1>1 DEF Position
  <2> QED
    BY <2>1, KeyList
<1>6. UpToHeight(c)'
  <2>1. ASSUME NEW n \in Network PROVE height[n] \in call[c].known[n]..height[n]
    <3>1. redis[n] \in 0..height[n] /\ height[n] \in Nat /\ n \in Key
      BY <1>1 DEF MonitorTypeOK, Stored, Key
    <3> QED
      BY <1>5, <3>1
  <2> QED
    BY <1>2, <1>3, <2>1 DEF UpToHeight
<1>7. ReadSoFar(c)' /\ Storing(c)'
  BY <1>1, <1>2, <1>3 DEF ReadSoFar, Storing
<1>8. Right(redis)'
  BY <1>1, <1>2 DEF Right
<1> QED
  BY <1>1, <1>2, <1>3, <1>4, <1>6, <1>7, <1>8, StepOfOne

(* A call has counted, and sends what it counted.                          *)
LEMMA ProcessEventsKeeps ==
  ASSUME MonitorInv, NEW c \in Calls, ProcessEvents(c)
  PROVE  MonitorInv'
<1> DEFINE entry(i) == [call |-> c, key |-> Keys[i], value |-> Value(c, Keys[i])]
           batch == [i \in 1..6 |-> entry(i)]
<1>1. /\ \A d \in Calls \ {c} : call[d].at = "idle" /\ call[d].key = 1
      /\ wire = <<>> /\ Right(redis) /\ MonitorTypeOK /\ locked
      /\ call[c].at = "counting" /\ UpToHeight(c)
      /\ \A k \in Key : call[c].known[k] = redis[k]
  <2>1. call[c].at = "counting" /\ call[c].at # "idle" /\ call[c].at # "storing"
    BY DEF ProcessEvents
  <2>2. /\ ReadSoFar(c) /\ MonitorTypeOK /\ UpToHeight(c)
        /\ \A d \in Calls : call[d].at = "idle" => call[d].key = 1
    BY DEF MonitorInv, ReadSoFar
  <2>3. \A i \in Position : call[c].known[Keys[i]] = redis[Keys[i]]
    BY <2>1, <2>2 DEF Position, ReadSoFar
  <2>4. \A k \in Key : call[c].known[k] = redis[k]
    BY <2>3, KeyList
  <2> QED
    BY <2>1, <2>2, <2>4, OnlyThisRuns
<1>2. /\ wire' = wire \o batch
      /\ call' = [call EXCEPT ![c].at = "storing"]
      /\ UNCHANGED <<height, redis, locked, kills, torn>>
  BY KeyList DEF ProcessEvents, Value, Position
<1>3. /\ \A d \in Calls \ {c} : call'[d] = call[d]
      /\ call'[c].known = call[c].known /\ call'[c].at = "storing" /\ call'[c].to = call[c].to
  BY <1>1, <1>2 DEF MonitorTypeOK, CallState
<1>4. \A k : Value(c, k)' = Value(c, k)
  BY <1>3 DEF Value
<1>5. Right(call[c].known)
  <2>1. \A s \in Stream : s \in Key /\ NetworkOf(s) \in Key
    BY KeyList DEF Key
  <2> QED
    BY <1>1, <2>1 DEF Right
<1>6. \A k \in Key : Value(c, k) \in Counts \cup Nat
  <2> DEFINE r == [k \in Key |-> Value(c, k)]
  <2>1. \A k \in Key : r[k] = Value(c, k)
    OBVIOUS
  <2> HIDE DEF r
  <2>2. /\ \A s \in Stream : Value(c, s) \in Counts
        /\ \A n \in Network : Value(c, n) \in 0..height[n]
    BY <1>1, <1>5, <2>1, NewCountsAreRight
  <2> QED
    BY <2>2 DEF Key
<1>7. wire' = batch /\ wire' \in Seq([call : Calls, key : Key, value : Counts \cup Nat])
      /\ Len(wire') = 6
  <2>1. batch \in Seq([call : Calls, key : Key, value : Counts \cup Nat])
    <3>1. \A i \in Position : entry(i) \in [call : Calls, key : Key, value : Counts \cup Nat]
      BY <1>6, KeyList
    <3> QED
      BY <3>1, IsASeq DEF Position
  <2>2. DOMAIN batch = 1..6
    OBVIOUS
  <2> HIDE DEF batch
  <2>3. Len(batch) = 6
    BY <2>1, <2>2, LenProperties
  <2>4. wire' = batch
    BY <1>1, <1>2, <2>1, EmptySeq, ConcatEmptySeq
  <2> QED
    BY <2>1, <2>3, <2>4
<1>8. MonitorTypeOK'
  <2>2. call' \in [Calls -> CallState]
    BY <1>1, <1>2 DEF MonitorTypeOK, CallState
  <2>3. \A d \in Calls : Stored(call[d].known)'
    BY <1>1, <1>2, <1>3 DEF MonitorTypeOK, Stored
  <2> QED
    BY <1>1, <1>2, <1>7, <2>2, <2>3 DEF MonitorTypeOK, Stored
<1>9. ReadSoFar(c)' /\ UpToHeight(c)'
  BY <1>1, <1>2, <1>3 DEF ReadSoFar, UpToHeight
<1>10. Storing(c)'
  <2>1. \A i \in Position : LET k == Keys[6 - 6 + i]
                         IN  wire'[i].call = c /\ wire'[i].key = k /\ wire'[i].value = Value(c, k)
    BY <1>7 DEF Position
  <2>2. \A i \in Position : redis[Keys[i]] = call[c].known[Keys[i]] /\ ~IsStored(i, 6)
    BY <1>1, KeyList DEF Position, IsStored
  <2>3. Right(call[c].known)'
    BY <1>2, <1>3, <1>5 DEF Right
  <2> DEFINE M == Len(wire')
  <2>4. M = 6
    BY <1>7
  <2> HIDE DEF M, batch
  <2>5. M \in 0..6
    BY <2>4
  <2>6. \A i \in 1..M : /\ wire'[i].call = c /\ wire'[i].key = Keys[6 - M + i]
                       /\ wire'[i].value = Value(c, Keys[6 - M + i])
    BY <2>1, <2>4 DEF Position
  <2>7. \A i \in Position : /\ IsStored(i, M) => redis[Keys[i]] = Value(c, Keys[i])
                            /\ ~IsStored(i, M) => redis[Keys[i]] = call[c].known[Keys[i]]
    BY <2>2, <2>4
  <2> DEFINE NewValue(k) ==
         IF k \in Stream THEN CountedUpTo(call'[c].known, k, call'[c].to) ELSE call'[c].to[k]
  <2>8. \A k : NewValue(k) = Value(c, k)
    BY <1>3 DEF Value
  <2> HIDE DEF NewValue
  <2>9. \A i \in 1..M : /\ wire'[i].call = c /\ wire'[i].key = Keys[6 - M + i]
                       /\ wire'[i].value = NewValue(Keys[6 - M + i])
    BY <1>2, <1>3, <2>6, <2>8
  <2>10. (\A i \in 1..Len(wire) :
           LET k == Keys[6 - Len(wire) + i]
           IN  wire[i].call = c /\ wire[i].key = k /\ wire[i].value = Value(c, k))'
    BY <2>9 DEF Value, M, NewValue
  <2>11. (\A i \in Position :
            /\ IsStored(i, Len(wire)) => redis[Keys[i]] = Value(c, Keys[i])
            /\ ~IsStored(i, Len(wire)) => redis[Keys[i]] = call[c].known[Keys[i]])'
    <3>1. \A i \in Position : /\ IsStored(i, M) => redis'[Keys[i]] = NewValue(Keys[i])
                              /\ ~IsStored(i, M) => redis'[Keys[i]] = call'[c].known[Keys[i]]
      BY <1>2, <1>3, <2>7, <2>8
    <3> QED
      BY <3>1 DEF Value, M, NewValue
  <2> QED
    BY <2>3, <2>4, <2>5, <2>10, <2>11 DEF Storing, M
<1>11. wire' # <<>>
  BY <1>7, EmptySeq
<1> QED
  BY <1>1, <1>2, <1>3, <1>8, <1>9, <1>10, <1>11, StepOfOne

(* Redis takes the next count or block.                                    *)
LEMMA StoreKeyKeeps ==
  ASSUME MonitorInv, StoreKey
  PROVE  MonitorInv'
<1> DEFINE Entry == [call : Calls, key : Key, value : Counts \cup Nat]
           L == Len(wire)
           j == 7 - L
<1>1. PICK c \in Calls : call[c].at = "storing"
  BY DEF MonitorInv, OneRuns, StoreKey
<1>2. /\ \A d \in Calls \ {c} : call[d].at = "idle" /\ call[d].key = 1
      /\ MonitorTypeOK /\ locked /\ UpToHeight(c) /\ Storing(c) /\ Right(call[c].known)
  <2>1. /\ MonitorTypeOK /\ UpToHeight(c) /\ Storing(c)
        /\ \A d \in Calls : call[d].at = "idle" => call[d].key = 1
    BY DEF MonitorInv, ReadSoFar
  <2>2. Right(call[c].known)
    BY <1>1, <2>1 DEF Storing
  <2> QED
    BY <1>1, <2>1, <2>2, OnlyThisRuns
<1>3. /\ wire \in Seq(Entry) /\ wire # <<>> /\ wire' = Tail(wire)
      /\ redis' = [redis EXCEPT ![Head(wire).key] = Head(wire).value]
      /\ UNCHANGED <<height, locked, call, kills, torn>>
  BY <1>2 DEF MonitorTypeOK, StoreKey
<1>4. /\ L \in Position /\ j \in Position /\ Head(wire) = wire[1]
      /\ wire' \in Seq(Entry) /\ Len(wire') = L - 1
      /\ \A i \in 1..(L - 1) : wire'[i] = wire[i + 1]
  <2>1. L \in Nat /\ L <= 6 /\ L # 0
    <3>1. L <= 6
      BY <1>1, <1>2 DEF Storing
    <3>2. L \in Nat /\ L # 0
      BY <1>3, EmptySeq, LenProperties
    <3> QED
      BY <3>1, <3>2
  <2>2. Head(wire) = wire[1]
    OBVIOUS
  <2>3. /\ wire' \in Seq(Entry) /\ Len(wire') = L - 1
        /\ \A i \in 1..(L - 1) : wire'[i] = wire[i + 1]
    BY <1>3, HeadTailProperties
  <2> HIDE DEF L
  <2>4. L \in Position
    BY <2>1 DEF Position
  <2>5. 7 - L \in Position
    BY <2>4 DEF Position
  <2> QED
    BY <2>2, <2>3, <2>4, <2>5
<1>5. /\ \A i \in 1..L : /\ wire[i].call = c /\ wire[i].key = Keys[6 - L + i]
                         /\ wire[i].value = Value(c, Keys[6 - L + i])
      /\ \A i \in Position : /\ IsStored(i, L) => redis[Keys[i]] = Value(c, Keys[i])
                             /\ ~IsStored(i, L) => redis[Keys[i]] = call[c].known[Keys[i]]
  BY <1>1, <1>2 DEF Storing
<1>6. redis' = [redis EXCEPT ![Keys[j]] = Value(c, Keys[j])]
  <2>1. 1 \in 1..L /\ 6 - L + 1 = j
    BY <1>4
  <2> QED
    BY <1>3, <1>4, <1>5, <2>1
<1> HIDE DEF L, j
<1>7. j = 7 - L
  BY DEF j
<1>8. \A k : Value(c, k)' = Value(c, k)
  BY <1>3 DEF Value
<1>9. DOMAIN redis = Key /\ \A i \in Position : Keys[i] \in Key /\ (Keys[i] = Keys[j] => i = j)
  BY <1>2, <1>4, KeyList DEF MonitorTypeOK, Stored
<1>10. \A i \in Position : /\ IsStored(i, L - 1) => redis'[Keys[i]] = Value(c, Keys[i])
                           /\ ~IsStored(i, L - 1) => redis'[Keys[i]] = call[c].known[Keys[i]]
  <2>1. ASSUME NEW i \in Position
        PROVE  /\ IsStored(i, L - 1) => redis'[Keys[i]] = Value(c, Keys[i])
               /\ ~IsStored(i, L - 1) => redis'[Keys[i]] = call[c].known[Keys[i]]
    <3>1. CASE i = j
      BY <1>4, <1>6, <1>7, <1>9, <3>1 DEF IsStored, Position
    <3>2. CASE i # j
      <4>1. redis'[Keys[i]] = redis[Keys[i]]
        BY <1>6, <1>9, <3>2
      <4>2. /\ IsStored(i, L - 1) => IsStored(i, L)
            /\ ~IsStored(i, L - 1) => ~IsStored(i, L)
        BY <1>4, <1>7, <3>2 DEF IsStored, Position
      <4> QED
        BY <1>5, <4>1, <4>2
    <3> QED
      BY <3>1, <3>2
  <2> QED
    BY <2>1
<1>11. /\ \A s \in Stream : Value(c, s) \in Counts
       /\ \A n \in Network : Value(c, n) \in 0..height[n]
       /\ \A r : (\A k \in Key : r[k] = Value(c, k)) => Right(r)
  <2> DEFINE q == [k \in Key |-> Value(c, k)]
  <2>1. \A k \in Key : q[k] = Value(c, k)
    OBVIOUS
  <2> HIDE DEF q
  <2>2. \A r : (\A k \in Key : r[k] = Value(c, k)) => Right(r)
    BY <1>1, <1>2, NewCountsAreRight
  <2> QED
    BY <1>1, <1>2, <2>1, <2>2, NewCountsAreRight
<1>12. Stored(redis)'
  <2>1. \A k \in Key : redis'[k] = redis[k] \/ redis'[k] = Value(c, k)
    BY <1>6, <1>9
  <2>2. DOMAIN redis' = Key /\ Stored(redis)
    BY <1>2, <1>6, <1>9 DEF MonitorTypeOK
  <2>3. /\ \A s \in Stream : redis'[s] \in Counts
        /\ \A n \in Network : redis'[n] \in 0..height[n]
    BY <1>11, <2>1, <2>2 DEF Stored, Key
  <2> QED
    BY <1>3, <2>2, <2>3 DEF Stored
<1>13. MonitorTypeOK'
  <2>1. \A d \in Calls : Stored(call[d].known)'
    BY <1>2, <1>3 DEF MonitorTypeOK, Stored
  <2> QED
    BY <1>2, <1>3, <1>4, <1>12, <2>1 DEF MonitorTypeOK
<1>14. ReadSoFar(c)' /\ UpToHeight(c)'
  BY <1>1, <1>2, <1>3 DEF ReadSoFar, UpToHeight
<1>15. Storing(c)'
  <2>1. \A i \in 1..(L - 1) : /\ wire'[i].call = c /\ wire'[i].key = Keys[6 - (L - 1) + i]
                             /\ wire'[i].value = Value(c, Keys[6 - (L - 1) + i])
    <3>1. ASSUME NEW i \in 1..(L - 1)
          PROVE  i + 1 \in 1..L /\ 6 - L + (i + 1) = 6 - (L - 1) + i
      BY <1>4 DEF Position
    <3> QED
      BY <1>4, <1>5, <3>1
  <2>2. L - 1 <= 6
    BY <1>4 DEF Position
  <2>3. Right(call[c].known)'
    BY <1>2, <1>3 DEF Right
  <2>4. (\A i \in 1..Len(wire) :
           LET k == Keys[6 - Len(wire) + i]
           IN  wire[i].call = c /\ wire[i].key = k /\ wire[i].value = Value(c, k))'
    BY <1>3, <1>4, <2>1 DEF Value
  <2>5. (\A i \in Position :
           /\ IsStored(i, Len(wire)) => redis[Keys[i]] = Value(c, Keys[i])
           /\ ~IsStored(i, Len(wire)) => redis[Keys[i]] = call[c].known[Keys[i]])'
    BY <1>3, <1>4, <1>10 DEF Value
  <2> QED
    BY <1>3, <1>4, <2>2, <2>3, <2>4, <2>5 DEF Storing
<1>16. wire' = <<>> => Right(redis)'
  <2>1. SUFFICES ASSUME wire' = <<>> PROVE Right(redis)'
    OBVIOUS
  <2>2. L - 1 = 0
    BY <1>4, <2>1, EmptySeq
  <2>3. \A i \in Position : redis'[Keys[i]] = Value(c, Keys[i])
    BY <1>4, <1>10, <2>2 DEF Position, IsStored
  <2>4. \A k \in Key : redis'[k] = Value(c, k)
    BY <2>3, KeyList
  <2>5. Right(redis')
    BY <1>11, <2>4
  <2> QED
    BY <1>3, <2>5 DEF Right
<1> QED
  BY <1>1, <1>2, <1>3, <1>13, <1>14, <1>15, <1>16, StepOfOne

(* All calls are idle, and nothing is on its way.                          *)
LEMMA AllAtRest ==
  ASSUME MonitorTypeOK', wire' = <<>>, Right(redis)',
         \A d \in Calls : call'[d].at = "idle" /\ call'[d].key = 1
  PROVE  MonitorInv'
<1>1. OneRuns'
  BY DEF OneRuns
<1>2. \A d \in Calls : ReadSoFar(d)' /\ UpToHeight(d)' /\ Storing(d)'
  BY DEF ReadSoFar, UpToHeight, Storing
<1> QED
  BY <1>1, <1>2 DEF MonitorInv

(* What Redis holds at first.                                              *)
LEMMA IdleKnowsNothing ==
  ASSUME height \in [Network -> Nat]
  PROVE  Idle \in CallState /\ Idle.at = "idle" /\ Idle.key = 1 /\ Stored(Idle.known)
<1>1. /\ Empty = [k \in Key |-> IF k \in Stream THEN NothingCounted ELSE 0]
      /\ NothingCounted \in Counts /\ \A n \in Network : n \in Key /\ n \notin Stream
  BY KeyList DEF Empty, NothingCounted, Counts, Key
<1>2. Stored(Empty)
  BY <1>1 DEF Stored, Key
<1> QED
  BY <1>1, <1>2 DEF Idle, CallState

(* A call ends, well or not.                                               *)
LEMMA FinallyKeeps ==
  ASSUME MonitorInv, NEW c \in Calls, StatusChecked(c) \/ CheckFails(c)
  PROVE  MonitorInv'
<1>1. /\ call[c].at # "idle" /\ call' = [call EXCEPT ![c] = Idle] /\ locked' = FALSE
      /\ UNCHANGED <<height, redis, wire, kills, torn>>
  BY DEF StatusChecked, CheckFails, Finally
<1>2. /\ MonitorTypeOK /\ Storing(c) /\ \A d \in Calls \ {c} : call[d].at = "idle" /\ call[d].key = 1
  BY <1>1, OnlyThisRuns DEF MonitorInv, ReadSoFar
<1>3. wire = <<>> /\ Right(redis)
  <2>1. CASE call[c].at = "storing"
    <3>1. /\ \A i \in 1..Len(wire) : wire[i].call = c
          /\ \A i \in DOMAIN wire : wire[i].call # c
      BY <1>2, <2>1 DEF Storing, StatusChecked, CheckFails
    <3>2. wire \in Seq([call : Calls, key : Key, value : Counts \cup Nat])
      BY <1>2 DEF MonitorTypeOK
    <3>3. Len(wire) \in Nat /\ DOMAIN wire = 1..Len(wire)
      BY <3>2, LenProperties
    <3>4. ~(1 \in 1..Len(wire))
      BY <3>1, <3>3
    <3>5. wire = <<>>
      BY <3>2, <3>3, <3>4, EmptySeq
    <3> QED
      BY <3>5 DEF MonitorInv
  <2>2. CASE call[c].at # "storing"
    BY <1>1, <2>2, OnlyThisRuns
  <2> QED
    BY <2>1, <2>2
<1>4. Idle \in CallState /\ Idle.at = "idle" /\ Idle.key = 1 /\ Stored(Idle.known)
  BY <1>2, IdleKnowsNothing DEF MonitorTypeOK
<1>5. \A d \in Calls : call'[d] = IF d = c THEN Idle ELSE call[d]
  BY <1>1, <1>2 DEF MonitorTypeOK
<1>6. MonitorTypeOK'
  <2>1. call' \in [Calls -> CallState]
    BY <1>1, <1>2, <1>4 DEF MonitorTypeOK
  <2>2. \A d \in Calls : Stored(call'[d].known)
    BY <1>2, <1>4, <1>5 DEF MonitorTypeOK
  <2>3. \A d \in Calls : Stored(call[d].known)'
    BY <1>1, <2>2 DEF Stored
  <2> QED
    BY <1>1, <1>2, <2>1, <2>3 DEF MonitorTypeOK, Stored
<1>7. Right(redis)'
  BY <1>1, <1>3 DEF Right
<1> QED
  BY <1>1, <1>2, <1>3, <1>4, <1>5, <1>6, <1>7, AllAtRest

(* Whatever has been stored of a call, no event is lost.                   *)
LEMMA HalfStored ==
  ASSUME MonitorInv, NEW c \in Calls, call[c].at = "storing", NEW s \in Stream, NEW b \in Block,
         b <= redis[NetworkOf(s)]
  PROVE  redis[s][b] >= 1
<1> DEFINE N == NetworkOf(s)
           known == call[c].known
           new == [k \in Key |-> Value(c, k)]
<1>1. MonitorTypeOK /\ UpToHeight(c) /\ Storing(c) /\ Right(known) /\ N \in Network /\ s \in Key /\ N \in Key
  BY KeyList DEF MonitorInv, Storing, Key
<1>2. \A k \in Key : new[k] = Value(c, k)
  OBVIOUS
<1> HIDE DEF new
<1>3. Right(new)
  BY <1>1, <1>2, NewCountsAreRight
<1>4. /\ known[N] \in Nat /\ new[N] \in Nat /\ known[N] <= new[N] /\ b \in Nat
      /\ new[N] = call[c].to[N]
  <2>1. known[N] \in 0..height[N] /\ height[N] \in Nat /\ call[c].to[N] \in known[N]..height[N]
    BY <1>1 DEF MonitorTypeOK, Stored, UpToHeight
  <2>2. new[N] = call[c].to[N]
    <3>1. N \notin Stream
      BY <1>1, KeyList
    <3> QED
      BY <1>1, <1>2, <3>1 DEF Value
  <2>3. b \in Nat
    BY MonitorAssumption DEF Block
  <2> QED
    BY <2>1, <2>2, <2>3
<1>5. /\ b <= known[N] => known[s][b] >= 1
      /\ b <= new[N] => new[s][b] >= 1
  BY <1>1, <1>3 DEF Right
<1>6. PICK i \in Position, j \in Position : Keys[i] = s /\ Keys[j] = N /\ i < j
  <2>1. /\ Keys[1] = "homeDeposit" /\ Keys[2] = "homeWithdrawal" /\ Keys[3] = "foreignDeposit"
        /\ Keys[4] = "foreignWithdrawal" /\ Keys[5] = "home" /\ Keys[6] = "foreign"
    BY DEF Keys
  <2>2. PICK i \in Position : Keys[i] = s
    BY <1>1, KeyList
  <2>3. PICK j \in Position : Keys[j] = N
    BY <1>1, KeyList
  <2>4. Position = {1, 2, 3, 4, 5, 6}
    BY DEF Position
  <2>5. i \in {1, 2, 3, 4} /\ j \in {5, 6}
    BY <1>1, <2>1, <2>2, <2>3, <2>4 DEF Stream, Network
  <2> QED
    BY <2>2, <2>3, <2>5
<1>7. /\ IsStored(i, Len(wire)) => redis[s] = new[s]
      /\ ~IsStored(i, Len(wire)) => redis[s] = known[s]
      /\ IsStored(j, Len(wire)) => redis[N] = new[N]
      /\ ~IsStored(j, Len(wire)) => redis[N] = known[N]
  BY <1>1, <1>2, <1>6 DEF Storing
<1>8. IsStored(j, Len(wire)) => IsStored(i, Len(wire))
  <2>1. Len(wire) \in Nat
    BY <1>1, LenProperties DEF MonitorTypeOK
  <2> QED
    BY <1>6, <2>1 DEF Position, IsStored
<1> HIDE DEF N, known
<1>9. b <= redis[N]
  BY DEF N
<1> QED
  BY <1>4, <1>5, <1>7, <1>8, <1>9

(* The process is killed: whatever was being stored, nothing is lost, and  *)
(* with all or nothing of it stored the counts are right.                  *)
LEMMA MonitorKilledKeeps ==
  ASSUME MonitorInv, MonitorKilled
  PROVE  MonitorInv'
<1>1. /\ wire' = <<>> /\ call' = [c \in Calls |-> Idle]
      /\ torn' = (torn \/ Len(wire) \in 1..(Len(Keys) - 1))
      /\ UNCHANGED <<height, redis>> /\ MonitorTypeOK
  BY DEF MonitorKilled, MonitorInv
<1>2. Idle \in CallState /\ Idle.at = "idle" /\ Idle.key = 1 /\ Stored(Idle.known)
  BY <1>1, IdleKnowsNothing DEF MonitorTypeOK
<1>3. MonitorTypeOK'
  <2>1. \A d \in Calls : Stored(call[d].known)'
    BY <1>1, <1>2 DEF Stored
  <2>2. <<>> \in Seq([call : Calls, key : Key, value : Counts \cup Nat])
    OBVIOUS
  <2> QED
    BY <1>1, <1>2, <2>1, <2>2 DEF MonitorTypeOK, Stored
<1>4. Right(redis)'
  <2>1. torn => torn'
    BY <1>1
  <2>2. CASE Right(redis)
    BY <1>1, <2>1, <2>2 DEF Right
  <2>3. CASE wire # <<>>
    <3>1. PICK c \in Calls : call[c].at = "storing"
      BY <2>3 DEF MonitorInv, OneRuns
    <3>2. Storing(c) /\ Len(wire) \in Nat /\ Len(wire) # 0 /\ Len(wire) <= 6 /\ Right(call[c].known)
      <4>1. Len(wire) \in Nat /\ Len(wire) # 0
        BY <1>1, <2>3, EmptySeq, LenProperties DEF MonitorTypeOK
      <4> QED
        BY <3>1, <4>1 DEF MonitorInv, Storing
    <3>3. CASE Len(wire) = 6
      <4>1. \A i \in Position : redis[Keys[i]] = call[c].known[Keys[i]]
        BY <3>1, <3>2, <3>3 DEF Storing, IsStored, Position
      <4>2. \A k \in Key : redis[k] = call[c].known[k]
        BY <4>1, KeyList
      <4>3. \A s \in Stream : s \in Key /\ NetworkOf(s) \in Key
        BY KeyList DEF Key
      <4>4. Right(redis)
        BY <3>2, <4>2, <4>3 DEF Right
      <4> QED
        BY <2>2, <4>4
    <3>4. CASE Len(wire) # 6
      <4>1. Len(wire) \in 1..(Len(Keys) - 1)
        <5>1. Len(Keys) = 6
          BY KeyList
        <5>2. ASSUME NEW n \in Nat, n # 0, n <= 6, n # 6, NEW m, m = 6
              PROVE  n \in 1..(m - 1)
          BY <5>2
        <5> QED
          BY <3>2, <3>4, <5>1, <5>2
      <4>2. torn'
        BY <1>1, <4>1
      <4>3. ASSUME NEW s \in Stream, NEW b \in Block, b <= redis[NetworkOf(s)] PROVE redis[s][b] >= 1
        BY <3>1, <4>3, HalfStored
      <4> QED
        BY <1>1, <4>2, <4>3 DEF Right
    <3> QED
      BY <3>3, <3>4
  <2> QED
    BY <2>2, <2>3 DEF MonitorInv
<1> QED
  BY <1>1, <1>2, <1>3, <1>4, AllAtRest

(* A block is announced.                                                   *)
LEMMA NewBlockKeeps ==
  ASSUME MonitorInv, NEW m \in Network, NewBlockOf(m)
  PROVE  MonitorInv'
<1>1. /\ height' = [height EXCEPT ![m] = @ + 1] /\ height[m] < MaxBlock
      /\ UNCHANGED <<redis, locked, call, wire, kills, torn>> /\ MonitorTypeOK
  BY DEF NewBlockOf, MonitorInv
<1>2. /\ height' \in [Network -> 0..MaxBlock]
      /\ \A n \in Network : height[n] \in Nat /\ height'[n] \in Nat /\ height[n] <= height'[n]
  BY <1>1, MonitorAssumption DEF MonitorTypeOK
<1>3. \A r : Stored(r) => Stored(r)'
  BY <1>2 DEF Stored
<1>4. MonitorTypeOK'
  <2>1. Stored(redis)'
    BY <1>1, <1>2 DEF MonitorTypeOK, Stored
  <2>2. \A d \in Calls : Stored(call[d].known)'
    BY <1>1, <1>2 DEF MonitorTypeOK, Stored
  <2> QED
    BY <1>1, <1>2, <2>1, <2>2 DEF MonitorTypeOK
<1>5. OneRuns' /\ \A c \in Calls : ReadSoFar(c)'
  BY <1>1 DEF MonitorInv, OneRuns, ReadSoFar
<1>6. ASSUME NEW c \in Calls PROVE UpToHeight(c)'
  <2>1. UpToHeight(c)
    BY DEF MonitorInv
  <2>2. \A n \in Network : call[c].known[n] \in Nat /\ call[c].to[n] \in Nat
    BY <1>1, <1>2 DEF MonitorTypeOK, Stored, CallState
  <2> QED
    BY <1>1, <1>2, <2>1, <2>2 DEF UpToHeight
<1>7. ASSUME NEW c \in Calls PROVE Storing(c)'
  <2>1. Storing(c)
    BY DEF MonitorInv
  <2>2. Right(call[c].known) => Right(call[c].known)'
    BY <1>1 DEF Right
  <2> QED
    BY <1>1, <2>1, <2>2 DEF Storing, Value
<1>8. wire' = <<>> => Right(redis)'
  BY <1>1 DEF MonitorInv, Right
<1> QED
  BY <1>4, <1>5, <1>6, <1>7, <1>8 DEF MonitorInv

(* Every step keeps the invariant.                                         *)
LEMMA MonitorInvStep == MonitorInv /\ [MonitorNext]_monitorVars => MonitorInv'
<1> SUFFICES ASSUME MonitorInv, [MonitorNext]_monitorVars PROVE MonitorInv'
  OBVIOUS
<1>1. CASE UNCHANGED monitorVars
  <2>1. UNCHANGED <<height, redis, locked, call, wire, torn>>
    BY <1>1 DEF monitorVars
  <2>2. MonitorTypeOK'
    BY <2>1 DEF MonitorInv, MonitorTypeOK, Stored
  <2>3. OneRuns' /\ (wire' = <<>> => Right(redis)')
    BY <2>1 DEF MonitorInv, OneRuns, Right
  <2>4. ASSUME NEW c \in Calls PROVE ReadSoFar(c)' /\ UpToHeight(c)' /\ Storing(c)'
    <3>1. ReadSoFar(c) /\ UpToHeight(c) /\ Storing(c)
      BY DEF MonitorInv
    <3>2. Right(call[c].known) => Right(call[c].known)'
      BY <2>1 DEF Right
    <3> QED
      BY <2>1, <3>1, <3>2 DEF ReadSoFar, UpToHeight, Storing, Value
  <2> QED
    BY <2>2, <2>3, <2>4 DEF MonitorInv
<1> QED
  BY <1>1, CheckStatusKeeps, ReadKeyKeeps, GetBlockNumberKeeps, ProcessEventsKeeps, StoreKeyKeeps,
     FinallyKeeps, MonitorKilledKeeps, NewBlockKeeps
     DEF MonitorNext

(* Whenever nothing is on its way to Redis, what is stored counts every    *)
(* event up to the processed block, and once unless a process was killed   *)
(* while it stored: for any range of a query, any number of calls.         *)
THEOREM AlwaysCountedOnce == MonitorSpec => []CountedOnce
<1>1. MonitorInv => CountedOnce
  <2> SUFFICES ASSUME MonitorInv, wire = <<>>, NEW s \in Stream, NEW b \in 1..redis[NetworkOf(s)]
               PROVE  redis[s][b] >= 1 /\ (torn \/ redis[s][b] = 1)
    BY DEF CountedOnce
  <2>1. NetworkOf(s) \in Network
    BY KeyList
  <2>2. redis[NetworkOf(s)] \in 0..height[NetworkOf(s)] /\ height[NetworkOf(s)] \in 0..MaxBlock
    BY <2>1 DEF MonitorInv, MonitorTypeOK, Stored
  <2>3. b \in Block /\ b <= redis[NetworkOf(s)]
    BY <2>2, MonitorAssumption DEF Block
  <2> QED
    BY <2>3 DEF MonitorInv, Right
<1> QED
  BY <1>1, MonitorInvInit, MonitorInvStep, PTL DEF MonitorSpec

-----------------------------------------------------------------------------
(***************************************************************************)
(* BridgedToken, for any rules, blocks and holders: what is funded is kept *)
(* within limits since the last period began, and in the blocks of a       *)
(* period's length before it, so that a stretch of blocks over both holds  *)
(* no more than twice as much.                                             *)
(***************************************************************************)

(* Blocks, what a rule is, and the blocks since one, of a length before it *)
(* and of a length after it; what f holds in some; and f with x more at b. *)
Blocks == 0..MaxBlockNumber
FundingRule == [periodLength : Nat, maxPeriodFunds : Nat, threshold : Nat, amount : Nat]
BlocksFrom(start) == {n \in Blocks : n >= start}
BlocksBefore(start, length) == {n \in Blocks : start - length <= n /\ n < start}
Window(b, length) == {n \in Blocks : n - b \in 0..length}
FundedIn(f, blocks) == SumFunctionOnSet(f, blocks)
MoreFunded(g, f, b, x) == g = [f EXCEPT ![b] = @ + x]

FundingTypes ==
  /\ fundedAt \in [Blocks -> Nat]
  /\ fundingRules \in FundingRule
  /\ lastFundingPeriod \in Blocks /\ blockNumber \in Blocks /\ totalPeriodFundedAmount \in Nat
  /\ lastFundingPeriod <= blockNumber

(* What was funded, f, when the last period began at start: nothing after  *)
(* the period, no more than the limit since it began, nor more than is     *)
(* counted, and no more than the limit in the stretch of blocks before it. *)
WithinLimits(f, start, length, max, counted) ==
  /\ \A n \in Blocks : n > start + length => f[n] = 0
  /\ FundedIn(f, BlocksFrom(start)) <= max
  /\ FundedIn(f, BlocksFrom(start)) <= counted
  /\ FundedIn(f, BlocksBefore(start, length)) <= max
  /\ \A b \in Blocks : FundedIn(f, Window(b, length)) <= 2 * max

FundedInv ==
  /\ FundingTypes
  /\ WithinLimits(fundedAt, lastFundingPeriod, fundingRules.periodLength, fundingRules.maxPeriodFunds,
                  totalPeriodFundedAmount)

(* Stretches of blocks are finite, and what was funded in them is a number.*)
LEMMA FundedIsNat ==
  ASSUME BridgedTokenAssumption, NEW f \in [Blocks -> Nat], NEW s \in SUBSET Blocks
  PROVE  IsFiniteSet(s) /\ FundedIn(f, s) \in Nat
<1>1. 0 \in Int /\ MaxBlockNumber \in Int
  BY DEF BridgedTokenAssumption
<1>2. IsFiniteSet(Blocks)
  BY <1>1, IntervalsAreFinite DEF Blocks
<1>3. IsFiniteSet(s)
  BY <1>2, FS_Subset
<1>4. \A n \in s : f[n] \in Nat
  OBVIOUS
<1> QED BY <1>3, <1>4, SumIsNat DEF FundedIn

(* No more is funded in fewer blocks.                                      *)
LEMMA FundedInPart ==
  ASSUME BridgedTokenAssumption, NEW f \in [Blocks -> Nat], NEW s \in SUBSET Blocks, NEW r \in SUBSET s
  PROVE  FundedIn(f, r) <= FundedIn(f, s)
<1>1. IsFiniteSet(s)
  BY FundedIsNat
<1>2. \A n \in s : f[n] \in Nat
  OBVIOUS
<1> QED BY <1>1, <1>2, SumOfPart DEF FundedIn

(* A stretch of blocks that does not end before the last period has its    *)
(* blocks in the period or in the stretch before it.                       *)
LEMMA WindowOfTwoPeriods ==
  ASSUME BridgedTokenAssumption, NEW f \in [Blocks -> Nat], NEW start \in Blocks, NEW length \in Nat,
         NEW max \in Nat, NEW b \in Blocks, b + length >= start,
         FundedIn(f, BlocksFrom(start)) <= max, FundedIn(f, BlocksBefore(start, length)) <= max
  PROVE  FundedIn(f, Window(b, length)) <= 2 * max
<1> DEFINE before == {n \in Window(b, length) : n < start}
           since == {n \in Window(b, length) : n >= start}
<1>0. Blocks \subseteq Nat /\ Window(b, length) \subseteq Blocks
      /\ BlocksFrom(start) \subseteq Blocks /\ BlocksBefore(start, length) \subseteq Blocks
  BY DEF Blocks, Window, BlocksFrom, BlocksBefore
<1>1. before \subseteq BlocksBefore(start, length)
  <2> SUFFICES ASSUME NEW n \in before PROVE n \in BlocksBefore(start, length)
    OBVIOUS
  <2>1. n \in Nat /\ start \in Nat /\ b \in Nat /\ n \in Blocks
    BY <1>0
  <2>2. n - b \in 0..length /\ n < start
    BY DEF Window
  <2>3. start - length <= n
    BY <2>1, <2>2
  <2> QED BY <2>1, <2>2, <2>3 DEF BlocksBefore
<1>2. since \subseteq BlocksFrom(start)
  BY DEF BlocksFrom, Window
<1>3. before \cup since = Window(b, length) /\ before \cap since = {}
  <2>1. start \in Nat /\ Window(b, length) \subseteq Nat
    BY <1>0
  <2>2. \A n \in Window(b, length) : ~(n < start /\ n >= start) /\ (n < start \/ n >= start)
    BY <2>1
  <2> QED BY <2>2
<1>4. IsFiniteSet(before) /\ IsFiniteSet(since) /\ FundedIn(f, before) \in Nat /\ FundedIn(f, since) \in Nat
  BY <1>0, FundedIsNat
<1>5. \A n \in before \cup since : f[n] \in Int
  <2>1. before \cup since \subseteq Blocks
    BY <1>0
  <2>2. \A n \in Blocks : f[n] \in Int
    OBVIOUS
  <2> HIDE DEF before, since
  <2> QED BY <2>1, <2>2
<1> HIDE DEF before, since
<1>6. FundedIn(f, before \cup since) = FundedIn(f, before) + FundedIn(f, since)
  BY <1>3, <1>4, <1>5, SumOfUnion DEF FundedIn
<1>7. FundedIn(f, before) <= FundedIn(f, BlocksBefore(start, length))
      /\ FundedIn(f, since) <= FundedIn(f, BlocksFrom(start))
  BY <1>0, <1>1, <1>2, FundedInPart
<1>8. FundedIn(f, BlocksBefore(start, length)) \in Nat /\ FundedIn(f, BlocksFrom(start)) \in Nat
  BY <1>0, FundedIsNat
<1>9. FundedIn(f, before) <= max /\ FundedIn(f, since) <= max
  BY <1>4, <1>7, <1>8
<1>10. FundedIn(f, Window(b, length)) = FundedIn(f, before) + FundedIn(f, since)
  BY <1>3, <1>6
<1> HIDE DEF FundedIn
<1> QED BY <1>4, <1>9, <1>10

(* What is funded now counts where the block is, and nowhere else.         *)
LEMMA FundingCounts ==
  ASSUME BridgedTokenAssumption, NEW f \in [Blocks -> Nat], NEW b \in Blocks, NEW x \in Nat,
         NEW g, MoreFunded(g, f, b, x)
  PROVE  /\ g \in [Blocks -> Nat]
         /\ \A n \in Blocks \ {b} : g[n] = f[n]
         /\ \A s \in SUBSET Blocks : b \in s => FundedIn(g, s) = FundedIn(f, s) + x
         /\ \A s \in SUBSET Blocks : b \notin s => FundedIn(g, s) = FundedIn(f, s)
<1>0. f[b] \in Nat /\ f[b] + x \in Nat
  OBVIOUS
<1>1. /\ g \in [Blocks -> Nat]
      /\ \A n \in Blocks \ {b} : g[n] = f[n]
      /\ g[b] = f[b] + x
  BY <1>0 DEF MoreFunded
<1>2. ASSUME NEW s \in SUBSET Blocks, b \in s
      PROVE  FundedIn(g, s) = FundedIn(f, s) + x
  <2>1. \A n \in s : f[n] \in Int /\ g[n] \in Int
    BY <1>1
  <2>2. \A n \in s \ {b} : g[n] = f[n]
    BY <1>1
  <2>3. IsFiniteSet(s) /\ FundedIn(f, s) \in Nat
    BY FundedIsNat
  <2>4. FundedIn(g, s) = FundedIn(f, s) - f[b] + g[b]
    BY <1>2, <2>1, <2>2, <2>3, SumUpdates DEF FundedIn
  <2> HIDE DEF FundedIn
  <2> QED BY <2>3, <2>4, <1>0, <1>1
<1>3. ASSUME NEW s \in SUBSET Blocks, b \notin s
      PROVE  FundedIn(g, s) = FundedIn(f, s)
  <2>1. \A n \in s : f[n] \in Int /\ g[n] = f[n]
    BY <1>1, <1>3
  <2>2. IsFiniteSet(s)
    BY FundedIsNat
  <2> QED BY <2>1, <2>2, SumSame DEF FundedIn
<1> QED BY <1>1, <1>2, <1>3

(* Nothing funded is within any limits.                                    *)
LEMMA NothingFunded ==
  ASSUME BridgedTokenAssumption, NEW start \in Blocks, NEW length \in Nat, NEW max \in Nat,
         NEW counted \in Nat
  PROVE  NoFunds \in [Blocks -> Nat] /\ WithinLimits(NoFunds, start, length, max, counted)
<1>1. NoFunds \in [Blocks -> Nat] /\ \A n \in Blocks : NoFunds[n] = 0
  BY DEF NoFunds, Blocks
<1>2. ASSUME NEW s \in SUBSET Blocks PROVE FundedIn(NoFunds, s) = 0
  <2>1. IsFiniteSet(s) /\ \A n \in s : NoFunds[n] = 0
    BY <1>1, FundedIsNat
  <2> QED BY <2>1, SumIsZero DEF FundedIn
<1>3. BlocksFrom(start) \subseteq Blocks /\ BlocksBefore(start, length) \subseteq Blocks
      /\ \A b \in Blocks : Window(b, length) \subseteq Blocks
  BY DEF BlocksFrom, BlocksBefore, Window
<1>4. 0 <= max /\ 0 <= counted /\ 0 <= 2 * max
  OBVIOUS
<1>5. FundedIn(NoFunds, BlocksFrom(start)) = 0 /\ FundedIn(NoFunds, BlocksBefore(start, length)) = 0
  BY <1>2, <1>3
<1>6. \A b \in Blocks : FundedIn(NoFunds, Window(b, length)) = 0
  BY <1>2, <1>3
<1> HIDE DEF NoFunds
<1> QED BY <1>1, <1>4, <1>5, <1>6 DEF WithinLimits

(* In the period, what is sent is counted and under the limit with it.     *)
LEMMA FundsInPeriod ==
  ASSUME BridgedTokenAssumption, NEW f \in [Blocks -> Nat], NEW start \in Blocks, NEW length \in Nat,
         NEW max \in Nat, NEW counted \in Nat, WithinLimits(f, start, length, max, counted),
         NEW b \in Blocks, start <= b, b <= start + length,
         NEW x \in Nat, x = 0 \/ x + counted <= max,
         NEW g, MoreFunded(g, f, b, x)
  PROVE  g \in [Blocks -> Nat] /\ WithinLimits(g, start, length, max, counted + x)
<1>0. start \in Nat /\ b \in Nat
  BY DEF Blocks
<1>1. /\ g \in [Blocks -> Nat]
      /\ \A n \in Blocks \ {b} : g[n] = f[n]
      /\ \A s \in SUBSET Blocks : b \in s => FundedIn(g, s) = FundedIn(f, s) + x
      /\ \A s \in SUBSET Blocks : b \notin s => FundedIn(g, s) = FundedIn(f, s)
  BY FundingCounts
<1>2. /\ b \in BlocksFrom(start) /\ b \notin BlocksBefore(start, length)
      /\ BlocksFrom(start) \in SUBSET Blocks /\ BlocksBefore(start, length) \in SUBSET Blocks
  BY <1>0 DEF BlocksFrom, BlocksBefore
<1>3. FundedIn(g, BlocksFrom(start)) = FundedIn(f, BlocksFrom(start)) + x
  BY <1>1, <1>2
<1>4. FundedIn(f, BlocksFrom(start)) \in Nat
  BY <1>2, FundedIsNat
<1>5. FundedIn(f, BlocksFrom(start)) <= max /\ FundedIn(f, BlocksFrom(start)) <= counted
  BY DEF WithinLimits
<1>6. FundedIn(g, BlocksFrom(start)) <= max
  <2>1. CASE x = 0
    BY <1>3, <1>4, <1>5, <2>1
  <2>2. CASE x + counted <= max
    BY <1>3, <1>4, <1>5, <2>2
  <2> QED BY <2>1, <2>2
<1>7. FundedIn(g, BlocksFrom(start)) <= counted + x
  BY <1>3, <1>4, <1>5
<1>8. FundedIn(g, BlocksBefore(start, length)) <= max
  <2>1. FundedIn(g, BlocksBefore(start, length)) = FundedIn(f, BlocksBefore(start, length))
    BY <1>1, <1>2
  <2> QED BY <2>1 DEF WithinLimits
<1>9. ASSUME NEW n \in Blocks, n > start + length PROVE g[n] = 0
  <2>1. n # b
    BY <1>0, <1>9 DEF Blocks
  <2> QED BY <1>1, <1>9, <2>1 DEF WithinLimits
<1>10. ASSUME NEW c \in Blocks PROVE FundedIn(g, Window(c, length)) <= 2 * max
  <2>1. CASE c + length >= start
    BY <1>1, <1>6, <1>8, <2>1, WindowOfTwoPeriods
  <2>2. CASE c + length < start
    <3>1. Window(c, length) \in SUBSET Blocks /\ b \notin Window(c, length)
      BY <1>0, <2>2 DEF Window, Blocks
    <3>2. FundedIn(g, Window(c, length)) = FundedIn(f, Window(c, length))
      BY <1>1, <3>1
    <3> QED BY <3>2 DEF WithinLimits
  <2>3. c + length >= start \/ c + length < start
    BY <1>0 DEF Blocks
  <2> QED BY <2>1, <2>2, <2>3
<1> QED BY <1>1, <1>6, <1>7, <1>8, <1>9, <1>10 DEF WithinLimits

(* After the period, it starts a period of its own: the blocks of a        *)
(* period's length before it are all later than the last one's start.      *)
LEMMA FundsAfterPeriod ==
  ASSUME BridgedTokenAssumption, NEW f \in [Blocks -> Nat], NEW start \in Blocks, NEW length \in Nat,
         NEW max \in Nat, NEW counted \in Nat, WithinLimits(f, start, length, max, counted),
         NEW b \in Blocks, b > length + start,
         NEW x \in Nat, x <= max,
         NEW g, MoreFunded(g, f, b, x)
  PROVE  g \in [Blocks -> Nat] /\ WithinLimits(g, b, length, max, x)
<1>0. start \in Nat /\ b \in Nat
  BY DEF Blocks
<1>1. /\ g \in [Blocks -> Nat]
      /\ \A n \in Blocks \ {b} : g[n] = f[n]
      /\ \A s \in SUBSET Blocks : b \in s => FundedIn(g, s) = FundedIn(f, s) + x
      /\ \A s \in SUBSET Blocks : b \notin s => FundedIn(g, s) = FundedIn(f, s)
  BY FundingCounts
<1>2. /\ b \in BlocksFrom(b) /\ b \notin BlocksBefore(b, length)
      /\ BlocksFrom(b) \in SUBSET Blocks /\ BlocksBefore(b, length) \in SUBSET Blocks
      /\ BlocksFrom(start) \in SUBSET Blocks
  BY <1>0 DEF BlocksFrom, BlocksBefore
<1>3. FundedIn(f, BlocksFrom(b)) = 0
  <2>1. \A n \in BlocksFrom(b) : f[n] = 0
    BY <1>0 DEF BlocksFrom, WithinLimits, Blocks
  <2>2. IsFiniteSet(BlocksFrom(b))
    BY <1>2, FundedIsNat
  <2> QED BY <2>1, <2>2, SumIsZero DEF FundedIn
<1>4. FundedIn(g, BlocksFrom(b)) = x
  <2>1. FundedIn(g, BlocksFrom(b)) = FundedIn(f, BlocksFrom(b)) + x
    BY <1>1, <1>2
  <2> QED BY <1>3, <2>1
<1>5. FundedIn(g, BlocksBefore(b, length)) <= max
  <2>1. BlocksBefore(b, length) \subseteq BlocksFrom(start)
    BY <1>0 DEF BlocksBefore, BlocksFrom, Blocks
  <2>2. FundedIn(f, BlocksBefore(b, length)) <= FundedIn(f, BlocksFrom(start))
    BY <1>2, <2>1, FundedInPart
  <2>3. FundedIn(g, BlocksBefore(b, length)) = FundedIn(f, BlocksBefore(b, length))
    BY <1>1, <1>2
  <2>4. FundedIn(f, BlocksBefore(b, length)) \in Nat /\ FundedIn(f, BlocksFrom(start)) \in Nat
    BY <1>2, FundedIsNat
  <2>5. FundedIn(f, BlocksFrom(start)) <= max
    BY DEF WithinLimits
  <2> QED BY <2>2, <2>3, <2>4, <2>5
<1>6. ASSUME NEW n \in Blocks, n > b + length PROVE g[n] = 0
  <2>1. n # b /\ n > start + length
    BY <1>0, <1>6 DEF Blocks
  <2> QED BY <1>1, <2>1 DEF WithinLimits
<1>7. ASSUME NEW c \in Blocks PROVE FundedIn(g, Window(c, length)) <= 2 * max
  <2>1. CASE c + length >= b
    BY <1>1, <1>4, <1>5, <2>1, WindowOfTwoPeriods
  <2>2. CASE c + length < b
    <3>1. Window(c, length) \in SUBSET Blocks /\ b \notin Window(c, length)
      BY <1>0, <2>2 DEF Window, Blocks
    <3>2. FundedIn(g, Window(c, length)) = FundedIn(f, Window(c, length))
      BY <1>1, <3>1
    <3> QED BY <3>2 DEF WithinLimits
  <2>3. c + length >= b \/ c + length < b
    BY <1>0 DEF Blocks
  <2> QED BY <2>1, <2>2, <2>3
<1> QED BY <1>1, <1>4, <1>5, <1>6, <1>7 DEF WithinLimits

(* Whoever is funded, and whether or not, the limits stand.                *)
LEMMA FundReceiverStep ==
  ASSUME BridgedTokenAssumption, FundedInv, NEW to, FundReceiver(to), UNCHANGED <<fundingRules, blockNumber>>
  PROVE  FundedInv'
<1> DEFINE length == fundingRules.periodLength
           max == fundingRules.maxPeriodFunds
           amount == fundingRules.amount
           enough == amount + Spent <= max
           given == IF to = holder /\ coins[holder] < fundingRules.threshold /\ enough
                         /\ amount <= coins[tokenContract]
                    THEN amount ELSE 0
<1>0. FundingTypes /\ WithinLimits(fundedAt, lastFundingPeriod, length, max, totalPeriodFundedAmount)
  BY DEF FundedInv
<1>1. length \in Nat /\ max \in Nat /\ amount \in Nat /\ blockNumber \in Nat /\ lastFundingPeriod \in Nat
  BY <1>0 DEF FundingTypes, FundingRule, Blocks
<1>2. Spent \in Nat
  BY <1>0 DEF Spent, FundingTypes
<1>3. given \in Nat /\ (given = 0 \/ given + Spent <= max) /\ given <= max
  BY <1>1, <1>2
<1>4. /\ lastFundingPeriod' = IF PeriodOver THEN blockNumber ELSE lastFundingPeriod
      /\ totalPeriodFundedAmount' = Spent + given
      /\ MoreFunded(fundedAt', fundedAt, blockNumber, given)
  BY DEF FundReceiver, MoreFunded
<1> HIDE DEF given
<1>5. CASE PeriodOver
  <2>1. blockNumber > length + lastFundingPeriod /\ Spent = 0
    BY <1>5 DEF PeriodOver, Spent
  <2>2. lastFundingPeriod' = blockNumber /\ totalPeriodFundedAmount' = given
    BY <1>3, <1>4, <1>5, <2>1
  <2>3. fundedAt' \in [Blocks -> Nat] /\ WithinLimits(fundedAt', blockNumber, length, max, given)
    <3>1. /\ fundedAt \in [Blocks -> Nat] /\ lastFundingPeriod \in Blocks /\ blockNumber \in Blocks
          /\ totalPeriodFundedAmount \in Nat
      BY <1>0 DEF FundingTypes
    <3> HIDE DEF length, max
    <3> QED BY <1>0, <1>1, <1>3, <1>4, <2>1, <3>1, FundsAfterPeriod
  <2> QED BY <1>0, <1>1, <1>3, <2>2, <2>3 DEF FundedInv, FundingTypes
<1>6. CASE ~PeriodOver
  <2>1. blockNumber <= lastFundingPeriod + length /\ Spent = totalPeriodFundedAmount
    BY <1>1, <1>6 DEF PeriodOver, Spent
  <2>2. lastFundingPeriod' = lastFundingPeriod /\ totalPeriodFundedAmount' = totalPeriodFundedAmount + given
    BY <1>3, <1>4, <1>6, <2>1
  <2>3. /\ fundedAt' \in [Blocks -> Nat]
        /\ WithinLimits(fundedAt', lastFundingPeriod, length, max, totalPeriodFundedAmount + given)
    <3>1. /\ fundedAt \in [Blocks -> Nat] /\ lastFundingPeriod \in Blocks /\ blockNumber \in Blocks
          /\ totalPeriodFundedAmount \in Nat /\ lastFundingPeriod <= blockNumber
      BY <1>0 DEF FundingTypes
    <3>2. given = 0 \/ given + totalPeriodFundedAmount <= max
      BY <1>3, <2>1
    <3> HIDE DEF length, max
    <3> QED BY <1>0, <1>1, <1>3, <1>4, <2>1, <3>1, <3>2, FundsInPeriod
  <2>4. totalPeriodFundedAmount + given \in Nat
    BY <1>0, <1>3 DEF FundingTypes
  <2> QED BY <1>0, <1>1, <1>3, <2>2, <2>3, <2>4 DEF FundedInv, FundingTypes
<1> QED BY <1>5, <1>6

(* Before anything, nothing is funded and nothing allowed.                 *)
LEMMA FundedInit == ASSUME BridgedTokenAssumption, BridgedTokenInit PROVE FundedInv
<1>1. /\ 0 \in Blocks /\ 1 \in Blocks
      /\ fundingRules \in FundingRule /\ fundingRules.periodLength = 0 /\ fundingRules.maxPeriodFunds = 0
      /\ lastFundingPeriod = 0 /\ totalPeriodFundedAmount = 0 /\ blockNumber = 1 /\ fundedAt = NoFunds
  BY DEF BridgedTokenInit, BridgedTokenAssumption, Blocks, FundingRule
<1>2. NoFunds \in [Blocks -> Nat] /\ WithinLimits(NoFunds, 0, 0, 0, 0)
  BY <1>1, NothingFunded
<1> QED BY <1>1, <1>2 DEF FundedInv, FundingTypes

(* Every step keeps the invariant.                                         *)
LEMMA FundedNext == ASSUME BridgedTokenAssumption, FundedInv, [BridgedTokenNext]_tokenVars PROVE FundedInv'
<1>1. ASSUME NEW rules \in FundingRules, SetFundingRules(rules) PROVE FundedInv'
  <2>1. /\ rules \in FundingRule /\ fundingRules' = rules /\ fundedAt' = NoFunds
        /\ UNCHANGED <<lastFundingPeriod, totalPeriodFundedAmount, blockNumber>>
    BY <1>1 DEF SetFundingRules, BridgedTokenAssumption, FundingRule
  <2>2. FundingTypes
    BY DEF FundedInv
  <2>3. rules.periodLength \in Nat /\ rules.maxPeriodFunds \in Nat
    BY <2>1 DEF FundingRule
  <2>4. /\ NoFunds \in [Blocks -> Nat]
        /\ WithinLimits(NoFunds, lastFundingPeriod, rules.periodLength, rules.maxPeriodFunds,
                        totalPeriodFundedAmount)
    BY <2>2, <2>3, NothingFunded DEF FundingTypes
  <2> QED BY <2>1, <2>2, <2>4 DEF FundedInv, FundingTypes
<1>2. ASSUME NextBlockNumber PROVE FundedInv'
  <2>1. /\ blockNumber < MaxBlockNumber /\ blockNumber' = blockNumber + 1
        /\ UNCHANGED <<fundingRules, lastFundingPeriod, totalPeriodFundedAmount, fundedAt>>
    BY <1>2 DEF NextBlockNumber, fundingVars
  <2>2. FundingTypes'
    BY <2>1 DEF FundedInv, FundingTypes, Blocks, BridgedTokenAssumption
  <2> QED BY <2>1, <2>2 DEF FundedInv
<1>3. ASSUME UNCHANGED <<fundingRules, lastFundingPeriod, totalPeriodFundedAmount, fundedAt, blockNumber>>
      PROVE  FundedInv'
  BY <1>3 DEF FundedInv, FundingTypes
<1>4. ASSUME NEW to \in Receiver, Transfer677(to, 1) \/ TransferAndCall(to, 1) PROVE FundedInv'
  BY <1>4, FundReceiverStep DEF Transfer677, TransferAndCall
<1>5. CASE Mint(holder, 1)
  BY <1>5, FundReceiverStep DEF Mint
<1>6. CASE ClaimOwnTokens
  BY <1>6, FundReceiverStep DEF ClaimOwnTokens
<1>7. ASSUME NEW c \in bridges, RegisterBridge(c) \/ RemoveBridgeContract(c) PROVE FundedInv'
  BY <1>3, <1>7 DEF RegisterBridge, RemoveBridgeContract, fundingVars
<1>8. CASE ClaimCoins \/ CoinsMove
  BY <1>3, <1>8 DEF ClaimCoins, CoinsMove
<1>9. CASE UNCHANGED tokenVars
  BY <1>3, <1>9 DEF tokenVars, fundingVars
<1> QED BY <1>1, <1>2, <1>4, <1>5, <1>6, <1>7, <1>8, <1>9 DEF BridgedTokenNext

(* FundedPerWindow of BridgedToken: however transfers, minting and claims  *)
(* are mixed, and whenever the periods begin, no stretch of blocks as long *)
(* as a period sees more than twice maxPeriodFunds given to receivers.     *)
THEOREM FundsAlwaysPerWindow ==
  ASSUME BridgedTokenAssumption PROVE BridgedTokenSpec => []FundedPerWindow
<1>1. BridgedTokenInit => FundedInv
  BY FundedInit
<1>2. FundedInv /\ [BridgedTokenNext]_tokenVars => FundedInv'
  BY FundedNext
<1>3. FundedInv => FundedPerWindow
  BY DEF FundedInv, WithinLimits, FundedIn, Window, Blocks, FundedPerWindow
<1> QED BY <1>1, <1>2, <1>3, PTL DEF BridgedTokenSpec

-----------------------------------------------------------------------------
(***************************************************************************)
(* TransferUI, for any tokens, sides without events and numbers of         *)
(* transfers.  On a page that nothing has disturbed, the overlay is up as  *)
(* long as anything is under way, and that is one thing; all that is       *)
(* stored, asked and shown is of one token, or there is nothing yet; only  *)
(* during a switch the old one is there as well, and then nothing is sent. *)
(***************************************************************************)

Field == {"bridge", "token", "details"}
MayBeToken == Tokens \cup {NoToken}
Stage == {"wallet", "receipt", "status", "polling", "asking", "waiting", "shown", "over"}
Transfer ==
  {t \in [stage : Stage, to : MayBeToken, token : MayBeToken, about : SUBSET MayBeToken,
          mined : {"no", "ok", "failed", "processed"}] : t.stage = "over" => t = Over}
LoadType == [side : Side, token : Tokens, at : 1..4, of : MayBeToken, switch : Nat]

UITypeOK ==
  /\ network \in Side
  /\ store \in [Side -> [Field -> MayBeToken]]
  /\ loads \subseteq LoadType /\ \A l \in loads : l.at <= Len(Order[l.side])
  /\ switching \subseteq Nat /\ switches \in Nat
  /\ overlay \in BOOLEAN /\ updating \in BOOLEAN /\ accounts \in Nat
  /\ feeCalls \in Seq(MayBeToken) /\ dialog \subseteq MayBeToken
  /\ transfers \in Seq(Transfer)
  /\ disturbances \in Nat

(* What an action on one transfer may do to all of them: leave each as it  *)
(* is, end it, or move it on with what was sent.                           *)
GoneOn(before, after) ==
  \/ after = before
  \/ after = Over
  \/ /\ before.stage # "over" /\ after.stage # "over"
     /\ after.to = before.to /\ after.token = before.token /\ after.about = before.about
TransfersGoOn ==
  /\ transfers' \in Seq(Transfer) /\ DOMAIN transfers' = DOMAIN transfers
  /\ \A j \in DOMAIN transfers : GoneOn(transfers[j], transfers'[j])

(* What is over is a transfer that is over.                                *)
LEMMA OverIsTransfer == Over \in Transfer /\ Over.stage = "over"
BY DEF Over, Transfer, Stage, MayBeToken

(* One transfer that goes on leaves the others alone,                      *)
LEMMA OneGoesOn ==
  ASSUME transfers \in Seq(Transfer), NEW i \in DOMAIN transfers, NEW r \in Transfer,
         transfers' = [transfers EXCEPT ![i] = r], GoneOn(transfers[i], r)
  PROVE  TransfersGoOn /\ transfers'[i] = r
<1>1. DOMAIN transfers = 1..Len(transfers)
  BY LenProperties
<1>2. transfers' \in Seq(Transfer)
  BY <1>1, ExceptSeq
<1>3. DOMAIN transfers' = DOMAIN transfers /\ transfers'[i] = r
      /\ \A j \in DOMAIN transfers \ {i} : transfers'[j] = transfers[j]
  OBVIOUS
<1>4. \A j \in DOMAIN transfers : GoneOn(transfers[j], transfers'[j])
  BY <1>3 DEF GoneOn
<1> QED BY <1>2, <1>3, <1>4 DEF TransfersGoOn

(* so does one that ends,                                                  *)
LEMMA EndGoesOn ==
  ASSUME transfers \in Seq(Transfer), NEW i \in DOMAIN transfers, End(i)
  PROVE  TransfersGoOn /\ transfers'[i].stage = "over"
<1>1. Over \in Transfer /\ Over.stage = "over"
  BY OverIsTransfer
<1>2. transfers' = [transfers EXCEPT ![i] = Over] /\ GoneOn(transfers[i], Over)
  BY DEF End, GoneOn
<1> QED BY <1>1, <1>2, OneGoesOn

(* one that comes to another stage,                                        *)
LEMMA ToGoesOn ==
  ASSUME transfers \in Seq(Transfer), NEW i \in DOMAIN transfers, transfers[i].stage # "over",
         NEW s \in Stage, s # "over", To(i, s)
  PROVE  TransfersGoOn
<1> DEFINE r == [transfers[i] EXCEPT !.stage = s]
<1>1. transfers[i] \in Transfer
  BY LenProperties
<1>2. r \in Transfer /\ GoneOn(transfers[i], r)
  BY <1>1 DEF Transfer, GoneOn
<1>3. transfers' = [transfers EXCEPT ![i] = r]
  BY DEF To
<1> HIDE DEF r
<1> QED BY <1>2, <1>3, OneGoesOn

(* and one whose transaction is mined or processed.                        *)
LEMMA MinedGoesOn ==
  ASSUME transfers \in Seq(Transfer), NEW i \in DOMAIN transfers, transfers[i].stage # "over",
         NEW m \in {"ok", "failed", "processed"}, transfers' = [transfers EXCEPT ![i].mined = m]
  PROVE  TransfersGoOn
<1> DEFINE r == [transfers[i] EXCEPT !.mined = m]
<1>1. transfers[i] \in Transfer
  BY LenProperties
<1>2. r \in Transfer /\ GoneOn(transfers[i], r)
  BY <1>1 DEF Transfer, GoneOn
<1>3. transfers' = [transfers EXCEPT ![i] = r]
  OBVIOUS
<1> HIDE DEF r
<1> QED BY <1>2, <1>3, OneGoesOn

(* What is only about transfers: it moves them on, and lets the overlay be *)
(* or, for the one that ends, clears it; or it counts as a disturbance.    *)
LEMMA TransferActions ==
  ASSUME UITypeOK, NEW i \in DOMAIN transfers,
         \/ TransactionMined(i) \/ TransferProcessed(i) \/ EstimateFails(i) \/ RejectedByUser(i)
         \/ TransactionHash(i) \/ ErrorAfterHash(i) \/ PollNext(i) \/ WaitFails(i)
  PROVE  /\ UnchangedStores /\ TransfersGoOn
         /\ disturbances' \in Nat
         /\ overlay' \in BOOLEAN
         /\ \/ Disturb
            \/ /\ UNCHANGED disturbances
               /\ \/ UNCHANGED overlay
                  \/ transfers[i].stage # "over" /\ transfers'[i].stage = "over"
<1>0. transfers \in Seq(Transfer) /\ disturbances \in Nat /\ overlay \in BOOLEAN /\ transfers[i] \in Transfer
  BY LenProperties DEF UITypeOK
<1>1. CASE TransactionMined(i)
  BY <1>0, <1>1, MinedGoesOn DEF TransactionMined
<1>2. CASE TransferProcessed(i)
  <2>1. transfers[i].stage # "over"
    BY <1>0, <1>2 DEF TransferProcessed, Transfer, Over
  <2> QED BY <1>0, <1>2, <2>1, MinedGoesOn DEF TransferProcessed
<1>3. CASE EstimateFails(i)
  BY <1>0, <1>3, EndGoesOn DEF EstimateFails
<1>4. CASE RejectedByUser(i)
  BY <1>0, <1>4, EndGoesOn DEF RejectedByUser, At, setLoading
<1>5. CASE TransactionHash(i)
  BY <1>0, <1>5, ToGoesOn DEF TransactionHash, At, Stage
<1>6. CASE ErrorAfterHash(i)
  <2>1. TransfersGoOn
    BY <1>0, <1>6 DEF ErrorAfterHash, TransfersGoOn, GoneOn
  <2>2. Disturb /\ overlay' = FALSE /\ UnchangedStores
    BY <1>6 DEF ErrorAfterHash, setLoading
  <2>3. disturbances' \in Nat
    BY <1>0, <2>2 DEF Disturb
  <2>4. overlay' \in BOOLEAN
    BY <2>2
  <2> QED BY <2>1, <2>2, <2>3, <2>4
<1>7. CASE GetTxReceipt(i)
  BY <1>0, <1>7, ToGoesOn DEF GetTxReceipt, At, Stage
<1>8. CASE GetTxStatus(i)
  <2>1. CASE End(i) /\ setLoading(FALSE)
    BY <1>0, <1>8, <2>1, EndGoesOn DEF GetTxStatus, At, setLoading
  <2>2. CASE UNCHANGED overlay /\ To(i, IF WithoutEvents[otherSide] THEN "polling" ELSE "asking")
    <3>1. TransfersGoOn
      BY <1>0, <1>8, <2>2, ToGoesOn DEF GetTxStatus, At, Stage
    <3> QED BY <1>0, <1>8, <2>2, <3>1 DEF GetTxStatus
  <2> QED BY <1>8, <2>1, <2>2 DEF GetTxStatus
<1>9. CASE WaitUntilProcessed(i)
  BY <1>0, <1>9, ToGoesOn DEF WaitUntilProcessed, At, Stage
<1>10. CASE WaitFails(i)
  BY <1>0, <1>10, EndGoesOn DEF WaitFails, At, Disturb
<1>11. CASE GetEvents(i)
  <2>1. PICK found \in SUBSET {j \in DOMAIN transfers : transfers[j].stage \in {"asking", "waiting"}} :
          transfers' = [j \in DOMAIN transfers |->
             IF j \in found THEN [transfers[j] EXCEPT !.stage = "shown"]
             ELSE IF j = i THEN [transfers[j] EXCEPT !.stage = "waiting"] ELSE transfers[j]]
    BY <1>11 DEF GetEvents
  <2>2. transfers[i].stage = "asking"
    BY <1>11 DEF GetEvents, At
  <2>3. ASSUME NEW j \in DOMAIN transfers
        PROVE  transfers'[j] \in Transfer /\ GoneOn(transfers[j], transfers'[j])
    <3>1. transfers[j] \in Transfer
      BY <1>0, LenProperties
    <3>2. CASE j \in found
      <4>1. transfers'[j] = [transfers[j] EXCEPT !.stage = "shown"] /\ transfers[j].stage # "over"
        BY <2>1, <3>2
      <4> QED BY <3>1, <4>1 DEF Transfer, Stage, GoneOn
    <3>3. CASE j \notin found /\ j = i
      <4>1. transfers'[j] = [transfers[j] EXCEPT !.stage = "waiting"]
        BY <2>1, <3>3
      <4> QED BY <2>2, <3>1, <3>3, <4>1 DEF Transfer, Stage, GoneOn
    <3>4. CASE j \notin found /\ j # i
      BY <2>1, <3>1, <3>4 DEF GoneOn
    <3> QED BY <3>2, <3>3, <3>4
  <2>4. DOMAIN transfers' = DOMAIN transfers
    BY <2>1
  <2>5. transfers' \in Seq(Transfer)
    <3>1. DOMAIN transfers = 1..Len(transfers) /\ Len(transfers) \in Nat
      BY <1>0, LenProperties
    <3>2. transfers' \in [1..Len(transfers) -> Transfer]
      BY <2>1, <2>3, <3>1
    <3> QED BY <3>1, <3>2, SeqDef
  <2> QED BY <1>0, <1>11, <2>3, <2>4, <2>5 DEF TransfersGoOn, GetEvents
<1>12. CASE Completed(i)
  BY <1>0, <1>12, EndGoesOn DEF Completed, At, setLoading
<1> QED BY <1>1, <1>2, <1>3, <1>4, <1>5, <1>6, <1>7, <1>8, <1>9, <1>10, <1>11, <1>12 DEF PollNext

-----------------------------------------------------------------------------
(* The places of the awaits, by side.                                      *)
LEMMA Places ==
  /\ Len(Order["home"]) = 3 /\ Len(Order["foreign"]) = 4
  /\ Order["home"][1] = "bridge" /\ Order["home"][2] = "token" /\ Order["home"][3] = "details"
  /\ Order["foreign"][1] = "bridge" /\ Order["foreign"][2] = "block"
  /\ Order["foreign"][3] = "token" /\ Order["foreign"][4] = "details"
BY DEF Order

(* On either side.                                                         *)
LEMMA PlacesAre ==
  ASSUME NEW s \in Side
  PROVE  /\ Len(Order[s]) \in {3, 4}
         /\ \A k \in 1..4 : k <= Len(Order[s]) => Order[s][k] \in Field \cup {"block"}
<1>1. CASE s = "home"
  <2>1. Len(Order[s]) = 3
    BY <1>1, Places
  <2>2. ASSUME NEW k \in 1..4, k <= Len(Order[s])
        PROVE  Order[s][k] \in Field \cup {"block"}
    <3>1. k \in {1, 2, 3}
      BY <2>1, <2>2
    <3> QED BY <1>1, <3>1, Places DEF Field
  <2> QED BY <2>1, <2>2
<1>2. CASE s = "foreign"
  <2>1. Len(Order[s]) = 4
    BY <1>2, Places
  <2>2. ASSUME NEW k \in 1..4
        PROVE  Order[s][k] \in Field \cup {"block"}
    BY <1>2, Places DEF Field
  <2> QED BY <2>1, <2>2
<1> QED BY <1>1, <1>2 DEF Side

(* What the next call reads is a token or nothing yet.                     *)
LEMMA ContinueType ==
  ASSUME NEW l \in LoadType, NEW stored \in [Side -> [Field -> MayBeToken]],
         NEW at \in 1..5, UITypeOK, l \in loads, Continue(l, stored, at)
  PROVE  loads' \subseteq LoadType /\ \A m \in loads' : m.at <= Len(Order[m.side])
<1>1. CASE at > Len(Order[l.side])
  BY <1>1 DEF Continue, UITypeOK
<1>2. CASE ~(at > Len(Order[l.side]))
  <2> DEFINE of == Reads(stored, l.side, Order[l.side][at])
             m == [l EXCEPT !.at = at, !.of = of]
  <2>1. l.side \in Side /\ Len(Order[l.side]) \in {3, 4}
    BY Places DEF LoadType, Side
  <2>2. at \in 1..4 /\ at <= Len(Order[l.side])
    <3> DEFINE n == Len(Order[l.side])
    <3>1. n \in {3, 4} /\ ~(at > n)
      BY <1>2, <2>1
    <3> HIDE DEF n
    <3>2. at \in 1..4 /\ at <= n
      BY <3>1
    <3> QED BY <3>2 DEF n
  <2>3. of \in MayBeToken
    BY <2>1 DEF Reads, Field
  <2> HIDE DEF of
  <2>4. m \in LoadType /\ m.at = at /\ m.side = l.side
    BY <2>2, <2>3 DEF LoadType
  <2>5. loads' = (loads \ {l}) \cup {m}
    BY <1>2 DEF Continue, of
  <2> QED BY <2>2, <2>4, <2>5 DEF UITypeOK
<1> QED BY <1>1, <1>2

(* A sequence without one of its members.                                  *)
LEMMA WithoutOne ==
  ASSUME NEW S, NEW q \in Seq(S), NEW i \in DOMAIN q
  PROVE  SubSeq(q, 1, i - 1) \o SubSeq(q, i + 1, Len(q)) \in Seq(S)
<1>1. i \in 1..Len(q) /\ Len(q) \in Nat /\ \A j \in 1..Len(q) : q[j] \in S
  BY LenProperties
<1>2. SubSeq(q, 1, i - 1) \in Seq(S)
  <2>1. \A j \in 1..(i - 1) : q[j] \in S
    BY <1>1
  <2> QED BY <1>1, <2>1, SubSeqProperties
<1>3. SubSeq(q, i + 1, Len(q)) \in Seq(S)
  <2>1. \A j \in (i + 1)..Len(q) : q[j] \in S
    BY <1>1
  <2> QED BY <1>1, <2>1, SubSeqProperties
<1> QED BY <1>2, <1>3, ConcatProperties

(* What is sent, if anything is, is one transfer more.                     *)
LEMMA ConfirmSends ==
  ASSUME UITypeOK, SendToHome \/ SendToForeign
  PROVE  \/ UNCHANGED transfers /\ transfers' \in Seq(Transfer)
         \/ /\ network = "foreign" => store["foreign"].token # NoToken
            /\ transfers' \in Seq(Transfer) /\ Len(transfers') = Len(transfers) + 1
            /\ \A i \in 1..Len(transfers) : transfers'[i] = transfers[i]
            /\ transfers'[Len(transfers) + 1].to = store[network].bridge
            /\ transfers'[Len(transfers) + 1].token = store[network].token
            /\ transfers'[Len(transfers) + 1].about = (dialog \cup {store[network].details}) \ {NoToken}
<1>1. \/ UNCHANGED transfers
      \/ Sent(store[network]) /\ (network = "foreign" => store["foreign"].token # NoToken)
  BY DEF SendToHome, SendToForeign
<1>2. CASE Sent(store[network]) /\ (network = "foreign" => store["foreign"].token # NoToken)
  <2> DEFINE t == [stage |-> "wallet", to |-> store[network].bridge, token |-> store[network].token,
                   about |-> (dialog \cup {store[network].details}) \ {NoToken}, mined |-> "no"]
  <2>1. t \in Transfer
    BY DEF UITypeOK, Transfer, Stage, Field
  <2>2. transfers' = Append(transfers, t) /\ transfers \in Seq(Transfer)
    BY <1>2 DEF Sent, UITypeOK
  <2>3. /\ t.to = store[network].bridge /\ t.token = store[network].token
        /\ t.about = (dialog \cup {store[network].details}) \ {NoToken}
    OBVIOUS
  <2> HIDE DEF t
  <2> QED BY <1>2, <2>1, <2>2, <2>3, AppendProperties
<1> QED BY <1>1, <1>2 DEF UITypeOK

(* The page opens with all of its types.                                   *)
LEMMA UITypeInit == ASSUME TransferUIAssumption, TransferUIInit PROVE UITypeOK
<1>1. store \in [Side -> [Field -> MayBeToken]]
  BY DEF TransferUIInit, Field, MayBeToken, Side
<1>2. loads \subseteq LoadType /\ \A l \in loads : l.at <= Len(Order[l.side])
  BY Places DEF TransferUIInit, TransferUIAssumption, Load, LoadType, MayBeToken, NoSwitch, Side
<1>3. transfers \in Seq(Transfer) /\ feeCalls \in Seq(MayBeToken)
  BY EmptySeq DEF TransferUIInit
<1> QED BY <1>1, <1>2, <1>3 DEF TransferUIInit, UITypeOK, NoDialog

(* A step on the stores, of the wallet or of the dialog keeps the types.   *)
LEMMA UITypeStep ==
  ASSUME TransferUIAssumption, UITypeOK, [TransferUINext]_uiVars PROVE UITypeOK'
<1> USE DEF UITypeOK
<1>1. ASSUME NEW l \in loads, Loaded(l) PROVE UITypeOK'
  <2>1. l \in LoadType /\ l.side \in Side /\ l.at \in 1..4 /\ l.of \in MayBeToken /\ l.at <= Len(Order[l.side])
    BY DEF LoadType
  <2>2. Order[l.side][l.at] \in Field \cup {"block"}
    BY <2>1, PlacesAre DEF Field
  <2>3. store' \in [Side -> [Field -> MayBeToken]]
    BY <1>1, <2>1, <2>2 DEF Loaded
  <2>4. Continue(l, store', l.at + 1) /\ l.at + 1 \in 1..5
    BY <1>1, <2>1 DEF Loaded
  <2>5. loads' \subseteq LoadType /\ \A m \in loads' : m.at <= Len(Order[m.side])
    <3> HIDE DEF UITypeOK
    <3> QED BY <2>1, <2>3, <2>4, ContinueType
  <2> QED BY <1>1, <2>3, <2>5 DEF Loaded, accountVars, dialogVars
<1>2. ASSUME NEW l \in loads, LoadFails(l) PROVE UITypeOK'
  <2>1. l \in LoadType /\ l.side \in Side /\ l.at \in 1..4 /\ l.at <= Len(Order[l.side])
    BY DEF LoadType
  <2>2. l.at + 1 \in 1..5 /\ Len(Order[l.side]) + 1 \in 1..5
    <3> DEFINE n == Len(Order[l.side])
    <3>1. n \in {3, 4}
      BY <2>1, PlacesAre
    <3> HIDE DEF n
    <3>2. l.at + 1 \in 1..5 /\ n + 1 \in 1..5
      BY <2>1, <3>1
    <3> QED BY <3>2 DEF n
  <2>3. \/ loads' = loads \ {l} /\ switching' = switching \ {l.switch}
        \/ Continue(l, store, l.at + 1) /\ UNCHANGED switching
        \/ Continue(l, store, Len(Order[l.side]) + 1) /\ UNCHANGED switching
    BY <1>2 DEF LoadFails
  <2>4. loads' \subseteq LoadType /\ \A m \in loads' : m.at <= Len(Order[m.side])
    <3>1. store \in [Side -> [Field -> MayBeToken]]
      OBVIOUS
    <3>2. loads' = loads \ {l} => loads' \subseteq LoadType /\ \A m \in loads' : m.at <= Len(Order[m.side])
      OBVIOUS
    <3> HIDE DEF UITypeOK
    <3> QED BY <2>1, <2>2, <2>3, <3>1, <3>2, ContinueType
  <2>5. switching' \subseteq Nat
    BY <2>3
  <2>6. disturbances' \in Nat
    BY <1>2 DEF LoadFails, Disturb
  <2> QED BY <1>2, <2>4, <2>5, <2>6 DEF LoadFails, accountVars, dialogVars
<1>3. ASSUME NEW t \in Tokens, SwitchToken(t) PROVE UITypeOK'
  <2>1. switches' \in Nat /\ switching' \subseteq Nat /\ overlay' \in BOOLEAN
    BY <1>3 DEF SwitchToken, setLoading
  <2>2. \A s \in Side : Load(s, t, switches') \in LoadType /\ Load(s, t, switches').at <= Len(Order[s])
                        /\ Load(s, t, switches').side = s
    BY <2>1, Places DEF Load, LoadType, MayBeToken, Side
  <2>3. loads' = loads \cup {Load(s, t, switches') : s \in Side}
    BY <1>3 DEF SwitchToken
  <2>4. loads' \subseteq LoadType /\ \A m \in loads' : m.at <= Len(Order[m.side])
    BY <2>2, <2>3
  <2>5. disturbances' \in Nat
    BY <1>3 DEF SwitchToken, Hurried, Disturb
  <2> QED BY <1>3, <2>1, <2>4, <2>5 DEF SwitchToken, accountVars, dialogVars
<1>4. ASSUME NEW n \in switching, SetNewToken(n) PROVE UITypeOK'
  BY <1>4 DEF SetNewToken, setLoading, accountVars, dialogVars
<1>5. CASE AccountChanged
  BY <1>5 DEF AccountChanged, setLoading, storeVars, dialogVars
<1>6. CASE AccountUpdated
  <2>1. disturbances' \in Nat
    <3>1. disturbances' = disturbances \/ disturbances' = disturbances + 1
      BY <1>6 DEF AccountUpdated, Disturb
    <3> QED BY <3>1
  <2>2. overlay' \in BOOLEAN
    <3>1. overlay' = FALSE \/ overlay' = overlay
      BY <1>6 DEF AccountUpdated, setLoading
    <3> QED BY <3>1
  <2> QED BY <1>6, <2>1, <2>2 DEF AccountUpdated, storeVars, dialogVars
<1>7. CASE OnTransfer
  <2>1. PICK b \in FeeQuery : feeCalls' = Append(feeCalls, b)
    BY <1>7 DEF OnTransfer
  <2>2. b \in MayBeToken
    BY <2>1 DEF FeeQuery, Side, Field
  <2>3. feeCalls' \in Seq(MayBeToken)
    BY <2>1, <2>2, AppendProperties
  <2> QED BY <1>7, <2>3 DEF OnTransfer, storeVars, accountVars
<1>8. ASSUME NEW i \in DOMAIN feeCalls, FeeAnswered(i) \/ NoConfirmation(i) PROVE UITypeOK'
  <2>1. feeCalls' \in Seq(MayBeToken)
    <3>1. feeCalls \in Seq(MayBeToken)
      OBVIOUS
    <3> QED BY <1>8, <3>1, WithoutOne DEF FeeAnswered, NoConfirmation, Answered
  <2>2. feeCalls[i] \in MayBeToken
    BY LenProperties
  <2>3. dialog' \subseteq MayBeToken
    BY <1>8, <2>2 DEF FeeAnswered, NoConfirmation, Side, Field
  <2> QED BY <1>8, <2>1, <2>3 DEF FeeAnswered, NoConfirmation, storeVars, accountVars
<1>9. CASE CloseDialog
  BY <1>9 DEF CloseDialog, storeVars, accountVars, NoDialog
<1>10. CASE Confirm
  <2>1. transfers' \in Seq(Transfer)
    BY <1>10, ConfirmSends DEF Confirm
  <2>2. disturbances' \in Nat
    BY <1>10 DEF Confirm, Hurried, Disturb
  <2> QED BY <1>10, <2>1, <2>2 DEF Confirm, storeVars, accountVars, NoDialog, setLoading
<1>11. ASSUME NEW i \in DOMAIN transfers,
              \/ TransactionMined(i) \/ TransferProcessed(i) \/ EstimateFails(i) \/ RejectedByUser(i)
              \/ TransactionHash(i) \/ ErrorAfterHash(i) \/ PollNext(i) \/ WaitFails(i)
       PROVE  UITypeOK'
  <2>1. /\ UnchangedStores /\ transfers' \in Seq(Transfer)
        /\ disturbances' \in Nat /\ overlay' \in BOOLEAN
    BY <1>11, TransferActions DEF TransfersGoOn
  <2> QED BY <2>1 DEF UnchangedStores, storeVars, accountVars, dialogVars
<1>12. CASE UNCHANGED uiVars
  BY <1>12 DEF uiVars, storeVars, accountVars, dialogVars
<1> HIDE DEF UITypeOK
<1> QED BY <1>1, <1>2, <1>3, <1>4, <1>5, <1>6, <1>7, <1>8, <1>9, <1>10, <1>11, <1>12
     DEF TransferUINext, LoadNext, SwitchNext, ChainNext, WalletNext

-----------------------------------------------------------------------------
(* What an undisturbed page keeps.  One thing is under way, under the      *)
(* overlay; all that waits, is stored or shown is about one token t, which *)
(* a switch changes; and what was sent belongs together.                   *)
OneUnderWay ==
  /\ ~overlay => Active = {} /\ switching = {} /\ ~updating
  /\ updating => Active = {} /\ switching = {}
  /\ switching # {} => Active = {}
  /\ \A i, j \in Active : i = j
  /\ \A m, n \in switching : m = n

SentTogether(t) == {t.to} \cup t.about \subseteq {t.token}

(* Nothing that goes on disturbs what was not disturbed.                   *)
LEMMA Undisturbed ==
  ASSUME UITypeOK, undisturbed', Disturb \/ UNCHANGED disturbances
  PROVE  undisturbed /\ UNCHANGED disturbances /\ ~Disturb
<1>1. disturbances \in Nat /\ disturbances' = 0
  BY DEF UITypeOK, undisturbed
<1>2. ~Disturb
  BY <1>1 DEF Disturb
<1> QED BY <1>1, <1>2 DEF undisturbed

(* Every step either disturbs or leaves the count alone.                   *)
LEMMA DisturbsOrNot ==
  ASSUME UITypeOK, [TransferUINext]_uiVars
  PROVE  Disturb \/ UNCHANGED disturbances
<1>1. ASSUME NEW i \in DOMAIN transfers,
              \/ TransactionMined(i) \/ TransferProcessed(i) \/ EstimateFails(i) \/ RejectedByUser(i)
              \/ TransactionHash(i) \/ ErrorAfterHash(i) \/ PollNext(i) \/ WaitFails(i)
      PROVE  Disturb \/ UNCHANGED disturbances
  BY <1>1, TransferActions
<1>2. CASE LoadNext
  BY <1>2 DEF LoadNext, Loaded, LoadFails
<1>3. CASE SwitchNext
  BY <1>3 DEF SwitchNext, SwitchToken, SetNewToken, Hurried
<1>4. CASE AccountChanged \/ AccountUpdated
  BY <1>4 DEF AccountChanged, AccountUpdated
<1>5. CASE OnTransfer \/ CloseDialog \/ Confirm
  BY <1>5 DEF OnTransfer, CloseDialog, Confirm, Hurried
<1>6. ASSUME NEW i \in DOMAIN feeCalls, FeeAnswered(i) \/ NoConfirmation(i)
      PROVE  Disturb \/ UNCHANGED disturbances
  BY <1>6 DEF FeeAnswered, NoConfirmation
<1>7. CASE UNCHANGED uiVars
  BY <1>7 DEF uiVars
<1> QED BY <1>1, <1>2, <1>3, <1>4, <1>5, <1>6, <1>7 DEF TransferUINext, ChainNext, WalletNext

(* No transfer that is over begins again.                                  *)
LEMMA ActiveShrinks ==
  ASSUME TransfersGoOn
  PROVE  /\ Active' \subseteq Active
         /\ \A i \in DOMAIN transfers : transfers'[i].stage = "over" => i \notin Active'
BY OverIsTransfer DEF TransfersGoOn, GoneOn, Active

(* One thing stays under way, whoever clears the overlay.                  *)
LEMMA AloneStep ==
  ASSUME UITypeOK, OneUnderWay, undisturbed, undisturbed', [TransferUINext]_uiVars
  PROVE  OneUnderWay'
<1>0. ~Disturb /\ UNCHANGED disturbances
  BY DisturbsOrNot, Undisturbed
<1>1. ASSUME UNCHANGED <<overlay, transfers, switching, updating>>
      PROVE  OneUnderWay'
  BY <1>1 DEF OneUnderWay, Active
<1>2. ASSUME NEW l \in loads, Loaded(l) \/ LoadFails(l) PROVE OneUnderWay'
  BY <1>0, <1>1, <1>2 DEF Loaded, LoadFails, accountVars
<1>3. ASSUME NEW t \in Tokens, SwitchToken(t) PROVE OneUnderWay'
  <2>1. ~overlay /\ overlay' = TRUE /\ switching' = switching \cup {switches'}
        /\ UNCHANGED <<transfers, updating>>
    BY <1>3 DEF SwitchToken, setLoading, accountVars
  <2> QED BY <2>1 DEF OneUnderWay, Active
<1>4. ASSUME NEW n \in switching, SetNewToken(n) PROVE OneUnderWay'
  <2>1. overlay' = FALSE /\ switching' = switching \ {n} /\ UNCHANGED <<transfers, updating>>
    BY <1>4 DEF SetNewToken, setLoading, accountVars
  <2> QED BY <2>1 DEF OneUnderWay, Active
<1>5. CASE AccountChanged
  <2>1. ~overlay /\ overlay' = TRUE /\ updating' = TRUE /\ UNCHANGED <<transfers, switching>>
    BY <1>5 DEF AccountChanged, setLoading, storeVars
  <2> QED BY <2>1 DEF OneUnderWay, Active
<1>6. CASE AccountUpdated
  <2>1. updating /\ updating' = FALSE /\ UNCHANGED <<transfers, switching>>
    BY <1>6 DEF AccountUpdated, storeVars
  <2> QED BY <2>1 DEF OneUnderWay, Active
<1>7. CASE OnTransfer \/ CloseDialog
  BY <1>1, <1>7 DEF OnTransfer, CloseDialog, storeVars, accountVars
<1>8. ASSUME NEW i \in DOMAIN feeCalls, FeeAnswered(i) \/ NoConfirmation(i) PROVE OneUnderWay'
  BY <1>1, <1>8 DEF FeeAnswered, NoConfirmation, storeVars, accountVars
<1>9. CASE Confirm
  <2>1. ~overlay /\ overlay' = TRUE /\ UNCHANGED <<switching, updating>>
    BY <1>0, <1>9 DEF Confirm, Hurried, setLoading, storeVars, accountVars
  <2>2. Active = {} /\ switching = {} /\ ~updating
    BY <2>1 DEF OneUnderWay
  <2>3. \A i, j \in Active' : i = j
    <3>1. CASE UNCHANGED transfers
      BY <2>2, <3>1 DEF Active
    <3>2. CASE /\ transfers' \in Seq(Transfer) /\ Len(transfers') = Len(transfers) + 1
               /\ \A i \in 1..Len(transfers) : transfers'[i] = transfers[i]
      <4>1. DOMAIN transfers = 1..Len(transfers) /\ Len(transfers) \in Nat
        BY LenProperties DEF UITypeOK
      <4>2. DOMAIN transfers' = 1..(Len(transfers) + 1)
        BY <3>2, LenProperties
      <4>3. \A i \in Active' : i = Len(transfers) + 1
        BY <2>2, <3>2, <4>1, <4>2 DEF Active
      <4> QED BY <4>3
    <3> QED BY <1>9, <3>1, <3>2, ConfirmSends DEF Confirm
  <2> QED BY <2>1, <2>2, <2>3 DEF OneUnderWay
<1>10. ASSUME NEW i \in DOMAIN transfers,
              \/ TransactionMined(i) \/ TransferProcessed(i) \/ EstimateFails(i) \/ RejectedByUser(i)
              \/ TransactionHash(i) \/ ErrorAfterHash(i) \/ PollNext(i) \/ WaitFails(i)
       PROVE  OneUnderWay'
  <2>1. /\ UnchangedStores /\ TransfersGoOn
        /\ UNCHANGED overlay \/ (transfers[i].stage # "over" /\ transfers'[i].stage = "over")
    BY <1>0, <1>10, TransferActions
  <2>2. UNCHANGED <<switching, updating>>
    BY <2>1 DEF UnchangedStores, storeVars, accountVars
  <2>3. Active' \subseteq Active
    BY <2>1, ActiveShrinks
  <2>4. CASE UNCHANGED overlay
    BY <2>2, <2>3, <2>4 DEF OneUnderWay
  <2>5. CASE transfers[i].stage # "over" /\ transfers'[i].stage = "over"
    <3>1. i \in Active /\ i \notin Active'
      BY <2>1, <2>5, ActiveShrinks DEF Active
    <3>2. Active' = {} /\ switching = {} /\ ~updating
      BY <2>3, <3>1 DEF OneUnderWay
    <3> QED BY <2>2, <3>2 DEF OneUnderWay
  <2> QED BY <2>1, <2>4, <2>5
<1>11. CASE UNCHANGED uiVars
  BY <1>1, <1>11 DEF uiVars, storeVars, accountVars
<1> QED BY <1>2, <1>3, <1>4, <1>5, <1>6, <1>7, <1>8, <1>9, <1>10, <1>11
     DEF TransferUINext, LoadNext, SwitchNext, ChainNext, WalletNext

-----------------------------------------------------------------------------
(* What a load that is at a place has stored before.                       *)
Done(s, at) == {f \in Field : \E k \in 1..(at - 1) : Order[s][k] = f}

StoredIsOf(t) ==
  /\ \A l \in loads :
       /\ l.token = t /\ (Order[l.side][l.at] # "block" => l.of = t)
       /\ \A f \in Done(l.side, l.at) : store[l.side][f] = t
       /\ \A n \in switching : l.switch = n
  /\ \A s \in Side : (\A l \in loads : l.side # s) => \A f \in Field : store[s][f] = t
  /\ switching = {} =>
       \A s \in Side :
         /\ \A f \in Field : store[s][f] \in {t, NoToken}
         /\ store[s].token # NoToken => store[s].bridge = t
ShownIsOf(t) ==
  /\ switching # {} => dialog = {} /\ feeCalls = <<>>
  /\ dialog \subseteq {t} /\ feeCalls \in Seq({t})
  /\ dialog # {} \/ feeCalls # <<>> => store["home"].token = t
OneToken(t) == StoredIsOf(t) /\ ShownIsOf(t)

UndisturbedInv ==
  undisturbed => /\ OneUnderWay /\ (\E t \in Tokens : OneToken(t))
                 /\ \A i \in DOMAIN transfers : SentTogether(transfers[i])
UIInv == UITypeOK /\ UndisturbedInv

(* What is done at each place: what the next call reads, and after the last*)
(* one everything.                                                         *)
LEMMA DoneFirst == \A s \in Side : Done(s, 1) = {} /\ Order[s][1] = "bridge"
BY Places DEF Done, Side

(* One more with each place.                                               *)
LEMMA DoneNext ==
  ASSUME NEW s \in Side, NEW at \in 1..4, at <= Len(Order[s])
  PROVE  /\ Done(s, at + 1) = Done(s, at) \cup ({Order[s][at]} \cap Field)
         /\ Order[s][at] = "token" => "bridge" \in Done(s, at)
         /\ Order[s][at] = "details" => "token" \in Done(s, at)
         /\ Order[s][at] = "bridge" => at = 1
         /\ at + 1 > Len(Order[s]) => Done(s, at + 1) = Field
<1>1. 1..(at + 1 - 1) = (1..(at - 1)) \cup {at}
  OBVIOUS
<1>2. Done(s, at + 1) = Done(s, at) \cup ({Order[s][at]} \cap Field)
  BY <1>1 DEF Done
<1>3. CASE s = "home"
  <2>1. at \in {1, 2, 3}
    BY <1>3, Places
  <2>2. 1..(1 - 1) = {} /\ 1..(2 - 1) = {1} /\ 1..(3 - 1) = {1, 2} /\ 1..(4 - 1) = {1, 2, 3}
    OBVIOUS
  <2>3. /\ Done(s, 2) = {"bridge"} /\ Done(s, 3) = {"bridge", "token"} /\ Done(s, 4) = Field
    BY <1>3, <2>2, Places DEF Done, Field
  <2> QED BY <1>2, <1>3, <2>1, <2>3, Places
<1>4. CASE s = "foreign"
  <2>2. /\ 1..(1 - 1) = {} /\ 1..(2 - 1) = {1} /\ 1..(3 - 1) = {1, 2}
        /\ 1..(4 - 1) = {1, 2, 3} /\ 1..(5 - 1) = {1, 2, 3, 4}
    OBVIOUS
  <2>3. /\ Done(s, 3) = {"bridge"} /\ Done(s, 4) = {"bridge", "token"} /\ Done(s, 5) = Field
    BY <1>4, <2>2, Places DEF Done, Field
  <2> QED BY <1>2, <1>4, <2>3, Places
<1> QED BY <1>2, <1>3, <1>4 DEF Side

(* A call that is answered stores the one token, and the next one reads it.*)
LEMMA LoadedKeeps ==
  ASSUME UITypeOK, NEW t \in Tokens, OneToken(t), NEW l \in loads, Loaded(l)
  PROVE  OneToken(t)'
<1> DEFINE s == l.side
           what == Order[s][l.at]
<1>0. /\ l \in LoadType /\ s \in Side /\ l.at \in 1..4 /\ l.at <= Len(Order[s])
      /\ store \in [Side -> [Field -> MayBeToken]]
  BY DEF UITypeOK, LoadType
<1>1. /\ store' = IF what = "block" THEN store ELSE [store EXCEPT ![s][what] = l.of]
      /\ Continue(l, store', l.at + 1)
      /\ UNCHANGED <<switching, dialog, feeCalls>>
  BY DEF Loaded, dialogVars
<1>2. what \in Field \cup {"block"}
  BY <1>0, PlacesAre
<1>3. /\ l.token = t /\ (what # "block" => l.of = t)
      /\ \A f \in Done(s, l.at) : store[s][f] = t
      /\ \A n \in switching : l.switch = n
  BY DEF OneToken, StoredIsOf, ShownIsOf
<1>4. /\ \A r \in Side, f \in Field : store'[r][f] = store[r][f] \/ store'[r][f] = t
      /\ \A r \in Side, f \in Field : r # s \/ f # what => store'[r][f] = store[r][f]
      /\ what # "block" => store'[s][what] = t
  <2>1. CASE what = "block"
    BY <1>1, <2>1
  <2>2. CASE what # "block"
    <3>1. store' = [store EXCEPT ![s][what] = t] /\ what \in Field
      BY <1>1, <1>2, <1>3, <2>2
    <3> HIDE DEF s, what
    <3> QED BY <1>0, <3>1
  <2> QED BY <2>1, <2>2
<1>5. /\ Done(s, l.at + 1) = Done(s, l.at) \cup ({what} \cap Field)
      /\ what = "token" => "bridge" \in Done(s, l.at)
      /\ l.at + 1 > Len(Order[s]) => Done(s, l.at + 1) = Field
  BY <1>0, DoneNext
<1>6. \A f \in Done(s, l.at + 1) : store'[s][f] = t
  <2> SUFFICES ASSUME NEW f \in Done(s, l.at + 1) PROVE store'[s][f] = t
    OBVIOUS
  <2>1. f \in Field
    BY DEF Done
  <2>2. CASE f \in Done(s, l.at)
    BY <1>0, <1>3, <1>4, <2>1, <2>2
  <2>3. CASE f = what
    BY <1>4, <2>1, <2>3 DEF Field
  <2> QED BY <1>5, <2>2, <2>3
<1>7. Done(s, l.at) \subseteq Field /\ \A r \in loads : Done(r.side, r.at) \subseteq Field /\ r.side \in Side
  BY DEF Done, UITypeOK, LoadType
<1>8. ASSUME NEW r \in loads
      PROVE  /\ r.token = t /\ (Order[r.side][r.at] # "block" => r.of = t)
             /\ \A f \in Done(r.side, r.at) : store'[r.side][f] = t
             /\ \A n \in switching' : r.switch = n
  <2>1. /\ r.token = t /\ (Order[r.side][r.at] # "block" => r.of = t)
        /\ \A f \in Done(r.side, r.at) : store[r.side][f] = t
        /\ \A n \in switching : r.switch = n
    BY DEF OneToken, StoredIsOf, ShownIsOf
  <2>2. Done(r.side, r.at) \subseteq Field /\ r.side \in Side
    BY <1>7
  <2>3. \A f \in Done(r.side, r.at) : store'[r.side][f] = t
    BY <1>4, <2>1, <2>2
  <2> QED BY <1>1, <2>1, <2>3
<1>9. switching' = {} =>
        \A r \in Side :
          /\ \A f \in Field : store'[r][f] \in {t, NoToken}
          /\ store'[r].token # NoToken => store'[r].bridge = t
  <2> SUFFICES ASSUME switching = {}, NEW r \in Side
               PROVE  /\ \A f \in Field : store'[r][f] \in {t, NoToken}
                      /\ store'[r].token # NoToken => store'[r].bridge = t
    BY <1>1
  <2>1. /\ \A f \in Field : store[r][f] \in {t, NoToken}
        /\ store[r].token # NoToken => store[r].bridge = t
    BY DEF OneToken, StoredIsOf, ShownIsOf
  <2>2. \A f \in Field : store'[r][f] \in {t, NoToken}
    BY <1>4, <2>1
  <2>3. ASSUME store'[r].token # NoToken PROVE store'[r].bridge = t
    <3>1. CASE r = s /\ what = "token"
      <4>1. "bridge" \in Done(s, l.at) /\ "bridge" \in Done(s, l.at + 1)
        BY <1>5, <3>1
      <4> QED BY <1>6, <3>1, <4>1
    <3>2. CASE r # s \/ what # "token"
      <4>1. store'[r]["token"] = store[r]["token"] /\ (store'[r]["bridge"] = store[r]["bridge"] \/ store'[r]["bridge"] = t)
        BY <1>4, <3>2 DEF Field
      <4> QED BY <2>1, <2>3, <4>1
    <3> QED BY <3>1, <3>2
  <2> QED BY <2>2, <2>3
<1>10. /\ switching' # {} => dialog' = {} /\ feeCalls' = <<>>
       /\ dialog' \subseteq {t} /\ feeCalls' \in Seq({t})
       /\ dialog' # {} \/ feeCalls' # <<>> => store'["home"].token = t
  <2>1. store["home"]["token"] = t => store'["home"]["token"] = t
    BY <1>4 DEF Side, Field
  <2> QED BY <1>1, <2>1 DEF OneToken, StoredIsOf, ShownIsOf
<1>11. CASE l.at + 1 > Len(Order[s])
  <2>1. loads' = loads \ {l}
    BY <1>1, <1>11 DEF Continue
  <2>2. ASSUME NEW r \in Side, \A m \in loads' : m.side # r, NEW f \in Field
        PROVE  store'[r][f] = t
    <3>1. CASE r = s
      BY <1>5, <1>6, <1>11, <3>1
    <3>2. CASE r # s
      <4>1. \A m \in loads : m.side # r
        BY <2>1, <2>2, <3>2
      <4>2. store[r][f] = t
        BY <4>1 DEF OneToken, StoredIsOf, ShownIsOf
      <4> QED BY <1>4, <4>2
    <3> QED BY <3>1, <3>2
  <2>3. \A r \in loads' : r \in loads
    BY <2>1
  <2> HIDE DEF s, what
  <2> QED BY <1>8, <1>9, <1>10, <2>2, <2>3 DEF OneToken, StoredIsOf, ShownIsOf
<1>12. CASE ~(l.at + 1 > Len(Order[s]))
  <2> DEFINE of == Reads(store', s, Order[s][l.at + 1])
             m == [l EXCEPT !.at = l.at + 1, !.of = of]
  <2>1. loads' = (loads \ {l}) \cup {m}
    BY <1>1, <1>12 DEF Continue
  <2>2. l.at + 1 \in 1..4 /\ l.at + 1 <= Len(Order[s]) /\ l.at + 1 # 1
    <3> DEFINE n == Len(Order[s])
    <3>1. n \in {3, 4}
      BY <1>0, PlacesAre
    <3> HIDE DEF n
    <3>2. l.at + 1 \in 1..4 /\ l.at + 1 <= n /\ l.at + 1 # 1
      <4>1. ~(l.at + 1 > n)
        BY <1>12 DEF n
      <4> QED BY <1>0, <3>1, <4>1
    <3> QED BY <3>2 DEF n
  <2>3. ASSUME Order[s][l.at + 1] # "block" PROVE of = t
    <3>1. Order[s][l.at + 1] \in {"token", "details"}
      BY <1>0, <2>2, <2>3, PlacesAre, DoneNext DEF Field
    <3>2. CASE Order[s][l.at + 1] = "token"
      <4>1. "bridge" \in Done(s, l.at + 1)
        BY <1>0, <2>2, <3>2, DoneNext
      <4> QED BY <1>6, <3>2, <4>1 DEF Reads
    <3>3. CASE Order[s][l.at + 1] = "details"
      <4>1. "token" \in Done(s, l.at + 1)
        BY <1>0, <2>2, <3>3, DoneNext
      <4> QED BY <1>6, <3>3, <4>1 DEF Reads
    <3> QED BY <3>1, <3>2, <3>3
  <2> HIDE DEF of
  <2>4. /\ m.token = t /\ m.side = s /\ m.at = l.at + 1 /\ m.of = of /\ m.switch = l.switch
    BY <1>0, <1>3 DEF LoadType
  <2> HIDE DEF m, s, what
  <2>5. ASSUME NEW r \in loads'
        PROVE  /\ r.token = t /\ (Order[r.side][r.at] # "block" => r.of = t)
               /\ \A f \in Done(r.side, r.at) : store'[r.side][f] = t
               /\ \A n \in switching' : r.switch = n
    <3>1. CASE r = m
      BY <1>1, <1>3, <1>6, <2>3, <2>4, <3>1
    <3>2. CASE r \in loads
      BY <1>8, <3>2
    <3> QED BY <2>1, <3>1, <3>2
  <2>6. ASSUME NEW r \in Side, \A x \in loads' : x.side # r, NEW f \in Field
        PROVE  store'[r][f] = t
    <3>1. m \in loads' /\ r # s
      BY <2>1, <2>4, <2>6
    <3>2. \A x \in loads : x.side # r
      BY <2>1, <2>6, <3>1 DEF s
    <3>3. store[r][f] = t
      BY <3>2 DEF OneToken, StoredIsOf, ShownIsOf
    <3> QED BY <1>4, <3>3
  <2> QED BY <1>9, <1>10, <2>5, <2>6 DEF OneToken, StoredIsOf, ShownIsOf
<1> QED BY <1>11, <1>12

(* The other steps of an undisturbed page, and the switch to another token.*)
LEMMA OneTokenStep ==
  ASSUME TransferUIAssumption, UITypeOK, OneUnderWay, undisturbed, undisturbed',
         NEW t \in Tokens, OneToken(t), [TransferUINext]_uiVars
  PROVE  \E u \in Tokens : OneToken(u)'
<1>0. ~Disturb /\ UNCHANGED disturbances
  BY DisturbsOrNot, Undisturbed
<1>1. ASSUME UNCHANGED <<store, loads, switching, dialog, feeCalls>>
      PROVE  OneToken(t)'
  BY <1>1 DEF OneToken, StoredIsOf, ShownIsOf
<1>2. ASSUME NEW l \in loads, Loaded(l) \/ LoadFails(l) PROVE OneToken(t)'
  BY <1>0, <1>2, LoadedKeeps DEF LoadFails
<1>3. ASSUME NEW u \in Tokens, SwitchToken(u) PROVE OneToken(u)'
  <2>1. /\ ~overlay /\ dialog = {} /\ loads = {} /\ feeCalls = <<>>
        /\ loads' = loads \cup {Load(s, u, switches') : s \in Side}
        /\ switching' = switching \cup {switches'}
        /\ UNCHANGED <<dialog, feeCalls>>
    BY <1>0, <1>3 DEF SwitchToken, Hurried, dialogVars, NoDialog
  <2>2. switching = {}
    BY <2>1 DEF OneUnderWay
  <2>3. \A l \in loads' : /\ l.token = u /\ l.of = u /\ l.at = 1 /\ l.switch = switches' /\ l.side \in Side
    BY <2>1 DEF Load
  <2>4. \A s \in Side : \E l \in loads' : l.side = s
    <3>1. \A s \in Side : Load(s, u, switches') \in loads' /\ Load(s, u, switches').side = s
      BY <2>1 DEF Load
    <3> QED BY <3>1
  <2>5. \A l \in loads' : Done(l.side, l.at) = {}
    BY <2>3, DoneFirst
  <2>6. dialog' \subseteq {u} /\ feeCalls' \in Seq({u}) /\ feeCalls' = <<>> /\ dialog' = {}
    BY <2>1, EmptySeq
  <2>7. switching' = {switches'}
    BY <2>1, <2>2
  <2> QED BY <2>3, <2>4, <2>5, <2>6, <2>7 DEF OneToken, StoredIsOf, ShownIsOf
<1>4. ASSUME NEW n \in switching, SetNewToken(n) PROVE OneToken(t)'
  <2>1. /\ \A l \in loads : l.switch # n
        /\ switching' = switching \ {n}
        /\ UNCHANGED <<store, loads, dialog, feeCalls>>
    BY <1>4 DEF SetNewToken, dialogVars
  <2>2. loads = {}
    BY <2>1 DEF OneToken, StoredIsOf, ShownIsOf
  <2>3. dialog = {} /\ feeCalls = <<>>
    BY DEF OneToken, StoredIsOf, ShownIsOf
  <2>4. \A s \in Side, f \in Field : store[s][f] = t
    BY <2>2 DEF OneToken, StoredIsOf, ShownIsOf
  <2>5. \A s \in Side : store[s]["bridge"] = t
    BY <2>4 DEF Field
  <2>6. dialog \subseteq {t} /\ feeCalls \in Seq({t})
    BY DEF OneToken, StoredIsOf, ShownIsOf
  <2> QED BY <2>1, <2>2, <2>3, <2>4, <2>5, <2>6 DEF OneToken, StoredIsOf, ShownIsOf
<1>5. CASE AccountChanged \/ AccountUpdated
  BY <1>1, <1>5 DEF AccountChanged, AccountUpdated, storeVars, dialogVars
<1>6. CASE OnTransfer
  <2>1. /\ ~overlay /\ store["home"].token # NoToken
        /\ feeCalls' = Append(feeCalls, store["home"].bridge)
        /\ UNCHANGED <<store, loads, switching, dialog>>
    BY <1>6 DEF OnTransfer, FeeQuery, storeVars
  <2>2. switching = {}
    BY <2>1 DEF OneUnderWay
  <2>3. store["home"].token = t /\ store["home"].bridge = t
    BY <2>1, <2>2 DEF OneToken, StoredIsOf, ShownIsOf, Side, Field
  <2>4. feeCalls' \in Seq({t})
    <3>1. feeCalls \in Seq({t}) /\ t \in {t} /\ feeCalls' = Append(feeCalls, t)
      BY <2>1, <2>3 DEF OneToken, StoredIsOf, ShownIsOf
    <3> QED BY <3>1, AppendProperties
  <2>8. StoredIsOf(t)'
    BY <2>1 DEF OneToken, StoredIsOf
  <2> QED BY <2>8, <2>1, <2>2, <2>3, <2>4 DEF OneToken, ShownIsOf
<1>7. ASSUME NEW i \in DOMAIN feeCalls, FeeAnswered(i) \/ NoConfirmation(i) PROVE OneToken(t)'
  <2>1. /\ feeCalls' = SubSeq(feeCalls, 1, i - 1) \o SubSeq(feeCalls, i + 1, Len(feeCalls))
        /\ UNCHANGED <<store, loads, switching>>
        /\ \/ dialog' = {feeCalls[i], store["home"].token, store["home"].details, store["foreign"].details}
                            \ {NoToken}
           \/ UNCHANGED dialog
    BY <1>7 DEF FeeAnswered, NoConfirmation, Answered, storeVars
  <2>2. feeCalls \in Seq({t}) /\ feeCalls # <<>>
    BY EmptySeq DEF OneToken, StoredIsOf, ShownIsOf
  <2>3. feeCalls' \in Seq({t}) /\ feeCalls[i] = t
    BY <2>1, <2>2, WithoutOne, LenProperties
  <2>4. switching = {} /\ store["home"].token = t
    BY <2>2 DEF OneToken, StoredIsOf, ShownIsOf
  <2>5. dialog' \subseteq {t}
    <3>1. dialog \subseteq {t} /\ store["home"].details \in {t, NoToken} /\ store["foreign"].details \in {t, NoToken}
      BY <2>4 DEF OneToken, StoredIsOf, ShownIsOf, Side, Field
    <3> QED BY <2>1, <2>3, <2>4, <3>1
  <2> QED BY <2>1, <2>3, <2>4, <2>5 DEF OneToken, StoredIsOf, ShownIsOf
<1>8. CASE CloseDialog
  <2>1. dialog' = {} /\ UNCHANGED <<store, loads, switching, feeCalls>>
    BY <1>8 DEF CloseDialog, NoDialog, storeVars
  <2>8. StoredIsOf(t)'
    BY <2>1 DEF OneToken, StoredIsOf
  <2> QED BY <2>8, <2>1 DEF OneToken, ShownIsOf
<1>9. CASE Confirm
  <2>1. dialog' = {} /\ UNCHANGED <<store, loads, switching, feeCalls>>
    BY <1>9 DEF Confirm, NoDialog, storeVars
  <2>8. StoredIsOf(t)'
    BY <2>1 DEF OneToken, StoredIsOf
  <2> QED BY <2>8, <2>1 DEF OneToken, ShownIsOf
<1>10. ASSUME NEW i \in DOMAIN transfers,
              \/ TransactionMined(i) \/ TransferProcessed(i) \/ EstimateFails(i) \/ RejectedByUser(i)
              \/ TransactionHash(i) \/ ErrorAfterHash(i) \/ PollNext(i) \/ WaitFails(i)
       PROVE  OneToken(t)'
  <2>1. UnchangedStores
    BY <1>10, TransferActions
  <2> QED BY <1>1, <2>1 DEF UnchangedStores, storeVars, dialogVars
<1>11. CASE UNCHANGED uiVars
  BY <1>1, <1>11 DEF uiVars, storeVars, dialogVars
<1> QED BY <1>2, <1>3, <1>4, <1>5, <1>6, <1>7, <1>8, <1>9, <1>10, <1>11
     DEF TransferUINext, LoadNext, SwitchNext, ChainNext, WalletNext

(* What is sent is of the one token: nothing is confirmed during a switch. *)
LEMMA SentTogetherStep ==
  ASSUME UITypeOK, OneUnderWay, undisturbed, undisturbed',
         NEW t \in Tokens, OneToken(t), \A i \in DOMAIN transfers : SentTogether(transfers[i]),
         [TransferUINext]_uiVars
  PROVE  \A i \in DOMAIN transfers' : SentTogether(transfers'[i])
<1>0. ~Disturb
  BY DisturbsOrNot, Undisturbed
<1>1. CASE Confirm
  <2>1. ~overlay /\ dialog # {} /\ (SendToHome \/ SendToForeign)
    BY <1>0, <1>1 DEF Confirm, Hurried, NoDialog
  <2>2. switching = {}
    BY <2>1 DEF OneUnderWay
  <2>3. CASE UNCHANGED transfers
    BY <2>3
  <2>4. CASE /\ network = "foreign" => store["foreign"].token # NoToken
             /\ transfers' \in Seq(Transfer) /\ Len(transfers') = Len(transfers) + 1
             /\ \A i \in 1..Len(transfers) : transfers'[i] = transfers[i]
             /\ transfers'[Len(transfers) + 1].to = store[network].bridge
             /\ transfers'[Len(transfers) + 1].token = store[network].token
             /\ transfers'[Len(transfers) + 1].about = (dialog \cup {store[network].details}) \ {NoToken}
    <3>1. network \in Side /\ store[network].token # NoToken => store[network].token = t /\ store[network].bridge = t
      BY <2>2 DEF OneToken, StoredIsOf, ShownIsOf, Field
    <3>2. store[network].token = t /\ store[network].bridge = t
      <4>1. CASE network = "foreign"
        BY <2>4, <3>1, <4>1 DEF UITypeOK
      <4>2. CASE network = "home"
        <5>1. store["home"].token = t
          BY <2>1 DEF OneToken, StoredIsOf, ShownIsOf
        <5>2. store["home"].bridge \in {t, NoToken}
              /\ (store["home"].token # NoToken => store["home"].bridge = t)
          BY <2>2 DEF OneToken, StoredIsOf, Side, Field
        <5>3. store["home"].bridge = t
          BY <5>1, <5>2
        <5> QED BY <4>2, <5>1, <5>3
      <4> QED BY <4>1, <4>2 DEF UITypeOK, Side
    <3>3. dialog \subseteq {t} /\ store[network].details \in {t, NoToken}
      BY <2>2 DEF OneToken, StoredIsOf, ShownIsOf, UITypeOK, Field
    <3>4. SentTogether(transfers'[Len(transfers) + 1])
      BY <2>4, <3>2, <3>3 DEF SentTogether
    <3>5. DOMAIN transfers = 1..Len(transfers) /\ Len(transfers) \in Nat
      BY LenProperties DEF UITypeOK
    <3>6. DOMAIN transfers' = 1..(Len(transfers) + 1)
      BY <2>4, LenProperties
    <3>7. ASSUME NEW i \in DOMAIN transfers' PROVE SentTogether(transfers'[i])
      <4>1. i = Len(transfers) + 1 \/ i \in 1..Len(transfers)
        BY <3>5, <3>6
      <4>2. i \in 1..Len(transfers) => transfers'[i] = transfers[i] /\ SentTogether(transfers[i])
        BY <2>4, <3>5
      <4> QED BY <3>4, <4>1, <4>2
    <3> QED BY <3>7
  <2> QED BY <2>1, <2>3, <2>4, ConfirmSends
<1>2. ASSUME NEW i \in DOMAIN transfers,
             \/ TransactionMined(i) \/ TransferProcessed(i) \/ EstimateFails(i) \/ RejectedByUser(i)
             \/ TransactionHash(i) \/ ErrorAfterHash(i) \/ PollNext(i) \/ WaitFails(i),
             NEW j \in DOMAIN transfers'
      PROVE  SentTogether(transfers'[j])
  <2>1. DOMAIN transfers' = DOMAIN transfers /\ GoneOn(transfers[j], transfers'[j])
    BY <1>2, TransferActions DEF TransfersGoOn
  <2>2. SentTogether(transfers[j])
    BY <2>1
  <2>3. SentTogether(Over)
    BY DEF SentTogether, Over
  <2> QED BY <2>1, <2>2, <2>3 DEF GoneOn, SentTogether
<1>3. CASE UNCHANGED transfers
  BY <1>3
<1>4. CASE LoadNext
  BY <1>3, <1>4 DEF LoadNext, Loaded, LoadFails
<1>5. CASE SwitchNext
  BY <1>3, <1>5 DEF SwitchNext, SwitchToken, SetNewToken
<1>6. CASE AccountChanged \/ AccountUpdated \/ OnTransfer \/ CloseDialog
  BY <1>3, <1>6 DEF AccountChanged, AccountUpdated, OnTransfer, CloseDialog
<1>7. ASSUME NEW i \in DOMAIN feeCalls, FeeAnswered(i) \/ NoConfirmation(i) PROVE UNCHANGED transfers
  BY <1>7 DEF FeeAnswered, NoConfirmation
<1>8. CASE UNCHANGED uiVars
  BY <1>3, <1>8 DEF uiVars
<1> QED BY <1>1, <1>2, <1>3, <1>4, <1>5, <1>6, <1>7, <1>8 DEF TransferUINext, ChainNext, WalletNext

(* The page opens with nothing under way but the loads of the first token. *)
LEMMA UIInvInit == ASSUME TransferUIAssumption, TransferUIInit PROVE UIInv
<1>1. UITypeOK
  BY UITypeInit
<1>2. OneUnderWay
  BY DEF TransferUIInit, OneUnderWay, Active
<1>3. OneToken(FirstToken)
  <2>1. \A l \in loads : l.token = FirstToken /\ l.of = FirstToken /\ l.at = 1 /\ l.side \in Side
    BY DEF TransferUIInit, Load
  <2>2. \A s \in Side : \E l \in loads : l.side = s
    <3>1. \A s \in Side : /\ Load(s, FirstToken, NoSwitch) \in loads
                          /\ Load(s, FirstToken, NoSwitch).side = s
      BY DEF TransferUIInit, Load
    <3> QED BY <3>1
  <2>3. \A l \in loads : Done(l.side, l.at) = {}
    BY <2>1, DoneFirst
  <2>4. \A s \in Side, f \in Field : store[s][f] = NoToken
    BY DEF TransferUIInit, Field
  <2>5. \A s \in Side : store[s].token = NoToken
    BY <2>4 DEF Field
  <2>6. switching = {} /\ dialog = {} /\ feeCalls = <<>> /\ feeCalls \in Seq({FirstToken})
    BY EmptySeq DEF TransferUIInit, NoDialog
  <2> QED BY <2>1, <2>2, <2>3, <2>4, <2>5, <2>6 DEF OneToken, StoredIsOf, ShownIsOf
<1>4. \A i \in DOMAIN transfers : SentTogether(transfers[i])
  BY DEF TransferUIInit
<1> QED BY <1>1, <1>2, <1>3, <1>4 DEF UIInv, UndisturbedInv, TransferUIAssumption

(* Every step keeps all of it.                                             *)
LEMMA UIInvStep ==
  ASSUME TransferUIAssumption, UIInv, [TransferUINext]_uiVars PROVE UIInv'
<1>1. UITypeOK /\ UITypeOK'
  BY UITypeStep DEF UIInv
<1>2. ASSUME undisturbed'
      PROVE  /\ OneUnderWay' /\ (\E t \in Tokens : OneToken(t))'
             /\ (\A i \in DOMAIN transfers : SentTogether(transfers[i]))'
  <2>1. undisturbed
    BY <1>1, <1>2, DisturbsOrNot, Undisturbed
  <2>2. PICK t \in Tokens : OneUnderWay /\ OneToken(t) /\ \A i \in DOMAIN transfers : SentTogether(transfers[i])
    BY <2>1 DEF UIInv, UndisturbedInv
  <2>3. OneUnderWay'
    BY <1>1, <1>2, <2>1, <2>2, AloneStep
  <2>4. \E u \in Tokens : OneToken(u)'
    BY <1>1, <1>2, <2>1, <2>2, OneTokenStep
  <2>5. \A i \in DOMAIN transfers' : SentTogether(transfers'[i])
    BY <1>1, <1>2, <2>1, <2>2, SentTogetherStep
  <2>6. (\A i \in DOMAIN transfers : SentTogether(transfers[i]))'
    BY <2>5 DEF SentTogether
  <2> QED BY <2>3, <2>4, <2>6
<1> QED BY <1>1, <1>2 DEF UIInv, UndisturbedInv

(* A set whose members are all the same has one at most.                   *)
LEMMA AtMostOne ==
  ASSUME NEW S, \A x, y \in S : x = y
  PROVE  Cardinality(S) \in {0, 1} /\ (S = {} => Cardinality(S) = 0)
<1>1. CASE S = {}
  BY <1>1, FS_EmptySet
<1>2. CASE S # {}
  <2>1. PICK x \in S : TRUE
    BY <1>2
  <2>2. S = {x}
    BY <2>1
  <2> QED BY <1>2, <2>2, FS_Singleton
<1> QED BY <1>1, <1>2

(* OneAtATime of TransferUI: while nothing fails and the user waits, no    *)
(* transfer, switch of the token or update of the account runs next to     *)
(* another, although whoever finishes clears the overlay for all.          *)
THEOREM AlwaysOneAtATime == ASSUME TransferUIAssumption PROVE TransferUISpec => []OneAtATime
<1>1. TransferUIInit => UIInv
  BY UIInvInit
<1>2. UIInv /\ [TransferUINext]_uiVars => UIInv'
  BY UIInvStep
<1>3. UIInv => OneAtATime
  <2> SUFFICES ASSUME UIInv, undisturbed
               PROVE  Cardinality(Active) + Cardinality(switching) + (IF updating THEN 1 ELSE 0) <= 1
    BY DEF OneAtATime
  <2>1. OneUnderWay
    BY DEF UIInv, UndisturbedInv
  <2>2. Cardinality(Active) \in {0, 1} /\ (Active = {} => Cardinality(Active) = 0)
    BY <2>1, AtMostOne DEF OneUnderWay
  <2>3. Cardinality(switching) \in {0, 1} /\ (switching = {} => Cardinality(switching) = 0)
    BY <2>1, AtMostOne DEF OneUnderWay
  <2>4. (updating => Active = {} /\ switching = {}) /\ (switching # {} => Active = {})
    BY <2>1 DEF OneUnderWay
  <2>5. CASE updating
    BY <2>2, <2>3, <2>4, <2>5
  <2>6. CASE ~updating
    BY <2>2, <2>3, <2>4, <2>6
  <2> QED BY <2>5, <2>6
<1> QED BY <1>1, <1>2, <1>3, PTL DEF TransferUISpec

(* SentMatchesBridge of TransferUI: while no call fails and the user waits,*)
(* the bridge a transfer goes to, the contract of its token, its symbol,   *)
(* its decimals and what the user saw are of one token, however the awaits *)
(* of setHome, setForeign and onTransfer are spread over time.             *)
THEOREM SentAlwaysMatchesBridge ==
  ASSUME TransferUIAssumption PROVE TransferUISpec => []SentMatchesBridge
<1>1. TransferUIInit => UIInv
  BY UIInvInit
<1>2. UIInv /\ [TransferUINext]_uiVars => UIInv'
  BY UIInvStep
<1>3. UIInv => SentMatchesBridge
  BY DEF UIInv, UndisturbedInv, SentTogether, SentMatchesBridge
<1> QED BY <1>1, <1>2, <1>3, PTL DEF TransferUISpec

-----------------------------------------------------------------------------
(***************************************************************************)
(* Deployment, for any environments.  The steps of a script have places in *)
(* an order (Place): what a step needs has an earlier place, so that the   *)
(* steps that are not to do any more are done, with the addresses the      *)
(* script still knows.  What was sent is harmless whenever it is mined     *)
(* (Harmless), since contracts only grow (Grown).                          *)
(***************************************************************************)
Op == {"deploy", "upgradeTo", "initialize", "handOver", "setBridgeContract", "addBridgeContract",
       "transferOwnership", "mint", "callToken"} \cup FeeSetting
Account == {"deployer", "admin", "owner"}
ScriptStep ==
  [chain : Chain, op : Op, role : Role, from : Account, count : {"next", "read", "aside"}]
Transaction ==
  [from : Account, nonce : Nat, op : Op, role : Role, to : Nat, args : Seq(Nat)]
ContractRecord ==
  [kind : Role \cup {"none"}, impl : Nat, proxyOwner : Account \cup {"none"},
   owner : Account \cup {"none", "bridge"}, calls : SUBSET (Op \X Seq(Nat))]
Entry == [tx : Transaction, ok : BOOLEAN, contract : ContractRecord]

DeploymentTypeOK ==
  /\ setting \in SettingType
  /\ ledger \in [Chain -> Seq(Entry)]
  /\ pool \in [Chain -> SUBSET Transaction]
  /\ script \in UpgradeScript \cup {"none", "deploy"}
  /\ nonce \in Nat
  /\ memory \in [Chain -> [Role -> Nat]]
  /\ written \in [{"homeBridge", "homeToken", "foreignBridge", "foreignToken"} -> Nat]

(* The place of a transaction in the order of its chain, 0 if no script    *)
(* sends it.                                                               *)
DeployPlace(role) ==
  CASE role = "erc20" -> 1 [] role = "minterImpl" -> 5 [] role = "minter" -> 6
    [] role = "validators" -> 11 [] role = "validatorsImpl" -> 12 [] role = "newBridgeImpl" -> 16
    [] role = "newTokenImpl" -> 17 [] role = "bridge" -> 21 [] role = "bridgeImpl" -> 22
    [] role = "tokenImpl" -> 24 [] role = "token" -> 26
UpgradePlace(role) ==
  CASE role = "validators" -> 13 [] role = "bridge" -> 23 [] role = "token" -> 33 [] OTHER -> 0
InitializePlace(role) ==
  CASE role = "validators" -> 14 [] role = "newTokenImpl" -> 18 [] role = "tokenImpl" -> 25
    [] role = "bridge" -> 30 [] OTHER -> 0
TokenPlace(op) ==
  CASE op = "setBridgeContract" -> 27 [] op = "addBridgeContract" -> 28 [] OTHER -> 29
FeePlace(op) ==
  CASE op = "setFeeReceiver" -> 41 [] op = "setWithdrawFeePercent" -> 42
    [] op = "setWithdrawFixedFee" -> 43 [] op = "setDepositFeePercent" -> 44 [] OTHER -> 45
Only(role, r, place) == IF role = r THEN place ELSE 0
Place(op, role) ==
  CASE op = "deploy" -> DeployPlace(role)
    [] op = "upgradeTo" -> UpgradePlace(role)
    [] op = "initialize" -> InitializePlace(role)
    [] op = "handOver" -> IF role = "validators" THEN 15 ELSE Only(role, "bridge", 31)
    [] op = "mint" -> Only(role, "erc20", 2)
    [] op = "callToken" -> Only(role, "bridge", 34)
    [] op \in FeeSetting -> Only(role, "bridge", FeePlace(op))
    [] OTHER -> Only(role, "token", TokenPlace(op))

(* What a transaction is, without the account and the count; those of a    *)
(* script, and which come before which.                                    *)
KeyOf(step) == <<step.chain, step.op, step.role>>
KeysOf(s) == {KeyOf(s[i]) : i \in DOMAIN s}
Earlier(j, k) == j[1] = k[1] => Place(j[2], j[3]) < Place(k[2], k[3])

InOrder(s) ==
  /\ s \in Seq(ScriptStep)
  /\ \A i \in DOMAIN s : /\ Place(s[i].op, s[i].role) > 0
                         /\ s[i].op = "deploy" => s[i].from = "deployer"
  /\ \A i, j \in DOMAIN s : i < j => Earlier(KeyOf(s[i]), KeyOf(s[j]))

(* What must be done before: the implementation is deployed, a proxy is    *)
(* upgraded and initialized when it is handed over.                        *)
NewImpls(role) ==
  CASE role = "validators" -> {"validatorsImpl"}
    [] role = "bridge" -> {"bridgeImpl", "newBridgeImpl"}
    [] role = "token" -> {"newTokenImpl"}
    [] OTHER -> {}
FirstImpl(role) == IF role = "token" THEN "tokenImpl" ELSE "minterImpl"
Prepared(keys) ==
  \A c \in Chain : \A role \in Role :
    /\ <<c, "upgradeTo", role>> \in keys =>
         \E impl \in NewImpls(role) : <<c, "deploy", impl>> \in keys
    /\ role \in {"token", "minter"} /\ <<c, "deploy", role>> \in keys =>
         <<c, "deploy", FirstImpl(role)>> \in keys
    /\ <<c, "handOver", role>> \in keys =>
         <<c, "upgradeTo", role>> \in keys /\ <<c, "initialize", role>> \in keys

(* What is there when a step is done.                                      *)
Impls(role) ==
  CASE role = "validators" -> {"validatorsImpl"}
    [] role = "bridge" -> {"bridgeImpl", "newBridgeImpl"}
    [] role = "token" -> {"tokenImpl", "newTokenImpl"}
    [] role = "minter" -> {"minterImpl"}
    [] OTHER -> {}
Carried(c, op, role) ==
  CASE op = "initialize" /\ role = "bridge" -> <<memory[c]["validators"], TokenOf(c)>>
    [] op \in {"setBridgeContract", "addBridgeContract", "transferOwnership"} -> <<memory[c]["bridge"]>>
    [] OTHER -> <<>>
HasEffect(contract, op, role, args) ==
  CASE op = "deploy" -> contract.kind = role
    [] op = "upgradeTo" -> contract.impl # Nowhere
    [] op = "handOver" -> contract.proxyOwner = setting.admin
    [] op = "callToken" -> TRUE
    [] OTHER -> <<op, args>> \in contract.calls
Has(k) == HasEffect(ContractAt(k[1], memory[k[1]][k[3]]), k[2], k[3], Carried(k[1], k[2], k[3]))

Ready(contract) == contract.impl # Nowhere /\ Initialized(contract)
Harmless(c, tx) ==
  LET target == ContractAt(c, tx.to)
  IN  /\ tx.op # "deploy" => target.kind = tx.role
      /\ tx.op = "deploy" /\ tx.role \in {"validators", "bridge"} => tx.from = "deployer"
      /\ tx.op = "deploy" /\ tx.role \in {"token", "minter"} =>
           ContractAt(c, tx.args[1]).kind = FirstImpl(tx.role)
      /\ tx.op = "upgradeTo" => ContractAt(c, tx.args[1]).kind \in Impls(tx.role)
      /\ tx.op = "handOver" => Ready(target)

ContractOK(c, contract) ==
  /\ contract.impl # Nowhere => ContractAt(c, contract.impl).kind \in Impls(contract.kind)
  /\ setting.admin = "admin" /\ contract.proxyOwner = "admin" => Ready(contract)
EntryOK(c, a) ==
  LET e == ledger[c][a]
  IN  /\ ContractOK(c, e.contract)
      /\ e.ok => HasEffect(ContractAt(c, IF e.tx.op = "deploy" THEN a ELSE e.tx.to),
                           e.tx.op, e.tx.role, e.tx.args)

(* The script knows what it deployed, and has done what is not to do.      *)
MemoryOK ==
  \A c \in Chain : \A role \in Role \ {"bridge", "token"} :
    memory[c][role] # Nowhere => ContractAt(c, memory[c][role]).kind = role
Known(k) == ContractAt(k[1], memory[k[1]][k[3]]).kind = k[3]
Progress ==
  LET keys == KeysOf(StepsOf(script))
  IN  /\ InOrder(todo) /\ KeysOf(todo) \subseteq keys
      /\ \A k \in keys :
           /\ k[2] = "deploy" \/ <<k[1], "deploy", k[3]>> \in keys \/ Known(k)
           /\ k \in KeysOf(todo) \/ (Has(k) /\ \A j \in KeysOf(todo) : Earlier(k, j))
Awaiting ==
  LET step == Head(todo)
  IN  /\ todo # <<>> /\ awaited.op = step.op /\ awaited.role = step.role
      /\ step.op # "deploy" => awaited.to = memory[step.chain][step.role]
      /\ step.op \notin {"deploy", "upgradeTo", "handOver", "callToken"} =>
           awaited.args = Carried(step.chain, step.op, step.role)

ScriptOK ==
  /\ MemoryOK
  /\ script = "none" => awaited = NoTx
  /\ script # "none" => Progress
  /\ awaited # NoTx => Awaiting
PoolOK == \A c \in Chain : \A tx \in pool[c] : Harmless(c, tx)
LedgerOK == \A c \in Chain : \A a \in DOMAIN ledger[c] : EntryOK(c, a)
DeploymentInv ==
  /\ DeploymentTypeOK /\ PoolOK /\ LedgerOK /\ ScriptOK
  /\ WrittenIsComplete

-----------------------------------------------------------------------------
(* The places of everything a script does.                                 *)
LEMMA PlaceTable ==
  /\ Place("deploy", "erc20") = 1 /\ Place("mint", "erc20") = 2
  /\ Place("deploy", "minterImpl") = 5 /\ Place("deploy", "minter") = 6
  /\ Place("deploy", "validators") = 11 /\ Place("deploy", "validatorsImpl") = 12
  /\ Place("upgradeTo", "validators") = 13 /\ Place("initialize", "validators") = 14
  /\ Place("handOver", "validators") = 15 /\ Place("deploy", "newBridgeImpl") = 16
  /\ Place("deploy", "newTokenImpl") = 17 /\ Place("initialize", "newTokenImpl") = 18
  /\ Place("deploy", "bridge") = 21 /\ Place("deploy", "bridgeImpl") = 22
  /\ Place("upgradeTo", "bridge") = 23 /\ Place("deploy", "tokenImpl") = 24
  /\ Place("initialize", "tokenImpl") = 25 /\ Place("deploy", "token") = 26
  /\ Place("setBridgeContract", "token") = 27 /\ Place("addBridgeContract", "token") = 28
  /\ Place("transferOwnership", "token") = 29 /\ Place("initialize", "bridge") = 30
  /\ Place("handOver", "bridge") = 31 /\ Place("upgradeTo", "token") = 33
  /\ Place("callToken", "bridge") = 34
  /\ Place("setFeeReceiver", "bridge") = 41 /\ Place("setWithdrawFeePercent", "bridge") = 42
  /\ Place("setWithdrawFixedFee", "bridge") = 43 /\ Place("setDepositFeePercent", "bridge") = 44
  /\ Place("setDepositFixedFee", "bridge") = 45
<1>1. \A op \in {"deploy", "upgradeTo", "initialize", "handOver", "setBridgeContract",
                 "addBridgeContract", "transferOwnership", "mint", "callToken"} : op \notin FeeSetting
  BY DEF FeeSetting
<1>2. \A role \in Role : Place("deploy", role) = DeployPlace(role)
  BY <1>1 DEF Place
<1>3. \A role \in Role : Place("upgradeTo", role) = UpgradePlace(role)
  BY <1>1 DEF Place
<1>4. \A role \in Role : Place("initialize", role) = InitializePlace(role)
  BY <1>1 DEF Place
<1>5. Place("mint", "erc20") = 2 /\ Place("callToken", "bridge") = 34
      /\ Place("handOver", "validators") = 15 /\ Place("handOver", "bridge") = 31
  BY <1>1 DEF Place, Only
<1>6. /\ Place("setBridgeContract", "token") = 27 /\ Place("addBridgeContract", "token") = 28
      /\ Place("transferOwnership", "token") = 29
  BY <1>1 DEF Place, Only, TokenPlace
<1>7. \A f \in FeeSetting : Place(f, "bridge") = FeePlace(f)
  BY <1>1 DEF Place, Only
<1>8. /\ FeePlace("setFeeReceiver") = 41 /\ FeePlace("setWithdrawFeePercent") = 42
      /\ FeePlace("setWithdrawFixedFee") = 43 /\ FeePlace("setDepositFeePercent") = 44
      /\ FeePlace("setDepositFixedFee") = 45
  BY DEF FeePlace
<1>9. /\ DeployPlace("erc20") = 1 /\ DeployPlace("minterImpl") = 5 /\ DeployPlace("minter") = 6
      /\ DeployPlace("validators") = 11 /\ DeployPlace("validatorsImpl") = 12
      /\ DeployPlace("newBridgeImpl") = 16 /\ DeployPlace("newTokenImpl") = 17
      /\ DeployPlace("bridge") = 21 /\ DeployPlace("bridgeImpl") = 22
      /\ DeployPlace("tokenImpl") = 24 /\ DeployPlace("token") = 26
  BY DEF DeployPlace
<1>10. /\ UpgradePlace("validators") = 13 /\ UpgradePlace("bridge") = 23 /\ UpgradePlace("token") = 33
       /\ InitializePlace("validators") = 14 /\ InitializePlace("newTokenImpl") = 18
       /\ InitializePlace("tokenImpl") = 25 /\ InitializePlace("bridge") = 30
  BY DEF UpgradePlace, InitializePlace
<1> QED
  BY <1>2, <1>3, <1>4, <1>5, <1>6, <1>7, <1>8, <1>9, <1>10 DEF Role, FeeSetting

-----------------------------------------------------------------------------
(* Sequences of steps: s then t.                                           *)
LEMMA JoinInOrder ==
  ASSUME NEW s, NEW t, InOrder(s), InOrder(t),
         \A j \in KeysOf(s), k \in KeysOf(t) : Earlier(j, k)
  PROVE  InOrder(s \o t) /\ KeysOf(s \o t) = KeysOf(s) \cup KeysOf(t)
<1>1. /\ s \in Seq(ScriptStep) /\ t \in Seq(ScriptStep)
      /\ Len(s) \in Nat /\ DOMAIN s = 1..Len(s) /\ Len(t) \in Nat /\ DOMAIN t = 1..Len(t)
  BY LenProperties DEF InOrder
<1>2. /\ s \o t \in Seq(ScriptStep) /\ Len(s \o t) = Len(s) + Len(t)
      /\ \A i \in 1..Len(s) + Len(t) : (s \o t)[i] = IF i <= Len(s) THEN s[i] ELSE t[i - Len(s)]
  BY <1>1, ConcatProperties
<1>3. DOMAIN (s \o t) = 1..Len(s) + Len(t)
  BY <1>1, <1>2, LenProperties
<1> DEFINE u == s \o t
<1>4. \A i \in DOMAIN s : i \in DOMAIN u /\ u[i] = s[i]
  BY <1>1, <1>2, <1>3
<1>5. \A i \in DOMAIN t : i + Len(s) \in DOMAIN u /\ u[i + Len(s)] = t[i]
  BY <1>1, <1>2, <1>3
<1>6. \A i \in DOMAIN u : \/ i \in DOMAIN s /\ u[i] = s[i]
                          \/ i - Len(s) \in DOMAIN t /\ u[i] = t[i - Len(s)] /\ i > Len(s)
  BY <1>1, <1>2, <1>3
<1>7. KeysOf(u) = KeysOf(s) \cup KeysOf(t)
  <2> HIDE DEF u
  <2>1. \A i \in DOMAIN u : KeyOf(u[i]) \in KeysOf(s) \cup KeysOf(t)
    BY <1>6 DEF KeysOf
  <2>2. \A i \in DOMAIN s : KeyOf(s[i]) \in KeysOf(u)
    BY <1>4 DEF KeysOf
  <2>3. \A i \in DOMAIN t : KeyOf(t[i]) \in KeysOf(u)
    BY <1>5 DEF KeysOf
  <2> QED BY <2>1, <2>2, <2>3 DEF KeysOf
<1>8. \A i \in DOMAIN u : Place(u[i].op, u[i].role) > 0 /\ (u[i].op = "deploy" => u[i].from = "deployer")
  <2> HIDE DEF u
  <2> QED BY <1>6 DEF InOrder
<1>9. ASSUME NEW i \in DOMAIN u, NEW j \in DOMAIN u, i < j
      PROVE  Earlier(KeyOf(u[i]), KeyOf(u[j]))
  <2>0. i \in Int /\ j \in Int /\ u \in Seq(ScriptStep)
    BY <1>1, <1>2, <1>3
  <2> HIDE DEF u
  <2>1. CASE j \in DOMAIN s /\ u[j] = s[j]
    <3>1. i \in DOMAIN s /\ u[i] = s[i]
      BY <1>1, <1>4, <1>6, <1>9, <2>0, <2>1
    <3> QED BY <1>9, <2>1, <3>1 DEF InOrder
  <2>2. CASE i \in DOMAIN s /\ u[i] = s[i] /\ j - Len(s) \in DOMAIN t /\ u[j] = t[j - Len(s)]
    BY <2>2 DEF KeysOf
  <2>3. CASE /\ i - Len(s) \in DOMAIN t /\ u[i] = t[i - Len(s)]
             /\ j - Len(s) \in DOMAIN t /\ u[j] = t[j - Len(s)]
    <3>1. i - Len(s) < j - Len(s)
      BY <1>1, <1>9, <2>0
    <3> QED BY <2>3, <3>1 DEF InOrder
  <2> QED BY <1>6, <2>1, <2>2, <2>3
<1>10. InOrder(u)
  <2>0. u \in Seq(ScriptStep)
    BY <1>2
  <2> HIDE DEF u
  <2> QED BY <2>0, <1>8, <1>9 DEF InOrder
<1> QED BY <1>7, <1>10

(* The same steps with other counts.                                       *)
LEMMA SameKeys ==
  ASSUME NEW s, InOrder(s), NEW t \in Seq(ScriptStep), DOMAIN t = DOMAIN s,
         \A i \in DOMAIN s : KeyOf(t[i]) = KeyOf(s[i]) /\ t[i].from = s[i].from
  PROVE  InOrder(t) /\ KeysOf(t) = KeysOf(s)
<1>1. KeysOf(t) = KeysOf(s)
  BY DEF KeysOf
<1>2. \A i \in DOMAIN s : t[i].op = s[i].op /\ t[i].role = s[i].role
  BY DEF KeyOf
<1> QED BY <1>1, <1>2 DEF InOrder

(* The first step of a sequence is marked; it stays the same step.         *)
LEMMA CountedInOrder ==
  ASSUME NEW s, InOrder(s)
  PROVE  InOrder(Counted(s)) /\ KeysOf(Counted(s)) = KeysOf(s)
<1>1. CASE s = <<>>
  BY <1>1 DEF Counted
<1>2. CASE s # <<>>
  <2> DEFINE first == [Head(s) EXCEPT !.count = "read"]
             t == <<first>> \o Tail(s)
  <2>1. s \in Seq(ScriptStep) /\ Len(s) \in Nat /\ Len(s) >= 1 /\ DOMAIN s = 1..Len(s)
    BY <1>2, EmptySeq, LenProperties DEF InOrder
  <2>2. Head(s) = s[1] /\ Head(s) \in ScriptStep
    BY <1>2, <2>1, HeadTailProperties
  <2>3. first \in ScriptStep /\ KeyOf(first) = KeyOf(s[1]) /\ first.from = s[1].from
    BY <2>2 DEF ScriptStep, KeyOf
  <2> HIDE DEF first
  <2>4. /\ Tail(s) \in Seq(ScriptStep) /\ Len(Tail(s)) = Len(s) - 1
        /\ \A i \in 1..Len(Tail(s)) : Tail(s)[i] = s[i + 1]
    BY <1>2, <2>1, HeadTailProperties
  <2>5. <<first>> \in Seq(ScriptStep) /\ Len(<<first>>) = 1 /\ <<first>>[1] = first
    BY <2>3
  <2>6. /\ t \in Seq(ScriptStep) /\ Len(t) = 1 + (Len(s) - 1)
        /\ \A i \in 1..(1 + (Len(s) - 1)) :
             t[i] = IF i <= 1 THEN <<first>>[i] ELSE Tail(s)[i - 1]
    <3> HIDE DEF t
    <3>1. t = <<first>> \o Tail(s)
      BY DEF t
    <3> QED BY <2>4, <2>5, <3>1, ConcatProperties
  <2> HIDE DEF t
  <2>7. DOMAIN t = DOMAIN s
    BY <2>1, <2>6, LenProperties
  <2>8. t[1] = first
    BY <2>1, <2>5, <2>6
  <2>9. \A i \in DOMAIN s : i # 1 => t[i] = s[i]
    BY <2>1, <2>4, <2>6
  <2>10. \A i \in DOMAIN s : KeyOf(t[i]) = KeyOf(s[i]) /\ t[i].from = s[i].from
    BY <2>3, <2>8, <2>9
  <2>11. InOrder(t) /\ KeysOf(t) = KeysOf(s)
    BY <2>6, <2>7, <2>10, SameKeys
  <2> QED BY <1>2, <2>11 DEF Counted, t, first
<1> QED BY <1>1, <1>2

(* A part of a sequence.                                                   *)
LEMMA PartInOrder ==
  ASSUME NEW s, InOrder(s), NEW m \in 1..Len(s) + 1, NEW n \in m - 1..Len(s)
  PROVE  InOrder(SubSeq(s, m, n)) /\ KeysOf(SubSeq(s, m, n)) = {KeyOf(s[i]) : i \in m..n}
<1>1. s \in Seq(ScriptStep) /\ Len(s) \in Nat /\ DOMAIN s = 1..Len(s)
  BY LenProperties DEF InOrder
<1> DEFINE t == SubSeq(s, m, n)
<1>2. /\ t \in Seq(ScriptStep) /\ Len(t) = n - m + 1
      /\ \A i \in 1..(n - m + 1) : t[i] = s[m + i - 1]
  BY <1>1, SubSeqProperties
<1> HIDE DEF t
<1>3. DOMAIN t = 1..(n - m + 1)
  BY <1>1, <1>2, LenProperties
<1>4. \A i \in DOMAIN t : m + i - 1 \in DOMAIN s /\ m + i - 1 \in m..n /\ t[i] = s[m + i - 1]
  BY <1>1, <1>2, <1>3
<1>5. \A i \in m..n : i - m + 1 \in DOMAIN t /\ t[i - m + 1] = s[i]
  BY <1>1, <1>2, <1>3
<1>6. KeysOf(t) = {KeyOf(s[i]) : i \in m..n}
  <2>1. \A i \in DOMAIN t : KeyOf(t[i]) \in {KeyOf(s[j]) : j \in m..n}
    BY <1>4
  <2>2. \A i \in m..n : KeyOf(s[i]) \in KeysOf(t)
    BY <1>5 DEF KeysOf
  <2> QED BY <2>1, <2>2 DEF KeysOf
<1>7. \A i, j \in DOMAIN t : i < j => m + i - 1 < m + j - 1
  BY <1>1, <1>3
<1>8. InOrder(t)
  BY <1>2, <1>4, <1>7 DEF InOrder
<1> QED BY <1>6, <1>8 DEF t

-----------------------------------------------------------------------------
(* The steps of s are on one chain, with places from lo to hi.             *)
Spanning(s, c, lo, hi) ==
  InOrder(s) /\ \A k \in KeysOf(s) : k[1] = c /\ lo <= Place(k[2], k[3]) /\ Place(k[2], k[3]) <= hi

(* Everything has a place that is a number.                                *)
LEMMA PlaceIsNumber ==
  ASSUME NEW op \in Op, NEW role \in Role
  PROVE  Place(op, role) \in Nat
<1>1. DeployPlace(role) \in Nat /\ UpgradePlace(role) \in Nat /\ InitializePlace(role) \in Nat
  BY DEF DeployPlace, UpgradePlace, InitializePlace, Role
<1>2. TokenPlace(op) \in Nat /\ FeePlace(op) \in Nat
  BY DEF TokenPlace, FeePlace
<1>3. op \in FeeSetting => Only(role, "bridge", FeePlace(op)) \in Nat
  BY <1>2 DEF Only
<1>4. Only(role, "token", TokenPlace(op)) \in Nat
  BY <1>2 DEF Only
<1>5. Only(role, "bridge", 31) \in Nat /\ Only(role, "erc20", 2) \in Nat /\ Only(role, "bridge", 34) \in Nat
  BY DEF Only
<1> QED BY <1>1, <1>3, <1>4, <1>5 DEF Place

(* The parts of the steps of a sequence.                                   *)
LEMMA PlacesAreNumbers ==
  ASSUME NEW s, InOrder(s)
  PROVE  /\ \A i \in DOMAIN s : s[i] \in ScriptStep
         /\ \A k \in KeysOf(s) :
              /\ k = <<k[1], k[2], k[3]>> /\ k[1] \in Chain /\ k[2] \in Op /\ k[3] \in Role
              /\ Place(k[2], k[3]) \in Nat \ {0}
<1>1. \A i \in DOMAIN s : s[i] \in ScriptStep
  BY ElementOfSeq, LenProperties DEF InOrder
<1>2. ASSUME NEW k \in KeysOf(s)
      PROVE  /\ k = <<k[1], k[2], k[3]>> /\ k[1] \in Chain /\ k[2] \in Op /\ k[3] \in Role
             /\ Place(k[2], k[3]) > 0
  <2>1. PICK i \in DOMAIN s : k = KeyOf(s[i])
    BY DEF KeysOf
  <2>2. s[i] \in ScriptStep /\ Place(s[i].op, s[i].role) > 0
    BY <1>1, <2>1 DEF InOrder
  <2> QED BY <2>1, <2>2 DEF KeyOf, ScriptStep
<1>3. \A k \in KeysOf(s) : Place(k[2], k[3]) \in Nat \ {0}
  BY <1>2, PlaceIsNumber
<1> QED BY <1>1, <1>2, <1>3

(* Two blocks of one chain, one after the other.                           *)
LEMMA JoinBlocks ==
  ASSUME NEW c \in Chain, NEW a \in Nat, NEW b \in Nat, NEW d \in Nat, NEW e \in Nat,
         a <= d, b < d, b <= e, NEW s, NEW t, Spanning(s, c, a, b), Spanning(t, c, d, e)
  PROVE  Spanning(s \o t, c, a, e) /\ KeysOf(s \o t) = KeysOf(s) \cup KeysOf(t)
<1>1. /\ \A k \in KeysOf(s) : Place(k[2], k[3]) \in Nat
      /\ \A k \in KeysOf(t) : Place(k[2], k[3]) \in Nat
  BY PlacesAreNumbers DEF Spanning
<1>2. \A j \in KeysOf(s), k \in KeysOf(t) : Earlier(j, k)
  BY <1>1 DEF Spanning, Earlier
<1>3. InOrder(s \o t) /\ KeysOf(s \o t) = KeysOf(s) \cup KeysOf(t)
  BY <1>2, JoinInOrder DEF Spanning
<1> QED BY <1>1, <1>3 DEF Spanning

(* Nothing, and a single step.                                             *)
LEMMA EmptyBlock ==
  ASSUME NEW c, NEW a, NEW b
  PROVE  Spanning(<<>>, c, a, b) /\ KeysOf(<<>>) = {}
BY DEF Spanning, InOrder, KeysOf

(* A single step.                                                          *)
LEMMA OneStep ==
  ASSUME NEW x \in ScriptStep, NEW n \in Nat \ {0}, Place(x.op, x.role) = n,
         x.op = "deploy" => x.from = "deployer"
  PROVE  Spanning(<<x>>, x.chain, n, n) /\ KeysOf(<<x>>) = {KeyOf(x)}
<1> DEFINE s == <<x>>
<1>1. s \in Seq(ScriptStep) /\ Len(s) = 1 /\ DOMAIN s = {1} /\ s[1] = x
  OBVIOUS
<1> HIDE DEF s
<1>2. KeysOf(s) = {KeyOf(x)}
  BY <1>1 DEF KeysOf
<1>3. InOrder(s)
  BY <1>1 DEF InOrder
<1> QED BY <1>2, <1>3 DEF Spanning, KeyOf, s

(* Two steps.                                                               *)
LEMMA TwoSteps ==
  ASSUME NEW c \in Chain, NEW x \in ScriptStep, x.chain = c, NEW n \in Nat \ {0},
         Place(x.op, x.role) = n, x.op = "deploy" => x.from = "deployer",
         NEW y \in ScriptStep, y.chain = c, NEW m \in Nat, n < m, Place(y.op, y.role) = m,
         y.op = "deploy" => y.from = "deployer"
  PROVE  Spanning(<<x, y>>, c, n, m) /\ KeysOf(<<x, y>>) = {KeyOf(x), KeyOf(y)}
<1> DEFINE p == <<x, y>>
<1>1. p \in Seq(ScriptStep) /\ DOMAIN p = {1, 2} /\ p[1] = x /\ p[2] = y
  OBVIOUS
<1> HIDE DEF p
<1>2. KeysOf(p) = {KeyOf(x), KeyOf(y)}
  BY <1>1 DEF KeysOf
<1>3. Earlier(KeyOf(x), KeyOf(y))
  BY DEF Earlier, KeyOf
<1>4. \A i, j \in DOMAIN p : i < j => i = 1 /\ j = 2
  BY <1>1
<1>5. \A i \in DOMAIN p : Place(p[i].op, p[i].role) > 0 /\ (p[i].op = "deploy" => p[i].from = "deployer")
  BY <1>1
<1>6. InOrder(p)
  BY <1>1, <1>3, <1>4, <1>5 DEF InOrder
<1> QED BY <1>2, <1>6 DEF Spanning, KeyOf, p

(* A step that an account of its own sends is the same step.               *)
LEMMA AloneMakes ==
  ASSUME NEW x \in ScriptStep, NEW account \in Account
  PROVE  LET y == Alone(x, account)
         IN  /\ y \in ScriptStep /\ KeyOf(y) = KeyOf(x) /\ y.from = account
             /\ y.chain = x.chain /\ y.op = x.op /\ y.role = x.role
BY DEF Alone, ScriptStep, KeyOf

(* What Step makes.                                                        *)
LEMMA StepMakes ==
  ASSUME NEW c \in Chain, NEW op \in Op, NEW role \in Role
  PROVE  /\ Step(c, op, role) \in ScriptStep /\ Step(c, op, role).from = "deployer"
         /\ KeyOf(Step(c, op, role)) = <<c, op, role>>
         /\ Step(c, op, role).chain = c /\ Step(c, op, role).op = op /\ Step(c, op, role).role = role
BY DEF Step, ScriptStep, KeyOf, Account

-----------------------------------------------------------------------------
(* The pieces of the scripts.                                              *)

(* The validators.                                                         *)
LEMMA ValidatorsBlock ==
  ASSUME NEW c \in Chain
  PROVE  /\ Spanning(ProxySteps(c, "validators", "validatorsImpl"), c, 11, 15)
         /\ KeysOf(ProxySteps(c, "validators", "validatorsImpl")) =
              {<<c, "deploy", "validators">>, <<c, "deploy", "validatorsImpl">>, <<c, "upgradeTo", "validators">>,
               <<c, "initialize", "validators">>, <<c, "handOver", "validators">>}
<1> DEFINE p == ProxySteps(c, "validators", "validatorsImpl")
<1>1. /\ p \in Seq(ScriptStep) /\ Len(p) = 5
      /\ p[1] = Step(c, "deploy", "validators")
      /\ p[2] = Step(c, "deploy", "validatorsImpl")
      /\ p[3] = Step(c, "upgradeTo", "validators")
      /\ p[4] = Step(c, "initialize", "validators")
      /\ p[5] = Step(c, "handOver", "validators")
  <2>1. \A op \in {"deploy", "handOver", "initialize", "upgradeTo"},
           role \in {"validators", "validatorsImpl"} : Step(c, op, role) \in ScriptStep
    BY StepMakes DEF Op, Role, Chain
  <2> QED BY <2>1 DEF ProxySteps
<1> HIDE DEF p
<1>2. DOMAIN p = 1..5 /\ \A i \in DOMAIN p : i \in {1, 2, 3, 4, 5}
  BY <1>1, LenProperties
<1>3. /\ KeyOf(p[1]) = <<c, "deploy", "validators">> /\ p[1].op = "deploy"
      /\ p[1].role = "validators" /\ p[1].from = "deployer"
      /\ KeyOf(p[2]) = <<c, "deploy", "validatorsImpl">> /\ p[2].op = "deploy"
      /\ p[2].role = "validatorsImpl" /\ p[2].from = "deployer"
      /\ KeyOf(p[3]) = <<c, "upgradeTo", "validators">> /\ p[3].op = "upgradeTo"
      /\ p[3].role = "validators" /\ p[3].from = "deployer"
      /\ KeyOf(p[4]) = <<c, "initialize", "validators">> /\ p[4].op = "initialize"
      /\ p[4].role = "validators" /\ p[4].from = "deployer"
      /\ KeyOf(p[5]) = <<c, "handOver", "validators">> /\ p[5].op = "handOver"
      /\ p[5].role = "validators" /\ p[5].from = "deployer"
  BY <1>1 DEF Step, KeyOf
<1>4. KeysOf(p) =
           {<<c, "deploy", "validators">>, <<c, "deploy", "validatorsImpl">>, <<c, "upgradeTo", "validators">>,
            <<c, "initialize", "validators">>, <<c, "handOver", "validators">>}
  BY <1>2, <1>3 DEF KeysOf
<1>5. \A i, j \in DOMAIN p : i < j => Earlier(KeyOf(p[i]), KeyOf(p[j]))
  BY <1>2, <1>3, PlaceTable DEF Earlier
<1>6. \A i \in DOMAIN p : Place(p[i].op, p[i].role) > 0 /\ p[i].from = "deployer"
  BY <1>2, <1>3, PlaceTable
<1>7. InOrder(p)
  BY <1>1, <1>5, <1>6 DEF InOrder
<1> QED BY <1>4, <1>7, PlaceTable DEF Spanning, p

(* The bridge without its token.                                           *)
LEMMA BridgeBlock ==
  ASSUME NEW c \in Chain
  PROVE  /\ Spanning(ProxySteps(c, "bridge", "bridgeImpl"), c, 21, 31)
         /\ KeysOf(ProxySteps(c, "bridge", "bridgeImpl")) =
              {<<c, "deploy", "bridge">>, <<c, "deploy", "bridgeImpl">>, <<c, "upgradeTo", "bridge">>,
               <<c, "initialize", "bridge">>, <<c, "handOver", "bridge">>}
<1> DEFINE p == ProxySteps(c, "bridge", "bridgeImpl")
<1>1. /\ p \in Seq(ScriptStep) /\ Len(p) = 5
      /\ p[1] = Step(c, "deploy", "bridge")
      /\ p[2] = Step(c, "deploy", "bridgeImpl")
      /\ p[3] = Step(c, "upgradeTo", "bridge")
      /\ p[4] = Step(c, "initialize", "bridge")
      /\ p[5] = Step(c, "handOver", "bridge")
  <2>1. \A op \in {"deploy", "handOver", "initialize", "upgradeTo"},
           role \in {"bridge", "bridgeImpl"} : Step(c, op, role) \in ScriptStep
    BY StepMakes DEF Op, Role, Chain
  <2> QED BY <2>1 DEF ProxySteps
<1> HIDE DEF p
<1>2. DOMAIN p = 1..5 /\ \A i \in DOMAIN p : i \in {1, 2, 3, 4, 5}
  BY <1>1, LenProperties
<1>3. /\ KeyOf(p[1]) = <<c, "deploy", "bridge">> /\ p[1].op = "deploy"
      /\ p[1].role = "bridge" /\ p[1].from = "deployer"
      /\ KeyOf(p[2]) = <<c, "deploy", "bridgeImpl">> /\ p[2].op = "deploy"
      /\ p[2].role = "bridgeImpl" /\ p[2].from = "deployer"
      /\ KeyOf(p[3]) = <<c, "upgradeTo", "bridge">> /\ p[3].op = "upgradeTo"
      /\ p[3].role = "bridge" /\ p[3].from = "deployer"
      /\ KeyOf(p[4]) = <<c, "initialize", "bridge">> /\ p[4].op = "initialize"
      /\ p[4].role = "bridge" /\ p[4].from = "deployer"
      /\ KeyOf(p[5]) = <<c, "handOver", "bridge">> /\ p[5].op = "handOver"
      /\ p[5].role = "bridge" /\ p[5].from = "deployer"
  BY <1>1 DEF Step, KeyOf
<1>4. KeysOf(p) =
           {<<c, "deploy", "bridge">>, <<c, "deploy", "bridgeImpl">>, <<c, "upgradeTo", "bridge">>,
            <<c, "initialize", "bridge">>, <<c, "handOver", "bridge">>}
  BY <1>2, <1>3 DEF KeysOf
<1>5. \A i, j \in DOMAIN p : i < j => Earlier(KeyOf(p[i]), KeyOf(p[j]))
  BY <1>2, <1>3, PlaceTable DEF Earlier
<1>6. \A i \in DOMAIN p : Place(p[i].op, p[i].role) > 0 /\ p[i].from = "deployer"
  BY <1>2, <1>3, PlaceTable
<1>7. InOrder(p)
  BY <1>1, <1>5, <1>6 DEF InOrder
<1> QED BY <1>4, <1>7, PlaceTable DEF Spanning, p

(* The token.                                                              *)
LEMMA TokenBlock ==
  ASSUME NEW c \in Chain
  PROVE  /\ Spanning(TokenSteps(c), c, 24, 29)
         /\ KeysOf(TokenSteps(c)) =
              {<<c, "deploy", "tokenImpl">>, <<c, "initialize", "tokenImpl">>, <<c, "deploy", "token">>,
               <<c, "setBridgeContract", "token">>, <<c, "addBridgeContract", "token">>, <<c, "transferOwnership", "token">>}
<1> DEFINE p == TokenSteps(c)
<1>1. /\ p \in Seq(ScriptStep) /\ Len(p) = 6
      /\ p[1] = Step(c, "deploy", "tokenImpl")
      /\ p[2] = Step(c, "initialize", "tokenImpl")
      /\ p[3] = Step(c, "deploy", "token")
      /\ p[4] = Step(c, "setBridgeContract", "token")
      /\ p[5] = Step(c, "addBridgeContract", "token")
      /\ p[6] = Step(c, "transferOwnership", "token")
  <2>1. \A op \in {"addBridgeContract", "deploy", "initialize", "setBridgeContract", "transferOwnership"},
           role \in {"token", "tokenImpl"} : Step(c, op, role) \in ScriptStep
    BY StepMakes DEF Op, Role, Chain
  <2> QED BY <2>1 DEF TokenSteps
<1> HIDE DEF p
<1>2. DOMAIN p = 1..6 /\ \A i \in DOMAIN p : i \in {1, 2, 3, 4, 5, 6}
  BY <1>1, LenProperties
<1>3. /\ KeyOf(p[1]) = <<c, "deploy", "tokenImpl">> /\ p[1].op = "deploy"
      /\ p[1].role = "tokenImpl" /\ p[1].from = "deployer"
      /\ KeyOf(p[2]) = <<c, "initialize", "tokenImpl">> /\ p[2].op = "initialize"
      /\ p[2].role = "tokenImpl" /\ p[2].from = "deployer"
      /\ KeyOf(p[3]) = <<c, "deploy", "token">> /\ p[3].op = "deploy"
      /\ p[3].role = "token" /\ p[3].from = "deployer"
      /\ KeyOf(p[4]) = <<c, "setBridgeContract", "token">> /\ p[4].op = "setBridgeContract"
      /\ p[4].role = "token" /\ p[4].from = "deployer"
      /\ KeyOf(p[5]) = <<c, "addBridgeContract", "token">> /\ p[5].op = "addBridgeContract"
      /\ p[5].role = "token" /\ p[5].from = "deployer"
      /\ KeyOf(p[6]) = <<c, "transferOwnership", "token">> /\ p[6].op = "transferOwnership"
      /\ p[6].role = "token" /\ p[6].from = "deployer"
  BY <1>1 DEF Step, KeyOf
<1>4. KeysOf(p) =
           {<<c, "deploy", "tokenImpl">>, <<c, "initialize", "tokenImpl">>, <<c, "deploy", "token">>,
            <<c, "setBridgeContract", "token">>, <<c, "addBridgeContract", "token">>, <<c, "transferOwnership", "token">>}
  BY <1>2, <1>3 DEF KeysOf
<1>5. \A i, j \in DOMAIN p : i < j => Earlier(KeyOf(p[i]), KeyOf(p[j]))
  BY <1>2, <1>3, PlaceTable DEF Earlier
<1>6. \A i \in DOMAIN p : Place(p[i].op, p[i].role) > 0 /\ p[i].from = "deployer"
  BY <1>2, <1>3, PlaceTable
<1>7. InOrder(p)
  BY <1>1, <1>5, <1>6 DEF InOrder
<1> QED BY <1>4, <1>7, PlaceTable DEF Spanning, p

(* The token is set up before the bridge is initialized.                   *)
LEMMA AroundBlock ==
  ASSUME NEW c \in Chain, NEW inner, Spanning(inner, c, 24, 29)
  PROVE  LET p == ProxySteps(c, "bridge", "bridgeImpl")
         IN  /\ Spanning(Around(3, p, inner), c, 21, 31)
             /\ KeysOf(Around(3, p, inner)) = KeysOf(p) \cup KeysOf(inner)
<1> DEFINE p == ProxySteps(c, "bridge", "bridgeImpl")
           front == SubSeq(p, 1, 3)
           back == SubSeq(p, 4, 5)
<1>1. /\ InOrder(p) /\ Len(p) = 5 /\ DOMAIN p = {1, 2, 3, 4, 5}
      /\ KeyOf(p[1]) = <<c, "deploy", "bridge">> /\ KeyOf(p[2]) = <<c, "deploy", "bridgeImpl">>
      /\ KeyOf(p[3]) = <<c, "upgradeTo", "bridge">> /\ KeyOf(p[4]) = <<c, "initialize", "bridge">>
      /\ KeyOf(p[5]) = <<c, "handOver", "bridge">>
  BY BridgeBlock DEF Spanning, ProxySteps, Step, KeyOf
<1> HIDE DEF p
<1>2. /\ InOrder(front) /\ KeysOf(front) = {KeyOf(p[i]) : i \in 1..3}
      /\ InOrder(back) /\ KeysOf(back) = {KeyOf(p[i]) : i \in 4..5}
  <2>1. 1 \in 1..Len(p) + 1 /\ 3 \in 1 - 1..Len(p) /\ 4 \in 1..Len(p) + 1 /\ 5 \in 4 - 1..Len(p)
    BY <1>1
  <2> QED BY <1>1, <2>1, PartInOrder
<1>3. /\ KeysOf(front) =
        {<<c, "deploy", "bridge">>, <<c, "deploy", "bridgeImpl">>,
         <<c, "upgradeTo", "bridge">>}
      /\ KeysOf(back) = {<<c, "initialize", "bridge">>, <<c, "handOver", "bridge">>}
  <2>1. 1..3 = {1, 2, 3} /\ 4..5 = {4, 5}
    OBVIOUS
  <2> QED BY <1>1, <1>2, <2>1
<1>4. Spanning(front, c, 21, 23) /\ Spanning(back, c, 30, 31)
  BY <1>2, <1>3, PlaceTable DEF Spanning
<1>5. KeysOf(p) = KeysOf(front) \cup KeysOf(back)
  BY <1>1, <1>3 DEF KeysOf
<1> DEFINE most == front \o inner
<1> HIDE DEF front, back
<1>6. Spanning(most, c, 21, 29) /\ KeysOf(most) = KeysOf(front) \cup KeysOf(inner)
  BY <1>4, JoinBlocks
<1> HIDE DEF most
<1>7. Spanning(most \o back, c, 21, 31) /\ KeysOf(most \o back) = KeysOf(most) \cup KeysOf(back)
  BY <1>4, <1>6, JoinBlocks
<1>8. Around(3, p, inner) = most \o back
  BY <1>1 DEF Around, most, front, back
<1> QED BY <1>5, <1>6, <1>7, <1>8 DEF p

(* The fees that are set, in their order.                                  *)
FeeKeys == {<<"home", f, "bridge">> : f \in setting.fees}

(* The fees have the last places.                                          *)
LEMMA FeeBlock ==
  ASSUME setting \in SettingType
  PROVE  Spanning(FeeSteps, "home", 41, 45) /\ KeysOf(FeeSteps) = FeeKeys
<1> DEFINE Keys1(f) == IF f \in setting.fees THEN {<<"home", f, "bridge">>} ELSE {}
<1>0. "home" \in Chain /\ setting.fees \subseteq FeeSetting
  BY DEF Chain, SettingType
<1>1. ASSUME NEW f \in FeeSetting, NEW n \in Nat \ {0}, Place(f, "bridge") = n
      PROVE  Spanning(FeeStep(f), "home", n, n) /\ KeysOf(FeeStep(f)) = Keys1(f)
  <2>1. CASE f \in setting.fees
    <3> DEFINE x == Step("home", f, "bridge")
    <3>1. /\ x \in ScriptStep /\ x.chain = "home" /\ KeyOf(x) = <<"home", f, "bridge">>
          /\ x.op = f /\ x.role = "bridge" /\ x.from = "deployer"
      <4>1. f \in Op /\ "bridge" \in Role
        BY DEF Op, Role
      <4> QED BY <1>0, <4>1, StepMakes
    <3> HIDE DEF x
    <3>2. Spanning(<<x>>, "home", n, n) /\ KeysOf(<<x>>) = {KeyOf(x)}
      BY <1>1, <3>1, OneStep
    <3> QED BY <2>1, <3>1, <3>2 DEF FeeStep, OnlyIf, x
  <2>2. CASE f \notin setting.fees
    BY <2>2, EmptyBlock DEF FeeStep, OnlyIf
  <2> QED BY <2>1, <2>2
<1> DEFINE f1 == FeeStep("setFeeReceiver")
           f2 == FeeStep("setWithdrawFeePercent")
           f3 == FeeStep("setWithdrawFixedFee")
           f4 == FeeStep("setDepositFeePercent")
           f5 == FeeStep("setDepositFixedFee")
           s2 == f1 \o f2
           s3 == s2 \o f3
           s4 == s3 \o f4
           s5 == s4 \o f5
<1>2. /\ Spanning(f1, "home", 41, 41) /\ KeysOf(f1) = Keys1("setFeeReceiver")
      /\ Spanning(f2, "home", 42, 42) /\ KeysOf(f2) = Keys1("setWithdrawFeePercent")
      /\ Spanning(f3, "home", 43, 43) /\ KeysOf(f3) = Keys1("setWithdrawFixedFee")
      /\ Spanning(f4, "home", 44, 44) /\ KeysOf(f4) = Keys1("setDepositFeePercent")
      /\ Spanning(f5, "home", 45, 45) /\ KeysOf(f5) = Keys1("setDepositFixedFee")
  <2> HIDE DEF Keys1
  <2> QED BY <1>1, PlaceTable DEF FeeSetting
<1>8. FeeSteps = Counted(s5)
  BY DEF FeeSteps
<1> HIDE DEF f1, f2, f3, f4, f5, Keys1
<1>3. Spanning(s2, "home", 41, 42) /\ KeysOf(s2) = KeysOf(f1) \cup KeysOf(f2)
  BY <1>0, <1>2, JoinBlocks
<1> HIDE DEF s2
<1>4. Spanning(s3, "home", 41, 43) /\ KeysOf(s3) = KeysOf(s2) \cup KeysOf(f3)
  BY <1>0, <1>2, <1>3, JoinBlocks
<1> HIDE DEF s3
<1>5. Spanning(s4, "home", 41, 44) /\ KeysOf(s4) = KeysOf(s3) \cup KeysOf(f4)
  BY <1>0, <1>2, <1>4, JoinBlocks
<1> HIDE DEF s4
<1>6. Spanning(s5, "home", 41, 45) /\ KeysOf(s5) = KeysOf(s4) \cup KeysOf(f5)
  BY <1>0, <1>2, <1>5, JoinBlocks
<1> HIDE DEF s5
<1>7. InOrder(Counted(s5)) /\ KeysOf(Counted(s5)) = KeysOf(s5)
  BY <1>6, CountedInOrder DEF Spanning
<1>9. KeysOf(s5) = FeeKeys
  BY <1>0, <1>2, <1>3, <1>4, <1>5, <1>6 DEF FeeKeys, Keys1, FeeSetting
<1> QED BY <1>6, <1>7, <1>8, <1>9 DEF Spanning

-----------------------------------------------------------------------------
(* Which keys are prepared.                                                *)
ProxyKeys(c, role, impl) ==
  {<<c, "deploy", role>>, <<c, "deploy", impl>>, <<c, "upgradeTo", role>>,
   <<c, "initialize", role>>, <<c, "handOver", role>>}
TokenKeys(c) ==
  {<<c, "deploy", "tokenImpl">>, <<c, "initialize", "tokenImpl">>, <<c, "deploy", "token">>,
   <<c, "setBridgeContract", "token">>, <<c, "addBridgeContract", "token">>,
   <<c, "transferOwnership", "token">>}
ChainKeys(c) ==
  ProxyKeys(c, "validators", "validatorsImpl") \cup ProxyKeys(c, "bridge", "bridgeImpl")
TokenStepsOn(c) == IF c = "home" THEN HomeTokenSteps ELSE ForeignTokenSteps

(* What is prepared stays so beside something else that is.                *)
LEMMA PreparedUnion ==
  ASSUME NEW K, NEW L, Prepared(K), Prepared(L)
  PROVE  Prepared(K \cup L)
BY DEF Prepared

(* The proxies of one chain, and its token.                                *)
LEMMA ChainPrepared ==
  ASSUME NEW c \in Chain
  PROVE  Prepared(ChainKeys(c)) /\ Prepared(TokenKeys(c))
<1>1. Prepared(ProxyKeys(c, "validators", "validatorsImpl"))
  BY DEF Prepared, ProxyKeys, NewImpls, FirstImpl
<1>2. Prepared(ProxyKeys(c, "bridge", "bridgeImpl"))
  BY DEF Prepared, ProxyKeys, NewImpls, FirstImpl
<1>3. Prepared(TokenKeys(c))
  BY DEF Prepared, TokenKeys, NewImpls, FirstImpl
<1> QED BY <1>1, <1>2, <1>3, PreparedUnion DEF ChainKeys

(* The fees need nothing but the bridge.                                   *)
LEMMA FeesPrepared == setting \in SettingType => Prepared(FeeKeys)
BY DEF Prepared, FeeKeys, SettingType, FeeSetting

-----------------------------------------------------------------------------
(* The steps of one chain, and of each script.                             *)
OptionalKeys(t, c) == IF t # <<>> THEN TokenKeys(c) ELSE {}

(* The steps of a token, or none.                                          *)
LEMMA OptionalTokens ==
  ASSUME NEW c \in Chain, NEW condition
  PROVE  LET t == OnlyIf(condition, TokenSteps(c))
         IN  Spanning(t, c, 24, 29) /\ KeysOf(t) = OptionalKeys(t, c)
<1>1. TokenSteps(c) # <<>>
  <2>1. Len(TokenSteps(c)) = 6
    BY DEF TokenSteps
  <2> QED BY <2>1
<1>2. CASE condition
  BY <1>1, <1>2, TokenBlock DEF OnlyIf, OptionalKeys, TokenKeys
<1>3. CASE ~condition
  BY <1>3, EmptyBlock DEF OnlyIf, OptionalKeys
<1> QED BY <1>2, <1>3

(* A side of the deployment: validators, bridge and token.                 *)
LEMMA SidesInOrder ==
  ASSUME NEW c \in Chain, NEW condition
  PROVE  LET t == OnlyIf(condition, TokenSteps(c))
             steps == Counted(ProxySteps(c, "validators", "validatorsImpl")
                              \o Around(3, ProxySteps(c, "bridge", "bridgeImpl"), t))
         IN  Spanning(steps, c, 11, 31) /\ KeysOf(steps) = ChainKeys(c) \cup OptionalKeys(t, c)
<1> DEFINE t == OnlyIf(condition, TokenSteps(c))
           v == ProxySteps(c, "validators", "validatorsImpl")
           p == ProxySteps(c, "bridge", "bridgeImpl")
           b == Around(3, p, t)
           s == v \o b
<1>1. Spanning(t, c, 24, 29) /\ KeysOf(t) = OptionalKeys(t, c)
  BY OptionalTokens
<1> HIDE DEF t
<1>2. Spanning(v, c, 11, 15) /\ KeysOf(v) = ProxyKeys(c, "validators", "validatorsImpl")
  BY ValidatorsBlock DEF ProxyKeys
<1> HIDE DEF v
<1>3. Spanning(b, c, 21, 31) /\ KeysOf(b) = KeysOf(p) \cup KeysOf(t)
  BY <1>1, AroundBlock
<1>4. KeysOf(p) = ProxyKeys(c, "bridge", "bridgeImpl")
  BY BridgeBlock DEF ProxyKeys
<1> HIDE DEF b, p
<1>5. Spanning(s, c, 11, 31) /\ KeysOf(s) = KeysOf(v) \cup KeysOf(b)
  BY <1>2, <1>3, JoinBlocks
<1> HIDE DEF s
<1>6. InOrder(Counted(s)) /\ KeysOf(Counted(s)) = KeysOf(s)
  BY <1>5, CountedInOrder DEF Spanning
<1>7. Spanning(Counted(s), c, 11, 31)
  BY <1>5, <1>6 DEF Spanning
<1>8. KeysOf(Counted(s)) = ChainKeys(c) \cup OptionalKeys(t, c)
  BY <1>1, <1>2, <1>3, <1>4, <1>5, <1>6 DEF ChainKeys
<1> QED BY <1>7, <1>8 DEF s, v, b, p, t

(* Both sides.                                                             *)
LEMMA SidesBlocks ==
  ASSUME setting \in SettingType
  PROVE  /\ Spanning(HomeSteps, "home", 11, 45)
         /\ KeysOf(HomeSteps) = ChainKeys("home") \cup OptionalKeys(HomeTokenSteps, "home") \cup FeeKeys
         /\ Spanning(ForeignSteps, "foreign", 11, 31)
         /\ KeysOf(ForeignSteps) = ChainKeys("foreign") \cup OptionalKeys(ForeignTokenSteps, "foreign")
<1>0. "home" \in Chain /\ "foreign" \in Chain
  BY DEF Chain
<1> DEFINE h == Counted(HomeValidatorSteps \o HomeBridgeSteps)
<1>1. /\ Spanning(h, "home", 11, 31)
      /\ KeysOf(h) = ChainKeys("home") \cup OptionalKeys(HomeTokenSteps, "home")
  BY <1>0, SidesInOrder DEF HomeValidatorSteps, HomeBridgeSteps, HomeTokenSteps
<1>2. /\ Spanning(ForeignSteps, "foreign", 11, 31)
      /\ KeysOf(ForeignSteps) = ChainKeys("foreign") \cup OptionalKeys(ForeignTokenSteps, "foreign")
  BY <1>0, SidesInOrder DEF ForeignSteps, ForeignValidatorSteps, ForeignBridgeSteps, ForeignTokenSteps
<1>3. HomeSteps = h \o FeeSteps
  BY DEF HomeSteps
<1> HIDE DEF h
<1>4. Spanning(FeeSteps, "home", 41, 45) /\ KeysOf(FeeSteps) = FeeKeys
  BY FeeBlock
<1>5. Spanning(h \o FeeSteps, "home", 11, 45) /\ KeysOf(h \o FeeSteps) = KeysOf(h) \cup KeysOf(FeeSteps)
  BY <1>0, <1>1, <1>4, JoinBlocks
<1> QED BY <1>1, <1>2, <1>3, <1>4, <1>5

(* Two sequences on different chains, or one after the other.              *)
LEMMA OtherChain ==
  ASSUME NEW c, NEW d, c # d, NEW a, NEW b, NEW e, NEW f, NEW s, NEW t,
         Spanning(s, c, a, b), Spanning(t, d, e, f)
  PROVE  \A j \in KeysOf(s), k \in KeysOf(t) : Earlier(j, k)
BY DEF Spanning, Earlier

(* The token that is deployed for a test of ERC_TO_ERC.                    *)
LEMMA Erc20Block ==
  /\ Spanning(Erc20Steps, "foreign", 1, 2)
  /\ KeysOf(Erc20Steps) \subseteq {<<"foreign", "deploy", "erc20">>, <<"foreign", "mint", "erc20">>}
  /\ KeysOf(Erc20Steps) # {} => <<"foreign", "deploy", "erc20">> \in KeysOf(Erc20Steps)
<1> DEFINE x == Step("foreign", "deploy", "erc20")
           y == Step("foreign", "mint", "erc20")
           p == <<x, y>>
<1>0. {"deploy", "mint"} \subseteq Op /\ "erc20" \in Role /\ "foreign" \in Chain
  BY DEF Op, Role, Chain
<1>1. /\ x \in ScriptStep /\ KeyOf(x) = <<"foreign", "deploy", "erc20">> /\ x.from = "deployer"
      /\ x.chain = "foreign" /\ x.op = "deploy" /\ x.role = "erc20"
      /\ y \in ScriptStep /\ KeyOf(y) = <<"foreign", "mint", "erc20">> /\ y.from = "deployer"
      /\ y.chain = "foreign" /\ y.op = "mint" /\ y.role = "erc20"
  BY <1>0, StepMakes
<1> HIDE DEF x, y
<1>2. Spanning(p, "foreign", 1, 2) /\ KeysOf(p) = {KeyOf(x), KeyOf(y)}
  BY <1>0, <1>1, PlaceTable, TwoSteps
<1> HIDE DEF p
<1>3. InOrder(Counted(p)) /\ KeysOf(Counted(p)) = KeysOf(p)
  BY <1>2, CountedInOrder DEF Spanning
<1>4. Spanning(Counted(p), "foreign", 1, 2)
  BY <1>2, <1>3 DEF Spanning
<1> QED BY <1>1, <1>2, <1>3, <1>4, EmptyBlock DEF Erc20Steps, OnlyIf, x, y, p

(* deploy.js: what it does on both chains, in order.                       *)
LEMMA DeployScript ==
  ASSUME setting \in SettingType
  PROVE  /\ InOrder(StepsOf("deploy"))
         /\ KeysOf(StepsOf("deploy"))
              = KeysOf(Erc20Steps) \cup KeysOf(HomeSteps) \cup KeysOf(ForeignSteps)
<1> DEFINE e == Erc20Steps
           h == HomeSteps
           f == ForeignSteps
           s == e \o h
<1>1. /\ Spanning(e, "foreign", 1, 2) /\ Spanning(h, "home", 11, 45) /\ Spanning(f, "foreign", 11, 31)
  BY Erc20Block, SidesBlocks
<1>2. StepsOf("deploy") = s \o f
  BY DEF StepsOf
<1> HIDE DEF e, h, f
<1>3. InOrder(s) /\ KeysOf(s) = KeysOf(e) \cup KeysOf(h)
  <2>1. \A j \in KeysOf(e), k \in KeysOf(h) : Earlier(j, k)
    BY <1>1, OtherChain
  <2> QED BY <1>1, <2>1, JoinInOrder DEF Spanning
<1>4. \A j \in KeysOf(h), k \in KeysOf(f) : Earlier(j, k)
  BY <1>1, OtherChain
<1>5. \A j \in KeysOf(e), k \in KeysOf(f) : Earlier(j, k)
  <2>1. /\ \A k \in KeysOf(e) : Place(k[2], k[3]) \in Nat
        /\ \A k \in KeysOf(f) : Place(k[2], k[3]) \in Nat
    BY <1>1, PlacesAreNumbers DEF Spanning
  <2> QED BY <1>1, <2>1 DEF Spanning, Earlier
<1>6. InOrder(s \o f) /\ KeysOf(s \o f) = KeysOf(s) \cup KeysOf(f)
  <2> HIDE DEF s
  <2> QED BY <1>1, <1>3, <1>4, <1>5, JoinInOrder DEF Spanning
<1> QED BY <1>2, <1>3, <1>6 DEF e, h, f

(* The scripts that follow.                                                *)
LEMMA UpgradeFeesScript ==
  ASSUME setting \in SettingType
  PROVE  /\ InOrder(UpgradeFeesSteps)
         /\ KeysOf(UpgradeFeesSteps)
              = {<<"home", "deploy", "newBridgeImpl">>, <<"home", "upgradeTo", "bridge">>} \cup FeeKeys
<1> DEFINE x == Alone(Step("home", "deploy", "newBridgeImpl"), "deployer")
           y == Step("home", "upgradeTo", "bridge")
           p == <<x, y>>
<1>0. /\ {"deploy", "upgradeTo"} \subseteq Op /\ {"newBridgeImpl", "bridge"} \subseteq Role
      /\ "home" \in Chain /\ "deployer" \in Account
  BY DEF Op, Role, Chain, Account
<1>1. /\ x \in ScriptStep /\ KeyOf(x) = <<"home", "deploy", "newBridgeImpl">> /\ x.from = "deployer"
      /\ x.chain = "home" /\ x.op = "deploy" /\ x.role = "newBridgeImpl"
      /\ y \in ScriptStep /\ KeyOf(y) = <<"home", "upgradeTo", "bridge">> /\ y.from = "deployer"
      /\ y.chain = "home" /\ y.op = "upgradeTo" /\ y.role = "bridge"
  BY <1>0, StepMakes, AloneMakes
<1>9. UpgradeFeesSteps = p \o FeeSteps
  BY DEF UpgradeFeesSteps
<1> HIDE DEF x, y
<1>2. Spanning(p, "home", 16, 23) /\ KeysOf(p) = {KeyOf(x), KeyOf(y)}
  BY <1>0, <1>1, PlaceTable, TwoSteps
<1> HIDE DEF p
<1>3. Spanning(FeeSteps, "home", 41, 45) /\ KeysOf(FeeSteps) = FeeKeys
  BY FeeBlock
<1>4. Spanning(p \o FeeSteps, "home", 16, 45) /\ KeysOf(p \o FeeSteps) = KeysOf(p) \cup KeysOf(FeeSteps)
  BY <1>0, <1>2, <1>3, JoinBlocks
<1> QED BY <1>1, <1>2, <1>3, <1>4, <1>9 DEF Spanning

(* The minter proxy.                                                       *)
LEMMA MinterProxyScript ==
  /\ InOrder(MinterProxySteps)
  /\ KeysOf(MinterProxySteps) = {<<"home", "deploy", "minterImpl">>, <<"home", "deploy", "minter">>}
<1> DEFINE x == Step("home", "deploy", "minterImpl")
           y == Step("home", "deploy", "minter")
           p == <<x, y>>
<1>0. "deploy" \in Op /\ {"minterImpl", "minter"} \subseteq Role /\ "home" \in Chain
  BY DEF Op, Role, Chain
<1>1. /\ x \in ScriptStep /\ KeyOf(x) = <<"home", "deploy", "minterImpl">> /\ x.from = "deployer"
      /\ x.chain = "home" /\ x.op = "deploy" /\ x.role = "minterImpl"
      /\ y \in ScriptStep /\ KeyOf(y) = <<"home", "deploy", "minter">> /\ y.from = "deployer"
      /\ y.chain = "home" /\ y.op = "deploy" /\ y.role = "minter"
  BY <1>0, StepMakes
<1>9. MinterProxySteps = Counted(p)
  BY DEF MinterProxySteps
<1> HIDE DEF x, y
<1>2. Spanning(p, "home", 5, 6) /\ KeysOf(p) = {KeyOf(x), KeyOf(y)}
  BY <1>0, <1>1, PlaceTable, TwoSteps
<1> HIDE DEF p
<1>3. InOrder(Counted(p)) /\ KeysOf(Counted(p)) = KeysOf(p)
  BY <1>2, CountedInOrder DEF Spanning
<1> QED BY <1>1, <1>2, <1>3, <1>9

(* The upgrade of the foreign bridge.                                      *)
LEMMA UpgradeBridgeScript ==
  ASSUME setting \in SettingType
  PROVE  /\ InOrder(UpgradeBridgeSteps)
         /\ KeysOf(UpgradeBridgeSteps)
              \in {{}, {<<"foreign", "deploy", "newBridgeImpl">>, <<"foreign", "upgradeTo", "bridge">>}}
<1> DEFINE x == Alone(Step("foreign", "deploy", "newBridgeImpl"), "deployer")
           y == Alone(Step("foreign", "upgradeTo", "bridge"), setting.admin)
           p == <<x, y>>
<1>0. /\ {"deploy", "upgradeTo"} \subseteq Op /\ {"newBridgeImpl", "bridge"} \subseteq Role
      /\ "foreign" \in Chain /\ "deployer" \in Account /\ setting.admin \in Account
  BY DEF Op, Role, Chain, Account, SettingType
<1>1. /\ x \in ScriptStep /\ KeyOf(x) = <<"foreign", "deploy", "newBridgeImpl">> /\ x.from = "deployer"
      /\ x.chain = "foreign" /\ x.op = "deploy" /\ x.role = "newBridgeImpl"
      /\ y \in ScriptStep /\ KeyOf(y) = <<"foreign", "upgradeTo", "bridge">>
      /\ y.chain = "foreign" /\ y.op = "upgradeTo" /\ y.role = "bridge"
  BY <1>0, StepMakes, AloneMakes
<1>9. UpgradeBridgeSteps \in {<<>>, p}
  BY DEF UpgradeBridgeSteps, OnlyIf
<1> HIDE DEF x, y
<1>2. Spanning(p, "foreign", 16, 23) /\ KeysOf(p) = {KeyOf(x), KeyOf(y)}
  BY <1>0, <1>1, PlaceTable, TwoSteps
<1> HIDE DEF p
<1>3. InOrder(<<>>) /\ KeysOf(<<>>) = {}
  BY EmptyBlock DEF Spanning
<1> QED BY <1>1, <1>2, <1>3, <1>9 DEF Spanning

UpgradeTokenKeys(c) ==
  {<<c, "deploy", "newTokenImpl">>, <<c, "upgradeTo", "token">>, <<c, "callToken", "bridge">>}

(* The upgrade of a token.                                                 *)
LEMMA UpgradeTokenScript ==
  ASSUME setting \in SettingType, NEW c \in Chain
  PROVE  /\ InOrder(UpgradeTokenSteps(c))
         /\ KeysOf(UpgradeTokenSteps(c)) \in
              {UpgradeTokenKeys(c), UpgradeTokenKeys(c) \cup {<<c, "initialize", "newTokenImpl">>}}
<1> DEFINE x == Alone(Step(c, "deploy", "newTokenImpl"), "deployer")
           i == Alone(Step(c, "initialize", "newTokenImpl"), "deployer")
           y == Alone(Step(c, "upgradeTo", "token"), setting.admin)
           z == Alone(Step(c, "callToken", "bridge"), setting.owner)
           o == OnlyIf(c # "home" \/ setting.mode # "ERC677_TO_ERC677", <<i>>)
           p == <<y, z>>
           q == <<x>> \o o
<1>0. /\ {"deploy", "upgradeTo", "initialize", "callToken"} \subseteq Op
      /\ {"newTokenImpl", "bridge", "token"} \subseteq Role
      /\ "deployer" \in Account /\ setting.admin \in Account /\ setting.owner \in Account
  BY DEF Op, Role, Account, SettingType
<1>1. /\ x \in ScriptStep /\ KeyOf(x) = <<c, "deploy", "newTokenImpl">> /\ x.from = "deployer"
      /\ x.chain = c /\ x.op = "deploy" /\ x.role = "newTokenImpl"
      /\ i \in ScriptStep /\ KeyOf(i) = <<c, "initialize", "newTokenImpl">>
      /\ i.chain = c /\ i.op = "initialize" /\ i.role = "newTokenImpl"
      /\ y \in ScriptStep /\ KeyOf(y) = <<c, "upgradeTo", "token">>
      /\ y.chain = c /\ y.op = "upgradeTo" /\ y.role = "token"
      /\ z \in ScriptStep /\ KeyOf(z) = <<c, "callToken", "bridge">>
      /\ z.chain = c /\ z.op = "callToken" /\ z.role = "bridge"
  <2>1. ASSUME NEW op \in Op, NEW role \in Role, NEW account \in Account
        PROVE  LET a == Alone(Step(c, op, role), account)
               IN  /\ a \in ScriptStep /\ KeyOf(a) = <<c, op, role>> /\ a.from = account
                   /\ a.chain = c /\ a.op = op /\ a.role = role
    BY StepMakes, AloneMakes
  <2> QED BY <1>0, <2>1
<1>2. UpgradeTokenSteps(c) = q \o p
  BY DEF UpgradeTokenSteps
<1>3. o \in {<<>>, <<i>>}
  BY DEF OnlyIf
<1> HIDE DEF x, i, y, z, o
<1>4. Spanning(p, c, 33, 34) /\ KeysOf(p) = {KeyOf(y), KeyOf(z)}
  BY <1>1, PlaceTable, TwoSteps
<1>5. Spanning(<<x>>, c, 17, 17) /\ KeysOf(<<x>>) = {KeyOf(x)}
  BY <1>1, PlaceTable, OneStep
<1>6. Spanning(<<i>>, c, 18, 18) /\ KeysOf(<<i>>) = {KeyOf(i)}
  BY <1>1, PlaceTable, OneStep
<1>7. Spanning(o, c, 18, 18) /\ KeysOf(o) \in {{}, {KeyOf(i)}}
  BY <1>3, <1>6, EmptyBlock
<1>8. Spanning(q, c, 17, 18) /\ KeysOf(q) = KeysOf(<<x>>) \cup KeysOf(o)
  BY <1>5, <1>7, JoinBlocks
<1> HIDE DEF p, q
<1>9. Spanning(q \o p, c, 17, 34) /\ KeysOf(q \o p) = KeysOf(q) \cup KeysOf(p)
  BY <1>4, <1>8, JoinBlocks
<1>10. KeysOf(q \o p) = {KeyOf(x), KeyOf(y), KeyOf(z)} \cup KeysOf(o)
  BY <1>4, <1>5, <1>8, <1>9
<1> QED BY <1>1, <1>2, <1>7, <1>9, <1>10 DEF Spanning, UpgradeTokenKeys

-----------------------------------------------------------------------------
(* Whoever is asked to do something is deployed before; the later scripts  *)
(* find the bridges, and the tokens that were deployed.                    *)
Rooted(keys, s) ==
  \A k \in keys : k[2] # "deploy" =>
    \/ <<k[1], "deploy", k[3]>> \in keys
    \/ s # "deploy" /\ (k[3] = "bridge" \/ (k[3] = "token" /\ TokenStepsOn(k[1]) # <<>>))

(* The deployment.                                                         *)
LEMMA DeployFacts ==
  ASSUME setting \in SettingType
  PROVE  /\ InOrder(StepsOf("deploy")) /\ Prepared(KeysOf(StepsOf("deploy")))
         /\ Rooted(KeysOf(StepsOf("deploy")), "deploy")
         /\ ChainKeys("home") \cup ChainKeys("foreign") \cup FeeKeys \subseteq KeysOf(StepsOf("deploy"))
         /\ HomeTokenSteps # <<>> => TokenKeys("home") \subseteq KeysOf(StepsOf("deploy"))
         /\ ForeignTokenSteps # <<>> => TokenKeys("foreign") \subseteq KeysOf(StepsOf("deploy"))
<1> DEFINE keys == KeysOf(StepsOf("deploy"))
           e == KeysOf(Erc20Steps)
           h == OptionalKeys(HomeTokenSteps, "home")
           f == OptionalKeys(ForeignTokenSteps, "foreign")
<1>1. keys = e \cup ((ChainKeys("home") \cup h) \cup FeeKeys) \cup (ChainKeys("foreign") \cup f)
  BY DeployScript, SidesBlocks
<1>2. /\ h \in {{}, TokenKeys("home")} /\ (HomeTokenSteps # <<>> => h = TokenKeys("home"))
      /\ f \in {{}, TokenKeys("foreign")} /\ (ForeignTokenSteps # <<>> => f = TokenKeys("foreign"))
  BY DEF OptionalKeys
<1>3. InOrder(StepsOf("deploy"))
  BY DeployScript
<1>4. /\ e \subseteq {<<"foreign", "deploy", "erc20">>, <<"foreign", "mint", "erc20">>}
      /\ e # {} => <<"foreign", "deploy", "erc20">> \in e
  BY Erc20Block
<1> HIDE DEF keys, e, h, f
<1>5. Prepared(keys)
  <2>0. "home" \in Chain /\ "foreign" \in Chain
    BY DEF Chain
  <2>1. Prepared(e)
    BY <1>4 DEF Prepared
  <2>2. Prepared({})
    BY DEF Prepared
  <2>3. Prepared(h) /\ Prepared(f)
    BY <1>2, <2>0, <2>2, ChainPrepared
  <2>4. Prepared(ChainKeys("home")) /\ Prepared(ChainKeys("foreign")) /\ Prepared(FeeKeys)
    BY <2>0, ChainPrepared, FeesPrepared
  <2>5. Prepared((ChainKeys("home") \cup h) \cup FeeKeys) /\ Prepared(ChainKeys("foreign") \cup f)
    BY <2>3, <2>4, PreparedUnion
  <2> QED BY <1>1, <2>1, <2>5, PreparedUnion
<1>6. Rooted(keys, "deploy")
  <2>1. \A k \in e : k[2] # "deploy" => <<k[1], "deploy", k[3]>> \in e
    BY <1>4
  <2>2. ASSUME NEW c \in Chain, NEW k \in ChainKeys(c), k[2] # "deploy"
        PROVE  <<k[1], "deploy", k[3]>> \in ChainKeys(c)
    BY <2>2 DEF ChainKeys, ProxyKeys
  <2>3. ASSUME NEW c \in Chain, NEW k \in TokenKeys(c), k[2] # "deploy"
        PROVE  <<k[1], "deploy", k[3]>> \in TokenKeys(c)
    BY <2>3 DEF TokenKeys
  <2>4. \A k \in FeeKeys : <<k[1], "deploy", k[3]>> \in ChainKeys("home")
    BY DEF FeeKeys, ChainKeys, ProxyKeys
  <2>5. "home" \in Chain /\ "foreign" \in Chain
    BY DEF Chain
  <2>6. \A k \in keys : k[2] # "deploy" => <<k[1], "deploy", k[3]>> \in keys
    BY <1>1, <1>2, <2>1, <2>2, <2>3, <2>4, <2>5
  <2> QED BY <2>6 DEF Rooted
<1> QED BY <1>1, <1>2, <1>3, <1>5, <1>6 DEF keys

(* The upgrades of the tokens.                                             *)
LEMMA UpgradeTokenFacts ==
  ASSUME setting \in SettingType, NEW c \in Chain, NEW s, s # "deploy", TokenStepsOn(c) # <<>>
  PROVE  /\ InOrder(UpgradeTokenSteps(c)) /\ Prepared(KeysOf(UpgradeTokenSteps(c)))
         /\ Rooted(KeysOf(UpgradeTokenSteps(c)), s)
<1> DEFINE keys == KeysOf(UpgradeTokenSteps(c))
<1>1. keys \in {UpgradeTokenKeys(c), UpgradeTokenKeys(c) \cup {<<c, "initialize", "newTokenImpl">>}}
  BY UpgradeTokenScript
<1> HIDE DEF keys
<1>2. Prepared(keys)
  <2>1. \A d, op, role : <<d, op, role>> \in keys =>
          /\ op = "upgradeTo" => d = c /\ role = "token"
          /\ op = "deploy" => role = "newTokenImpl"
          /\ op # "handOver"
    BY <1>1 DEF UpgradeTokenKeys
  <2>2. <<c, "deploy", "newTokenImpl">> \in keys
    BY <1>1 DEF UpgradeTokenKeys
  <2>3. "newTokenImpl" \in NewImpls("token")
    BY DEF NewImpls
  <2> QED BY <2>1, <2>2, <2>3 DEF Prepared
<1>3. Rooted(keys, s)
  BY <1>1 DEF Rooted, UpgradeTokenKeys
<1> QED BY <1>2, <1>3, UpgradeTokenScript DEF keys

(* Every script.                                                           *)
LEMMA ScriptFacts ==
  ASSUME setting \in SettingType, NEW s \in UpgradeScript \cup {"deploy"}
  PROVE  InOrder(StepsOf(s)) /\ Prepared(KeysOf(StepsOf(s))) /\ Rooted(KeysOf(StepsOf(s)), s)
<1>0. InOrder(<<>>) /\ Prepared(KeysOf(<<>>)) /\ Rooted(KeysOf(<<>>), s)
  BY EmptyBlock DEF Spanning, Prepared, Rooted
<1>1. CASE s = "deploy"
  BY <1>1, DeployFacts
<1>2. CASE s = "upgradeFees"
  <2> DEFINE own == {<<"home", "deploy", "newBridgeImpl">>, <<"home", "upgradeTo", "bridge">>}
             keys == own \cup FeeKeys
  <2>1. InOrder(UpgradeFeesSteps) /\ KeysOf(UpgradeFeesSteps) = keys
    BY UpgradeFeesScript
  <2>2. Prepared(own)
    BY DEF Prepared, NewImpls
  <2>3. Rooted(keys, s)
    BY <1>2 DEF Rooted, FeeKeys
  <2> HIDE DEF own
  <2>4. Prepared(keys)
    BY <2>2, FeesPrepared, PreparedUnion
  <2> QED BY <1>2, <2>1, <2>3, <2>4 DEF StepsOf
<1>3. CASE s = "minterProxy"
  <2> DEFINE keys == {<<"home", "deploy", "minterImpl">>, <<"home", "deploy", "minter">>}
  <2>1. Prepared(keys) /\ Rooted(keys, s)
    BY DEF Prepared, FirstImpl, Rooted
  <2> QED BY <1>3, <2>1, MinterProxyScript DEF StepsOf
<1>4. CASE s = "upgradeBridge"
  <2> DEFINE keys == {<<"foreign", "deploy", "newBridgeImpl">>, <<"foreign", "upgradeTo", "bridge">>}
  <2>1. Prepared(keys)
    BY DEF Prepared, NewImpls
  <2>2. Rooted(keys, s)
    BY <1>4 DEF Rooted
  <2>3. Prepared({}) /\ Rooted({}, s)
    BY DEF Prepared, Rooted
  <2> QED BY <1>4, <2>1, <2>2, <2>3, UpgradeBridgeScript DEF StepsOf
<1>5. CASE s = "upgradeHomeToken"
  <2>1. StepsOf(s) = IF HomeTokenSteps # <<>> THEN UpgradeTokenSteps("home") ELSE <<>>
    BY <1>5 DEF StepsOf, OnlyIf
  <2>2. "home" \in Chain /\ TokenStepsOn("home") = HomeTokenSteps
    BY DEF Chain, TokenStepsOn
  <2> QED BY <1>0, <1>5, <2>1, <2>2, UpgradeTokenFacts
<1>6. CASE s = "upgradeForeignToken"
  <2>1. StepsOf(s) = IF ForeignTokenSteps # <<>> THEN UpgradeTokenSteps("foreign") ELSE <<>>
    BY <1>6 DEF StepsOf, OnlyIf
  <2>2. "foreign" \in Chain /\ TokenStepsOn("foreign") = ForeignTokenSteps
    BY DEF Chain, TokenStepsOn
  <2> QED BY <1>0, <1>6, <2>1, <2>2, UpgradeTokenFacts
<1> QED BY <1>1, <1>2, <1>3, <1>4, <1>5, <1>6 DEF UpgradeScript

-----------------------------------------------------------------------------
(* The steps depend on the environment only.                               *)
LEMMA StepsStay == ASSUME UNCHANGED <<setting, script>> PROVE StepsOf(script)' = StepsOf(script)
BY DEF StepsOf, Erc20Steps, HomeSteps, ForeignSteps, UpgradeFeesSteps, MinterProxySteps,
       UpgradeBridgeSteps, UpgradeTokenSteps, HomeTokenSteps, ForeignTokenSteps, HomeValidatorSteps,
       HomeBridgeSteps, ForeignValidatorSteps, ForeignBridgeSteps, FeeSteps, FeeStep, OnlyIf, Counted,
       Alone, Step, Around, ProxySteps, TokenSteps

(* The steps of a script that begins.                                      *)
LEMMA StepsBegin ==
  ASSUME UNCHANGED setting, NEW s, script' = s PROVE StepsOf(script)' = StepsOf(s)
BY DEF StepsOf, Erc20Steps, HomeSteps, ForeignSteps, UpgradeFeesSteps, MinterProxySteps,
       UpgradeBridgeSteps, UpgradeTokenSteps, HomeTokenSteps, ForeignTokenSteps, HomeValidatorSteps,
       HomeBridgeSteps, ForeignValidatorSteps, ForeignBridgeSteps, FeeSteps, FeeStep, OnlyIf, Counted,
       Alone, Step, Around, ProxySteps, TokenSteps

(* What is deployed is of its type and has an address.                     *)
LEMMA ContractsTyped ==
  ASSUME DeploymentTypeOK, NEW c \in Chain
  PROVE  /\ ledger[c] \in Seq(Entry) /\ Len(ledger[c]) \in Nat
         /\ DOMAIN ledger[c] = 1..Len(ledger[c])
         /\ \A a \in DOMAIN ledger[c] : ledger[c][a] \in Entry /\ ledger[c][a].contract \in ContractRecord
         /\ \A a : ContractAt(c, a) \in ContractRecord
         /\ \A a : ContractAt(c, a).kind # "none" => a \in DOMAIN ledger[c] /\ a \in Nat \ {Nowhere}
<1>1. ledger[c] \in Seq(Entry)
  BY DEF DeploymentTypeOK
<1>2. Len(ledger[c]) \in Nat /\ DOMAIN ledger[c] = 1..Len(ledger[c])
  BY <1>1, LenProperties
<1>3. \A a \in DOMAIN ledger[c] : ledger[c][a] \in Entry
  BY <1>1, <1>2, ElementOfSeq
<1>4. NoContract \in ContractRecord
  BY DEF NoContract, ContractRecord, Nowhere
<1>5. \A a \in DOMAIN ledger[c] : ledger[c][a].contract \in ContractRecord
  BY <1>3 DEF Entry
<1>6. \A a : ContractAt(c, a) \in ContractRecord
  BY <1>4, <1>5 DEF ContractAt
<1>7. ASSUME NEW a, ContractAt(c, a).kind # "none" PROVE a \in DOMAIN ledger[c] /\ a \in Nat \ {Nowhere}
  <2>1. a \in DOMAIN ledger[c]
    BY <1>7 DEF ContractAt, NoContract
  <2> QED BY <1>2, <2>1 DEF Nowhere
<1> QED BY <1>1, <1>2, <1>3, <1>5, <1>6, <1>7

(* What a transaction carries is of its type.                              *)
LEMMA TransactionsTyped ==
  ASSUME DeploymentTypeOK, NEW x \in ScriptStep
  PROVE  TxOf(x) \in Transaction
<1> DEFINE c == x.chain
<1>1. /\ c \in Chain /\ x.op \in Op /\ x.role \in Role /\ x.from \in Account
      /\ \A role \in Role : memory[c][role] \in Nat
  BY DEF ScriptStep, DeploymentTypeOK
<1>2. /\ {"validators", "bridge", "token", "erc20", "tokenImpl", "minterImpl", "validatorsImpl",
          "newTokenImpl", "newBridgeImpl", "bridgeImpl"} \subseteq Role
  BY DEF Role
<1> HIDE DEF c
<1>3. TokenOf(c) \in Nat
  <2>1. /\ Given \in Nat /\ Nowhere \in Nat /\ memory[c]["erc20"] \in Nat
        /\ memory[c]["bridge"] \in Nat /\ memory[c]["token"] \in Nat
    BY <1>1, <1>2 DEF Given, Nowhere
  <2> QED BY <2>1 DEF TokenOf
<1>4. UpgradeTarget(c, x.role) \in Nat
  BY <1>1, <1>2 DEF UpgradeTarget
<1>5. ArgumentsOf(x) \in Seq(Nat)
  <2>1. /\ <<UpgradeTarget(c, x.role)>> \in Seq(Nat)
        /\ <<memory[c]["validators"], TokenOf(c)>> \in Seq(Nat)
        /\ <<memory[c]["tokenImpl"]>> \in Seq(Nat)
        /\ <<memory[c]["minterImpl"], TokenOf(c), memory[c]["bridge"]>> \in Seq(Nat)
        /\ <<memory[c]["bridge"]>> \in Seq(Nat) /\ <<memory[c]["token"]>> \in Seq(Nat)
        /\ <<>> \in Seq(Nat)
    BY <1>1, <1>2, <1>3, <1>4
  <2> QED BY <2>1 DEF ArgumentsOf, c
<1>6. NonceFor(x) \in Nat
  <2>1. CountOf(c, x.from) \in Nat
    <3>1. IsFiniteSet(DOMAIN ledger[c])
      BY <1>1, ContractsTyped, IntervalsAreFinite
    <3> QED BY <3>1, FS_Subset, FS_CardinalityType DEF CountOf
  <2> QED BY <2>1 DEF NonceFor, DeploymentTypeOK, c
<1>7. (IF x.op = "deploy" THEN Nowhere ELSE memory[c][x.role]) \in Nat
  BY <1>1 DEF Nowhere
<1> QED BY <1>1, <1>5, <1>6, <1>7 DEF TxOf, Transaction, c

-----------------------------------------------------------------------------
(* A contract that is called only grows: it stays what it is, keeps its    *)
(* calls and its implementation, and stays with the admin.                 *)
Grown(old, new) ==
  /\ old.kind # "none" => new.kind = old.kind
  /\ old.calls \subseteq new.calls
  /\ old.impl # Nowhere => new.impl # Nowhere
  /\ old.proxyOwner = setting.admin => new.proxyOwner = setting.admin

(* Every call makes its contract grow.                                     *)
LEMMA CalledGrows ==
  ASSUME NEW k \in ContractRecord, NEW tx \in Transaction, setting \in SettingType,
         tx.op = "upgradeTo" => tx.args[1] \in Nat \ {Nowhere}
  PROVE  /\ Called(k, tx) \in ContractRecord /\ Grown(k, Called(k, tx)) /\ Called(k, tx).kind = k.kind
         /\ Called(k, tx).impl = (IF tx.op = "upgradeTo" THEN tx.args[1] ELSE k.impl)
         /\ Called(k, tx).proxyOwner = (IF tx.op = "handOver" THEN setting.admin ELSE k.proxyOwner)
         /\ tx.op \notin {"deploy", "upgradeTo", "handOver", "callToken"} =>
              <<tx.op, tx.args>> \in Called(k, tx).calls
<1>0. /\ setting.admin \in Account /\ setting.owner \in Account
      /\ tx.op \in Op /\ tx.args \in Seq(Nat) /\ tx.from \in Account
  BY DEF SettingType, Account, Transaction
<1>1. /\ k.kind \in Role \cup {"none"} /\ k.impl \in Nat /\ k.proxyOwner \in Account \cup {"none"}
      /\ k.calls \in SUBSET (Op \X Seq(Nat))
  BY DEF ContractRecord
<1>2. CASE tx.op = "upgradeTo"
  <2>1. Called(k, tx) = [k EXCEPT !.impl = tx.args[1]]
    BY <1>2 DEF Called
  <2> QED BY <1>0, <1>1, <1>2, <2>1 DEF ContractRecord, Grown
<1>3. CASE tx.op = "handOver"
  <2>1. Called(k, tx) = [k EXCEPT !.proxyOwner = setting.admin]
    BY <1>3 DEF Called
  <2> QED BY <1>0, <1>1, <1>3, <2>1 DEF ContractRecord, Grown
<1>4. CASE tx.op = "callToken"
  <2>1. Called(k, tx) = k
    BY <1>4 DEF Called
  <2> QED BY <1>4, <2>1 DEF Grown
<1>5. CASE tx.op = "initialize"
  <2> DEFINE o == IF tx.role = "bridge" THEN setting.owner ELSE tx.from
             more == k.calls \cup {<<"initialize", tx.args>>}
  <2>1. Called(k, tx) = [k EXCEPT !.calls = more, !.owner = o]
    BY <1>5 DEF Called
  <2>2. o \in Account /\ more \in SUBSET (Op \X Seq(Nat)) /\ k.calls \subseteq more
        /\ <<tx.op, tx.args>> \in more
    BY <1>0, <1>1, <1>5
  <2> HIDE DEF o, more
  <2> QED BY <1>5, <2>1, <2>2 DEF ContractRecord, Grown
<1>6. CASE tx.op = "transferOwnership"
  <2> DEFINE more == k.calls \cup {<<tx.op, tx.args>>}
  <2>1. Called(k, tx) = [k EXCEPT !.calls = more, !.owner = "bridge"]
    BY <1>6 DEF Called
  <2>2. more \in SUBSET (Op \X Seq(Nat)) /\ k.calls \subseteq more /\ <<tx.op, tx.args>> \in more
    BY <1>0, <1>1
  <2> HIDE DEF more
  <2> QED BY <1>6, <2>1, <2>2 DEF ContractRecord, Grown
<1>7. CASE tx.op \notin {"upgradeTo", "handOver", "callToken", "initialize", "transferOwnership"}
  <2> DEFINE more == k.calls \cup {<<tx.op, tx.args>>}
  <2>1. Called(k, tx) = [k EXCEPT !.calls = more]
    BY <1>7 DEF Called
  <2>2. more \in SUBSET (Op \X Seq(Nat)) /\ k.calls \subseteq more /\ <<tx.op, tx.args>> \in more
    BY <1>0, <1>1
  <2> HIDE DEF more
  <2> QED BY <1>7, <2>1, <2>2 DEF ContractRecord, Grown
<1> QED BY <1>2, <1>3, <1>4, <1>5, <1>6, <1>7

(* An implementation that is named is there.                               *)
LEMMA NamedIsThere ==
  ASSUME DeploymentTypeOK, NEW c \in Chain, NEW tx \in Transaction, Harmless(c, tx)
  PROVE  /\ tx.op = "upgradeTo" => tx.args[1] \in DOMAIN ledger[c] /\ tx.args[1] \in Nat \ {Nowhere}
         /\ tx.op = "deploy" /\ tx.role \in {"token", "minter"} =>
              tx.args[1] \in DOMAIN ledger[c] /\ tx.args[1] \in Nat \ {Nowhere}
         /\ tx.op # "deploy" => tx.to \in DOMAIN ledger[c]
<1>1. \A a : ContractAt(c, a).kind # "none" => a \in DOMAIN ledger[c] /\ a \in Nat \ {Nowhere}
  BY ContractsTyped
<1>2. "none" \notin Role /\ "none" \notin Impls(tx.role) /\ FirstImpl(tx.role) # "none"
  BY DEF Role, Impls, FirstImpl
<1>3. tx.role \in Role
  BY DEF Transaction
<1> QED BY <1>1, <1>2, <1>3 DEF Harmless

(* A call of initialize initializes.                                       *)
LEMMA CallInitializes ==
  ASSUME NEW k, NEW args, <<"initialize", args>> \in k.calls
  PROVE  Initialized(k)
<1>1. <<"initialize", args>>[1] = "initialize"
  OBVIOUS
<1> QED BY <1>1 DEF Initialized

(* A new contract: a proxy of the deployer, one that is initialized with   *)
(* its implementation, or no proxy.                                        *)
LEMMA NewContract ==
  ASSUME DeploymentTypeOK, NEW c \in Chain, NEW tx \in Transaction, Harmless(c, tx), tx.op = "deploy"
  PROVE  LET k == Constructed(tx)
         IN  /\ k \in ContractRecord /\ k.kind = tx.role
             /\ k.impl # Nowhere => tx.role \in {"token", "minter"} /\ k.impl = tx.args[1]
             /\ setting.admin = "admin" /\ k.proxyOwner = "admin" => Ready(k)
<1>0. tx.role \in Role /\ tx.from \in Account /\ tx.args \in Seq(Nat) /\ setting.admin \in Account
  BY DEF Transaction, DeploymentTypeOK, SettingType, Account
<1>1. CASE tx.role \in {"validators", "bridge"}
  <2>1. Constructed(tx) = [kind |-> tx.role, impl |-> Nowhere, proxyOwner |-> tx.from,
                           owner |-> "none", calls |-> {}]
    BY <1>1 DEF Constructed, NoContract
  <2>2. tx.from = "deployer"
    BY <1>1 DEF Harmless
  <2> QED BY <1>0, <2>1, <2>2 DEF ContractRecord, Nowhere
<1>2. CASE tx.role \in {"token", "minter"}
  <2>1. Constructed(tx) = [kind |-> tx.role, impl |-> tx.args[1], proxyOwner |-> setting.admin,
                           owner |-> tx.from, calls |-> {<<"initialize", tx.args>>}]
    BY <1>2 DEF Constructed
  <2>2. tx.args[1] \in Nat \ {Nowhere}
    BY <1>2, NamedIsThere
  <2>3. {<<"initialize", tx.args>>} \in SUBSET (Op \X Seq(Nat))
    BY <1>0 DEF Op
  <2>4. Initialized(Constructed(tx))
    BY <2>1, CallInitializes
  <2> QED BY <1>0, <1>2, <2>1, <2>2, <2>3, <2>4 DEF ContractRecord, Ready
<1>3. CASE tx.role = "erc20"
  <2>1. Constructed(tx) = [kind |-> "erc20", impl |-> Nowhere, proxyOwner |-> "none",
                           owner |-> tx.from, calls |-> {<<"initialize", <<>>>>}]
    BY <1>3 DEF Constructed, NoContract
  <2>2. "initialize" \in Op /\ <<>> \in Seq(Nat)
    BY DEF Op
  <2>3. {<<"initialize", <<>>>>} \in SUBSET (Op \X Seq(Nat))
    <3>1. \A none \in Seq(Nat) : {<<"initialize", none>>} \in SUBSET (Op \X Seq(Nat))
      BY <2>2
    <3> QED BY <2>2, <3>1
  <2> QED BY <1>0, <1>3, <2>1, <2>3 DEF ContractRecord, Nowhere
<1>4. CASE tx.role \notin {"validators", "bridge", "token", "minter", "erc20"}
  <2>1. Constructed(tx) = [NoContract EXCEPT !.kind = tx.role]
    BY <1>4 DEF Constructed
  <2> QED BY <1>0, <2>1 DEF ContractRecord, NoContract, Nowhere
<1> QED BY <1>1, <1>2, <1>3, <1>4

(* What a mined transaction changes: one entry is new, and its target was  *)
(* called.                                                                 *)
NewEntry(c, tx) ==
  [tx |-> tx, ok |-> Succeeds(c, tx),
   contract |-> IF tx.op = "deploy" THEN Constructed(tx) ELSE NoContract]

(* The entries after a transaction was mined.                              *)
LEMMA MineShape ==
  ASSUME DeploymentTypeOK, PoolOK, NEW c \in Chain, NEW tx \in pool[c], MineTx(c, tx)
  PROVE  /\ ledger' \in [Chain -> Seq(Entry)]
         /\ \A d \in Chain \ {c} : ledger'[d] = ledger[d]
         /\ DOMAIN ledger'[c] = DOMAIN ledger[c] \cup {Len(ledger[c]) + 1}
         /\ Len(ledger[c]) + 1 \notin DOMAIN ledger[c]
         /\ ledger'[c][Len(ledger[c]) + 1] = NewEntry(c, tx)
         /\ \A a \in DOMAIN ledger[c] :
              /\ ledger'[c][a].tx = ledger[c][a].tx /\ ledger'[c][a].ok = ledger[c][a].ok
              /\ ledger'[c][a].contract = IF Succeeds(c, tx) /\ a = tx.to
                                          THEN Called(ledger[c][a].contract, tx)
                                          ELSE ledger[c][a].contract
<1> DEFINE L == ledger[c]
           n == Len(L)
           hit == Succeeds(c, tx) /\ tx.to \in DOMAIN L
           base == IF hit THEN [L EXCEPT ![tx.to].contract = Called(@, tx)] ELSE L
           entry == NewEntry(c, tx)
<1>1. /\ L \in Seq(Entry) /\ n \in Nat /\ DOMAIN L = 1..n
      /\ \A a \in DOMAIN L : L[a] \in Entry /\ L[a].contract \in ContractRecord
  BY ContractsTyped
<1>2. tx \in Transaction /\ Harmless(c, tx) /\ setting \in SettingType
  BY DEF DeploymentTypeOK, PoolOK
<1>3. ledger' = [ledger EXCEPT ![c] = Append(base, entry)]
  BY DEF MineTx, NewEntry
<1>4. entry \in Entry
  <2>1. Succeeds(c, tx) \in BOOLEAN
    BY DEF Succeeds, Initialized
  <2>2. NoContract \in ContractRecord
    BY DEF NoContract, ContractRecord, Nowhere
  <2>3. (IF tx.op = "deploy" THEN Constructed(tx) ELSE NoContract) \in ContractRecord
    BY <1>2, <2>2, NewContract
  <2> QED BY <1>2, <2>1, <2>3 DEF NewEntry, Entry
<1>5. \A a \in DOMAIN L : Called(L[a].contract, tx) \in ContractRecord
  BY <1>1, <1>2, CalledGrows, NamedIsThere
<1>6. /\ base \in Seq(Entry) /\ Len(base) = n
      /\ \A a \in DOMAIN L : /\ base[a].tx = L[a].tx /\ base[a].ok = L[a].ok
                             /\ base[a].contract = IF Succeeds(c, tx) /\ a = tx.to
                                                   THEN Called(L[a].contract, tx) ELSE L[a].contract
  <2>1. CASE hit
    <3> DEFINE called == Called(L[tx.to].contract, tx)
    <3>0. tx.to \in DOMAIN L /\ called \in ContractRecord /\ Succeeds(c, tx)
      BY <1>5, <2>1
    <3>1. base = [L EXCEPT ![tx.to] = [L[tx.to] EXCEPT !.contract = called]]
      BY <2>1
    <3> HIDE DEF called, base
    <3>2. /\ [L[tx.to] EXCEPT !.contract = called] \in Entry
          /\ [L[tx.to] EXCEPT !.contract = called].tx = L[tx.to].tx
          /\ [L[tx.to] EXCEPT !.contract = called].ok = L[tx.to].ok
          /\ [L[tx.to] EXCEPT !.contract = called].contract = called
      BY <1>1, <3>0 DEF Entry
    <3>3. base \in Seq(Entry) /\ Len(base) = n
      BY <1>1, <3>0, <3>1, <3>2, ExceptSeq
    <3>4. \A a \in DOMAIN L : base[a] = IF a = tx.to THEN [L[tx.to] EXCEPT !.contract = called] ELSE L[a]
      BY <1>1, <3>0, <3>1
    <3> QED BY <3>0, <3>2, <3>3, <3>4 DEF called
  <2>2. CASE ~hit
    <3>1. base = L /\ \A a \in DOMAIN L : ~(Succeeds(c, tx) /\ a = tx.to)
      BY <2>2
    <3> HIDE DEF base
    <3> QED BY <1>1, <3>1
  <2> QED BY <2>1, <2>2
<1> HIDE DEF base, entry
<1>7. /\ Append(base, entry) \in Seq(Entry) /\ Len(Append(base, entry)) = n + 1
      /\ \A a \in 1..n : Append(base, entry)[a] = base[a]
      /\ Append(base, entry)[n + 1] = entry
  BY <1>4, <1>6, AppendProperties
<1>8. DOMAIN Append(base, entry) = 1..n + 1
  BY <1>1, <1>7, LenProperties
<1>9. ledger'[c] = Append(base, entry) /\ \A d \in Chain \ {c} : ledger'[d] = ledger[d]
  BY <1>3 DEF DeploymentTypeOK
<1>10. ledger' \in [Chain -> Seq(Entry)]
  BY <1>3, <1>7 DEF DeploymentTypeOK
<1>11. 1..n + 1 = (1..n) \cup {n + 1} /\ n + 1 \notin 1..n
  BY <1>1
<1> HIDE DEF n, L
<1>12. DOMAIN ledger'[c] = DOMAIN L \cup {n + 1} /\ n + 1 \notin DOMAIN L
  BY <1>1, <1>8, <1>9, <1>11
<1>13. ledger'[c][n + 1] = entry /\ \A a \in DOMAIN L : ledger'[c][a] = base[a]
  BY <1>1, <1>7, <1>9
<1> QED BY <1>6, <1>9, <1>10, <1>12, <1>13 DEF n, L, entry
(* The contracts after a transaction was mined.                            *)
LEMMA MinedContracts ==
  ASSUME DeploymentTypeOK, PoolOK, NEW c \in Chain, NEW tx \in pool[c], MineTx(c, tx)
  PROVE  /\ \A d \in Chain \ {c} : \A a : ContractAt(d, a)' = ContractAt(d, a)
         /\ \A a : a = Len(ledger[c]) + 1 =>
              ContractAt(c, a)' = NewEntry(c, tx).contract /\ ContractAt(c, a) = NoContract
         /\ \A a : a # Len(ledger[c]) + 1 =>
              ContractAt(c, a)' = IF a \in DOMAIN ledger[c] /\ Succeeds(c, tx) /\ a = tx.to
                                  THEN Called(ContractAt(c, a), tx) ELSE ContractAt(c, a)
<1> DEFINE n == Len(ledger[c]) + 1
<1>1. /\ \A d \in Chain \ {c} : ledger'[d] = ledger[d]
      /\ DOMAIN ledger'[c] = DOMAIN ledger[c] \cup {n}
      /\ n \notin DOMAIN ledger[c]
      /\ ledger'[c][n] = NewEntry(c, tx)
      /\ \A a \in DOMAIN ledger[c] :
              ledger'[c][a].contract = IF Succeeds(c, tx) /\ a = tx.to
                                          THEN Called(ledger[c][a].contract, tx)
                                          ELSE ledger[c][a].contract
  BY MineShape
<1> HIDE DEF n
<1>2. \A d \in Chain \ {c} : \A a : ContractAt(d, a)' = ContractAt(d, a)
  BY <1>1 DEF ContractAt
<1>3. \A a : a = n => ContractAt(c, a)' = NewEntry(c, tx).contract /\ ContractAt(c, a) = NoContract
  BY <1>1 DEF ContractAt
<1>4. \A a : a # n => ContractAt(c, a)' = IF a \in DOMAIN ledger[c] /\ Succeeds(c, tx) /\ a = tx.to
                                  THEN Called(ContractAt(c, a), tx) ELSE ContractAt(c, a)
  BY <1>1 DEF ContractAt
<1> QED BY <1>2, <1>3, <1>4 DEF n

(* Every contract only grows.                                              *)
LEMMA MinedGrows ==
  ASSUME DeploymentTypeOK, PoolOK, NEW c \in Chain, NEW tx \in pool[c], MineTx(c, tx)
  PROVE  \A d \in Chain : \A a : Grown(ContractAt(d, a), ContractAt(d, a)')
<1>1. tx \in Transaction /\ Harmless(c, tx) /\ setting \in SettingType
  BY DEF DeploymentTypeOK, PoolOK
<1>2. \A k : Grown(k, k)
  BY DEF Grown
<1>3. \A k \in ContractRecord : Grown(NoContract, k)
  <2>1. setting.admin # "none"
    BY <1>1 DEF SettingType
  <2> QED BY <2>1 DEF Grown, NoContract
<1>4. \A a : ContractAt(c, a) \in ContractRecord
  BY ContractsTyped
<1>5. \A a : Grown(ContractAt(c, a), Called(ContractAt(c, a), tx))
  BY <1>1, <1>4, CalledGrows, NamedIsThere
<1>6. NewEntry(c, tx).contract \in ContractRecord
  <2>1. NewEntry(c, tx).contract = IF tx.op = "deploy" THEN Constructed(tx) ELSE NoContract
    BY DEF NewEntry
  <2>2. NoContract \in ContractRecord
    BY DEF NoContract, ContractRecord, Nowhere
  <2>3. tx.op = "deploy" => Constructed(tx) \in ContractRecord
    BY <1>1, NewContract
  <2> QED BY <2>1, <2>2, <2>3
<1>7. \A d \in Chain \ {c} : \A a : ContractAt(d, a)' = ContractAt(d, a)
  BY MinedContracts
<1>8. \A a : a = Len(ledger[c]) + 1 =>
              ContractAt(c, a)' = NewEntry(c, tx).contract /\ ContractAt(c, a) = NoContract
  BY MinedContracts
<1>9. \A a : a # Len(ledger[c]) + 1 =>
              ContractAt(c, a)' = IF a \in DOMAIN ledger[c] /\ Succeeds(c, tx) /\ a = tx.to
                                  THEN Called(ContractAt(c, a), tx) ELSE ContractAt(c, a)
  BY MinedContracts
<1>10. ASSUME NEW a PROVE Grown(ContractAt(c, a), ContractAt(c, a)')
  <2>1. CASE a = Len(ledger[c]) + 1
    <3>1. ContractAt(c, a)' = NewEntry(c, tx).contract /\ ContractAt(c, a) = NoContract
      BY <1>8, <2>1
    <3>2. Grown(NoContract, NewEntry(c, tx).contract)
      BY <1>3, <1>6
    <3> QED BY <3>1, <3>2
  <2>2. CASE a # Len(ledger[c]) + 1
    <3>1. ContractAt(c, a)' \in {ContractAt(c, a), Called(ContractAt(c, a), tx)}
      BY <1>9, <2>2
    <3> QED BY <1>2, <1>5, <3>1
  <2> QED BY <2>1, <2>2
<1> QED BY <1>2, <1>7, <1>10
(* What is there stays when contracts grow.                                *)
LEMMA EffectStays ==
  ASSUME UNCHANGED setting, setting \in SettingType, NEW c, NEW a, NEW op, NEW role \in Role, NEW args,
         Grown(ContractAt(c, a), ContractAt(c, a)'), HasEffect(ContractAt(c, a), op, role, args)
  PROVE  HasEffect(ContractAt(c, a), op, role, args)'
<1>1. "none" \notin Role
  BY DEF Role
<1> QED BY <1>1 DEF HasEffect, Grown

(* A contract that is ready stays ready.                                   *)
LEMMA ReadyStays ==
  ASSUME NEW c, NEW a, Grown(ContractAt(c, a), ContractAt(c, a)')
  PROVE  /\ Initialized(ContractAt(c, a)) => Initialized(ContractAt(c, a))'
         /\ Ready(ContractAt(c, a)) => Ready(ContractAt(c, a))'
BY DEF Grown, Ready, Initialized

Growing == \A d \in Chain : \A a : Grown(ContractAt(d, a), ContractAt(d, a)')

(* What is harmless stays harmless.                                        *)
LEMMA HarmlessStays ==
  ASSUME Growing, NEW c \in Chain, NEW tx \in Transaction, Harmless(c, tx)
  PROVE  Harmless(c, tx)'
<1>1. "none" \notin Role /\ "none" \notin Impls(tx.role) /\ FirstImpl(tx.role) # "none" /\ tx.role \in Role
  BY DEF Role, Impls, FirstImpl, Transaction
<1>2. \A a : ContractAt(c, a).kind # "none" => ContractAt(c, a)'.kind = ContractAt(c, a).kind
  BY DEF Growing, Grown
<1>3. Ready(ContractAt(c, tx.to)) => Ready(ContractAt(c, tx.to))'
  BY ReadyStays DEF Growing
<1> QED BY <1>1, <1>2, <1>3 DEF Harmless

(* A contract stays as it must be when the others grow.                    *)
LEMMA ContractStaysOK ==
  ASSUME Growing, UNCHANGED setting, NEW c \in Chain, NEW k, ContractOK(c, k)
  PROVE  ContractOK(c, k)'
<1>1. "none" \notin Impls(k.kind)
  BY DEF Role, Impls
<1>2. \A a : ContractAt(c, a).kind # "none" => ContractAt(c, a)'.kind = ContractAt(c, a).kind
  BY DEF Growing, Grown
<1> QED BY <1>1, <1>2 DEF ContractOK, Ready, Initialized

(* What a harmless transaction makes of the contract it calls.             *)
LEMMA CalledIsOK ==
  ASSUME DeploymentTypeOK, NEW c \in Chain, NEW tx \in Transaction, Harmless(c, tx),
         ContractOK(c, ContractAt(c, tx.to))
  PROVE  ContractOK(c, Called(ContractAt(c, tx.to), tx))
<1> DEFINE k == ContractAt(c, tx.to)
           new == Called(k, tx)
<1>0. k \in ContractRecord /\ setting \in SettingType
  BY ContractsTyped DEF DeploymentTypeOK
<1>1. /\ Grown(k, new) /\ new.kind = k.kind
      /\ new.impl = (IF tx.op = "upgradeTo" THEN tx.args[1] ELSE k.impl)
      /\ new.proxyOwner = (IF tx.op = "handOver" THEN setting.admin ELSE k.proxyOwner)
  BY <1>0, CalledGrows, NamedIsThere
<1>2. new.impl # Nowhere => ContractAt(c, new.impl).kind \in Impls(new.kind)
  BY <1>1 DEF Harmless, ContractOK
<1>3. Ready(k) => Ready(new)
  BY <1>1 DEF Ready, Initialized, Grown
<1>4. setting.admin = "admin" /\ new.proxyOwner = "admin" => Ready(new)
  BY <1>1, <1>3 DEF Harmless, ContractOK
<1> QED BY <1>2, <1>4 DEF ContractOK

(* A new contract is as it must be, too.                                   *)
LEMMA NewIsOK ==
  ASSUME DeploymentTypeOK, NEW c \in Chain, NEW tx \in Transaction, Harmless(c, tx)
  PROVE  ContractOK(c, NewEntry(c, tx).contract)
<1>1. CASE tx.op = "deploy"
  <2> DEFINE k == Constructed(tx)
  <2>1. NewEntry(c, tx).contract = k
    BY <1>1 DEF NewEntry
  <2>2. /\ k.kind = tx.role
        /\ k.impl # Nowhere => tx.role \in {"token", "minter"} /\ k.impl = tx.args[1]
        /\ setting.admin = "admin" /\ k.proxyOwner = "admin" => Ready(k)
    BY <1>1, NewContract
  <2>3. \A role \in {"token", "minter"} : FirstImpl(role) \in Impls(role)
    BY DEF FirstImpl, Impls
  <2> HIDE DEF k
  <2>4. k.impl # Nowhere => ContractAt(c, k.impl).kind \in Impls(k.kind)
    BY <1>1, <2>2, <2>3 DEF Harmless
  <2> QED BY <2>1, <2>2, <2>4 DEF ContractOK
<1>2. CASE tx.op # "deploy"
  <2>1. NewEntry(c, tx).contract = NoContract
    BY <1>2 DEF NewEntry
  <2>2. NoContract.impl = Nowhere /\ NoContract.proxyOwner = "none"
    BY DEF NoContract
  <2> QED BY <2>1, <2>2 DEF ContractOK
<1> QED BY <1>1, <1>2
(* The ledger stays as it must be when a transaction is mined.             *)
LEMMA MinedLedger ==
  ASSUME DeploymentTypeOK, PoolOK, LedgerOK, NEW c \in Chain, NEW tx \in pool[c], MineTx(c, tx)
  PROVE  LedgerOK'
<1> DEFINE n == Len(ledger[c]) + 1
<1>1. tx \in Transaction /\ Harmless(c, tx) /\ setting \in SettingType /\ UNCHANGED setting /\ Growing
  BY MinedGrows DEF DeploymentTypeOK, PoolOK, Growing, MineTx
<1>2. /\ \A d \in Chain \ {c} : ledger'[d] = ledger[d]
      /\ DOMAIN ledger'[c] = DOMAIN ledger[c] \cup {n}
      /\ n \notin DOMAIN ledger[c]
      /\ ledger'[c][n] = NewEntry(c, tx)
      /\ \A a \in DOMAIN ledger[c] :
              /\ ledger'[c][a].tx = ledger[c][a].tx /\ ledger'[c][a].ok = ledger[c][a].ok
              /\ ledger'[c][a].contract = IF Succeeds(c, tx) /\ a = tx.to
                                          THEN Called(ledger[c][a].contract, tx)
                                          ELSE ledger[c][a].contract
  BY MineShape
<1>3. /\ \A a : a = n => ContractAt(c, a)' = NewEntry(c, tx).contract
      /\ \A a : a # n =>
              ContractAt(c, a)' = IF a \in DOMAIN ledger[c] /\ Succeeds(c, tx) /\ a = tx.to
                                  THEN Called(ContractAt(c, a), tx) ELSE ContractAt(c, a)
  BY MinedContracts
<1> HIDE DEF n
<1>4. \A d \in Chain : \A k : ContractOK(d, k) => ContractOK(d, k)'
  BY <1>1, ContractStaysOK
<1>5. \A d \in Chain : \A a \in DOMAIN ledger[d] : ContractAt(d, a) = ledger[d][a].contract
  BY DEF ContractAt
<1>6. \A d \in Chain : \A a \in DOMAIN ledger[d] :
        /\ ContractOK(d, ContractAt(d, a))
        /\ ledger[d][a].ok =>
             HasEffect(ContractAt(d, IF ledger[d][a].tx.op = "deploy" THEN a ELSE ledger[d][a].tx.to),
                       ledger[d][a].tx.op, ledger[d][a].tx.role, ledger[d][a].tx.args)
  BY <1>5 DEF LedgerOK, EntryOK
<1>7. \A d \in Chain : \A a \in DOMAIN ledger'[d] : \A k : k = ledger'[d][a].contract => ContractOK(d, k)'
  <2>1. ASSUME NEW d \in Chain \ {c}, NEW a \in DOMAIN ledger'[d] PROVE ContractOK(d, ledger'[d][a].contract)
    BY <1>2, <1>5, <1>6, <2>1
  <2>2. ASSUME NEW a \in DOMAIN ledger[c] PROVE ContractOK(c, ledger'[c][a].contract)
    <3>1. ledger'[c][a].contract = IF Succeeds(c, tx) /\ a = tx.to
                                   THEN Called(ContractAt(c, a), tx) ELSE ContractAt(c, a)
      BY <1>2, <1>5
    <3>2. a = tx.to => ContractOK(c, Called(ContractAt(c, a), tx))
      BY <1>1, <1>6, CalledIsOK
    <3> QED BY <1>6, <3>1, <3>2
  <2>3. ContractOK(c, ledger'[c][n].contract)
    BY <1>1, <1>2, NewIsOK
  <2> QED BY <1>2, <1>4, <2>1, <2>2, <2>3
<1>8. \A d \in Chain : \A a \in DOMAIN ledger[d] :
        ledger[d][a].tx \in Transaction /\ ledger[d][a].tx.role \in Role
  <2>1. \A d \in Chain : \A a \in DOMAIN ledger[d] : ledger[d][a] \in Entry
    BY ContractsTyped
  <2> QED BY <2>1 DEF Entry, Transaction
<1>9. \A d \in Chain : \A a, op, args : \A role \in Role :
        HasEffect(ContractAt(d, a), op, role, args) => HasEffect(ContractAt(d, a), op, role, args)'
  BY <1>1, EffectStays DEF Growing
<1>10. \A d \in Chain : \A a \in DOMAIN ledger[d] : \A at, op, role, args :
         /\ ledger[d][a].ok
         /\ op = ledger[d][a].tx.op /\ role = ledger[d][a].tx.role /\ args = ledger[d][a].tx.args
         /\ at = (IF op = "deploy" THEN a ELSE ledger[d][a].tx.to)
         => HasEffect(ContractAt(d, at), op, role, args)'
  BY <1>6, <1>8, <1>9
<1>11. Succeeds(c, tx) => \A at : at = (IF tx.op = "deploy" THEN n ELSE tx.to) =>
                            HasEffect(ContractAt(c, at), tx.op, tx.role, tx.args)'
  <2>1. CASE tx.op = "deploy"
    <3>1. NewEntry(c, tx).contract = Constructed(tx)
      BY <2>1 DEF NewEntry
    <3>2. Constructed(tx).kind = tx.role
      BY <1>1, <2>1, NewContract
    <3> QED BY <1>3, <2>1, <3>1, <3>2 DEF HasEffect
  <2>2. CASE tx.op # "deploy" /\ Succeeds(c, tx)
    <3> DEFINE new == Called(ContractAt(c, tx.to), tx)
    <3>1. tx.to \in DOMAIN ledger[c] /\ tx.to # n
      BY <1>1, <1>2, <2>2, NamedIsThere
    <3>2. ContractAt(c, tx.to)' = new
      BY <1>3, <2>2, <3>1
    <3>3. ContractAt(c, tx.to) \in ContractRecord /\ (tx.op = "upgradeTo" => tx.args[1] \in Nat \ {Nowhere})
      BY <1>1, ContractsTyped, NamedIsThere
    <3>4. /\ tx.op = "upgradeTo" => new.impl # Nowhere
          /\ tx.op = "handOver" => new.proxyOwner = setting.admin
          /\ tx.op \notin {"deploy", "upgradeTo", "handOver", "callToken"} => <<tx.op, tx.args>> \in new.calls
      BY <1>1, <3>3, CalledGrows
    <3> HIDE DEF new
    <3> QED BY <1>1, <2>2, <3>2, <3>4 DEF HasEffect
  <2> QED BY <2>1, <2>2
<1>12. \A d \in Chain : \A a \in DOMAIN ledger'[d] : \A at, op, role, args :
         /\ ledger'[d][a].ok
         /\ op = ledger'[d][a].tx.op /\ role = ledger'[d][a].tx.role /\ args = ledger'[d][a].tx.args
         /\ at = (IF op = "deploy" THEN a ELSE ledger'[d][a].tx.to)
         => HasEffect(ContractAt(d, at), op, role, args)'
  <2>1. ledger'[c][n].tx = tx /\ (ledger'[c][n].ok => Succeeds(c, tx))
    BY <1>2 DEF NewEntry
  <2> QED BY <1>2, <1>10, <1>11, <2>1
<1>13. \A d \in Chain : \A a \in DOMAIN ledger'[d] : EntryOK(d, a)'
  <2> SUFFICES ASSUME NEW d \in Chain, NEW a \in DOMAIN ledger'[d] PROVE EntryOK(d, a)'
    OBVIOUS
  <2>1. ContractOK(d, ledger[d][a].contract)'
    BY <1>7 DEF ContractOK, ContractAt
  <2>2. ledger'[d][a].ok =>
          HasEffect(ContractAt(d, IF ledger[d][a].tx.op = "deploy" THEN a ELSE ledger[d][a].tx.to),
                           ledger[d][a].tx.op, ledger[d][a].tx.role, ledger[d][a].tx.args)'
    BY <1>12 DEF HasEffect, ContractAt
  <2> QED BY <2>1, <2>2 DEF EntryOK
<1> QED BY <1>13 DEF LedgerOK
(* The types and the pool after a transaction was mined.                   *)
LEMMA MinedTypesAndPool ==
  ASSUME DeploymentTypeOK, PoolOK, NEW c \in Chain, NEW tx \in pool[c], MineTx(c, tx)
  PROVE  DeploymentTypeOK' /\ PoolOK'
<1>1. ledger' \in [Chain -> Seq(Entry)]
  BY MineShape
<1>2. UNCHANGED <<setting, script, nonce, memory, written>>
  BY DEF MineTx, scriptState
<1>3. pool' \in [Chain -> SUBSET Transaction] /\ \A d \in Chain : pool'[d] \subseteq pool[d]
  BY DEF MineTx, DeploymentTypeOK
<1>4. DeploymentTypeOK'
  BY <1>1, <1>2, <1>3 DEF DeploymentTypeOK
<1>5. Growing
  BY MinedGrows DEF Growing
<1>6. \A d \in Chain : \A x \in pool'[d] : x \in Transaction /\ Harmless(d, x)
  BY <1>3 DEF PoolOK, DeploymentTypeOK
<1>7. \A d \in Chain : \A x \in pool'[d] : Harmless(d, x)'
  BY <1>5, <1>6, HarmlessStays
<1> QED BY <1>4, <1>7 DEF PoolOK

(* What the script knows and has done stays.                               *)
LEMMA ProgressStays ==
  ASSUME DeploymentTypeOK, Growing, UNCHANGED <<setting, script, todo, memory>>, ScriptOK
  PROVE  MemoryOK' /\ (script # "none" => Progress')
<1>1. UNCHANGED <<setting, script, todo, memory>> /\ setting \in SettingType
  BY DEF DeploymentTypeOK
<1>2. \A c \in Chain : \A a : ContractAt(c, a).kind # "none" => ContractAt(c, a)'.kind = ContractAt(c, a).kind
  BY DEF Growing, Grown
<1>3. "none" \notin Role
  BY DEF Role
<1>4. MemoryOK'
  BY <1>1, <1>2, <1>3 DEF MemoryOK, ScriptOK, ContractAt
<1>5. ASSUME script # "none" PROVE Progress'
  <2>1. Progress
    BY <1>5 DEF ScriptOK
  <2> DEFINE keys == KeysOf(StepsOf(script))
  <2>2. keys' = keys
    <3>1. StepsOf(script)' = StepsOf(script)
      BY <1>1, StepsStay
    <3> QED BY <3>1 DEF KeysOf
  <2>3. InOrder(StepsOf(script))
    BY <1>1, <1>5, ScriptFacts DEF DeploymentTypeOK
  <2>4. \A k \in keys : k[1] \in Chain /\ k[2] \in Op /\ k[3] \in Role
    BY <2>3, PlacesAreNumbers
  <2>5. \A k \in keys : k[2] = "deploy" \/ <<k[1], "deploy", k[3]>> \in keys \/ Known(k)
    BY <2>1 DEF Progress
  <2>6. \A k \in keys : k \in KeysOf(todo) \/ (Has(k) /\ \A j \in KeysOf(todo) : Earlier(k, j))
    BY <2>1 DEF Progress
  <2>7. InOrder(todo) /\ KeysOf(todo) \subseteq keys
    BY <2>1 DEF Progress
  <2> HIDE DEF keys
  <2>8. ASSUME NEW k \in keys, Has(k) PROVE Has(k)'
    <3>1. k[1] \in Chain /\ k[3] \in Role
      BY <2>4
    <3>2. \A a, args : HasEffect(ContractAt(k[1], a), k[2], k[3], args)
                         => HasEffect(ContractAt(k[1], a), k[2], k[3], args)'
      BY <1>1, <3>1, EffectStays DEF Growing
    <3>3. \A a, args : a = memory[k[1]][k[3]] /\ args = Carried(k[1], k[2], k[3])
                         => HasEffect(ContractAt(k[1], a), k[2], k[3], args)'
      BY <2>8, <3>2 DEF Has
    <3>4. Carried(k[1], k[2], k[3])' = Carried(k[1], k[2], k[3])
      BY <1>1 DEF Carried, TokenOf
    <3> QED BY <1>1, <3>3, <3>4 DEF Has, HasEffect, ContractAt
  <2>9. ASSUME NEW k \in keys, Known(k) PROVE Known(k)'
    <3>1. Known(k) /\ k[1] \in Chain /\ k[3] \in Role
      BY <2>4, <2>9
    <3> QED BY <1>1, <1>2, <1>3, <3>1 DEF Known, ContractAt
  <2>10. InOrder(todo)' /\ KeysOf(todo)' = KeysOf(todo)
    BY <1>1, <2>7 DEF InOrder, KeysOf
  <2>11. \A k \in keys :
           /\ k[2] = "deploy" \/ <<k[1], "deploy", k[3]>> \in keys \/ Known(k)'
           /\ k \in KeysOf(todo) \/ (Has(k)' /\ \A j \in KeysOf(todo) : Earlier(k, j))
    BY <2>5, <2>6, <2>8, <2>9
  <2>12. \A k \in keys' :
           /\ k[2] = "deploy" \/ <<k[1], "deploy", k[3]>> \in keys' \/ Known(k)'
           /\ k \in KeysOf(todo)' \/ (Has(k)' /\ \A j \in KeysOf(todo)' : Earlier(k, j))
    BY <2>2, <2>10, <2>11
  <2>13. (InOrder(todo) /\ KeysOf(todo) \subseteq KeysOf(StepsOf(script)))'
    BY <2>2, <2>7, <2>10 DEF keys
  <2>14. (\A k \in KeysOf(StepsOf(script)) :
            k[2] = "deploy" \/ <<k[1], "deploy", k[3]>> \in KeysOf(StepsOf(script)) \/ Known(k))'
    BY <2>12 DEF keys
  <2>15. (\A k \in KeysOf(StepsOf(script)) :
            k \in KeysOf(todo) \/ (Has(k) /\ \A j \in KeysOf(todo) : Earlier(k, j)))'
    BY <2>12 DEF keys
  <2> QED BY <2>13, <2>14, <2>15 DEF Progress
<1> QED BY <1>4, <1>5

(* A script is as before when nothing of it changes and contracts grow.    *)
LEMMA ScriptStays ==
  ASSUME DeploymentTypeOK, Growing, UNCHANGED <<setting, scriptState>>, ScriptOK
  PROVE  ScriptOK'
<1>1. UNCHANGED <<setting, script, todo, nonce, awaited, memory>>
  BY DEF scriptState
<1>2. MemoryOK' /\ (script # "none" => Progress')
  BY <1>1, ProgressStays
<1>3. ASSUME awaited # NoTx PROVE Awaiting'
  <2>1. Awaiting
    BY <1>3 DEF ScriptOK
  <2>2. Carried(Head(todo).chain, Head(todo).op, Head(todo).role)'
          = Carried(Head(todo).chain, Head(todo).op, Head(todo).role)
    BY <1>1 DEF Carried, TokenOf
  <2> QED BY <1>1, <2>1, <2>2 DEF Awaiting
<1>4. awaited' = awaited /\ script' = script
  BY <1>1
<1>5. script = "none" => awaited = NoTx
  BY DEF ScriptOK
<1> QED BY <1>2, <1>3, <1>4, <1>5 DEF ScriptOK
(* What is complete stays complete when contracts grow.                    *)
LEMMA UsableStays ==
  ASSUME DeploymentTypeOK, LedgerOK', DeploymentTypeOK', Growing, UNCHANGED setting, NEW c \in Chain,
         NEW a \in DOMAIN ledger[c], Usable(c, ContractAt(c, a), Impls(ContractAt(c, a).kind)),
         ContractAt(c, a).kind # "none"
  PROVE  /\ Usable(c, ContractAt(c, a), Impls(ContractAt(c, a).kind))'
         /\ a \in DOMAIN ledger'[c]
<1> DEFINE k == ContractAt(c, a)
<1>1. k.impl # Nowhere
  <2>1. \A i : ContractAt(c, i).kind # "none" => i # Nowhere
    BY ContractsTyped
  <2>2. "none" \notin Impls(k.kind)
    BY DEF Impls
  <2> QED BY <2>1, <2>2 DEF Usable
<1>2. k'.impl # Nowhere /\ k'.kind = k.kind /\ Initialized(k)'
  BY <1>1 DEF Growing, Grown, Usable, Initialized
<1>3. a \in DOMAIN ledger'[c]
  BY <1>1, <1>2 DEF ContractAt, NoContract
<1>4. ContractOK(c, ledger[c][a].contract)'
  BY <1>3 DEF LedgerOK, EntryOK
<1>5. ContractOK(c, ContractAt(c, a))'
  BY <1>3, <1>4 DEF ContractAt, ContractOK
<1>6. (ContractAt(c, k.impl).kind \in Impls(k.kind))'
  BY <1>2, <1>5 DEF ContractOK
<1> QED BY <1>2, <1>3, <1>6 DEF Usable

(* A complete bridge.                                                      *)
LEMMA BridgeStays ==
  ASSUME DeploymentTypeOK, LedgerOK', DeploymentTypeOK', Growing, UNCHANGED setting, NEW c \in Chain,
         NEW b, NEW t, BridgeComplete(c, b, t)
  PROVE  BridgeComplete(c, b, t)'
<1>0. /\ Impls("bridge") = {"bridgeImpl", "newBridgeImpl"} /\ Impls("validators") = {"validatorsImpl"}
  BY DEF Impls
<1>1. /\ ContractAt(c, b).kind = "bridge" /\ ContractAt(c, b).proxyOwner = setting.admin
      /\ Usable(c, ContractAt(c, b), Impls(ContractAt(c, b).kind))
  BY <1>0 DEF BridgeComplete
<1>2. b \in DOMAIN ledger[c]
  BY <1>1, ContractsTyped
<1>3. Usable(c, ContractAt(c, b), Impls(ContractAt(c, b).kind))'
  BY <1>1, <1>2, UsableStays
<1>4. /\ ContractAt(c, b)'.kind = "bridge" /\ ContractAt(c, b)'.proxyOwner = setting'.admin
      /\ ContractAt(c, b).calls \subseteq ContractAt(c, b)'.calls
  BY <1>1 DEF Growing, Grown
<1>5. PICK v \in DOMAIN ledger[c] :
        /\ <<"initialize", <<v, t>>>> \in ContractAt(c, b).calls
        /\ ContractAt(c, v).kind = "validators" /\ Usable(c, ContractAt(c, v), {"validatorsImpl"})
  BY DEF BridgeComplete
<1>6. Usable(c, ContractAt(c, v), Impls(ContractAt(c, v).kind))' /\ v \in DOMAIN ledger'[c]
  BY <1>0, <1>5, UsableStays
<1>7. ContractAt(c, v)'.kind = "validators"
  BY <1>5 DEF Growing, Grown
<1>8. /\ Usable(c, ContractAt(c, b), {"bridgeImpl", "newBridgeImpl"})'
      /\ Usable(c, ContractAt(c, v), {"validatorsImpl"})'
  BY <1>0, <1>3, <1>4, <1>6, <1>7 DEF Usable
<1>9. <<"initialize", <<v, t>>>> \in ContractAt(c, b)'.calls
  BY <1>4, <1>5
<1> QED BY <1>4, <1>6, <1>7, <1>8, <1>9 DEF BridgeComplete

(* A complete token.                                                       *)
LEMMA TokenStays ==
  ASSUME Growing, NEW c \in Chain, NEW t, NEW b, TokenComplete(c, t, b)
  PROVE  TokenComplete(c, t, b)'
BY DEF TokenComplete, Growing, Grown

(* The bridges of the file, by name.                                       *)
SameBridges ==
  /\ \A b, t : /\ b = written.homeBridge
               /\ t = (IF setting.mode = "ERC_TO_NATIVE" THEN Nowhere ELSE written.homeToken)
               /\ BridgeComplete("home", b, t)
       => BridgeComplete("home", written.homeBridge,
            IF setting.mode = "ERC_TO_NATIVE" THEN Nowhere ELSE written.homeToken)
  /\ \A b, t : b = written.foreignBridge /\ t = written.foreignToken /\ BridgeComplete("foreign", b, t)
       => BridgeComplete("foreign", written.foreignBridge, written.foreignToken)
(* They are the bridges themselves.                                        *)
LEMMA NamedBridges == SameBridges
BY DEF SameBridges

(* What the file names stays complete.                                     *)
LEMMA WrittenStays ==
  ASSUME DeploymentTypeOK, LedgerOK', DeploymentTypeOK', Growing, UNCHANGED <<setting, written>>,
         WrittenIsComplete
  PROVE  WrittenIsComplete'
<1> SUFFICES ASSUME written # NoFile PROVE WrittenIsComplete'
  BY DEF WrittenIsComplete
<1>0. "home" \in Chain /\ "foreign" \in Chain
  BY DEF Chain
<1> DEFINE ht == IF setting.mode = "ERC_TO_NATIVE" THEN Nowhere ELSE written.homeToken
<1>1. \A b, t : b = written.homeBridge /\ t = ht => BridgeComplete("home", b, t)'
  BY <1>0, BridgeStays DEF WrittenIsComplete
<1>2. \A b, t : b = written.foreignBridge /\ t = written.foreignToken => BridgeComplete("foreign", b, t)'
  BY <1>0, BridgeStays DEF WrittenIsComplete
<1>3. HomeTokenSteps # <<>> =>
        \A b, t : b = written.homeBridge /\ t = written.homeToken => TokenComplete("home", t, b)'
  BY <1>0, TokenStays DEF WrittenIsComplete
<1>4. ForeignTokenSteps # <<>> =>
        \A b, t : b = written.foreignBridge /\ t = written.foreignToken => TokenComplete("foreign", t, b)'
  BY <1>0, TokenStays DEF WrittenIsComplete
<1>5. \A f \in setting.fees : \A b : b = written.homeBridge => <<f, <<>>>> \in ContractAt("home", b)'.calls
  BY <1>0 DEF WrittenIsComplete, Growing, Grown
<1>6. HomeTokenSteps' = HomeTokenSteps /\ ForeignTokenSteps' = ForeignTokenSteps
  BY DEF HomeTokenSteps, ForeignTokenSteps, TokenSteps, OnlyIf, Step
<1>12. SameBridges'
  BY NamedBridges, PTL
<1>7. (BridgeComplete("home", written.homeBridge,
         IF setting.mode = "ERC_TO_NATIVE" THEN Nowhere ELSE written.homeToken))'
  BY <1>1, <1>12 DEF SameBridges
<1>8. (BridgeComplete("foreign", written.foreignBridge, written.foreignToken))'
  BY <1>2, <1>12 DEF SameBridges
<1>9. (HomeTokenSteps # <<>> => TokenComplete("home", written.homeToken, written.homeBridge))'
  BY <1>3, <1>6 DEF TokenComplete, ContractAt
<1>10. (ForeignTokenSteps # <<>> =>
         TokenComplete("foreign", written.foreignToken, written.foreignBridge))'
  BY <1>4, <1>6 DEF TokenComplete, ContractAt
<1>11. (\A f \in setting.fees : <<f, <<>>>> \in ContractAt("home", written.homeBridge).calls)'
  BY <1>5 DEF ContractAt
<1> QED BY <1>7, <1>8, <1>9, <1>10, <1>11 DEF WrittenIsComplete
(* Where nothing is mined, what is on the chains stays as it is.           *)
LEMMA LedgerStays ==
  ASSUME UNCHANGED <<setting, ledger>>, LedgerOK
  PROVE  LedgerOK' /\ Growing /\ (\A c \in Chain : \A a : ContractAt(c, a)' = ContractAt(c, a))
<1>1. \A c \in Chain : \A a : ContractAt(c, a)' = ContractAt(c, a)
  BY DEF ContractAt
<1>2. Growing
  BY <1>1 DEF Growing, Grown
<1>3. ASSUME NEW c \in Chain, NEW a \in DOMAIN ledger'[c] PROVE EntryOK(c, a)'
  <2>1. EntryOK(c, a)
    BY DEF LedgerOK
  <2>2. ContractOK(c, ledger[c][a].contract)'
    BY <2>1 DEF EntryOK, ContractOK, ContractAt, Ready, Initialized
  <2>3. ledger'[c][a].ok =>
          HasEffect(ContractAt(c, IF ledger[c][a].tx.op = "deploy" THEN a ELSE ledger[c][a].tx.to),
                    ledger[c][a].tx.op, ledger[c][a].tx.role, ledger[c][a].tx.args)'
    BY <2>1 DEF EntryOK, HasEffect, ContractAt
  <2> QED BY <2>2, <2>3 DEF EntryOK
<1>4. LedgerOK'
  BY <1>3 DEF LedgerOK
<1> QED BY <1>1, <1>2, <1>4

(* And so does the pool.                                                   *)
LEMMA PoolStays ==
  ASSUME UNCHANGED <<setting, ledger, pool>>, PoolOK
  PROVE  PoolOK'
BY DEF PoolOK, Harmless, ContractAt, Ready, Initialized

(* The count of an account is a number.                                    *)
LEMMA CountsAreNumbers ==
  ASSUME DeploymentTypeOK, NEW c \in Chain, NEW account
  PROVE  CountOf(c, account) \in Nat
<1>1. IsFiniteSet(DOMAIN ledger[c])
  BY ContractsTyped, IntervalsAreFinite
<1> QED BY <1>1, FS_Subset, FS_CardinalityType DEF CountOf

(* A script that knows nothing.                                            *)
LEMMA NoMemoryTyped ==
  NoMemory \in [Chain -> [Role -> Nat]] /\ \A c \in Chain, role \in Role : NoMemory[c][role] = Nowhere
BY DEF NoMemory, Nowhere

(* A script that begins has everything to do.                              *)
LEMMA BeginStep ==
  ASSUME DeploymentAssumption, DeploymentInv, NEW s \in FollowUps \cup {"deploy"}, Begin(s)
  PROVE  DeploymentInv'
<1>1. /\ DeploymentTypeOK /\ PoolOK /\ LedgerOK /\ ScriptOK /\ WrittenIsComplete
      /\ setting \in SettingType /\ s \in UpgradeScript \cup {"deploy"}
  BY DEF DeploymentInv, DeploymentTypeOK, DeploymentAssumption
<1>2. /\ UNCHANGED <<setting, ledger, pool, written>>
      /\ script' = s /\ todo' = StepsOf(s) /\ nonce' = CountOf("home", "deployer") /\ awaited' = NoTx
  BY DEF Begin, chainState
<1>3. /\ memory' \in [Chain -> [Role -> Nat]]
      /\ \A c \in Chain : \A role \in Role \ {"bridge", "token"} : memory'[c][role] = Nowhere
      /\ s # "deploy" =>
           /\ written # NoFile
           /\ memory'["home"]["bridge"] = written.homeBridge
           /\ memory'["foreign"]["bridge"] = written.foreignBridge
           /\ memory'["home"]["token"] = written.homeToken
           /\ memory'["foreign"]["token"] = written.foreignToken
  <2>0. /\ NoMemory \in [Chain -> [Role -> Nat]] /\ \A c \in Chain, role \in Role : NoMemory[c][role] = Nowhere
        /\ "bridge" \in Role /\ "token" \in Role /\ Chain = {"home", "foreign"}
    BY NoMemoryTyped DEF Role, Chain
  <2>1. CASE s = "deploy" /\ memory' = NoMemory
    BY <2>0, <2>1
  <2>2. CASE /\ s \in FollowUps /\ written # NoFile
             /\ memory' = [c \in Chain |-> [NoMemory[c] EXCEPT
                  !["bridge"] = IF c = "home" THEN written.homeBridge ELSE written.foreignBridge,
                  !["token"] = IF c = "home" THEN written.homeToken ELSE written.foreignToken]]
    <3>1. /\ written.homeBridge \in Nat /\ written.foreignBridge \in Nat
          /\ written.homeToken \in Nat /\ written.foreignToken \in Nat
      BY <1>1 DEF DeploymentTypeOK
    <3> QED BY <2>0, <2>2, <3>1
  <2> QED BY <2>1, <2>2 DEF Begin
<1>4. DeploymentTypeOK'
  <2>1. CountOf("home", "deployer") \in Nat
    BY <1>1, CountsAreNumbers DEF Chain
  <2> QED BY <1>1, <1>2, <1>3, <2>1 DEF DeploymentTypeOK
<1>5. LedgerOK' /\ Growing /\ (\A c \in Chain : \A a : ContractAt(c, a)' = ContractAt(c, a))
  BY <1>1, <1>2, LedgerStays
<1>6. PoolOK' /\ WrittenIsComplete'
  BY <1>1, <1>2, <1>4, <1>5, PoolStays, WrittenStays
<1>7. MemoryOK'
  BY <1>3 DEF MemoryOK
<1>8. Progress'
  <2> DEFINE keys == KeysOf(StepsOf(s))
  <2>1. StepsOf(script)' = StepsOf(s)
    BY <1>2, StepsBegin
  <2>2. InOrder(StepsOf(s)) /\ Rooted(keys, s)
    BY <1>1, ScriptFacts
  <2>3. KeysOf(StepsOf(script))' = keys /\ KeysOf(todo)' = keys
    BY <1>2, <2>1 DEF KeysOf
  <2>4. InOrder(todo)'
    BY <1>2, <2>2 DEF InOrder
  <2>5. ASSUME NEW k \in keys, k[2] # "deploy", <<k[1], "deploy", k[3]>> \notin keys
        PROVE  Known(k)'
    <3>1. /\ s # "deploy"
          /\ k[3] = "bridge" \/ (k[3] = "token" /\ TokenStepsOn(k[1]) # <<>>)
          /\ k[1] \in {"home", "foreign"}
      BY <2>2, <2>5, PlacesAreNumbers DEF Rooted, Chain
    <3>2. /\ ContractAt("home", written.homeBridge).kind = "bridge"
          /\ ContractAt("foreign", written.foreignBridge).kind = "bridge"
          /\ HomeTokenSteps # <<>> => ContractAt("home", written.homeToken).kind = "token"
          /\ ForeignTokenSteps # <<>> => ContractAt("foreign", written.foreignToken).kind = "token"
      BY <1>1, <1>3, <3>1 DEF WrittenIsComplete, BridgeComplete, TokenComplete
    <3>3. ContractAt(k[1], memory'[k[1]][k[3]]).kind = k[3]
      BY <1>3, <3>1, <3>2 DEF TokenStepsOn
    <3> QED BY <1>2, <3>3 DEF Known, ContractAt
  <2> HIDE DEF keys
  <2>6. (InOrder(todo) /\ KeysOf(todo) \subseteq KeysOf(StepsOf(script)))'
    BY <2>3, <2>4
  <2>7. (\A k \in KeysOf(StepsOf(script)) :
            k[2] = "deploy" \/ <<k[1], "deploy", k[3]>> \in KeysOf(StepsOf(script)) \/ Known(k))'
    BY <2>3, <2>5
  <2>8. (\A k \in KeysOf(StepsOf(script)) :
            k \in KeysOf(todo) \/ (Has(k) /\ \A j \in KeysOf(todo) : Earlier(k, j)))'
    BY <2>3
  <2> QED BY <2>6, <2>7, <2>8 DEF Progress
<1>9. ScriptOK'
  BY <1>2, <1>7, <1>8 DEF ScriptOK, NoTx
<1> QED BY <1>4, <1>5, <1>6, <1>9 DEF DeploymentInv

(* A script that fails forgets everything.                                 *)
LEMMA AbortStep ==
  ASSUME DeploymentInv, AbortScript
  PROVE  DeploymentInv'
<1>1. DeploymentTypeOK /\ PoolOK /\ LedgerOK /\ ScriptOK /\ WrittenIsComplete
  BY DEF DeploymentInv
<1>2. /\ UNCHANGED <<setting, ledger, pool, written>>
      /\ script' = "none" /\ nonce' = 0 /\ awaited' = NoTx /\ memory' = NoMemory
  BY DEF AbortScript, chainState
<1>3. DeploymentTypeOK'
  BY <1>1, <1>2, NoMemoryTyped DEF DeploymentTypeOK
<1>4. LedgerOK' /\ Growing
  BY <1>1, <1>2, LedgerStays
<1>5. PoolOK' /\ WrittenIsComplete'
  BY <1>1, <1>2, <1>3, <1>4, PoolStays, WrittenStays
<1>6. MemoryOK'
  BY <1>2, NoMemoryTyped DEF MemoryOK
<1>7. ScriptOK'
  BY <1>2, <1>6 DEF ScriptOK, NoTx
<1> QED BY <1>3, <1>4, <1>5, <1>7 DEF DeploymentInv
(* The first step of what is to do comes before the others.                *)
LEMMA FirstStep ==
  ASSUME NEW s, InOrder(s), s # <<>>
  PROVE  /\ Head(s) \in ScriptStep /\ KeyOf(Head(s)) \in KeysOf(s)
         /\ Place(Head(s).op, Head(s).role) > 0
         /\ Head(s).op = "deploy" => Head(s).from = "deployer"
         /\ InOrder(Tail(s)) /\ KeysOf(s) = KeysOf(Tail(s)) \cup {KeyOf(Head(s))}
         /\ \A j \in KeysOf(Tail(s)) : Earlier(KeyOf(Head(s)), j)
<1> DEFINE n == Len(s)
           t == Tail(s)
<1>1. s \in Seq(ScriptStep) /\ n \in Nat /\ DOMAIN s = 1..n
  BY LenProperties DEF InOrder
<1>2. n > 0 /\ Head(s) = s[1] /\ 1 \in DOMAIN s /\ t = SubSeq(s, 2, n)
  <2>1. n # 0
    BY <1>1, EmptySeq
  <2> QED BY <1>1, <2>1, HeadTailProperties
<1>3. 2 \in 1..n + 1 /\ n \in 2 - 1..n
  BY <1>1, <1>2
<1> HIDE DEF n
<1>4. InOrder(SubSeq(s, 2, n)) /\ KeysOf(SubSeq(s, 2, n)) = {KeyOf(s[i]) : i \in 2..n}
  BY <1>3, PartInOrder DEF n
<1> HIDE DEF t
<1>5. \A i \in DOMAIN s : i = 1 \/ i \in 2..n
  BY <1>1
<1>6. \A i \in 2..n : i \in DOMAIN s /\ 1 < i
  BY <1>1, <1>2
<1>7. KeysOf(s) = KeysOf(t) \cup {KeyOf(Head(s))}
  <2>1. KeysOf(t) = {KeyOf(s[i]) : i \in 2..n} /\ Head(s) = s[1]
    BY <1>2, <1>4
  <2>2. KeysOf(s) = {KeyOf(s[i]) : i \in DOMAIN s}
    BY DEF KeysOf
  <2>3. \A k \in KeysOf(s) : k \in KeysOf(t) \cup {KeyOf(Head(s))}
    BY <1>5, <2>1, <2>2
  <2>4. \A k \in KeysOf(t) \cup {KeyOf(Head(s))} : k \in KeysOf(s)
    BY <1>2, <1>6, <2>1, <2>2
  <2> QED BY <2>3, <2>4
<1>8. \A j \in KeysOf(t) : Earlier(KeyOf(Head(s)), j)
  BY <1>2, <1>4, <1>6 DEF InOrder
<1>9. s[1] \in ScriptStep
  BY <1>1, <1>2, ElementOfSeq
<1> QED BY <1>2, <1>4, <1>7, <1>8, <1>9 DEF InOrder, t

(* What has an earlier place than the first step is done.                  *)
LEMMA EarlierIsDone ==
  ASSUME Progress, todo # <<>>, NEW j \in KeysOf(StepsOf(script)), InOrder(StepsOf(script)),
         j[1] = Head(todo).chain, Place(j[2], j[3]) < Place(Head(todo).op, Head(todo).role)
  PROVE  Has(j)
<1> DEFINE k == KeyOf(Head(todo))
<1>1. /\ KeysOf(todo) = KeysOf(Tail(todo)) \cup {k} /\ \A i \in KeysOf(Tail(todo)) : Earlier(k, i)
      /\ Head(todo) \in ScriptStep
  BY FirstStep DEF Progress
<1>2. Place(j[2], j[3]) \in Nat /\ Place(k[2], k[3]) \in Nat /\ k[1] = j[1]
      /\ Place(j[2], j[3]) < Place(k[2], k[3])
  <2>1. k \in KeysOf(todo) /\ InOrder(todo)
    BY <1>1 DEF Progress
  <2>2. Place(j[2], j[3]) \in Nat /\ Place(k[2], k[3]) \in Nat
    BY <2>1, PlacesAreNumbers
  <2> QED BY <2>2 DEF KeyOf
<1> HIDE DEF k
<1>3. j # k
  BY <1>2
<1>4. ~Earlier(k, j)
  BY <1>2 DEF Earlier
<1>5. j \notin KeysOf(todo)
  BY <1>1, <1>3, <1>4
<1> QED BY <1>5 DEF Progress
(* What a script does has one of these names.                              *)
LEMMA PlacedOps ==
  ASSUME NEW op \in Op, NEW role \in Role, Place(op, role) > 0, op # "deploy"
  PROVE  \/ op = "upgradeTo" /\ role \in {"validators", "bridge", "token"}
         \/ op = "initialize" /\ role \in {"validators", "newTokenImpl", "tokenImpl", "bridge"}
         \/ op = "handOver" /\ role \in {"validators", "bridge"}
         \/ op = "mint" /\ role = "erc20"
         \/ op = "callToken" /\ role = "bridge"
         \/ op \in FeeSetting /\ role = "bridge"
         \/ op \in {"setBridgeContract", "addBridgeContract", "transferOwnership"} /\ role = "token"
<1>0. \A o \in {"deploy", "upgradeTo", "initialize", "handOver", "setBridgeContract",
                 "addBridgeContract", "transferOwnership", "mint", "callToken"} : o \notin FeeSetting
  BY DEF FeeSetting
<1>1. CASE op = "upgradeTo"
  <2>1. Place(op, role) = UpgradePlace(role)
    BY <1>1, <1>0 DEF Place
  <2> QED BY <1>1, <2>1 DEF UpgradePlace
<1>2. CASE op = "initialize"
  <2>1. Place(op, role) = InitializePlace(role)
    BY <1>2, <1>0 DEF Place
  <2> QED BY <1>2, <2>1 DEF InitializePlace
<1>3. CASE op = "handOver"
  BY <1>0, <1>3 DEF Place, Only
<1>4. CASE op = "mint" \/ op = "callToken"
  BY <1>0, <1>4 DEF Place, Only
<1>5. CASE op \in FeeSetting
  <2>1. Place(op, role) = Only(role, "bridge", FeePlace(op))
    BY <1>0, <1>5 DEF Place
  <2> QED BY <1>5, <2>1 DEF Only
<1>6. CASE op \in {"setBridgeContract", "addBridgeContract", "transferOwnership"}
  <2>1. Place(op, role) = Only(role, "token", TokenPlace(op))
    BY <1>0, <1>6 DEF Place
  <2> QED BY <1>6, <2>1 DEF Only
<1> QED BY <1>1, <1>2, <1>3, <1>4, <1>5, <1>6 DEF Op

(* Whatever a step names is deployed at an earlier place.                  *)
NamedBy(op, role) ==
  {role} \cup (IF op = "initialize" /\ role = "bridge" THEN {"validators", "erc20", "token"} ELSE {})
         \cup (IF op \in {"setBridgeContract", "addBridgeContract", "transferOwnership"}
               THEN {"bridge"} ELSE {})

(* A step comes after the deployment of all it names.                      *)
LEMMA DeployedBefore ==
  ASSUME NEW op \in Op, NEW role \in Role, Place(op, role) > 0, op # "deploy",
         NEW r \in NamedBy(op, role)
  PROVE  Place("deploy", r) < Place(op, role)
<1>1. CASE op = "upgradeTo"
  BY <1>1, PlacedOps, PlaceTable DEF NamedBy, FeeSetting
<1>2. CASE op = "initialize"
  <2>1. role \in {"validators", "newTokenImpl", "tokenImpl", "bridge"}
    BY <1>2, PlacedOps DEF FeeSetting
  <2>2. r = role \/ (role = "bridge" /\ r \in {"validators", "erc20", "token"})
    BY <1>2 DEF NamedBy
  <2> QED BY <1>2, <2>1, <2>2, PlaceTable
<1>3. CASE op = "handOver"
  BY <1>3, PlacedOps, PlaceTable DEF NamedBy, FeeSetting
<1>4. CASE op = "mint" \/ op = "callToken"
  BY <1>4, PlacedOps, PlaceTable DEF NamedBy, FeeSetting
<1>5. CASE op \in FeeSetting
  <2>1. role = "bridge" /\ r = "bridge"
    BY <1>5, PlacedOps DEF NamedBy, FeeSetting
  <2> QED BY <1>5, <2>1, PlaceTable DEF FeeSetting
<1>6. CASE op \in {"setBridgeContract", "addBridgeContract", "transferOwnership"}
  <2>1. role = "token" /\ r \in {"token", "bridge"}
    BY <1>6, PlacedOps DEF NamedBy, FeeSetting
  <2> QED BY <1>6, <2>1, PlaceTable
<1> QED BY <1>1, <1>2, <1>3, <1>4, <1>5, <1>6 DEF Op

(* What a script sends is harmless.                                        *)
LEMMA SentIsHarmless ==
  ASSUME DeploymentTypeOK, ScriptOK, script # "none", todo # <<>>
  PROVE  Harmless(Head(todo).chain, TxOf(Head(todo)))
<1> DEFINE x == Head(todo)
           c == x.chain
           keys == KeysOf(StepsOf(script))
           k == KeyOf(x)
<1>1. /\ Progress /\ MemoryOK /\ setting \in SettingType
      /\ InOrder(StepsOf(script)) /\ Prepared(keys)
  BY ScriptFacts DEF ScriptOK, DeploymentTypeOK
<1>2. /\ x \in ScriptStep /\ k \in KeysOf(todo) /\ Place(x.op, x.role) > 0
      /\ x.op = "deploy" => x.from = "deployer"
  BY <1>1, FirstStep DEF Progress
<1>3. /\ k \in keys /\ c \in Chain /\ x.op \in Op /\ x.role \in Role
      /\ k[1] = c /\ k[2] = x.op /\ k[3] = x.role /\ k = <<c, x.op, x.role>>
  BY <1>1, <1>2 DEF Progress, KeyOf, ScriptStep
<1>4. ASSUME NEW op, NEW role, <<c, op, role>> \in keys, Place(op, role) < Place(x.op, x.role)
      PROVE  Has(<<c, op, role>>)
  <2> DEFINE j == <<c, op, role>>
  <2>1. j \in keys /\ j[1] = c /\ j[2] = op /\ j[3] = role
    BY <1>4
  <2> HIDE DEF j
  <2>2. Has(j)
    BY <1>1, <1>4, <2>1, EarlierIsDone
  <2> QED BY <2>2 DEF j
<1> HIDE DEF keys, k, x, c
<1>5. ASSUME NEW role, <<c, "deploy", role>> \in keys, Place("deploy", role) < Place(x.op, x.role)
      PROVE  ContractAt(c, memory[c][role]).kind = role
  <2>1. Has(<<c, "deploy", role>>)
    BY <1>4, <1>5
  <2> QED BY <2>1 DEF Has, HasEffect
<1> DEFINE tx == TxOf(x)
<1>6. /\ tx.op = x.op /\ tx.role = x.role /\ tx.from = x.from
      /\ x.op # "deploy" => tx.to = memory[c][x.role]
      /\ tx.args = ArgumentsOf(x)
  BY DEF TxOf, c
<1> HIDE DEF tx
<1>7. x.op # "deploy" => ContractAt(c, tx.to).kind = x.role
  <2> SUFFICES ASSUME x.op # "deploy" PROVE ContractAt(c, memory[c][x.role]).kind = x.role
    BY <1>6
  <2>1. Place("deploy", x.role) < Place(x.op, x.role)
    BY <1>2, <1>3, DeployedBefore DEF NamedBy
  <2>2. <<c, "deploy", x.role>> \in keys \/ Known(k)
    BY <1>1, <1>3 DEF Progress, keys
  <2> QED BY <1>3, <1>5, <2>1, <2>2 DEF Known
<1>8. x.op = "deploy" /\ x.role \in {"token", "minter"} =>
           ContractAt(c, tx.args[1]).kind = FirstImpl(x.role)
  <2> SUFFICES ASSUME x.op = "deploy", x.role \in {"token", "minter"}
               PROVE  ContractAt(c, tx.args[1]).kind = FirstImpl(x.role)
    OBVIOUS
  <2>1. tx.args[1] = memory[c][FirstImpl(x.role)]
    BY <1>6 DEF ArgumentsOf, FirstImpl, c
  <2>2. <<c, "deploy", FirstImpl(x.role)>> \in keys
    BY <1>1, <1>3 DEF Prepared
  <2>3. Place("deploy", FirstImpl(x.role)) < Place(x.op, x.role)
    <3>1. FirstImpl("token") = "tokenImpl" /\ FirstImpl("minter") = "minterImpl"
      BY DEF FirstImpl
    <3>2. /\ Place("deploy", "tokenImpl") < Place("deploy", "token")
          /\ Place("deploy", "minterImpl") < Place("deploy", "minter")
      <4>1. /\ Place("deploy", "tokenImpl") = 24 /\ Place("deploy", "token") = 26
            /\ Place("deploy", "minterImpl") = 5 /\ Place("deploy", "minter") = 6
        BY PlaceTable
      <4> QED BY <4>1
    <3> QED BY <3>1, <3>2
  <2> QED BY <1>5, <2>1, <2>2, <2>3
<1>9. x.op = "upgradeTo" => ContractAt(c, tx.args[1]).kind \in Impls(x.role)
  <2> SUFFICES ASSUME x.op = "upgradeTo" PROVE ContractAt(c, UpgradeTarget(c, x.role)).kind \in Impls(x.role)
    BY <1>6 DEF ArgumentsOf, c
  <2>1. x.role \in {"validators", "bridge", "token"}
    BY <1>2, <1>3, PlacedOps DEF FeeSetting
  <2>2. PICK impl \in NewImpls(x.role) : <<c, "deploy", impl>> \in keys
    <3>1. <<c, "upgradeTo", x.role>> \in keys
      BY <1>3
    <3> QED BY <1>1, <1>3, <3>1 DEF Prepared
  <2>3. Place("deploy", impl) < Place(x.op, x.role)
    <3>1. \/ x.role = "validators" /\ impl = "validatorsImpl"
          \/ x.role = "bridge" /\ impl \in {"bridgeImpl", "newBridgeImpl"}
          \/ x.role = "token" /\ impl = "newTokenImpl"
      BY <2>1, <2>2 DEF NewImpls
    <3>2. /\ Place("deploy", "validatorsImpl") < Place("upgradeTo", "validators")
          /\ Place("deploy", "bridgeImpl") < Place("upgradeTo", "bridge")
          /\ Place("deploy", "newBridgeImpl") < Place("upgradeTo", "bridge")
          /\ Place("deploy", "newTokenImpl") < Place("upgradeTo", "token")
      <4>1. /\ Place("deploy", "validatorsImpl") = 12 /\ Place("upgradeTo", "validators") = 13
            /\ Place("deploy", "newBridgeImpl") = 16 /\ Place("deploy", "bridgeImpl") = 22
            /\ Place("upgradeTo", "bridge") = 23
            /\ Place("deploy", "newTokenImpl") = 17 /\ Place("upgradeTo", "token") = 33
        BY PlaceTable
      <4> QED BY <4>1
    <3> QED BY <3>1, <3>2
  <2>4. ContractAt(c, memory[c][impl]).kind = impl
    BY <1>5, <2>2, <2>3
  <2>5. CASE x.role = "validators" \/ x.role = "token"
    BY <2>2, <2>4, <2>5 DEF NewImpls, UpgradeTarget, Impls
  <2>6. CASE x.role = "bridge"
    <3>1. impl \in {"bridgeImpl", "newBridgeImpl"} /\ Impls("bridge") = {"bridgeImpl", "newBridgeImpl"}
      BY <2>2, <2>6 DEF NewImpls, Impls
    <3>2. CASE memory[c]["newBridgeImpl"] # Nowhere
      <4>1. ContractAt(c, memory[c]["newBridgeImpl"]).kind = "newBridgeImpl"
        BY <1>1, <1>3, <3>2 DEF MemoryOK, Role
      <4> QED BY <2>6, <3>1, <3>2, <4>1 DEF UpgradeTarget
    <3>3. CASE memory[c]["newBridgeImpl"] = Nowhere
      <4>1. impl # "newBridgeImpl"
        <5>1. ContractAt(c, memory[c][impl]).kind # "none"
          BY <2>4, <3>1
        <5> QED BY <1>3, <3>3, <5>1, ContractsTyped
      <4> QED BY <2>4, <2>6, <3>1, <3>3, <4>1 DEF UpgradeTarget
    <3> QED BY <3>2, <3>3
  <2> QED BY <2>1, <2>5, <2>6
<1>10. x.op = "handOver" => Ready(ContractAt(c, tx.to))
  <2> SUFFICES ASSUME x.op = "handOver" PROVE Ready(ContractAt(c, memory[c][x.role]))
    BY <1>6
  <2>1. x.role \in {"validators", "bridge"}
    BY <1>2, <1>3, PlacedOps DEF FeeSetting
  <2>2. <<c, "upgradeTo", x.role>> \in keys /\ <<c, "initialize", x.role>> \in keys
    BY <1>1, <1>3 DEF Prepared
  <2>3. Place("upgradeTo", x.role) < Place(x.op, x.role) /\ Place("initialize", x.role) < Place(x.op, x.role)
    <3>1. /\ Place("upgradeTo", "validators") < Place("handOver", "validators")
          /\ Place("initialize", "validators") < Place("handOver", "validators")
          /\ Place("upgradeTo", "bridge") < Place("handOver", "bridge")
          /\ Place("initialize", "bridge") < Place("handOver", "bridge")
      <4>1. /\ Place("upgradeTo", "validators") = 13 /\ Place("initialize", "validators") = 14
            /\ Place("handOver", "validators") = 15 /\ Place("upgradeTo", "bridge") = 23
            /\ Place("initialize", "bridge") = 30 /\ Place("handOver", "bridge") = 31
        BY PlaceTable
      <4> QED BY <4>1
    <3> QED BY <2>1, <3>1
  <2>4. Has(<<c, "upgradeTo", x.role>>) /\ Has(<<c, "initialize", x.role>>)
    BY <1>4, <2>2, <2>3
  <2> DEFINE target == ContractAt(c, memory[c][x.role])
             args == Carried(c, "initialize", x.role)
  <2>5. target.impl # Nowhere /\ <<"initialize", args>> \in target.calls
    BY <2>4 DEF Has, HasEffect
  <2> HIDE DEF target, args
  <2>6. Initialized(target)
    BY <2>5, CallInitializes
  <2> QED BY <2>5, <2>6 DEF Ready, target
<1> QED BY <1>2, <1>6, <1>7, <1>8, <1>9, <1>10 DEF Harmless, tx, x, c
(* A transaction is sent.                                                  *)
LEMMA SendStep ==
  ASSUME DeploymentInv, SendTx
  PROVE  DeploymentInv'
<1> DEFINE x == Head(todo)
           tx == TxOf(x)
<1>1. /\ DeploymentTypeOK /\ PoolOK /\ LedgerOK /\ ScriptOK /\ WrittenIsComplete
      /\ script # "none" /\ todo # <<>> /\ Progress
  BY DEF DeploymentInv, SendTx, ScriptOK
<1>2. /\ UNCHANGED <<setting, ledger, script, todo, memory, written>> /\ awaited' = tx
      /\ pool' = [pool EXCEPT ![x.chain] = @ \cup {tx}]
      /\ nonce' \in {nonce, tx.nonce}
  BY DEF SendTx
<1>3. x \in ScriptStep /\ x.chain \in Chain /\ x.op \in Op /\ x.role \in Role
  BY <1>1, FirstStep DEF Progress, ScriptStep
<1>4. tx \in Transaction /\ tx.nonce \in Nat
  BY <1>1, <1>3, TransactionsTyped DEF Transaction
<1>5. Harmless(x.chain, tx)
  BY <1>1, SentIsHarmless
<1>6. /\ tx.op = x.op /\ tx.role = x.role
      /\ x.op # "deploy" => tx.to = memory[x.chain][x.role]
      /\ x.op \notin {"deploy", "upgradeTo", "handOver", "callToken"} =>
           tx.args = Carried(x.chain, x.op, x.role)
  BY DEF TxOf, ArgumentsOf, Carried
<1> HIDE DEF tx
<1>7. /\ pool' \in [Chain -> SUBSET Transaction]
      /\ \A d \in Chain : \A y \in pool'[d] : y \in pool[d] \/ (d = x.chain /\ y = tx)
  BY <1>1, <1>2, <1>3, <1>4 DEF DeploymentTypeOK
<1>8. DeploymentTypeOK'
  BY <1>1, <1>2, <1>4, <1>7 DEF DeploymentTypeOK
<1>9. LedgerOK' /\ Growing
  BY <1>1, <1>2, LedgerStays
<1>10. WrittenIsComplete'
  BY <1>1, <1>2, <1>8, <1>9, WrittenStays
<1>11. PoolOK'
  <2>1. \A d \in Chain : \A y \in pool'[d] : y \in Transaction /\ Harmless(d, y)
    BY <1>1, <1>4, <1>5, <1>7 DEF PoolOK, DeploymentTypeOK
  <2>2. \A d \in Chain : \A y \in pool'[d] : Harmless(d, y)'
    BY <1>9, <2>1, HarmlessStays
  <2> QED BY <2>2 DEF PoolOK
<1>12. MemoryOK' /\ Progress'
  BY <1>1, <1>2, <1>9, ProgressStays
<1>13. Awaiting'
  <2>1. Carried(Head(todo).chain, Head(todo).op, Head(todo).role)'
          = Carried(Head(todo).chain, Head(todo).op, Head(todo).role)
    BY <1>2 DEF Carried, TokenOf
  <2> QED BY <1>1, <1>2, <1>6, <2>1 DEF Awaiting
<1>14. ScriptOK'
  BY <1>1, <1>2, <1>12, <1>13 DEF ScriptOK
<1> QED BY <1>8, <1>9, <1>10, <1>11, <1>14 DEF DeploymentInv

(* What another contract's address is for is done with it: it keeps the    *)
(* addresses it uses when a later contract is deployed.                    *)
Remember(c, role, a) == [memory EXCEPT ![c][role] = a]

(* What is done before a contract is deployed does not use its address.    *)
LEMMA DoneIsKept ==
  ASSUME DeploymentTypeOK, UNCHANGED <<setting, ledger>>, NEW c \in Chain, NEW r \in Role, NEW a,
         memory' = Remember(c, r, a),
         NEW op \in Op, NEW role \in Role, NEW d \in Chain, Place(op, role) > 0,
         d = c => Place(op, role) < Place("deploy", r),
         Has(<<d, op, role>>)
  PROVE  Has(<<d, op, role>>)'
<1>1. \A q \in Role : (d # c \/ q # r) => memory'[d][q] = memory[d][q]
  BY DEF Remember, DeploymentTypeOK
<1>2. d = c => r \notin NamedBy(op, role)
  <2> SUFFICES ASSUME d = c, r \in NamedBy(op, role) PROVE FALSE
    OBVIOUS
  <2>1. Place("deploy", r) \in Nat /\ Place(op, role) \in Nat /\ Place(op, role) < Place("deploy", r)
    BY PlaceIsNumber DEF Op
  <2>2. CASE op = "deploy"
    <3>1. r = role
      BY <2>2 DEF NamedBy
    <3> QED BY <2>1, <2>2, <3>1
  <2>3. CASE op # "deploy"
    <3>1. Place("deploy", r) < Place(op, role)
      BY <2>3, DeployedBefore
    <3> QED BY <2>1, <3>1
  <2> QED BY <2>2, <2>3
<1>3. \A q \in Role : q \in NamedBy(op, role) => memory'[d][q] = memory[d][q]
  BY <1>1, <1>2
<1>4. memory'[d][role] = memory[d][role]
  BY <1>3 DEF NamedBy
<1>5. Carried(d, op, role)' = Carried(d, op, role)
  <2>1. {"validators", "erc20", "token", "bridge"} \subseteq Role
    BY DEF Role
  <2>2. CASE op = "initialize" /\ role = "bridge"
    <3>1. \A q \in {"validators", "erc20", "token", "bridge"} : memory'[d][q] = memory[d][q]
      BY <1>3, <2>1, <2>2 DEF NamedBy
    <3>2. TokenOf(d)' = TokenOf(d)
      BY <3>1 DEF TokenOf
    <3> QED BY <2>2, <3>1, <3>2 DEF Carried
  <2>3. CASE op \in {"setBridgeContract", "addBridgeContract", "transferOwnership"}
    <3>1. memory'[d]["bridge"] = memory[d]["bridge"]
      BY <1>3, <2>1, <2>3 DEF NamedBy
    <3> QED BY <2>3, <3>1 DEF Carried
  <2>4. CASE /\ ~(op = "initialize" /\ role = "bridge")
             /\ op \notin {"setBridgeContract", "addBridgeContract", "transferOwnership"}
    BY <2>4 DEF Carried
  <2> QED BY <2>2, <2>3, <2>4
<1> QED BY <1>4, <1>5 DEF Has, HasEffect, ContractAt
(* The receipt says that the step is done; what was done before stays so.  *)
LEMMA ReceiptProgress ==
  ASSUME DeploymentTypeOK, LedgerOK, ScriptOK, script # "none", GetReceipt
  PROVE  memory' \in [Chain -> [Role -> Nat]] /\ MemoryOK' /\ Progress'
<1> DEFINE x == Head(todo)
           c == x.chain
           k == KeyOf(x)
           keys == KeysOf(StepsOf(script))
           rest == Tail(todo)
<1>1. /\ setting \in SettingType /\ awaited # NoTx /\ Progress /\ MemoryOK /\ Awaiting /\ todo # <<>>
      /\ InOrder(StepsOf(script)) /\ InOrder(todo) /\ KeysOf(todo) \subseteq keys
  BY ScriptFacts DEF DeploymentTypeOK, ScriptOK, GetReceipt, Awaiting, Progress
<1>2. /\ UNCHANGED <<setting, ledger, script>> /\ todo' = rest
  BY DEF GetReceipt, chainState
<1>3. PICK a \in DOMAIN ledger[c] :
        /\ ledger[c][a].tx = awaited /\ ledger[c][a].ok
        /\ memory' = IF x.op = "deploy" THEN Remember(c, x.role, a) ELSE memory
  BY DEF GetReceipt, Remember
<1>4. /\ x \in ScriptStep /\ c \in Chain /\ x.op \in Op /\ x.role \in Role
      /\ k \in keys /\ k[1] = c /\ k[2] = x.op /\ k[3] = x.role /\ k = <<c, x.op, x.role>>
      /\ InOrder(rest) /\ KeysOf(todo) = KeysOf(rest) \cup {k}
      /\ \A j \in KeysOf(rest) : Earlier(k, j)
  BY <1>1, FirstStep DEF KeyOf, ScriptStep
<1>5. /\ \A j \in keys : j[2] = "deploy" \/ <<j[1], "deploy", j[3]>> \in keys \/ Known(j)
      /\ \A j \in keys : j \in KeysOf(todo) \/ (Has(j) /\ \A i \in KeysOf(todo) : Earlier(j, i))
      /\ \A j \in keys : /\ j = <<j[1], j[2], j[3]>> /\ j[1] \in Chain /\ j[2] \in Op /\ j[3] \in Role
                         /\ Place(j[2], j[3]) > 0
  <2>1. \A j \in keys : j[2] = "deploy" \/ <<j[1], "deploy", j[3]>> \in keys \/ Known(j)
    BY <1>1 DEF Progress
  <2>2. \A j \in keys : j \in KeysOf(todo) \/ (Has(j) /\ \A i \in KeysOf(todo) : Earlier(j, i))
    BY <1>1 DEF Progress
  <2>3. \A j \in keys : /\ j = <<j[1], j[2], j[3]>> /\ j[1] \in Chain /\ j[2] \in Op /\ j[3] \in Role
                         /\ Place(j[2], j[3]) > 0
    BY <1>1, PlacesAreNumbers
  <2> QED BY <2>1, <2>2, <2>3
<1>6. a \in Nat /\ \A d \in Chain : \A b : ContractAt(d, b)' = ContractAt(d, b)
  <2>1. a \in Nat
    BY <1>3, <1>4, ContractsTyped
  <2> QED BY <1>2, <2>1 DEF ContractAt
<1>7. HasEffect(ContractAt(c, IF x.op = "deploy" THEN a ELSE awaited.to), x.op, x.role, awaited.args)
  <2>1. EntryOK(c, a) /\ awaited.op = x.op /\ awaited.role = x.role
    BY <1>1, <1>3, <1>4 DEF LedgerOK, Awaiting
  <2> QED BY <1>3, <2>1 DEF EntryOK
<1>8. /\ x.op # "deploy" => awaited.to = memory[c][x.role]
      /\ x.op \notin {"deploy", "upgradeTo", "handOver", "callToken"} =>
           awaited.args = Carried(c, x.op, x.role)
  BY <1>1 DEF Awaiting
<1> HIDE DEF x, c, k, keys, rest
<1>9. memory' \in [Chain -> [Role -> Nat]]
  BY <1>3, <1>4, <1>6 DEF DeploymentTypeOK, Remember
<1>10. ASSUME NEW j, j = k PROVE Has(j)'
  <2>0. j[1] = c /\ j[2] = x.op /\ j[3] = x.role
    BY <1>4, <1>10
  <2>1. CASE x.op = "deploy"
    <3>1. memory'[j[1]][j[3]] = a /\ ContractAt(j[1], a).kind = j[3]
      BY <1>3, <1>4, <1>7, <2>0, <2>1 DEF HasEffect, Remember, DeploymentTypeOK
    <3> QED BY <1>2, <2>0, <2>1, <3>1 DEF Has, HasEffect, ContractAt
  <2>2. CASE x.op # "deploy"
    <3>1. memory' = memory
      BY <1>3, <2>2
    <3>2. Has(j)
      <4>1. HasEffect(ContractAt(c, memory[c][x.role]), x.op, x.role, awaited.args)
        BY <1>7, <1>8, <2>2
      <4>2. HasEffect(ContractAt(c, memory[c][x.role]), x.op, x.role, Carried(c, x.op, x.role))
        <5>1. CASE x.op \in {"upgradeTo", "handOver", "callToken"}
          BY <4>1, <5>1 DEF HasEffect
        <5>2. CASE x.op \notin {"deploy", "upgradeTo", "handOver", "callToken"}
          BY <1>8, <4>1, <5>2
        <5> QED BY <2>2, <5>1, <5>2
      <4> QED BY <2>0, <4>2 DEF Has
    <3>3. Carried(j[1], j[2], j[3])' = Carried(j[1], j[2], j[3])
      BY <1>2, <3>1 DEF Carried, TokenOf
    <3> QED BY <1>2, <3>1, <3>2, <3>3 DEF Has, HasEffect, ContractAt
  <2> QED BY <2>1, <2>2
<1>11. ASSUME NEW j \in keys, j \notin KeysOf(todo) PROVE Has(j)'
  <2>1. Has(j) /\ Earlier(j, k) /\ j[1] \in Chain /\ j[2] \in Op /\ j[3] \in Role /\ Place(j[2], j[3]) > 0
    BY <1>4, <1>5, <1>11
  <2>2. CASE x.op = "deploy"
    <3>1. j[1] = c => Place(j[2], j[3]) < Place("deploy", x.role)
      BY <1>4, <2>1, <2>2 DEF Earlier
    <3>2. memory' = Remember(c, x.role, a)
      BY <1>3, <2>2
    <3>3. Has(<<j[1], j[2], j[3]>>)
      BY <1>5, <2>1
    <3>4. Has(<<j[1], j[2], j[3]>>)'
      BY <1>2, <1>4, <2>1, <3>1, <3>2, <3>3, DoneIsKept
    <3>5. j = <<j[1], j[2], j[3]>>
      BY <1>5
    <3> QED BY <3>4, <3>5 DEF Has
  <2>3. CASE x.op # "deploy"
    <3>1. memory' = memory
      BY <1>3, <2>3
    <3>2. Carried(j[1], j[2], j[3])' = Carried(j[1], j[2], j[3])
      BY <1>2, <3>1 DEF Carried, TokenOf
    <3> QED BY <1>2, <2>1, <3>1, <3>2 DEF Has, HasEffect, ContractAt
  <2> QED BY <2>2, <2>3
<1>12. ASSUME NEW j \in keys, j[2] # "deploy", <<j[1], "deploy", j[3]>> \notin keys PROVE Known(j)'
  <2>1. Known(j) /\ j[1] \in Chain /\ j[3] \in Role
    BY <1>5, <1>12
  <2>2. x.op = "deploy" => j[1] # c \/ j[3] # x.role
    BY <1>4, <1>12
  <2>3. memory'[j[1]][j[3]] = memory[j[1]][j[3]]
    BY <1>3, <1>4, <2>1, <2>2 DEF Remember, DeploymentTypeOK
  <2> QED BY <1>2, <2>1, <2>3 DEF Known, ContractAt
<1>13. MemoryOK'
  <2> SUFFICES ASSUME NEW d \in Chain, NEW role \in Role \ {"bridge", "token"}, memory'[d][role] # Nowhere
               PROVE  ContractAt(d, memory'[d][role]).kind = role
    BY <1>2 DEF MemoryOK, ContractAt
  <2>1. CASE x.op = "deploy" /\ d = c /\ role = x.role
    BY <1>3, <1>4, <1>7, <2>1 DEF HasEffect, Remember, DeploymentTypeOK
  <2>2. CASE ~(x.op = "deploy" /\ d = c /\ role = x.role)
    <3>1. memory'[d][role] = memory[d][role]
      BY <1>3, <1>4, <2>2 DEF Remember, DeploymentTypeOK
    <3> QED BY <1>1, <3>1 DEF MemoryOK
  <2> QED BY <2>1, <2>2
<1>14. StepsOf(script)' = StepsOf(script)
  BY <1>2, StepsStay
<1>15. KeysOf(StepsOf(script))' = keys /\ KeysOf(todo)' = KeysOf(rest) /\ InOrder(todo)'
  BY <1>2, <1>4, <1>14 DEF KeysOf, InOrder, keys
<1>16. (InOrder(todo) /\ KeysOf(todo) \subseteq KeysOf(StepsOf(script)))'
  BY <1>1, <1>4, <1>15
<1>17. (\A j \in KeysOf(StepsOf(script)) :
            j[2] = "deploy" \/ <<j[1], "deploy", j[3]>> \in KeysOf(StepsOf(script)) \/ Known(j))'
  BY <1>12, <1>15
<1>18. (\A j \in KeysOf(StepsOf(script)) :
            j \in KeysOf(todo) \/ (Has(j) /\ \A i \in KeysOf(todo) : Earlier(j, i)))'
  <2>1. \A j \in keys : j \in KeysOf(rest) \/ (Has(j)' /\ \A i \in KeysOf(rest) : Earlier(j, i))
    BY <1>4, <1>5, <1>10, <1>11
  <2> QED BY <1>15, <2>1
<1>19. Progress'
  BY <1>16, <1>17, <1>18 DEF Progress
<1> QED BY <1>9, <1>13, <1>19

(* A receipt arrives.                                                      *)
LEMMA ReceiptStep ==
  ASSUME DeploymentInv, GetReceipt
  PROVE  DeploymentInv'
<1>1. DeploymentTypeOK /\ PoolOK /\ LedgerOK /\ ScriptOK /\ WrittenIsComplete
  BY DEF DeploymentInv
<1>2. /\ UNCHANGED <<setting, ledger, pool, script, written>>
      /\ awaited # NoTx /\ nonce' = nonce + 1 /\ awaited' = NoTx
  BY DEF GetReceipt, chainState
<1>3. script # "none"
  BY <1>1, <1>2 DEF ScriptOK
<1>4. memory' \in [Chain -> [Role -> Nat]] /\ MemoryOK' /\ Progress'
  BY <1>1, <1>3, ReceiptProgress
<1>5. DeploymentTypeOK'
  BY <1>1, <1>2, <1>4 DEF DeploymentTypeOK
<1>6. LedgerOK' /\ Growing
  BY <1>1, <1>2, LedgerStays
<1>7. PoolOK' /\ WrittenIsComplete'
  BY <1>1, <1>2, <1>5, <1>6, PoolStays, WrittenStays
<1>8. ScriptOK'
  BY <1>2, <1>4 DEF ScriptOK, NoTx
<1> QED BY <1>5, <1>6, <1>7, <1>8 DEF DeploymentInv
(* When a deployment has nothing to do any more, everything is done.       *)
LEMMA DeployedBridge ==
  ASSUME DeploymentTypeOK, LedgerOK, script = "deploy", NEW c \in Chain,
         \A k \in KeysOf(StepsOf("deploy")) : Has(k)
  PROVE  BridgeComplete(c, memory[c]["bridge"], TokenOf(c))
<1> DEFINE b == memory[c]["bridge"]
           v == memory[c]["validators"]
<1>1. \A k \in ChainKeys(c) : Has(k)
  <2>1. ChainKeys("home") \cup ChainKeys("foreign") \subseteq KeysOf(StepsOf("deploy"))
    BY DeployFacts DEF DeploymentTypeOK
  <2> QED BY <2>1 DEF Chain
<1>2. ASSUME NEW role \in {"validators", "bridge"}
      PROVE  LET k == ContractAt(c, memory[c][role])
             IN  /\ k.kind = role /\ k.impl # Nowhere /\ k.proxyOwner = setting.admin
                 /\ <<"initialize", Carried(c, "initialize", role)>> \in k.calls
  <2>1. /\ <<c, "deploy", role>> \in ChainKeys(c) /\ <<c, "upgradeTo", role>> \in ChainKeys(c)
        /\ <<c, "initialize", role>> \in ChainKeys(c) /\ <<c, "handOver", role>> \in ChainKeys(c)
    BY DEF ChainKeys, ProxyKeys
  <2>2. /\ Has(<<c, "deploy", role>>) /\ Has(<<c, "upgradeTo", role>>)
        /\ Has(<<c, "initialize", role>>) /\ Has(<<c, "handOver", role>>)
    BY <1>1, <2>1
  <2> QED BY <2>2 DEF Has, HasEffect
<1>3. ASSUME NEW role \in {"validators", "bridge"}
      PROVE  /\ memory[c][role] \in DOMAIN ledger[c]
             /\ Usable(c, ContractAt(c, memory[c][role]), Impls(role))
  <2> DEFINE k == ContractAt(c, memory[c][role])
             args == Carried(c, "initialize", role)
  <2>1. k.kind = role /\ k.impl # Nowhere /\ <<"initialize", args>> \in k.calls
    BY <1>2
  <2>2. memory[c][role] \in DOMAIN ledger[c]
    BY <2>1, ContractsTyped
  <2>3. ContractOK(c, k)
    BY <2>2 DEF LedgerOK, EntryOK, ContractAt
  <2> HIDE DEF k, args
  <2>4. Initialized(k)
    BY <2>1, CallInitializes
  <2>5. ContractAt(c, k.impl).kind \in Impls(role)
    BY <2>1, <2>3 DEF ContractOK
  <2> QED BY <2>2, <2>4, <2>5 DEF Usable, k
<1>4. <<"initialize", <<v, TokenOf(c)>>>> \in ContractAt(c, b).calls
  BY <1>2 DEF Carried
<1>5. Impls("bridge") = {"bridgeImpl", "newBridgeImpl"} /\ Impls("validators") = {"validatorsImpl"}
  BY DEF Impls
<1>6. /\ ContractAt(c, b).kind = "bridge" /\ ContractAt(c, b).proxyOwner = setting.admin
      /\ Usable(c, ContractAt(c, b), {"bridgeImpl", "newBridgeImpl"})
  BY <1>2, <1>3, <1>5
<1>7. /\ ContractAt(c, v).kind = "validators" /\ v \in DOMAIN ledger[c]
      /\ Usable(c, ContractAt(c, v), {"validatorsImpl"})
  BY <1>2, <1>3, <1>5
<1> HIDE DEF b, v
<1>8. BridgeComplete(c, b, TokenOf(c))
  BY <1>4, <1>6, <1>7 DEF BridgeComplete
<1> QED BY <1>8 DEF b

(* The token of a finished deployment.                                     *)
LEMMA DeployedToken ==
  ASSUME DeploymentTypeOK, NEW c \in Chain, TokenStepsOn(c) # <<>>,
         \A k \in KeysOf(StepsOf("deploy")) : Has(k)
  PROVE  TokenOf(c) = memory[c]["token"] /\ TokenComplete(c, memory[c]["token"], memory[c]["bridge"])
<1>1. TokenOf(c) = memory[c]["token"]
  BY DEF TokenStepsOn, HomeTokenSteps, ForeignTokenSteps, OnlyIf, TokenOf, Chain
<1>2. \A k \in TokenKeys(c) : Has(k)
  <2>1. TokenKeys(c) \subseteq KeysOf(StepsOf("deploy"))
    BY DeployFacts DEF DeploymentTypeOK, TokenStepsOn, Chain
  <2> QED BY <2>1
<1>3. /\ Has(<<c, "deploy", "token">>) /\ Has(<<c, "setBridgeContract", "token">>)
      /\ Has(<<c, "addBridgeContract", "token">>) /\ Has(<<c, "transferOwnership", "token">>)
  BY <1>2 DEF TokenKeys
<1> QED BY <1>1, <1>3 DEF Has, HasEffect, Carried, TokenComplete

(* A script finishes.                                                      *)
LEMMA FinishStep ==
  ASSUME DeploymentInv, Finish
  PROVE  DeploymentInv'
<1>1. /\ DeploymentTypeOK /\ PoolOK /\ LedgerOK /\ ScriptOK /\ WrittenIsComplete
      /\ script # "none" /\ todo = <<>> /\ Progress /\ setting \in SettingType
  BY DEF DeploymentInv, Finish, ScriptOK, DeploymentTypeOK
<1>2. awaited = NoTx
  BY <1>1 DEF ScriptOK, Awaiting
<1>3. /\ UNCHANGED <<setting, ledger, pool>>
      /\ script' = "none" /\ nonce' = 0 /\ awaited' = NoTx /\ memory' = NoMemory
  BY <1>2 DEF Finish, chainState
<1>4. LedgerOK' /\ Growing /\ \A c \in Chain : \A a : ContractAt(c, a)' = ContractAt(c, a)
  BY <1>1, <1>3, LedgerStays
<1>5. "home" \in Chain /\ "foreign" \in Chain
  BY DEF Chain
<1>6. /\ TokenOf("home") \in Nat /\ TokenOf("foreign") \in Nat /\ HomeTokenWritten \in Nat
      /\ memory["home"]["bridge"] \in Nat /\ memory["foreign"]["bridge"] \in Nat
  <2>1. \A c \in Chain : memory[c]["bridge"] \in Nat /\ memory[c]["token"] \in Nat /\ memory[c]["erc20"] \in Nat
    BY <1>1 DEF DeploymentTypeOK, Role
  <2>2. Given \in Nat /\ Nowhere \in Nat
    BY DEF Given, Nowhere
  <2>3. \A c \in Chain : TokenOf(c) \in Nat
    BY <2>1, <2>2 DEF TokenOf
  <2> QED BY <1>5, <2>1, <2>3 DEF HomeTokenWritten
<1>7. DeploymentTypeOK'
  BY <1>1, <1>3, <1>6, NoMemoryTyped DEF DeploymentTypeOK, Finish
<1>8. PoolOK'
  BY <1>1, <1>3, PoolStays
<1>9. MemoryOK'
  BY <1>3, NoMemoryTyped DEF MemoryOK
<1>10. ScriptOK'
  BY <1>3, <1>9 DEF ScriptOK, NoTx
<1>11. WrittenIsComplete'
  <2>1. CASE script # "deploy"
    <3>1. written' = written
      BY <2>1 DEF Finish
    <3> QED BY <1>1, <1>3, <1>4, <1>7, <3>1, WrittenStays
  <2>2. CASE script = "deploy"
    <3> DEFINE hb == memory["home"]["bridge"]
               fb == memory["foreign"]["bridge"]
    <3>1. /\ written'.homeBridge = hb /\ written'.foreignBridge = fb
          /\ written'.homeToken = HomeTokenWritten /\ written'.foreignToken = TokenOf("foreign")
      BY <2>2 DEF Finish
    <3>2. \A k \in KeysOf(StepsOf("deploy")) : Has(k)
      <4>1. KeysOf(todo) = {}
        BY <1>1 DEF KeysOf
      <4> QED BY <1>1, <2>2, <4>1 DEF Progress
    <3>3. BridgeComplete("home", hb, TokenOf("home")) /\ BridgeComplete("foreign", fb, TokenOf("foreign"))
      BY <1>1, <1>5, <2>2, <3>2, DeployedBridge
    <3>4. /\ HomeTokenSteps # <<>> =>
               TokenOf("home") = memory["home"]["token"] /\ TokenComplete("home", memory["home"]["token"], hb)
          /\ ForeignTokenSteps # <<>> =>
               TokenOf("foreign") = memory["foreign"]["token"]
                 /\ TokenComplete("foreign", memory["foreign"]["token"], fb)
      BY <1>1, <1>5, <3>2, DeployedToken DEF TokenStepsOn
    <3>5. \A f \in setting.fees : <<f, <<>>>> \in ContractAt("home", hb).calls
      <4> SUFFICES ASSUME NEW f \in setting.fees PROVE <<f, <<>>>> \in ContractAt("home", hb).calls
        OBVIOUS
      <4>1. <<"home", f, "bridge">> \in KeysOf(StepsOf("deploy")) /\ f \in FeeSetting
        BY <1>1, DeployFacts DEF FeeKeys, SettingType
      <4>2. Has(<<"home", f, "bridge">>)
        BY <3>2, <4>1
      <4> QED BY <4>1, <4>2 DEF Has, HasEffect, Carried, FeeSetting
    <3>6. HomeTokenSteps # <<>> => setting.mode # "ERC_TO_NATIVE"
      BY DEF HomeTokenSteps, OnlyIf
    <3>7. /\ setting.mode = "ERC_TO_NATIVE" => TokenOf("home") = Nowhere
          /\ setting.mode # "ERC_TO_NATIVE" => HomeTokenWritten = TokenOf("home")
      BY DEF TokenOf, HomeTokenWritten
    <3> HIDE DEF hb, fb
    <3>8. \A b, t : b = hb /\ t = TokenOf("home") => BridgeComplete("home", b, t)'
      BY <1>1, <1>3, <1>4, <1>5, <1>7, <3>3, BridgeStays
    <3>9. \A b, t : b = fb /\ t = TokenOf("foreign") => BridgeComplete("foreign", b, t)'
      BY <1>1, <1>3, <1>4, <1>5, <1>7, <3>3, BridgeStays
    <3>10. HomeTokenSteps # <<>> =>
             \A b, t : b = hb /\ t = HomeTokenWritten => TokenComplete("home", t, b)'
      BY <1>4, <1>5, <3>4, <3>6, <3>7, TokenStays
    <3>11. ForeignTokenSteps # <<>> =>
             \A b, t : b = fb /\ t = TokenOf("foreign") => TokenComplete("foreign", t, b)'
      BY <1>4, <1>5, <3>4, TokenStays
    <3>12. SameBridges'
      BY NamedBridges, PTL
    <3>13. (BridgeComplete("home", written.homeBridge,
              IF setting.mode = "ERC_TO_NATIVE" THEN Nowhere ELSE written.homeToken))'
      BY <1>3, <3>1, <3>7, <3>8, <3>12 DEF SameBridges
    <3>14. (BridgeComplete("foreign", written.foreignBridge, written.foreignToken))'
      BY <3>1, <3>9, <3>12 DEF SameBridges
    <3>15. HomeTokenSteps' = HomeTokenSteps /\ ForeignTokenSteps' = ForeignTokenSteps
      BY <1>3 DEF HomeTokenSteps, ForeignTokenSteps, TokenSteps, OnlyIf, Step
    <3>16. (HomeTokenSteps # <<>> => TokenComplete("home", written.homeToken, written.homeBridge))'
      BY <3>1, <3>10, <3>15 DEF TokenComplete, ContractAt
    <3>17. (ForeignTokenSteps # <<>> =>
              TokenComplete("foreign", written.foreignToken, written.foreignBridge))'
      BY <3>1, <3>11, <3>15 DEF TokenComplete, ContractAt
    <3>18. (\A f \in setting.fees : <<f, <<>>>> \in ContractAt("home", written.homeBridge).calls)'
      BY <1>3, <3>1, <3>5 DEF ContractAt
    <3> QED BY <3>13, <3>14, <3>16, <3>17, <3>18 DEF WrittenIsComplete
  <2> QED BY <2>1, <2>2
<1> QED BY <1>4, <1>7, <1>8, <1>10, <1>11 DEF DeploymentInv

(* A transaction is mined.                                                 *)
LEMMA MineStep ==
  ASSUME DeploymentInv, NEW c \in Chain, NEW tx \in pool[c], MineTx(c, tx)
  PROVE  DeploymentInv'
<1>1. DeploymentTypeOK /\ PoolOK /\ LedgerOK /\ ScriptOK /\ WrittenIsComplete
  BY DEF DeploymentInv
<1>2. UNCHANGED <<setting, scriptState, written>>
  BY DEF MineTx
<1>3. DeploymentTypeOK' /\ PoolOK' /\ LedgerOK'
  BY <1>1, MinedTypesAndPool, MinedLedger
<1>4. Growing
  BY <1>1, MinedGrows DEF Growing
<1>5. ScriptOK' /\ WrittenIsComplete'
  BY <1>1, <1>2, <1>3, <1>4, ScriptStays, WrittenStays
<1> QED BY <1>3, <1>5 DEF DeploymentInv

(* Nothing is deployed at first.                                           *)
LEMMA DeploymentStarts == ASSUME DeploymentAssumption, DeploymentInit PROVE DeploymentInv
<1>1. DeploymentTypeOK
  BY NoMemoryTyped DEF DeploymentInit, DeploymentTypeOK, DeploymentAssumption, NoFile, Nowhere
<1>2. PoolOK /\ LedgerOK
  BY DEF DeploymentInit, PoolOK, LedgerOK
<1>3. MemoryOK
  BY NoMemoryTyped DEF DeploymentInit, MemoryOK
<1>4. ScriptOK
  BY <1>3 DEF DeploymentInit, ScriptOK
<1>5. WrittenIsComplete
  BY DEF DeploymentInit, WrittenIsComplete
<1> QED BY <1>1, <1>2, <1>4, <1>5 DEF DeploymentInv

(* The inductive invariant of the deployment.                              *)
THEOREM DeploymentInvariant == DeploymentSpec => []DeploymentInv
<1>1. DeploymentInit => DeploymentInv
  BY DeploymentAssumption, DeploymentStarts
<1>2. DeploymentInv /\ [DeploymentNext]_deploymentVars => DeploymentInv'
  <2> SUFFICES ASSUME DeploymentInv, [DeploymentNext]_deploymentVars PROVE DeploymentInv'
    OBVIOUS
  <2>1. CASE \E s \in FollowUps \cup {"deploy"} : Begin(s)
    BY <2>1, DeploymentAssumption, BeginStep
  <2>2. CASE SendTx
    BY <2>2, SendStep
  <2>3. CASE GetReceipt
    BY <2>3, ReceiptStep
  <2>4. CASE Finish
    BY <2>4, FinishStep
  <2>5. CASE AbortScript
    BY <2>5, AbortStep
  <2>6. CASE \E c \in Chain : \E tx \in pool[c] : MineTx(c, tx)
    BY <2>6, MineStep
  <2>7. CASE UNCHANGED deploymentVars
    <3>1. UNCHANGED <<setting, ledger, pool, scriptState, written>>
          /\ UNCHANGED <<script, nonce, memory>>
      BY <2>7 DEF deploymentVars, chainState, scriptState
    <3>2. DeploymentTypeOK /\ PoolOK /\ LedgerOK /\ ScriptOK /\ WrittenIsComplete
      BY DEF DeploymentInv
    <3>3. DeploymentTypeOK'
      BY <3>1, <3>2 DEF DeploymentTypeOK
    <3>4. LedgerOK' /\ Growing /\ PoolOK'
      BY <3>1, <3>2, LedgerStays, PoolStays
    <3>5. ScriptOK' /\ WrittenIsComplete'
      BY <3>1, <3>2, <3>3, <3>4, ScriptStays, WrittenStays
    <3> QED BY <3>3, <3>4, <3>5 DEF DeploymentInv
  <2> QED BY <2>1, <2>2, <2>3, <2>4, <2>5, <2>6, <2>7 DEF DeploymentNext
<1> QED BY <1>1, <1>2, PTL DEF DeploymentSpec

(* Whatever a failed run leaves to be mined later, a proxy that belongs to *)
(* the admin has its implementation and is initialized.                    *)
THEOREM HandedOverAlwaysInitialized == DeploymentSpec => []HandedOverIsInitialized
<1>1. DeploymentInv => HandedOverIsInitialized
  <2> SUFFICES ASSUME DeploymentInv, setting.admin = "admin", NEW c \in Chain, NEW a \in DOMAIN ledger[c],
                      ContractAt(c, a).proxyOwner = "admin"
               PROVE  LET proxy == ContractAt(c, a)
                      IN  Usable(c, proxy, CASE proxy.kind = "validators" -> {"validatorsImpl"}
                               [] proxy.kind = "bridge" -> {"bridgeImpl", "newBridgeImpl"}
                               [] proxy.kind = "token" -> {"tokenImpl", "newTokenImpl"}
                               [] proxy.kind = "minter" -> {"minterImpl"})
    BY DEF HandedOverIsInitialized
  <2> DEFINE proxy == ContractAt(c, a)
  <2>1. ContractOK(c, proxy)
    BY DEF DeploymentInv, LedgerOK, EntryOK, ContractAt
  <2> HIDE DEF proxy
  <2>2. Ready(proxy)
    BY <2>1 DEF ContractOK, proxy
  <2>3. ContractAt(c, proxy.impl).kind \in Impls(proxy.kind) /\ Initialized(proxy)
    BY <2>1, <2>2 DEF ContractOK, Ready
  <2>4. Impls(proxy.kind) = CASE proxy.kind = "validators" -> {"validatorsImpl"}
                               [] proxy.kind = "bridge" -> {"bridgeImpl", "newBridgeImpl"}
                               [] proxy.kind = "token" -> {"tokenImpl", "newTokenImpl"}
                               [] proxy.kind = "minter" -> {"minterImpl"}
    BY <2>3 DEF Impls
  <2> QED BY <2>3, <2>4 DEF Usable, proxy
<1> QED BY <1>1, DeploymentInvariant, PTL

(* data/deployed.json names only what is complete, however many runs       *)
(* failed before.                                                          *)
THEOREM WrittenAlwaysComplete == DeploymentSpec => []WrittenIsComplete
<1>1. DeploymentInv => WrittenIsComplete
  BY DEF DeploymentInv
<1> QED BY <1>1, DeploymentInvariant, PTL

-----------------------------------------------------------------------------
(***************************************************************************)
(* RpcRequests, for any number of URLs and requests: a request under way   *)
(* has been refused by an arc of the ring of URLs, from the one it began   *)
(* with to the one before the one it asks, and the arc is closed when it   *)
(* pauses or is given up.                                                  *)
(***************************************************************************)
(* The URL that is k steps after u.                                        *)
After(u, k) == IF u + k < UrlCount THEN u + k ELSE u + k - UrlCount

Arc(u, k) == {After(u, i) : i \in 0..(k - 1)}

RequestState ==
  [at : Underway \cup BatchResult \cup {"failed"}, first : Url, index : Url, count : Nat,
   tried : SUBSET Url, retries : Nat]

ArcTried ==
  \A r \in Request :
    /\ request[r].at = "fetching" =>
         /\ request[r].count < UrlCount
         /\ request[r].index = After(request[r].first, request[r].count)
         /\ request[r].tried = Arc(request[r].first, request[r].count)
    /\ request[r].at \in {"pausing", "failed"} =>
         request[r].tried = Arc(request[r].first, UrlCount)

RpcInv == /\ currentIndex \in Url
          /\ request \in [Request -> RequestState]
          /\ ArcTried

-----------------------------------------------------------------------------
(* The modulus of NextUrl closes the ring.                                 *)
LEMMA NextIsAfter ==
  ASSUME NEW n \in Nat \ {0}, NEW k \in 0..n - 1
  PROVE  (k + 1) % n = IF k + 1 = n THEN 0 ELSE k + 1
<1>1. CASE k + 1 = n
  BY <1>1
<1>2. CASE k + 1 < n
  BY <1>2
<1> QED
  BY <1>1, <1>2

(* One step further the arc has the URL that was asked.                    *)
LEMMA ArcGrows ==
  ASSUME NEW u \in Url, NEW k \in 0..UrlCount - 1
  PROVE  /\ After(u, k) \in Url
         /\ (After(u, k) + 1) % UrlCount \in Url
         /\ k + 1 < UrlCount => (After(u, k) + 1) % UrlCount = After(u, k + 1)
         /\ Arc(u, k + 1) = Arc(u, k) \cup {After(u, k)}
<1>1. UrlCount \in Nat \ {0} /\ u \in 0..UrlCount - 1
  BY RpcAssumption DEF Url
<1>2. After(u, k) \in 0..UrlCount - 1
  BY <1>1 DEF After
<1>3. (After(u, k) + 1) % UrlCount = IF After(u, k) + 1 = UrlCount THEN 0 ELSE After(u, k) + 1
  BY <1>1, <1>2, NextIsAfter
<1>4. (After(u, k) + 1) % UrlCount \in 0..UrlCount - 1
  BY <1>1, <1>2, <1>3
<1>5. k + 1 < UrlCount => (After(u, k) + 1) % UrlCount = After(u, k + 1)
  BY <1>1, <1>3 DEF After
<1>6. 0..(k + 1 - 1) = (0..(k - 1)) \cup {k}
  BY <1>1
<1>7. Arc(u, k + 1) = Arc(u, k) \cup {After(u, k)}
  BY <1>6 DEF Arc
<1> QED
  BY <1>2, <1>4, <1>5, <1>7 DEF Url

(* A closed arc is the whole ring.                                         *)
LEMMA ClosedArc ==
  ASSUME NEW u \in Url
  PROVE  Arc(u, UrlCount) = Url
<1>1. UrlCount \in Nat \ {0} /\ u \in 0..UrlCount - 1
  BY RpcAssumption DEF Url
<1>2. ASSUME NEW v \in 0..UrlCount - 1
      PROVE  \E i \in 0..UrlCount - 1 : v = After(u, i)
  <2>1. CASE u <= v
    <3>1. v - u \in 0..UrlCount - 1 /\ v = After(u, v - u)
      BY <1>1, <2>1 DEF After
    <3> QED
      BY <3>1
  <2>2. CASE v < u
    <3>1. v - u + UrlCount \in 0..UrlCount - 1 /\ v = After(u, v - u + UrlCount)
      BY <1>1, <2>2 DEF After
    <3> QED
      BY <3>1
  <2> QED
    BY <1>1, <2>1, <2>2
<1>3. \A i \in 0..UrlCount - 1 : After(u, i) \in 0..UrlCount - 1
  BY <1>1 DEF After
<1> QED
  BY <1>2, <1>3 DEF Arc, Url

(* A request begins with an empty arc.                                     *)
LEMMA SendingHasEmptyArc ==
  ASSUME NEW u \in Url, NEW n \in Nat
  PROVE  LET s == [Sending(u) EXCEPT !.retries = n]
         IN  /\ Sending(u) \in RequestState /\ s \in RequestState
             /\ s.at = "fetching" /\ s.count = 0 /\ s.index = After(u, 0) /\ s.first = u
             /\ s.tried = Arc(u, 0)
<1>1. UrlCount \in Nat \ {0} /\ u \in 0..UrlCount - 1
  BY RpcAssumption DEF Url
<1>2. Arc(u, 0) = {} /\ After(u, 0) = u
  <2>1. 0..(0 - 1) = {}
    OBVIOUS
  <2> QED
    BY <1>1, <2>1 DEF Arc, After
<1>3. Sending(u) \in RequestState
  BY DEF Sending, RequestState, Underway
<1> QED
  BY <1>2, <1>3 DEF Sending, RequestState

-----------------------------------------------------------------------------
(* A failed call moves on along the ring, or closes it.                    *)
LEMMA FetchFailsStep ==
  ASSUME RpcInv, NEW r \in Request, FetchFails(r)
  PROVE  RpcInv'
<1> DEFINE old == request[r]
           next == IF ~(old.count + 1 = UrlCount) THEN "fetching"
                   ELSE IF old.retries < MaxRetries THEN "pausing" ELSE "failed"
           new  == request'[r]
<1>1. old \in RequestState /\ old.at = "fetching"
  BY DEF RpcInv, FetchFails
<1>2. /\ currentIndex' = currentIndex
      /\ request' = [request EXCEPT ![r].tried = old.tried \cup {old.index}, ![r].index = NextUrl(r),
                                    ![r].count = old.count + 1, ![r].at = next]
  BY DEF FetchFails
<1>3. /\ old.first \in Url /\ old.count \in 0..UrlCount - 1
      /\ old.index = After(old.first, old.count) /\ old.tried = Arc(old.first, old.count)
  BY <1>1, RpcAssumption DEF RpcInv, ArcTried, RequestState
<1>4. /\ NextUrl(r) \in Url
      /\ old.count + 1 < UrlCount => NextUrl(r) = After(old.first, old.count + 1)
      /\ old.tried \cup {old.index} = Arc(old.first, old.count + 1)
  BY <1>3, ArcGrows DEF NextUrl
<1>5. next \in {"fetching", "pausing", "failed"}
      /\ (next = "fetching" <=> old.count + 1 # UrlCount)
  OBVIOUS
<1>6. /\ request' \in [Request -> RequestState]
      /\ \A s \in Request \ {r} : request'[s] = request[s]
      /\ new.at = next /\ new.first = old.first /\ new.count = old.count + 1
      /\ new.index = NextUrl(r) /\ new.tried = old.tried \cup {old.index}
  <2> HIDE DEF next
  <2>1. request \in [Request -> RequestState] /\ old.tried \cup {old.index} \in SUBSET Url
    BY <1>1, <1>3, <1>4 DEF RpcInv, RequestState
  <2> QED
    BY <1>2, <1>3, <1>4, <1>5, <2>1 DEF RequestState, Underway
<1> HIDE DEF new, next
<1>8. /\ new.at = "fetching" => /\ new.count < UrlCount
                                /\ new.index = After(new.first, new.count)
                                /\ new.tried = Arc(new.first, new.count)
      /\ new.at \in {"pausing", "failed"} => new.tried = Arc(new.first, UrlCount)
  BY <1>3, <1>4, <1>5, <1>6, RpcAssumption
<1>9. ArcTried'
  BY <1>6, <1>8 DEF ArcTried, RpcInv, new
<1> QED
  BY <1>2, <1>6, <1>9 DEF RpcInv

(* The invariant holds at first.                                           *)
LEMMA RpcInvInit == RpcInit => RpcInv
<1> SUFFICES ASSUME RpcInit PROVE RpcInv
  OBVIOUS
<1>1. 0 \in Url
  BY RpcAssumption DEF Url
<1>2. Sending(0) \in RequestState
  BY <1>1, SendingHasEmptyArc
<1> QED
  BY <1>1, <1>2 DEF RpcInit, RpcInv, ArcTried, RequestState, BatchResult, Underway, Sending

(* Every step keeps it.                                                    *)
LEMMA RpcInvStep ==
  ASSUME RpcInv, [RpcNext]_rpcVars
  PROVE  RpcInv'
<1>1. ASSUME NEW r \in Request, NEW u \in Url, NEW n \in Nat, currentIndex' = currentIndex,
             request' = [request EXCEPT ![r] = [Sending(u) EXCEPT !.retries = n]]
      PROVE  RpcInv'
  <2> DEFINE s == [Sending(u) EXCEPT !.retries = n]
  <2>1. /\ s \in RequestState
        /\ s.at = "fetching" /\ s.count = 0 /\ s.index = After(u, 0) /\ s.first = u
        /\ s.tried = Arc(u, 0)
    BY SendingHasEmptyArc
  <2> HIDE DEF s
  <2>2. request' \in [Request -> RequestState] /\ request'[r] = s
        /\ \A q \in Request \ {r} : request'[q] = request[q]
    BY <1>1, <2>1 DEF RpcInv, s
  <2>3. ASSUME NEW q \in Request
        PROVE  /\ request'[q].at = "fetching" =>
                    /\ request'[q].count < UrlCount
                    /\ request'[q].index = After(request'[q].first, request'[q].count)
                    /\ request'[q].tried = Arc(request'[q].first, request'[q].count)
               /\ request'[q].at \in {"pausing", "failed"} =>
                    request'[q].tried = Arc(request'[q].first, UrlCount)
    <3>1. CASE q = r
      BY <2>1, <2>2, <3>1, RpcAssumption
    <3>2. CASE q # r
      BY <2>2, <3>2 DEF RpcInv, ArcTried
    <3> QED
      BY <3>1, <3>2
  <2> QED
    BY <1>1, <2>2, <2>3 DEF RpcInv, ArcTried
<1>2. ASSUME NEW r \in Request, SendRequest(r) PROVE RpcInv'
  <2>1. currentIndex \in Url /\ Sending(currentIndex) = [Sending(currentIndex) EXCEPT !.retries = 0]
    BY DEF RpcInv, Sending
  <2> QED
    BY <1>1, <1>2, <2>1 DEF SendRequest
<1>3. ASSUME NEW r \in Request, FetchAnswered(r) PROVE RpcInv'
  <2>1. PICK result \in BatchResult : request' = [request EXCEPT ![r].at = result]
    BY <1>3 DEF FetchAnswered
  <2>2. request' \in [Request -> RequestState] /\ request'[r].at = result
        /\ \A q \in Request \ {r} : request'[q] = request[q]
    BY <2>1 DEF RpcInv, RequestState
  <2>3. request[r].index \in Url /\ currentIndex' = request[r].index
    BY <1>3 DEF RpcInv, RequestState, FetchAnswered
  <2> QED
    BY <2>2, <2>3 DEF RpcInv, ArcTried, BatchResult
<1>4. ASSUME NEW r \in Request, RetryRound(r) PROVE RpcInv'
  <2>1. request[r].first \in Url /\ request[r].retries + 1 \in Nat
    BY DEF RpcInv, RequestState
  <2> QED
    BY <1>1, <1>4, <2>1 DEF RetryRound
<1>5. CASE UNCHANGED rpcVars
  BY <1>5 DEF rpcVars, RpcInv, ArcTried
<1> QED
  BY <1>2, <1>3, <1>4, <1>5, FetchFailsStep DEF RpcNext

(* Every request has tried the arc of URLs between where it began and      *)
(* where it is, whatever the others do to the shared index.                *)
THEOREM RpcInvariant == RpcSpec => []RpcInv
<1>1. RpcInit => RpcInv
  BY RpcInvInit
<1>2. RpcInv /\ [RpcNext]_rpcVars => RpcInv'
  BY RpcInvStep
<1> QED
  BY <1>1, <1>2, PTL DEF RpcSpec

(* No request pauses or is given up before every URL has failed it.        *)
THEOREM AlwaysEveryUrlTried == RpcSpec => []EveryUrlTried
<1>1. ASSUME RpcInv PROVE EveryUrlTried
  <2> SUFFICES ASSUME NEW r \in Request, request[r].at \in {"pausing", "failed"}
               PROVE  request[r].tried = Url
    BY DEF EveryUrlTried
  <2>1. request[r].first \in Url /\ request[r].tried = Arc(request[r].first, UrlCount)
    BY <1>1 DEF RpcInv, ArcTried, RequestState
  <2> QED
    BY <2>1, ClosedArc
<1> QED
  BY <1>1, RpcInvariant, PTL

-----------------------------------------------------------------------------
(***************************************************************************)
(* GasPrice, for all prices, boundaries and ages of an event: from the     *)
(* speed "fast" on, what a sender pays rises by a bump that is never 0,    *)
(* until the limit is reached.                                             *)
(***************************************************************************)
PricesTypeOK == cachedGasPrice \in [slow : Nat, average : Nat, fast : Nat, fixed : Nat]

(* What is fetched are prices, whoever answers.                            *)
LEMMA FetchedArePrices == Fetched \subseteq [slow : Nat, average : Nat, fast : Nat, fixed : Nat]
<1>1. \A p \in Nat : gasPriceWithinLimits(p) \in Nat
  BY GasPriceAssumption DEF gasPriceWithinLimits, Cheaper
<1>2. FromOracle \subseteq [slow : Nat, average : Nat, fast : Nat, fixed : Nat]
  BY <1>1, GasPriceAssumption DEF FromOracle, Prices, NoPrice
<1>3. FromContract \subseteq [slow : Nat, average : Nat, fast : Nat, fixed : Nat]
  BY GasPriceAssumption DEF FromContract, Prices, NoPrice
<1>4. ASSUME NEW o \in FromOracle, NEW c \in FromContract
      PROVE  Prices(Dearer(o.slow, c.slow), Dearer(o.average, c.average),
                    Dearer(o.fast, c.fast), o.fixed)
               \in [slow : Nat, average : Nat, fast : Nat, fixed : Nat]
  BY <1>2, <1>3 DEF Prices, Dearer
<1> QED
  BY <1>2, <1>3, <1>4 DEF Fetched

(* The cached prices are numbers at all times.                             *)
THEOREM GasPricesAreNumbers == GasPriceSpec => []PricesTypeOK
<1>1. GasPriceInit => PricesTypeOK
  BY GasPriceAssumption DEF GasPriceInit, PricesTypeOK, Prices, NoPrice
<1>2. PricesTypeOK /\ [GasPriceNext]_cachedGasPrice => PricesTypeOK'
  BY FetchedArePrices DEF PricesTypeOK, GasPriceNext, FetchGasPrice
<1> QED
  BY <1>1, <1>2, PTL DEF GasPriceSpec

(* Each step of a rising sum that is cut off at a limit rises, or is cut.  *)
LEMMA CutOffRises ==
  ASSUME NEW limit \in Nat, NEW price \in Nat, NEW bump \in Nat \ {0}, NEW n \in Nat
  PROVE  \/ Cheaper(limit, price + bump * n) < Cheaper(limit, price + bump * (n + 1))
         \/ Cheaper(limit, price + bump * (n + 1)) = limit
<1>1. PICK p \in Nat : p = price + bump * n
  OBVIOUS
<1>2. price + bump * (n + 1) = p + bump
  BY <1>1
<1> QED
  BY <1>1, <1>2 DEF Cheaper

(* Unless the operator has fixed the price, an event that waits longer is  *)
(* sent for more, until the limit: whatever oracle and contract answered.  *)
THEOREM PriceAlwaysRises == GasPriceSpec => []RisesToTheLimit
<1>1. ASSUME PricesTypeOK PROVE RisesToTheLimit
  <2> SUFFICES ASSUME cachedGasPrice.fixed = NoPrice, NEW speed \in 2..MaxSpeed
               PROVE  \/ getPrice(speed) < getPrice(speed + 1)
                      \/ getPrice(speed + 1) = maxGasPriceLimit
    BY DEF RisesToTheLimit
  <2>1. cachedGasPrice.fast \in Nat /\ maxGasPriceLimit \in Nat /\ MaxSpeed \in Nat
    BY <1>1, GasPriceAssumption DEF PricesTypeOK
  <2>2. Bump \in Nat \ {0}
    BY <1>1, GasPriceAssumption DEF Bump, PricesTypeOK
  <2>3. PICK n \in Nat : n = speed - 2
    BY <2>1
  <2>4. getPrice(speed) = Cheaper(maxGasPriceLimit, cachedGasPrice.fast + Bump * n)
    BY <2>1, <2>3 DEF getPrice
  <2>5. getPrice(speed + 1) = Cheaper(maxGasPriceLimit, cachedGasPrice.fast + Bump * (n + 1))
    <3>1. speed + 1 # 0 /\ speed + 1 # 1 /\ speed + 1 - 2 = n + 1
      BY <2>1, <2>3
    <3> QED
      BY <3>1 DEF getPrice
  <2> QED
    BY <2>1, <2>2, <2>4, <2>5, CutOffRises
<1> QED
  BY <1>1, GasPricesAreNumbers, PTL
=============================================================================
