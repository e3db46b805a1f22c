------------------------------ MODULE GasPrice ------------------------------
(***************************************************************************)
(* validator/src/services/gasPrice.js: the price a sender pays.  It is read*)
(* from an oracle and from the bridge contract in intervals, and rises with*)
(* the age of the event that is answered.  A fetch may be slow and finish  *)
(* after a later one; as any answer may come at any time, that is no state *)
(* of its own here.  One unit of price is used throughout.                 *)
(***************************************************************************)
EXTENDS Integers

CONSTANTS
  OraclePrices, ContractPrices,  \* bound: what the two answer
  FallbackPrice,       \* GAS_PRICE_FALLBACK
  FixedPrice,          \* bound: "fixed" of the oracle, when it is given
  MinGasPrice,         \* GAS_PRICE_BOUNDARIES.MIN
  maxGasPriceLimit,
  DefaultBump,         \* 10 gwei
  MaxSpeed             \* bound on the age of an event

ASSUME GasPriceAssumption ==
  /\ OraclePrices \cup ContractPrices \cup {FallbackPrice, maxGasPriceLimit} \subseteq Nat
  /\ {FixedPrice, MinGasPrice, DefaultBump} \subseteq Nat \ {0}
  /\ MaxSpeed \in Nat

NoPrice == 0

VARIABLE cachedGasPrice  \* [slow, average, fast, fixed], fixed may be NoPrice

Prices(slow, average, fast, fixed) ==
  [slow |-> slow, average |-> average, fast |-> fast, fixed |-> fixed]

Cheaper(p, q) == IF p < q THEN p ELSE q
Dearer(p, q) == IF p < q THEN q ELSE p

(* start *)
GasPriceInit == cachedGasPrice = Prices(FallbackPrice, FallbackPrice, FallbackPrice, NoPrice)

gasPriceWithinLimits(p) ==
  IF p < MinGasPrice THEN MinGasPrice ELSE Cheaper(p, maxGasPriceLimit)

(* fetchGasPriceFromOracle, fails included: the prices need not be in order*)
FromOracle ==
  {Prices(gasPriceWithinLimits(s), gasPriceWithinLimits(a), gasPriceWithinLimits(f), fixed) :
     s, a, f \in OraclePrices, fixed \in {NoPrice, FixedPrice}}

(* gasPrice() of the contract, which no limit of the validator holds for.  *)
FromContract == {Prices(p, p, p, NoPrice) : p \in ContractPrices}

(* fetchGasPrice: what both say, when both answer, else what one says.     *)
Fetched ==
  {Prices(Dearer(o.slow, c.slow), Dearer(o.average, c.average), Dearer(o.fast, c.fast), o.fixed) :
     o \in FromOracle, c \in FromContract} \cup FromOracle \cup FromContract

(* When neither answers what is cached remains.                            *)
FetchGasPrice == cachedGasPrice' \in Fetched

GasPriceNext == FetchGasPrice

GasPriceSpec == GasPriceInit /\ [][GasPriceNext]_cachedGasPrice

(* Mutant of Bump: prices in the wrong order are taken as they are.        *)
BumpAsGiven == cachedGasPrice.fast - cachedGasPrice.average

Bump ==
  IF cachedGasPrice.fast > cachedGasPrice.average
  THEN cachedGasPrice.fast - cachedGasPrice.average ELSE DefaultBump

(* getPrice, where speed is the age of the event in bump intervals plus    *)
(* that of the speed type.  BN.min compares a number with a string here    *)
(* when speed is 0 or 1, and returns the string: these prices have no      *)
(* limit.                                                                  *)
getPrice(speed) ==
  IF cachedGasPrice.fixed # NoPrice THEN cachedGasPrice.fixed
  ELSE CASE speed = 0 -> cachedGasPrice.slow
         [] speed = 1 -> cachedGasPrice.average
         [] OTHER -> Cheaper(maxGasPriceLimit, cachedGasPrice.fast + Bump * (speed - 2))

(* A node replaces a transaction only for a higher price.  From the speed  *)
(* "fast" on every interval raises it until the limit is reached, whatever *)
(* oracle and contract said, in whatever order; unless the operator has    *)
(* fixed the price.                                                        *)
RisesToTheLimit ==
  cachedGasPrice.fixed = NoPrice =>
    \A speed \in 2..MaxSpeed :
      \/ getPrice(speed) < getPrice(speed + 1)
      \/ getPrice(speed + 1) = maxGasPriceLimit
=============================================================================
