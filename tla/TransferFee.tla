----------------------------- MODULE TransferFee -----------------------------
(***************************************************************************)
(* TransferFeeCalculator (src/sdk/src/utils/token-extension-util.ts): the  *)
(* conversion between a transfer-fee-excluded amount (what arrives) and a  *)
(* transfer-fee-included amount (what is sent) under a Token-2022 transfer *)
(* fee schedule, and the TokenExtensionUtil wrappers that pick the fee of  *)
(* the current epoch from a mint's fee config.                             *)
(*                                                                         *)
(* A fee config is NoConfig (mint without the extension) or a record       *)
(* [older, newer] of TransferFee records [epoch, bps, maximumFee].         *)
(* getEpochFee and calculateFee belong to @solana/spl-token and are not in *)
(* the sources.  calculateFee follows the library, which rounds the fee    *)
(* up (ceil(amount * bps / 10000), capped at maximumFee), as Token-2022    *)
(* charges it on chain; spec section 4.3 says floor, which the integration *)
(* tests' exact balance assertions contradict.                             *)
(*                                                                         *)
(* Amounts are unbounded integers (BN) checked against U64_MAX, which the  *)
(* model shrinks so that the overflow checks are reached.                  *)
(***************************************************************************)
EXTENDS Integers

CONSTANTS
    U64_MAX,      \* largest token amount (2^64 - 1 on chain)
    Configs,      \* transfer fee configs a mint may carry, or NoConfig
    Epochs,       \* epochs the quote may be built in
    Amounts,      \* amounts a caller may convert
    NoConfig,     \* model value: getTransferFeeConfig returned null
    NoResult      \* model value: no call made yet

ONE_IN_BASIS_POINTS == 10000

ASSUME U64_MAX \in Nat
ASSUME Amounts \subseteq 0..U64_MAX

VARIABLES
    config,        \* the mint's transfer fee config
    currentEpoch,  \* TokenExtensionContext.currentEpoch
    ret            \* [op, arg, res] of the last call

vars == <<config, currentEpoch, ret>>

Overflow == [err |-> "AmountOverflow"]
IsErr(r) == "err" \in DOMAIN r

-----------------------------------------------------------------------------
(* spl-token helpers, from the spec.                                       *)

\* getEpochFee: the newer fee once its epoch has started.
getEpochFee(cfg, epoch) ==
    IF epoch >= cfg.newer.epoch THEN cfg.newer ELSE cfg.older

\* calculateFee: 0 without a rate or an amount, otherwise
\* ceil(amount * bps / 10000) capped at maximumFee.
calculateFee(transferFee, preFeeAmount) ==
    LET raw == (preFeeAmount * transferFee.bps + ONE_IN_BASIS_POINTS - 1)
                   \div ONE_IN_BASIS_POINTS
    IN  CASE transferFee.bps = 0 \/ preFeeAmount = 0 -> 0
          [] raw > transferFee.maximumFee -> transferFee.maximumFee
          [] OTHER -> raw

-----------------------------------------------------------------------------
(* Module-private functions of token-extension-util.ts.                    *)

\* Mutation: denom - 1 subtracted instead of added.
ceilDivBN_signSlip(num, denom) == (num - (denom - 1)) \div denom

ceilDivBN(num, denom) == (num + (denom - 1)) \div denom

\* Mutation: the overflow check of the 100% fee branch dropped.
calculateTransferFeeIncludedAmount_noFullFeeCheck(transferFee, amount) ==
    LET maxFee == transferFee.maximumFee
        raw == ceilDivBN(amount * ONE_IN_BASIS_POINTS,
                         ONE_IN_BASIS_POINTS - transferFee.bps)
        res == IF raw - amount >= maxFee
               THEN [amount |-> amount + maxFee, fee |-> maxFee]
               ELSE [amount |-> raw, fee |-> raw - amount]
    IN  CASE transferFee.bps = 0 \/ amount = 0 ->
                [isFeeIncludedAmount |-> TRUE, amount |-> amount, fee |-> 0]
          [] transferFee.bps = ONE_IN_BASIS_POINTS ->
                [isFeeIncludedAmount |-> TRUE, amount |-> amount + maxFee,
                 fee |-> maxFee]
          [] res.amount > U64_MAX -> Overflow
          [] OTHER -> [isFeeIncludedAmount |-> TRUE, amount |-> res.amount,
                       fee |-> res.fee]

\* The edge cases (no fee, zero amount, 100% fee) and the normal case: the
\* smallest amount whose fee-free part covers amount, unless the fee hits
\* maximumFee; both throw when the result exceeds U64_MAX.
calculateTransferFeeIncludedAmount(transferFee, amount) ==
    LET maxFee == transferFee.maximumFee
        raw == ceilDivBN(amount * ONE_IN_BASIS_POINTS,
                         ONE_IN_BASIS_POINTS - transferFee.bps)
        res == IF raw - amount >= maxFee
               THEN [amount |-> amount + maxFee, fee |-> maxFee]
               ELSE [amount |-> raw, fee |-> raw - amount]
    IN  CASE transferFee.bps = 0 \/ amount = 0 ->
                [isFeeIncludedAmount |-> TRUE, amount |-> amount, fee |-> 0]
          [] transferFee.bps = ONE_IN_BASIS_POINTS ->
                IF amount + maxFee > U64_MAX THEN Overflow
                ELSE [isFeeIncludedAmount |-> TRUE, amount |-> amount + maxFee,
                      fee |-> maxFee]
          [] res.amount > U64_MAX -> Overflow
          [] OTHER -> [isFeeIncludedAmount |-> TRUE, amount |-> res.amount,
                       fee |-> res.fee]

calculateTransferFeeExcludedAmount(transferFee, amount) ==
    LET fee == calculateFee(transferFee, amount)
    IN  [isFeeIncludedAmount |-> FALSE, amount |-> amount - fee, fee |-> fee]

-----------------------------------------------------------------------------
(* TokenExtensionUtil wrappers: identity when the mint has no fee config.  *)

TokenExtIncluded(amount, cfg, epoch) ==
    IF cfg = NoConfig
    THEN [isFeeIncludedAmount |-> TRUE, amount |-> amount, fee |-> 0]
    ELSE calculateTransferFeeIncludedAmount(getEpochFee(cfg, epoch), amount)

TokenExtExcluded(amount, cfg, epoch) ==
    IF cfg = NoConfig
    THEN [isFeeIncludedAmount |-> FALSE, amount |-> amount, fee |-> 0]
    ELSE calculateTransferFeeExcludedAmount(getEpochFee(cfg, epoch), amount)

\* The fee schedule in force for the current call (bps 0 when none).
EpochFee == IF config = NoConfig
            THEN [epoch |-> 0, bps |-> 0, maximumFee |-> 0]
            ELSE getEpochFee(config, currentEpoch)

-----------------------------------------------------------------------------

Init ==
    /\ config \in Configs
    /\ currentEpoch \in Epochs
    /\ ret = NoResult

IncludedCall(x) ==
    /\ ret' = [op |-> "included", arg |-> x,
               res |-> TokenExtIncluded(x, config, currentEpoch)]
    /\ UNCHANGED <<config, currentEpoch>>

ExcludedCall(x) ==
    /\ ret' = [op |-> "excluded", arg |-> x,
               res |-> TokenExtExcluded(x, config, currentEpoch)]
    /\ UNCHANGED <<config, currentEpoch>>

Next ==
    \/ \E x \in Amounts : IncludedCall(x)
    \/ \E x \in Amounts : ExcludedCall(x)

Spec == Init /\ [][Next]_vars

-----------------------------------------------------------------------------
(* Properties.                                                             *)

TokenAmountWithFee ==
    [isFeeIncludedAmount : BOOLEAN, amount : Nat, fee : Nat]

TypeOK ==
    /\ currentEpoch \in Epochs
    /\ \/ ret = NoResult
       \/ /\ ret.op \in {"included", "excluded"}
          /\ ret.arg \in Amounts
          /\ ret.res \in TokenAmountWithFee \cup {Overflow}

\* The fee-included amount is what a sender must transfer so that exactly
\* the asked amount arrives, which is what the integration tests assert of
\* the vault balances: when calculateTransferFeeIncludedAmount does not
\* throw, its amount is a u64 equal to the input plus the reported fee,
\* the fee is within maximumFee, and calculateTransferFeeExcludedAmount
\* (the fee the chain withholds) on that amount gives back the input and
\* the same fee.  It rests on the ceiling inverse, the >= switch to the
\* cap, the 100% branch and its own overflow check, all meeting the
\* library's rounding at every rate and cap.
IncludedAmountDeliversExactly ==
    (ret /= NoResult /\ ret.op = "included" /\ ~IsErr(ret.res)) =>
        LET back == calculateTransferFeeExcludedAmount(EpochFee, ret.res.amount)
        IN  /\ ret.res.amount <= U64_MAX
            /\ ret.res.amount = ret.arg + ret.res.fee
            /\ ret.res.fee <= EpochFee.maximumFee
            /\ back.amount = ret.arg
            /\ back.fee = ret.res.fee

=============================================================================
