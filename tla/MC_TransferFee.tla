--------------------------- MODULE MC_TransferFee ---------------------------
(***************************************************************************)
(* TransferFee for TLC.  U64_MAX is shrunk to 12 so that amount + fee      *)
(* overflows within the enumerated amounts; the rates cover no fee, the    *)
(* smallest fee, 5%, 50%, the largest fee below 100%, and 100%, and the    *)
(* caps cover zero, a cap hit by small amounts and a cap never hit.  A     *)
(* config's newer fee takes effect at epoch 1, so the quote's epoch picks  *)
(* either one.                                                             *)
(***************************************************************************)
EXTENDS TransferFee

MCFees == [epoch : {0}, bps : {0, 1, 500, 5000, 9999, 10000},
           maximumFee : {0, 2, 20}]

MCConfigs ==
    {NoConfig} \cup
    {[older |-> o, newer |-> [n EXCEPT !.epoch = 1]] : o \in MCFees, n \in MCFees}

MCEpochs == {0, 1}
MCAmounts == 0..12
=============================================================================
