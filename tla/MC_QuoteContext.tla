--------------------------- MODULE MC_QuoteContext ---------------------------
EXTENDS QuoteContext

\* A pending newer fee that is higher, and one that is lower, than the fee
\* in force; both start in epoch 1.
MCInitConfigs ==
    { [older |-> [epoch |-> 0, bps |-> b0, maximumFee |-> 20],
       newer |-> [epoch |-> 1, bps |-> b1, maximumFee |-> 20]] :
        <<b0, b1>> \in {<<0, 5000>>, <<5000, 0>>} }

MCNewFees == [bps : {2500}, maximumFee : {20}]
=============================================================================
